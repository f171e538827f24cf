-------------------------- MODULE ReleaseCandidate --------------------------
(***************************************************************************)
(* tools/build_release_candidate.py: the worklist over uv.lock, two builds *)
(* and the output directory build/release/<version>, which outlives a run  *)
(* that fails or is killed.  The version stays the same; the work tree may *)
(* change at any time.  A lock is a record                                 *)
(*   direct    the names of the project's dependencies                     *)
(*   packages  the set of [name, version, dependencies], where a           *)
(*             dependency is [name, applies]: its marker holds here        *)
(* Lists of the lock are sets: what they hold is collected and sorted.     *)
(***************************************************************************)
EXTENDS Naturals, Sequences, FiniteSets

CONSTANTS
  PackageNames, PackageVersions,
  Trees,                \* states of the work tree
  FileNames,            \* names of built files
  Place,                \* the place of a file in the order of writing
  Hidden,               \* the .gitignore uv puts beside what it builds
  Draws,                \* what else a build may depend on; 0 is one
  None, Partial         \* nothing; a file opened and not yet filled

ASSUME DrawsAssumption == 0 \in Draws
ASSUME FilesAssumption ==
  {"sbom", "licenses", "SHA512SUMS"} \cap (FileNames \cup {Hidden}) = {}
ASSUME PlaceAssumption ==
  /\ Place \in [FileNames \cup {"sbom", "licenses"} -> Nat]
  /\ \A f, g \in DOMAIN Place : Place[f] = Place[g] => f = g
  /\ \A f \in FileNames : Place[f] < Place["sbom"]
  /\ Place["sbom"] < Place["licenses"]

VARIABLES
  lock,                 \* tree -> its uv.lock
  emits,                \* tree -> the files a build of it leaves
  steady,               \* tree -> those of them that do not vary from build to build
  flaws,                \* tree -> what is wrong with the distributions
  tree,                 \* the work tree as it is now
  stage,
  packages,             \* the packages of the lock that was read
  direct,
  pending, selected,    \* the worklist, and the (name, version) pairs it found
  built,                \* the files of the builds so far
  todo,                 \* the files still to be written
  disk                  \* the output directory: file -> content

givens == <<lock, emits, steady, flaws>>
memory == <<packages, direct, pending, selected>>
vars == <<givens, tree, stage, memory, built, todo, disk>>

-----------------------------------------------------------------------------
Package ==
  [name : PackageNames, version : PackageVersions,
   dependencies : SUBSET [name : PackageNames, applies : BOOLEAN]]

(* What a built file and a supply chain file hold. *)
Distribution == [file : FileNames, tree : Trees, draw : Draws]
Report == [file : {"sbom", "licenses"}, components : SUBSET Package]

ASSUME PartialAssumption == Partial \notin Distribution /\ Partial \notin Report

KeyOf(p) == <<p.name, p.version>>

(* dependency_names: dependencies whose marker does not hold are left out. *)
DependencyNames(p) == {d.name : d \in {d \in p.dependencies : d.applies}}

(* Mutant: by_name keeps one package of a name, its last. *)
FreshOfLast(name) ==
  {p \in packages :
     /\ p.name = name /\ KeyOf(p) \notin selected
     /\ \A q \in packages : q.name = name => q.version <= p.version}

(* The packages called name, in every version, not selected so far. *)
Fresh(name) == {p \in packages : p.name = name /\ KeyOf(p) \notin selected}

Components == {p \in packages : KeyOf(p) \in selected}

(* What is copied from the first build, and the supply chain files. *)
Work == DOMAIN built[1] \cup {"sbom", "licenses"}

(* First the built files in sorted order, then the two reports. *)
IsNext(f) == f \in todo /\ \A g \in todo : Place[f] <= Place[g]

Content(f) ==
  IF f \in DOMAIN built[1] THEN built[1][f] ELSE [file |-> f, components |-> Components]

Visible(files) == files \ {Hidden, "SHA512SUMS"}

Put(f, content) ==
  [g \in DOMAIN disk \cup {f} |-> IF g = f THEN content ELSE disk[g]]

Without(f) == [g \in DOMAIN disk \ {f} |-> disk[g]]

Running == stage \notin {"idle", "done", "failed"}

-----------------------------------------------------------------------------
IsLock(l) ==
  /\ l.direct \subseteq PackageNames
  /\ l.packages \subseteq Package
  /\ \A p, q \in l.packages : KeyOf(p) = KeyOf(q) => p = q

(* Every tree has a lock and builds at least one distribution. *)
IsRepository ==
  \A t \in Trees :
    /\ IsLock(lock[t])
    /\ Hidden \in emits[t] /\ emits[t] \subseteq FileNames
    /\ emits[t] # {Hidden}
    /\ steady[t] \subseteq emits[t]
    /\ flaws[t] \subseteq {"incomplete", "broken"}

Init ==
  /\ IsRepository
  /\ tree \in Trees
  /\ stage = "idle"
  /\ packages = {}
  /\ direct = {}
  /\ pending = {}
  /\ selected = {}
  /\ built = <<>>
  /\ todo = {}
  /\ disk = [f \in {} |-> None]

(* The lock file is read; direct dependencies are taken without a look at  *)
(* their markers.                                                          *)
Start ==
  /\ ~Running
  /\ stage' = "closure"
  /\ packages' = lock[tree].packages
  /\ direct' = lock[tree].direct
  /\ pending' = lock[tree].direct
  /\ selected' = {}
  /\ built' = <<>>
  /\ todo' = {}
  /\ UNCHANGED <<givens, tree, disk>>

(* Mutant: the name stays on the worklist. *)
PeekPending(name) ==
  /\ stage = "closure"
  /\ selected' = selected \cup {KeyOf(p) : p \in Fresh(name)}
  /\ pending' = pending \cup UNION {DependencyNames(p) : p \in Fresh(name)}
  /\ UNCHANGED <<givens, tree, stage, packages, direct, built, todo, disk>>

(* The code pops the last name; nothing depends on which one it is. *)
PopPending(name) ==
  /\ stage = "closure"
  /\ selected' = selected \cup {KeyOf(p) : p \in Fresh(name)}
  /\ pending' = (pending \ {name}) \cup UNION {DependencyNames(p) : p \in Fresh(name)}
  /\ UNCHANGED <<givens, tree, stage, packages, direct, built, todo, disk>>

CloseOver ==
  /\ stage = "closure"
  /\ pending = {}
  /\ stage' = "cleaning"
  /\ UNCHANGED <<givens, tree, memory, built, todo, disk>>

(* rmtree: file by file, in whatever order the directory lists them. *)
RemoveFile(f) ==
  /\ stage = "cleaning"
  /\ disk' = Without(f)
  /\ UNCHANGED <<givens, tree, stage, memory, built, todo>>

(* Mutant: an existing directory is built into. *)
MakeOrReuseDirectory ==
  /\ stage = "cleaning"
  /\ stage' = "building"
  /\ UNCHANGED <<givens, tree, memory, built, todo, disk>>

MakeDirectory ==
  /\ stage = "cleaning"
  /\ DOMAIN disk = {}
  /\ stage' = "building"
  /\ UNCHANGED <<givens, tree, memory, built, todo, disk>>

(* uv build, of the work tree as it is now: the wheel is built from the    *)
(* source distribution, so both are of one tree.                           *)
Build ==
  /\ stage = "building"
  /\ Len(built) < 2
  /\ \E d \in Draws :
       built' = Append(built,
                       [f \in emits[tree] |->
                          [file |-> f, tree |-> tree,
                           draw |-> IF f \in steady[tree] THEN 0 ELSE d]])
  /\ UNCHANGED <<givens, tree, stage, memory, todo, disk>>

CompareNames ==
  /\ stage = "building"
  /\ Len(built) = 2
  /\ DOMAIN built[1] = DOMAIN built[2]
  /\ stage' = "writing"
  /\ todo' = Work
  /\ UNCHANGED <<givens, tree, memory, built, disk>>

Differs(f) == f \in DOMAIN built[1] /\ built[1][f] # built[2][f]

(* The digests of a built file agree, and the copy is created. *)
OpenFile(f) ==
  /\ stage = "writing"
  /\ IsNext(f)
  /\ ~Differs(f)
  /\ stage' = "filling"
  /\ disk' = Put(f, Partial)
  /\ UNCHANGED <<givens, tree, memory, built, todo>>

FillFile(f) ==
  /\ stage = "filling"
  /\ IsNext(f)
  /\ stage' = "writing"
  /\ todo' = todo \ {f}
  /\ disk' = Put(f, Content(f))
  /\ UNCHANGED <<givens, tree, memory, built>>

(* The distributions that were copied have this flaw. *)
Flawed(flaw) == \E f \in DOMAIN built[1] \ {Hidden} : flaw \in flaws[disk[f].tree]

(* verify_distribution_contents opens the distributions that were copied. *)
VerifyContents ==
  /\ stage = "writing"
  /\ todo = {}
  /\ ~Flawed("incomplete")
  /\ stage' = "complete"
  /\ UNCHANGED <<givens, tree, memory, built, todo, disk>>

(* Mutant: uv's .gitignore is left among the artifacts. *)
KeepHidden ==
  /\ stage = "complete"
  /\ stage' = "summing"
  /\ UNCHANGED <<givens, tree, memory, built, todo, disk>>

UnlinkHidden ==
  /\ stage = "complete"
  /\ stage' = "summing"
  /\ disk' = Without(Hidden)
  /\ UNCHANGED <<givens, tree, memory, built, todo>>

OpenSums ==
  /\ stage = "summing"
  /\ stage' = "listing"
  /\ disk' = Put("SHA512SUMS", Partial)
  /\ UNCHANGED <<givens, tree, memory, built, todo>>

(* The checksums were taken before the file was opened. *)
FillSums ==
  /\ stage = "listing"
  /\ stage' = "listed"
  /\ disk' = Put("SHA512SUMS", [f \in Visible(DOMAIN disk) |-> disk[f]])
  /\ UNCHANGED <<givens, tree, memory, built, todo>>

(* tools/verify_wheel.py installs and runs the copied wheel elsewhere. *)
VerifyWheel ==
  /\ stage = "listed"
  /\ ~Flawed("broken")
  /\ stage' = "done"
  /\ UNCHANGED <<givens, tree, memory, built, todo, disk>>

(* The process ends, and with it all but the output directory. *)
Fail ==
  /\ stage' = "failed"
  /\ packages' = {}
  /\ direct' = {}
  /\ pending' = {}
  /\ selected' = {}
  /\ built' = <<>>
  /\ todo' = {}
  /\ UNCHANGED <<givens, tree, disk>>

(* A check of the tool's own fails: the builds have different names, or a  *)
(* file differs, when those before it have been copied, or the             *)
(* distributions lack a file, or the wheel does not work.                  *)
Reject ==
  /\ \/ stage = "building" /\ Len(built) = 2 /\ DOMAIN built[1] # DOMAIN built[2]
     \/ stage = "writing" /\ \E f \in todo : IsNext(f) /\ Differs(f)
     \/ stage = "writing" /\ todo = {} /\ Flawed("incomplete")
     \/ stage = "listed" /\ Flawed("broken")
  /\ Fail

(* A command that fails, an OSError or a kill, between any two steps. *)
Stop ==
  /\ Running
  /\ Fail

(* Somebody edits the work tree or commits. *)
Edit ==
  /\ tree' \in Trees \ {tree}
  /\ UNCHANGED <<givens, stage, memory, built, todo, disk>>

ToolStep ==
  \/ \E name \in pending : PopPending(name)
  \/ CloseOver
  \/ \E f \in DOMAIN disk : RemoveFile(f)
  \/ MakeDirectory
  \/ Build
  \/ CompareNames
  \/ \E f \in todo : OpenFile(f) \/ FillFile(f)
  \/ VerifyContents
  \/ UnlinkHidden
  \/ OpenSums
  \/ FillSums
  \/ VerifyWheel
  \/ Reject

Next ==
  \/ Start
  \/ ToolStep
  \/ Stop
  \/ Edit

(* A run that was started goes on, whatever happens to the work tree. *)
Fairness == WF_vars(ToolStep)

Spec == Init /\ [][Next]_vars /\ Fairness

-----------------------------------------------------------------------------
Files == FileNames \cup {"sbom", "licenses", "SHA512SUMS"}

TypeOK ==
  /\ IsRepository
  /\ tree \in Trees
  /\ stage \in {"idle", "closure", "cleaning", "building", "writing", "filling", "complete",
                "summing", "listing", "listed", "done", "failed"}
  /\ pending \subseteq PackageNames
  /\ selected \subseteq {KeyOf(p) : p \in packages}
  /\ Len(built) <= 2
  /\ todo \subseteq Files /\ (stage = "filling" => todo # {})
  /\ DOMAIN disk \subseteq Files
  /\ stage \in {"summing", "listing", "listed", "done"} =>
       Partial \notin {disk[f] : f \in Visible(DOMAIN disk)} /\ Hidden \notin DOMAIN disk

(* S has every version of the direct dependencies and of what its own      *)
(* members depend on.                                                      *)
IsClosed(S) ==
  \A p \in packages :
    \/ p.name \in direct
    \/ \E q \in S : \E d \in q.dependencies : d.applies /\ d.name = p.name
    => p \in S

(* v0.2-release-candidate.md: the SBOM is an inventory of the locked       *)
(* default runtime: the least set of packages closed under dependencies,   *)
(* however they depend on each other and in however many versions.         *)
ClosureIsExact ==
  stage \notin {"idle", "closure", "failed"} =>
    /\ IsClosed(Components)
    /\ \A S \in SUBSET packages : IsClosed(S) => Components \subseteq S

(* v0.2-release-candidate.md: "SHA512SUMS for every candidate review       *)
(* artifact": whatever runs before left or were stopped at, a file that    *)
(* lies beside finished checksums is listed there with its digest; and a   *)
(* run that succeeds leaves exactly one tree's distributions, on which two *)
(* builds agreed, the two reports and the checksums of them all.           *)
SumsVouchForAll ==
  /\ "SHA512SUMS" \in DOMAIN disk /\ disk["SHA512SUMS"] # Partial =>
       \A f \in Visible(DOMAIN disk) :
         f \in DOMAIN disk["SHA512SUMS"] /\ disk["SHA512SUMS"][f] = disk[f]
  /\ stage = "done" =>
       \E t \in Trees :
         LET distributions == Visible(emits[t])
         IN /\ DOMAIN disk = distributions \cup {"sbom", "licenses", "SHA512SUMS"}
            /\ DOMAIN disk["SHA512SUMS"] = distributions \cup {"sbom", "licenses"}
            /\ \A f \in distributions :
                 disk[f].tree = t /\ disk[f] = built[2][f] /\ flaws[t] = {}

(* A run that is started ends, with the dependencies of packages on each   *)
(* other and whatever happens to the work tree meanwhile.                  *)
RunsEnd == Running ~> ~Running
=============================================================================
