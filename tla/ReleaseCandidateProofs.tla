----------------------- MODULE ReleaseCandidateProofs -----------------------
(***************************************************************************)
(* For any lock files, trees and names of built files, and any number of   *)
(* runs and stops: what the SBOM lists and what the checksums vouch for.   *)
(***************************************************************************)
EXTENDS ReleaseCandidate, TLAPS

-----------------------------------------------------------------------------
(* The worklist over the lock: nothing needed is forgotten, and nothing is *)
(* taken or waits to be taken that some closed set can do without.         *)
Needs(p) ==
  \/ p.name \in direct
  \/ \E q \in Components : p.name \in DependencyNames(q)

NothingForgotten ==
  \A p \in packages : Needs(p) => p \in Components \/ p.name \in pending

NothingUnneeded ==
  \A S \in SUBSET packages : IsClosed(S) =>
    /\ Components \subseteq S
    /\ \A p \in packages : p.name \in pending => p \in S

ClosureInv ==
  /\ packages \subseteq Package /\ direct \subseteq PackageNames
  /\ NothingForgotten
  /\ NothingUnneeded
  /\ stage # "closure" => pending = {}

(* The two builds, and what their comparison has established. *)
BuildsOf(t) == [emits[t] -> {d \in Distribution : d.tree = t}]

Writing == {"writing", "filling"}
Complete == {"complete", "summing", "listing", "listed", "done"}

BuildInv ==
  /\ built \in Seq(UNION {BuildsOf(t) : t \in Trees})
  /\ Len(built) <= 2
  /\ stage \in Writing \cup Complete => Len(built) = 2 /\ DOMAIN built[1] = DOMAIN built[2]

(* The output directory, from the moment it is made. *)
Copied ==
  CASE stage \in Writing -> Work \ todo
    [] stage = "complete" -> Work
    [] OTHER -> Work \ {Hidden}

Extra ==
  CASE stage = "filling" -> {f \in todo : IsNext(f)}
    [] stage \in {"listing", "listed", "done"} -> {"SHA512SUMS"}
    [] OTHER -> {}

DirectoryInv ==
  /\ stage = "building" => DOMAIN disk = {}
  /\ todo # {} => stage \in Writing /\ todo \subseteq Work
  /\ stage \in Writing \cup Complete =>
       /\ DOMAIN disk = Copied \cup Extra
       /\ \A f \in Copied : disk[f] = Content(f)
       /\ \A f \in Copied \cup (Extra \ {"SHA512SUMS"}) : ~Differs(f)

(* Checksums, once finished, list what lies beside them. *)
SumsInv ==
  /\ stage = "listing" => disk["SHA512SUMS"] = Partial
  /\ stage \in {"listed", "done"} => disk["SHA512SUMS"] = [f \in Work \ {Hidden} |-> disk[f]]
  /\ "SHA512SUMS" \in DOMAIN disk /\ disk["SHA512SUMS"] # Partial =>
       \A f \in Visible(DOMAIN disk) :
         f \in DOMAIN disk["SHA512SUMS"] /\ disk["SHA512SUMS"][f] = disk[f]

(* The distributions passed the checks of their contents. *)
FlawInv ==
  stage \in Complete =>
    \A f \in DOMAIN built[1] \ {Hidden} :
      /\ "incomplete" \notin flaws[built[1][f].tree]
      /\ stage = "done" => "broken" \notin flaws[built[1][f].tree]

IInv ==
  /\ TypeOK
  /\ ClosureInv
  /\ BuildInv
  /\ DirectoryInv
  /\ SumsInv
  /\ FlawInv

-----------------------------------------------------------------------------
(* Steps that leave the worklist, or the builds, alone. *)
LEMMA ClosureStays ==
  ASSUME ClosureInv, UNCHANGED memory, stage' # "closure" => pending = {}
  PROVE  ClosureInv'
<1>1. UNCHANGED <<packages, direct, pending, selected>> BY DEF memory
<1>2. Components' = Components BY <1>1 DEF Components
<1>3. NothingForgotten' BY <1>1, <1>2 DEF ClosureInv, NothingForgotten, Needs
<1>4. \A S : IsClosed(S)' = IsClosed(S) BY <1>1 DEF IsClosed
<1>5. NothingUnneeded' BY <1>1, <1>2, <1>4 DEF ClosureInv, NothingUnneeded
<1> QED
  BY <1>1, <1>3, <1>5 DEF ClosureInv

LEMMA BuildStays ==
  ASSUME BuildInv, UNCHANGED <<givens, built>>,
         stage' \in Writing \cup Complete => stage \in Writing \cup Complete
  PROVE  BuildInv'
<1>1. (UNION {BuildsOf(t) : t \in Trees})' = UNION {BuildsOf(t) : t \in Trees}
  BY DEF BuildsOf, givens
<1> QED
  BY <1>1 DEF BuildInv

(* The files of the two builds have one tree each. *)
LEMMA BuildFacts ==
  ASSUME IInv, stage \in Writing \cup Complete
  PROVE  /\ built[1] \in [DOMAIN built[1] -> Distribution]
         /\ Hidden \in DOMAIN built[1]
         /\ DOMAIN built[1] \subseteq FileNames
         /\ \E t \in Trees : /\ DOMAIN built[1] = emits[t]
                             /\ \A f \in emits[t] : built[1][f].tree = t
         /\ Work \subseteq FileNames \cup {"sbom", "licenses"}
         /\ "SHA512SUMS" \notin Work
<1>1. built[1] \in UNION {BuildsOf(t) : t \in Trees} BY DEF IInv, BuildInv
<1>2. PICK t \in Trees : built[1] \in BuildsOf(t) BY <1>1
<1>3. Hidden \in emits[t] /\ emits[t] \subseteq FileNames
  BY DEF IInv, TypeOK, IsRepository
<1>4. DOMAIN built[1] = emits[t] /\ \A f \in emits[t] : built[1][f].tree = t
  BY <1>2 DEF BuildsOf
<1>5. built[1] \in [DOMAIN built[1] -> Distribution] BY <1>2 DEF BuildsOf
<1> QED
  BY <1>3, <1>4, <1>5, FilesAssumption DEF Work

(* A file that is filled is not Partial. *)
LEMMA ContentIsWhole ==
  ASSUME IInv, stage \in Writing \cup Complete, NEW f \in Work
  PROVE  Content(f) # Partial
<1>1. CASE f \in DOMAIN built[1]
  BY <1>1, BuildFacts, PartialAssumption DEF Content
<1>2. CASE f \notin DOMAIN built[1]
  <2>1. f \in {"sbom", "licenses"} BY <1>2 DEF Work
  <2>2. Components \subseteq Package BY DEF Components, IInv, ClosureInv
  <2>3. [file |-> f, components |-> Components] \in Report BY <2>1, <2>2 DEF Report
  <2> QED BY <1>2, <2>3, PartialAssumption DEF Content
<1> QED
  BY <1>1, <1>2

(* The next file to write is one file. *)
LEMMA NextIsOne ==
  ASSUME IInv, stage \in Writing, NEW f, NEW g, IsNext(f), IsNext(g)
  PROVE  f = g
<1>1. todo \subseteq DOMAIN Place
  BY BuildFacts, PlaceAssumption DEF IInv, DirectoryInv
<1>2. Place[f] \in Nat /\ Place[g] \in Nat /\ f \in DOMAIN Place /\ g \in DOMAIN Place
  BY <1>1, PlaceAssumption DEF IsNext
<1>3. Place[f] <= Place[g] /\ Place[g] <= Place[f] BY DEF IsNext
<1> QED
  BY <1>2, <1>3, PlaceAssumption

-----------------------------------------------------------------------------
LEMMA InitIInv == Init => IInv
<1> SUFFICES ASSUME Init PROVE IInv
  OBVIOUS
<1>1. TypeOK
  BY DEF Init, TypeOK
<1>2. ClosureInv
  BY DEF Init, ClosureInv, NothingForgotten, NothingUnneeded, Components
<1>3. BuildInv
  BY DEF Init, BuildInv, Writing, Complete
<1>4. DirectoryInv /\ SumsInv /\ FlawInv
  BY DEF Init, DirectoryInv, SumsInv, FlawInv, Writing, Complete
<1> QED
  BY <1>1, <1>2, <1>3, <1>4 DEF IInv

(* What a failure leaves is what a run starts from. *)
LEMMA FailIInv ==
  ASSUME IInv, Fail
  PROVE  IInv'
<1>1. /\ stage' = "failed" /\ packages' = {} /\ direct' = {} /\ pending' = {} /\ selected' = {}
      /\ built' = <<>> /\ todo' = {}
      /\ UNCHANGED <<givens, tree, disk>>
  BY DEF Fail
<1>2. TypeOK'
  BY <1>1 DEF IInv, TypeOK, IsRepository, givens
<1>3. ClosureInv'
  BY <1>1 DEF ClosureInv, NothingForgotten, NothingUnneeded, Components
<1>4. BuildInv'
  BY <1>1 DEF BuildInv, Writing, Complete
<1>5. SumsInv'
  BY <1>1 DEF IInv, SumsInv, Visible
<1>6. DirectoryInv' /\ FlawInv'
  BY <1>1 DEF DirectoryInv, FlawInv, Writing, Complete
<1> QED
  BY <1>2, <1>3, <1>4, <1>5, <1>6 DEF IInv

LEMMA StartIInv ==
  ASSUME IInv, Start
  PROVE  IInv'
<1>1. /\ stage' = "closure" /\ packages' = lock[tree].packages
      /\ direct' = lock[tree].direct /\ pending' = lock[tree].direct /\ selected' = {}
      /\ built' = <<>> /\ todo' = {}
      /\ UNCHANGED <<givens, tree, disk>>
  BY DEF Start
<1>2. IsLock(lock[tree])
  BY DEF IInv, TypeOK, IsRepository
<1>3. TypeOK'
  BY <1>1, <1>2 DEF IInv, TypeOK, IsRepository, IsLock, givens
<1>4. Components' = {} BY <1>1 DEF Components
<1>5. ClosureInv'
  <2>1. NothingForgotten' BY <1>1, <1>4 DEF NothingForgotten, Needs
  <2>2. NothingUnneeded' BY <1>1, <1>4 DEF NothingUnneeded, IsClosed
  <2> QED BY <1>1, <1>2, <2>1, <2>2 DEF ClosureInv, IsLock
<1>6. BuildInv'
  BY <1>1 DEF BuildInv, Writing, Complete
<1>7. SumsInv'
  BY <1>1 DEF IInv, SumsInv, Visible
<1>8. DirectoryInv' /\ FlawInv'
  BY <1>1 DEF DirectoryInv, FlawInv, Writing, Complete
<1> QED
  BY <1>3, <1>5, <1>6, <1>7, <1>8 DEF IInv

(* Looking up one name of the worklist. *)
LEMMA PopPendingClosure ==
  ASSUME IInv, NEW name \in pending, PopPending(name)
  PROVE  ClosureInv'
<1>1. /\ stage = "closure" /\ stage' = "closure"
      /\ selected' = selected \cup {KeyOf(p) : p \in Fresh(name)}
      /\ pending' = (pending \ {name}) \cup (UNION {DependencyNames(p) : p \in Fresh(name)})
      /\ packages' = packages /\ direct' = direct
  BY DEF PopPending
<1> DEFINE named == {p \in packages : p.name = name}
<1>2. Components' = Components \cup named
  <2>1. \A p \in packages : KeyOf(p) \in selected' <=> KeyOf(p) \in selected \/ p.name = name
    <3>1. ASSUME NEW p \in packages, KeyOf(p) \in selected', KeyOf(p) \notin selected
          PROVE  p.name = name
      <4>1. PICK q \in Fresh(name) : KeyOf(p) = KeyOf(q) BY <1>1, <3>1
      <4> QED BY <4>1 DEF Fresh, KeyOf
    <3>2. ASSUME NEW p \in packages, p.name = name PROVE KeyOf(p) \in selected'
      BY <1>1, <3>2 DEF Fresh
    <3> QED BY <1>1, <3>1, <3>2
  <2> QED BY <1>1, <2>1 DEF Components
<1>3. Fresh(name) = named \ Components
  BY DEF Fresh, Components
<1>4. ClosureInv BY DEF IInv
<1>5. NothingForgotten'
  <2> SUFFICES ASSUME NEW p \in packages, Needs(p)'
               PROVE  p \in Components' \/ p.name \in pending'
    BY <1>1 DEF NothingForgotten
  <2>1. CASE Needs(p)
    <3>1. p \in Components \/ p.name \in pending BY <1>4, <2>1 DEF ClosureInv, NothingForgotten
    <3> QED BY <1>1, <1>2, <3>1
  <2>2. CASE ~Needs(p)
    <3>1. PICK q \in Components' : p.name \in DependencyNames(q)
      BY <1>1, <2>2 DEF Needs
    <3>2. q \in Fresh(name) BY <1>2, <1>3, <2>2, <3>1 DEF Needs
    <3> QED BY <1>1, <3>1, <3>2
  <2> QED BY <2>1, <2>2
<1>6. NothingUnneeded'
  <2> SUFFICES ASSUME NEW S \in SUBSET packages, IsClosed(S)'
               PROVE  /\ Components' \subseteq S
                      /\ \A p \in packages : p.name \in pending' => p \in S
    BY <1>1 DEF NothingUnneeded
  <2>1. IsClosed(S) BY <1>1 DEF IsClosed
  <2>2. Components \subseteq S /\ \A p \in packages : p.name \in pending => p \in S
    BY <1>4, <2>1 DEF ClosureInv, NothingUnneeded
  <2>3. named \subseteq S BY <2>2
  <2>4. ASSUME NEW p \in packages, NEW q \in Fresh(name), p.name \in DependencyNames(q)
        PROVE  p \in S
    <3>1. q \in S BY <1>3, <2>3
    <3>2. \E d \in q.dependencies : d.applies /\ d.name = p.name
      BY <2>4 DEF DependencyNames
    <3> QED BY <2>1, <3>1, <3>2 DEF IsClosed
  <2>5. ASSUME NEW p \in packages, p.name \in pending' PROVE p \in S
    <3>1. CASE p.name \in pending BY <2>2, <3>1
    <3>2. CASE \E q \in Fresh(name) : p.name \in DependencyNames(q) BY <2>4, <3>2
    <3> QED BY <1>1, <2>5, <3>1, <3>2
  <2> QED BY <1>2, <2>2, <2>3, <2>5
<1> QED
  BY <1>1, <1>4, <1>5, <1>6 DEF ClosureInv

LEMMA PopPendingIInv ==
  ASSUME IInv, NEW name \in pending, PopPending(name)
  PROVE  IInv'
<1>1. /\ stage = "closure" /\ stage' = "closure"
      /\ selected' = selected \cup {KeyOf(p) : p \in Fresh(name)}
      /\ pending' = (pending \ {name}) \cup (UNION {DependencyNames(p) : p \in Fresh(name)})
      /\ UNCHANGED <<givens, tree, packages, direct, built, todo, disk>>
  BY DEF PopPending
<1>2. TypeOK'
  <2>1. Fresh(name) \subseteq packages /\ packages \subseteq Package
    BY DEF Fresh, IInv, ClosureInv
  <2>2. selected' \subseteq {KeyOf(p) : p \in packages}'
    BY <1>1, <2>1 DEF IInv, TypeOK
  <2>3. \A p \in Package : DependencyNames(p) \subseteq PackageNames
    BY DEF DependencyNames, Package
  <2>4. pending' \subseteq PackageNames
    <3>1. ASSUME NEW x \in pending' PROVE x \in PackageNames
      <4>1. CASE x \in pending BY <4>1 DEF IInv, TypeOK
      <4>2. CASE \E p \in Fresh(name) : x \in DependencyNames(p) BY <2>1, <2>3, <4>2
      <4> QED BY <1>1, <3>1, <4>1, <4>2
    <3> QED BY <3>1
  <2> QED BY <1>1, <2>2, <2>4 DEF IInv, TypeOK, IsRepository, givens
<1>3. BuildInv'
  BY <1>1, BuildStays DEF IInv, Writing, Complete
<1>4. SumsInv'
  BY <1>1 DEF IInv, SumsInv, Visible
<1>5. DirectoryInv' /\ FlawInv'
  BY <1>1 DEF IInv, DirectoryInv, FlawInv, Writing, Complete
<1> QED
  BY <1>2, <1>3, <1>4, <1>5, PopPendingClosure DEF IInv

-----------------------------------------------------------------------------
(* Making the directory and building. *)
LEMMA CloseOverIInv ==
  ASSUME IInv, CloseOver
  PROVE  IInv'
<1>1. /\ stage = "closure" /\ stage' = "cleaning" /\ pending = {}
      /\ UNCHANGED <<givens, tree, memory, built, todo, disk>>
  BY DEF CloseOver
<1>2. TypeOK' BY <1>1 DEF IInv, TypeOK, IsRepository, givens, memory
<1>3. ClosureInv' BY <1>1, ClosureStays DEF IInv
<1>4. BuildInv' BY <1>1, BuildStays DEF IInv, Writing, Complete
<1>5. SumsInv' BY <1>1 DEF IInv, SumsInv, Visible
<1>6. DirectoryInv' /\ FlawInv'
  BY <1>1 DEF IInv, DirectoryInv, FlawInv, Writing, Complete
<1> QED
  BY <1>2, <1>3, <1>4, <1>5, <1>6 DEF IInv

LEMMA RemoveFileIInv ==
  ASSUME IInv, NEW f \in DOMAIN disk, RemoveFile(f)
  PROVE  IInv'
<1>1. /\ stage = "cleaning" /\ stage' = "cleaning"
      /\ UNCHANGED <<givens, tree, memory, built, todo>>
      /\ DOMAIN disk' = DOMAIN disk \ {f}
      /\ \A g \in DOMAIN disk' : disk'[g] = disk[g]
  BY DEF RemoveFile, Without
<1>2. TypeOK' BY <1>1 DEF IInv, TypeOK, IsRepository, Files, givens, memory
<1>3. ClosureInv' BY <1>1, ClosureStays DEF IInv, ClosureInv
<1>4. BuildInv' BY <1>1, BuildStays DEF IInv, Writing, Complete
<1>5. SumsInv' BY <1>1 DEF IInv, SumsInv, Visible
<1>6. DirectoryInv' /\ FlawInv'
  BY <1>1 DEF IInv, DirectoryInv, FlawInv, Writing, Complete
<1> QED
  BY <1>2, <1>3, <1>4, <1>5, <1>6 DEF IInv

LEMMA MakeDirectoryIInv ==
  ASSUME IInv, MakeDirectory
  PROVE  IInv'
<1>1. /\ stage = "cleaning" /\ stage' = "building" /\ DOMAIN disk = {}
      /\ UNCHANGED <<givens, tree, memory, built, todo, disk>>
  BY DEF MakeDirectory
<1>2. TypeOK' BY <1>1 DEF IInv, TypeOK, IsRepository, givens, memory
<1>3. ClosureInv' BY <1>1, ClosureStays DEF IInv, ClosureInv
<1>4. BuildInv' BY <1>1, BuildStays DEF IInv, Writing, Complete
<1>5. SumsInv' BY <1>1 DEF IInv, SumsInv, Visible
<1>6. DirectoryInv' /\ FlawInv'
  BY <1>1 DEF IInv, DirectoryInv, FlawInv, Writing, Complete
<1> QED
  BY <1>2, <1>3, <1>4, <1>5, <1>6 DEF IInv

LEMMA BuildIInv ==
  ASSUME IInv, Build
  PROVE  IInv'
<1>1. /\ stage = "building" /\ stage' = "building" /\ Len(built) < 2
      /\ UNCHANGED <<givens, tree, memory, todo, disk>>
  BY DEF Build
<1>2. PICK d \in Draws :
        built' = Append(built, [f \in emits[tree] |->
                                  [file |-> f, tree |-> tree,
                                   draw |-> IF f \in steady[tree] THEN 0 ELSE d]])
  BY DEF Build
<1> DEFINE b == [f \in emits[tree] |-> [file |-> f, tree |-> tree,
                                        draw |-> IF f \in steady[tree] THEN 0 ELSE d]]
<1>3. tree \in Trees /\ emits[tree] \subseteq FileNames
  BY DEF IInv, TypeOK, IsRepository
<1>4. \A f \in emits[tree] : b[f] \in Distribution /\ b[f].tree = tree
  BY <1>3, DrawsAssumption DEF Distribution
<1>5. b \in BuildsOf(tree) BY <1>4 DEF BuildsOf
<1> DEFINE S == UNION {BuildsOf(t) : t \in Trees}
<1>6. built \in Seq(S) BY DEF IInv, BuildInv
<1>7. b \in S BY <1>3, <1>5
<1>8. S' = S BY <1>1 DEF BuildsOf, givens
<1> HIDE DEF b, S
<1>9. built' \in Seq(S) /\ Len(built') = Len(built) + 1 /\ Len(built) \in Nat
  BY <1>2, <1>6, <1>7 DEF b
<1>10. Len(built') <= 2 BY <1>1, <1>9
<1>11. BuildInv'
  BY <1>1, <1>8, <1>9, <1>10 DEF BuildInv, Writing, Complete, S
<1>12. TypeOK' BY <1>1, <1>10 DEF IInv, TypeOK, IsRepository, givens, memory
<1>13. ClosureInv' BY <1>1, ClosureStays DEF IInv, ClosureInv
<1>14. SumsInv' BY <1>1 DEF IInv, SumsInv, Visible
<1>15. DirectoryInv' /\ FlawInv'
  BY <1>1 DEF IInv, DirectoryInv, FlawInv, Writing, Complete
<1> QED
  BY <1>11, <1>12, <1>13, <1>14, <1>15 DEF IInv

-----------------------------------------------------------------------------
(* Writing the candidate. *)
LEMMA CompareNamesIInv ==
  ASSUME IInv, CompareNames
  PROVE  IInv'
<1>1. /\ stage = "building" /\ stage' = "writing" /\ todo' = Work
      /\ Len(built) = 2 /\ DOMAIN built[1] = DOMAIN built[2]
      /\ UNCHANGED <<givens, tree, memory, built, disk>>
  BY DEF CompareNames
<1>2. BuildInv'
  <2>1. (UNION {BuildsOf(t) : t \in Trees})' = UNION {BuildsOf(t) : t \in Trees}
    BY <1>1 DEF BuildsOf, givens
  <2> QED BY <1>1, <2>1 DEF IInv, BuildInv
<1>3. Work' = Work BY <1>1 DEF Work
<1>4. Work \subseteq Files
  <2>1. built[1] \in UNION {BuildsOf(t) : t \in Trees} BY <1>1 DEF IInv, BuildInv
  <2>2. PICK t \in Trees : built[1] \in BuildsOf(t) BY <2>1
  <2>3. DOMAIN built[1] \subseteq FileNames BY <2>2 DEF BuildsOf, IInv, TypeOK, IsRepository
  <2> QED BY <2>3 DEF Work, Files
<1>5. TypeOK' BY <1>1, <1>4 DEF IInv, TypeOK, IsRepository, Files, givens, memory
<1>6. ClosureInv' BY <1>1, ClosureStays DEF IInv, ClosureInv
<1>7. Copied' = {} /\ Extra' = {} BY <1>1, <1>3 DEF Copied, Extra, Writing
<1>8. DirectoryInv'
  BY <1>1, <1>3, <1>7 DEF IInv, DirectoryInv, Writing, Complete
<1>9. SumsInv' BY <1>1 DEF IInv, SumsInv, Visible
<1>10. FlawInv' BY <1>1 DEF FlawInv, Complete
<1> QED
  BY <1>2, <1>5, <1>6, <1>8, <1>9, <1>10 DEF IInv

LEMMA OpenFileIInv ==
  ASSUME IInv, NEW f \in todo, OpenFile(f)
  PROVE  IInv'
<1>1. /\ stage = "writing" /\ stage' = "filling" /\ IsNext(f) /\ ~Differs(f)
      /\ DOMAIN disk' = DOMAIN disk \cup {f}
      /\ \A g \in DOMAIN disk \ {f} : disk'[g] = disk[g]
      /\ UNCHANGED <<givens, tree, memory, built, todo>>
  BY DEF OpenFile, Put
<1>2. f \in Work /\ todo \subseteq Work /\ "SHA512SUMS" \notin Work
  BY <1>1, BuildFacts DEF IInv, DirectoryInv, Writing
<1>3. Work \subseteq Files BY <1>1, BuildFacts DEF Files, Writing
<1>4. TypeOK' BY <1>1, <1>2, <1>3 DEF IInv, TypeOK, IsRepository, Files, givens, memory
<1>5. ClosureInv' BY <1>1, ClosureStays DEF IInv, ClosureInv
<1>6. BuildInv' BY <1>1, BuildStays DEF IInv, Writing, Complete
<1>7. Work' = Work /\ Copied = Work \ todo /\ Copied' = Copied
  BY <1>1 DEF Work, Copied, Writing
<1>8. \A g : Content(g)' = Content(g) /\ Differs(g)' = Differs(g) /\ IsNext(g)' = IsNext(g)
  BY <1>1 DEF Content, Differs, IsNext, Components, memory
<1>9. Extra = {} /\ Extra' = {f}
  <2>1. Extra' = {g \in todo : IsNext(g)} BY <1>1, <1>8 DEF Extra
  <2>2. {g \in todo : IsNext(g)} = {f} BY <1>1, NextIsOne DEF Writing, IsNext
  <2> QED BY <1>1, <2>1, <2>2 DEF Extra
<1>10. DirectoryInv'
  BY <1>1, <1>2, <1>7, <1>8, <1>9 DEF IInv, DirectoryInv, Writing, Complete
<1>11. "SHA512SUMS" \notin DOMAIN disk'
  BY <1>1, <1>2, <1>7, <1>9 DEF IInv, DirectoryInv, Writing
<1>12. SumsInv' BY <1>1, <1>11 DEF SumsInv
<1>13. FlawInv' BY <1>1 DEF FlawInv, Complete
<1> QED
  BY <1>4, <1>5, <1>6, <1>10, <1>12, <1>13 DEF IInv

LEMMA FillFileIInv ==
  ASSUME IInv, NEW f \in todo, FillFile(f)
  PROVE  IInv'
<1>1. /\ stage = "filling" /\ stage' = "writing" /\ IsNext(f) /\ todo' = todo \ {f}
      /\ DOMAIN disk' = DOMAIN disk \cup {f}
      /\ disk'[f] = Content(f)
      /\ \A g \in DOMAIN disk \ {f} : disk'[g] = disk[g]
      /\ UNCHANGED <<givens, tree, memory, built>>
  BY DEF FillFile, Put
<1>2. f \in Work /\ todo \subseteq Work /\ "SHA512SUMS" \notin Work
  BY <1>1, BuildFacts DEF IInv, DirectoryInv, Writing
<1>3. Work \subseteq Files BY <1>1, BuildFacts DEF Files, Writing
<1>4. TypeOK' BY <1>1, <1>2, <1>3 DEF IInv, TypeOK, IsRepository, Files, givens, memory
<1>5. ClosureInv' BY <1>1, ClosureStays DEF IInv, ClosureInv
<1>6. BuildInv' BY <1>1, BuildStays DEF IInv, Writing, Complete
<1>7. /\ Work' = Work /\ Copied = Work \ todo /\ Copied' = Copied \cup {f}
  BY <1>1, <1>2 DEF Work, Copied, Writing
<1>8. \A g : Content(g)' = Content(g) /\ Differs(g)' = Differs(g)
  BY <1>1 DEF Content, Differs, Components, memory
<1>9. Extra = {f} /\ Extra' = {}
  <2>1. Extra = {g \in todo : IsNext(g)} BY <1>1 DEF Extra
  <2>2. {g \in todo : IsNext(g)} = {f} BY <1>1, NextIsOne DEF Writing, IsNext
  <2> QED BY <1>1, <2>1, <2>2 DEF Extra
<1>10. f \notin Copied BY <1>7
<1>11. /\ DOMAIN disk = Copied \cup {f}
       /\ \A g \in Copied : disk[g] = Content(g)
       /\ \A g \in Copied \cup {f} : ~Differs(g)
  BY <1>1, <1>2, <1>9 DEF IInv, DirectoryInv, Writing
<1>12. /\ DOMAIN disk' = Copied' \cup Extra'
       /\ \A g \in Copied' : disk'[g] = Content(g)'
       /\ \A g \in Copied' : ~Differs(g)'
  BY <1>1, <1>7, <1>8, <1>9, <1>10, <1>11
<1>13. DirectoryInv'
  BY <1>1, <1>2, <1>7, <1>9, <1>12 DEF DirectoryInv, Writing, Complete
<1>14. SumsInv' BY <1>1, <1>2, <1>7, <1>9, <1>12 DEF SumsInv
<1>15. FlawInv' BY <1>1 DEF FlawInv, Complete
<1> QED
  BY <1>4, <1>5, <1>6, <1>13, <1>14, <1>15 DEF IInv

(* What is copied, by the stages after writing. *)
LEMMA CopiedIsRight ==
  ASSUME IInv, stage \in Writing \cup Complete
  PROVE  /\ Copied \subseteq Work /\ "SHA512SUMS" \notin Copied
         /\ \A f \in Copied : disk[f] = Content(f) /\ ~Differs(f) /\ Content(f) # Partial
<1>1. Copied \subseteq Work BY DEF Copied
<1>2. \A f \in Copied : disk[f] = Content(f) /\ ~Differs(f)
  BY DEF IInv, DirectoryInv
<1>3. \A f \in Copied : Content(f) # Partial BY <1>1, ContentIsWhole
<1> QED
  BY <1>1, <1>2, <1>3, BuildFacts

LEMMA DirectoryByStage ==
  ASSUME IInv
  PROVE  /\ stage = "writing" /\ todo = {} => Copied = Work /\ DOMAIN disk = Copied
         /\ stage = "complete" => Copied = Work /\ DOMAIN disk = Copied /\ todo = {}
         /\ stage = "summing" => Copied = Work \ {Hidden} /\ DOMAIN disk = Copied /\ todo = {}
         /\ stage \in {"listing", "listed", "done"} =>
              Copied = Work \ {Hidden} /\ DOMAIN disk = Copied \cup {"SHA512SUMS"} /\ todo = {}
<1>1. stage \in Writing \cup Complete => DOMAIN disk = Copied \cup Extra
  BY DEF IInv, DirectoryInv
<1>2. stage \in Complete => todo = {}
  BY DEF IInv, DirectoryInv, Writing, Complete
<1>3. CASE stage = "writing" /\ todo = {}
  BY <1>1, <1>3 DEF Copied, Extra, Writing
<1>4. CASE stage = "complete"
  BY <1>1, <1>2, <1>4 DEF Copied, Extra, Writing, Complete
<1>5. CASE stage = "summing"
  BY <1>1, <1>2, <1>5 DEF Copied, Extra, Writing, Complete
<1>6. CASE stage \in {"listing", "listed", "done"}
  BY <1>1, <1>2, <1>6 DEF Copied, Extra, Writing, Complete
<1> QED
  BY <1>3, <1>4, <1>5, <1>6

LEMMA VerifyContentsIInv ==
  ASSUME IInv, VerifyContents
  PROVE  IInv'
<1>1. /\ stage = "writing" /\ stage' = "complete" /\ todo = {} /\ ~Flawed("incomplete")
      /\ UNCHANGED <<givens, tree, memory, built, todo, disk>>
  BY DEF VerifyContents
<1>2. /\ DOMAIN disk = Work /\ Copied = Work /\ "SHA512SUMS" \notin Work
      /\ \A f \in Work : disk[f] = Content(f) /\ ~Differs(f)
  <2>1. Copied = Work /\ DOMAIN disk = Work BY <1>1, DirectoryByStage
  <2>2. stage \in Writing BY <1>1 DEF Writing
  <2> QED BY <2>1, <2>2, CopiedIsRight
<1>3. TypeOK' BY <1>1 DEF IInv, TypeOK, IsRepository, Files, givens, memory
<1>4. ClosureInv' BY <1>1, ClosureStays DEF IInv, ClosureInv
<1>5. BuildInv' BY <1>1, BuildStays DEF IInv, Writing, Complete
<1>6. Work' = Work /\ Copied' = Work /\ Extra' = {} BY <1>1 DEF Work, Copied, Extra, Writing
<1>7. \A g : Content(g)' = Content(g) /\ Differs(g)' = Differs(g)
  BY <1>1 DEF Content, Differs, Components, memory
<1>8. DirectoryInv'
  BY <1>1, <1>2, <1>6, <1>7 DEF DirectoryInv, Writing, Complete
<1>9. SumsInv' BY <1>1, <1>2 DEF SumsInv
<1>10. FlawInv'
  <2>1. ASSUME NEW f \in DOMAIN built[1] \ {Hidden}
        PROVE  "incomplete" \notin flaws[built[1][f].tree]
    <3>1. disk[f] = built[1][f] BY <1>2 DEF Work, Content
    <3> QED BY <1>1, <3>1 DEF Flawed
  <2> QED BY <1>1, <2>1 DEF FlawInv, givens
<1> QED
  BY <1>3, <1>4, <1>5, <1>8, <1>9, <1>10 DEF IInv

LEMMA UnlinkHiddenIInv ==
  ASSUME IInv, UnlinkHidden
  PROVE  IInv'
<1>1. /\ stage = "complete" /\ stage' = "summing"
      /\ DOMAIN disk' = DOMAIN disk \ {Hidden}
      /\ \A g \in DOMAIN disk' : disk'[g] = disk[g]
      /\ UNCHANGED <<givens, tree, memory, built, todo>>
  BY DEF UnlinkHidden, Without
<1>2. /\ DOMAIN disk = Work /\ "SHA512SUMS" \notin Work /\ todo = {}
      /\ \A f \in Work : disk[f] = Content(f) /\ ~Differs(f) /\ Content(f) # Partial
  <2>1. Copied = Work /\ DOMAIN disk = Work /\ todo = {} BY <1>1, DirectoryByStage
  <2>2. stage \in Complete BY <1>1 DEF Complete
  <2> QED BY <2>1, <2>2, CopiedIsRight
<1>3. \A g \in Visible(DOMAIN disk') : disk'[g] # Partial BY <1>1, <1>2 DEF Visible
<1>4. TypeOK' BY <1>1, <1>2, <1>3 DEF IInv, TypeOK, IsRepository, Files, givens, memory
<1>5. ClosureInv' BY <1>1, ClosureStays DEF IInv, ClosureInv
<1>6. BuildInv' BY <1>1, BuildStays DEF IInv, Writing, Complete
<1>7. Work' = Work /\ Copied' = Work \ {Hidden} /\ Extra' = {}
  BY <1>1 DEF Work, Copied, Extra, Writing
<1>8. \A g : Content(g)' = Content(g) /\ Differs(g)' = Differs(g)
  BY <1>1 DEF Content, Differs, Components, memory
<1>9. DirectoryInv'
  BY <1>1, <1>2, <1>7, <1>8 DEF DirectoryInv, Writing, Complete
<1>10. SumsInv' BY <1>1, <1>2 DEF SumsInv
<1>11. FlawInv' BY <1>1 DEF IInv, FlawInv, Complete, givens
<1> QED
  BY <1>4, <1>5, <1>6, <1>9, <1>10, <1>11 DEF IInv

LEMMA OpenSumsIInv ==
  ASSUME IInv, OpenSums
  PROVE  IInv'
<1>1. /\ stage = "summing" /\ stage' = "listing"
      /\ DOMAIN disk' = DOMAIN disk \cup {"SHA512SUMS"}
      /\ disk'["SHA512SUMS"] = Partial
      /\ \A g \in DOMAIN disk \ {"SHA512SUMS"} : disk'[g] = disk[g]
      /\ UNCHANGED <<givens, tree, memory, built, todo>>
  BY DEF OpenSums, Put
<1>2. stage \in Complete BY <1>1 DEF Complete
<1>3. /\ DOMAIN disk = Copied /\ Copied = Work \ {Hidden} /\ "SHA512SUMS" \notin Copied
      /\ todo = {}
  BY <1>1, <1>2, DirectoryByStage, CopiedIsRight
<1>4. \A f \in Copied : disk[f] = Content(f) /\ ~Differs(f) /\ Content(f) # Partial
  BY <1>2, CopiedIsRight
<1>5. \A g \in Visible(DOMAIN disk') : disk'[g] # Partial BY <1>1, <1>3, <1>4 DEF Visible
<1>6. Hidden \notin DOMAIN disk' BY <1>1, <1>3, FilesAssumption
<1>7. TypeOK'
  BY <1>1, <1>3, <1>5, <1>6 DEF IInv, TypeOK, IsRepository, Files, givens, memory
<1>8. ClosureInv' BY <1>1, ClosureStays DEF IInv, ClosureInv
<1>9. BuildInv' BY <1>1, BuildStays DEF IInv, Writing, Complete
<1>10. Work' = Work /\ Copied' = Copied /\ Extra' = {"SHA512SUMS"}
  BY <1>1 DEF Work, Copied, Extra, Writing
<1>11. \A g : Content(g)' = Content(g) /\ Differs(g)' = Differs(g)
  BY <1>1 DEF Content, Differs, Components, memory
<1>12. DirectoryInv'
  BY <1>1, <1>3, <1>4, <1>10, <1>11 DEF DirectoryInv, Writing, Complete
<1>13. SumsInv' BY <1>1 DEF SumsInv
<1>14. FlawInv' BY <1>1 DEF IInv, FlawInv, Complete, givens
<1> QED
  BY <1>7, <1>8, <1>9, <1>12, <1>13, <1>14 DEF IInv

LEMMA FillSumsIInv ==
  ASSUME IInv, FillSums
  PROVE  IInv'
<1>1. /\ stage = "listing" /\ stage' = "listed"
      /\ DOMAIN disk' = DOMAIN disk \cup {"SHA512SUMS"}
      /\ disk'["SHA512SUMS"] = [f \in Visible(DOMAIN disk) |-> disk[f]]
      /\ \A g \in DOMAIN disk \ {"SHA512SUMS"} : disk'[g] = disk[g]
      /\ UNCHANGED <<givens, tree, memory, built, todo>>
  BY DEF FillSums, Put
<1>2. stage \in Complete BY <1>1 DEF Complete
<1>3. /\ DOMAIN disk = Copied \cup {"SHA512SUMS"} /\ Copied = Work \ {Hidden}
      /\ "SHA512SUMS" \notin Copied /\ todo = {}
  BY <1>1, <1>2, DirectoryByStage, CopiedIsRight
<1>4. \A f \in Copied : disk[f] = Content(f) /\ ~Differs(f) /\ Content(f) # Partial
  BY <1>2, CopiedIsRight
<1>5. Visible(DOMAIN disk) = Work \ {Hidden} /\ DOMAIN disk' = DOMAIN disk
  BY <1>1, <1>3 DEF Visible
<1>6. \A g \in Work \ {Hidden} : disk'[g] = disk[g] BY <1>1, <1>3
<1>7. Hidden \notin DOMAIN disk' BY <1>3, <1>5, FilesAssumption
<1>8. TypeOK'
  <2>1. Visible(DOMAIN disk') = Work \ {Hidden} BY <1>5
  <2>2. \A g \in Visible(DOMAIN disk') : disk'[g] # Partial BY <1>3, <1>4, <1>6, <2>1
  <2> QED
    BY <1>1, <1>5, <1>7, <2>2 DEF IInv, TypeOK, IsRepository, givens, memory
<1>9. ClosureInv' BY <1>1, ClosureStays DEF IInv, ClosureInv
<1>10. BuildInv' BY <1>1, BuildStays DEF IInv, Writing, Complete
<1>11. Work' = Work /\ Copied' = Copied /\ Extra' = {"SHA512SUMS"}
  BY <1>1 DEF Work, Copied, Extra, Writing
<1>12. \A g : Content(g)' = Content(g) /\ Differs(g)' = Differs(g)
  BY <1>1 DEF Content, Differs, Components, memory
<1>13. DirectoryInv'
  BY <1>1, <1>3, <1>4, <1>5, <1>6, <1>11, <1>12 DEF DirectoryInv, Writing, Complete
<1>14. disk'["SHA512SUMS"] = [f \in Work \ {Hidden} |-> disk'[f]]
  BY <1>1, <1>5, <1>6
<1>15. SumsInv' BY <1>1, <1>5, <1>11, <1>14 DEF SumsInv
<1>16. FlawInv' BY <1>1 DEF IInv, FlawInv, Complete, givens
<1> QED
  BY <1>8, <1>9, <1>10, <1>13, <1>15, <1>16 DEF IInv

LEMMA VerifyWheelIInv ==
  ASSUME IInv, VerifyWheel
  PROVE  IInv'
<1>1. /\ stage = "listed" /\ stage' = "done" /\ ~Flawed("broken")
      /\ UNCHANGED <<givens, tree, memory, built, todo, disk>>
  BY DEF VerifyWheel
<1>2. stage \in Complete BY <1>1 DEF Complete
<1>3. Copied = Work \ {Hidden} /\ todo = {} BY <1>1, DirectoryByStage
<1>4. \A f \in Copied : disk[f] = Content(f) BY <1>2, CopiedIsRight
<1>5. TypeOK' BY <1>1 DEF IInv, TypeOK, IsRepository, givens, memory
<1>6. ClosureInv' BY <1>1, ClosureStays DEF IInv, ClosureInv
<1>7. BuildInv' BY <1>1, BuildStays DEF IInv, Writing, Complete
<1>8. Work' = Work /\ Copied' = Copied /\ Extra' = Extra
  BY <1>1 DEF Work, Copied, Extra, Writing
<1>9. \A g : Content(g)' = Content(g) /\ Differs(g)' = Differs(g)
  BY <1>1 DEF Content, Differs, Components, memory
<1>10. DirectoryInv'
  BY <1>1, <1>2, <1>3, <1>8, <1>9 DEF IInv, DirectoryInv, Writing, Complete
<1>11. SumsInv' BY <1>1, <1>8 DEF IInv, SumsInv
<1>12. FlawInv'
  <2>1. ASSUME NEW f \in DOMAIN built[1] \ {Hidden}
        PROVE  "broken" \notin flaws[built[1][f].tree]
    <3>1. disk[f] = built[1][f] BY <1>3, <1>4 DEF Work, Content
    <3> QED BY <1>1, <3>1 DEF Flawed
  <2> QED BY <1>1, <1>2, <2>1 DEF IInv, FlawInv, givens
<1> QED
  BY <1>5, <1>6, <1>7, <1>10, <1>11, <1>12 DEF IInv

(* Edits of the work tree, and steps of no one. *)
LEMMA EditIInv ==
  ASSUME IInv, Edit \/ UNCHANGED vars
  PROVE  IInv'
<1>1. tree' \in Trees /\ UNCHANGED <<givens, stage, memory, built, todo, disk>>
  BY DEF Edit, vars, IInv, TypeOK
<1>2. TypeOK' BY <1>1 DEF IInv, TypeOK, IsRepository, givens, memory
<1>3. ClosureInv' BY <1>1, ClosureStays DEF IInv, ClosureInv
<1>4. BuildInv' BY <1>1, BuildStays DEF IInv
<1>5. Work' = Work /\ Copied' = Copied BY <1>1 DEF Work, Copied
<1>6. \A g : Content(g)' = Content(g) /\ Differs(g)' = Differs(g) /\ IsNext(g)' = IsNext(g)
  BY <1>1 DEF Content, Differs, Components, IsNext, memory
<1>7. Extra' = Extra BY <1>1, <1>6 DEF Extra
<1>8. DirectoryInv' BY <1>1, <1>5, <1>6, <1>7 DEF IInv, DirectoryInv
<1>9. SumsInv' /\ FlawInv' BY <1>1, <1>5 DEF IInv, SumsInv, FlawInv, givens
<1> QED
  BY <1>2, <1>3, <1>4, <1>8, <1>9 DEF IInv

LEMMA NextIInv ==
  ASSUME IInv, [Next]_vars
  PROVE  IInv'
<1>1. CASE ToolStep
  BY <1>1, PopPendingIInv, CloseOverIInv, RemoveFileIInv, MakeDirectoryIInv, BuildIInv,
     CompareNamesIInv, OpenFileIInv, FillFileIInv, VerifyContentsIInv, UnlinkHiddenIInv,
     OpenSumsIInv, FillSumsIInv, VerifyWheelIInv, FailIInv DEF ToolStep, Reject
<1>2. CASE Start BY <1>2, StartIInv
<1>3. CASE Stop BY <1>3, FailIInv DEF Stop
<1>4. CASE Edit \/ UNCHANGED vars BY <1>4, EditIInv
<1> QED
  BY <1>1, <1>2, <1>3, <1>4 DEF Next

(* Every reachable state of any number of runs satisfies the invariant.    *)
THEOREM Invariance == Spec => []IInv
  BY InitIInv, NextIInv, PTL DEF Spec

-----------------------------------------------------------------------------
(* Every variable holds values of its type, and what is summed is whole.   *)
THEOREM TypeCorrect == Spec => []TypeOK
<1>1. IInv => TypeOK BY DEF IInv
<1> QED
  BY <1>1, Invariance, PTL

(* The SBOM's components are the least set of packages that is closed      *)
(* under dependencies, for cyclic locks and names in several versions too. *)
THEOREM ClosureExact == Spec => []ClosureIsExact
<1>1. ASSUME IInv, stage \notin {"idle", "closure", "failed"}
      PROVE  /\ IsClosed(Components)
             /\ \A S \in SUBSET packages : IsClosed(S) => Components \subseteq S
  <2>1. ClosureInv /\ pending = {} BY <1>1 DEF IInv, ClosureInv
  <2>2. ASSUME NEW p \in packages, NEW q \in Components,
               \E d \in q.dependencies : d.applies /\ d.name = p.name
        PROVE  p.name \in DependencyNames(q)
    BY <2>2 DEF DependencyNames
  <2>3. IsClosed(Components)
    BY <2>1, <2>2 DEF ClosureInv, NothingForgotten, Needs, IsClosed
  <2> QED BY <2>1, <2>3 DEF ClosureInv, NothingUnneeded
<1>2. IInv => ClosureIsExact
  BY <1>1 DEF ClosureIsExact
<1> QED
  BY <1>2, Invariance, PTL

(* Finished checksums list everything that lies beside them, after any     *)
(* stops and reruns; a run that succeeds leaves the distributions of one   *)
(* tree without flaws, on which the two builds agreed.                     *)
THEOREM SumsVouch == Spec => []SumsVouchForAll
<1>1. ASSUME IInv, stage = "done"
      PROVE  \E t \in Trees :
               LET distributions == Visible(emits[t])
               IN /\ DOMAIN disk = distributions \cup {"sbom", "licenses", "SHA512SUMS"}
                  /\ DOMAIN disk["SHA512SUMS"] = distributions \cup {"sbom", "licenses"}
                  /\ \A f \in distributions :
                       disk[f].tree = t /\ disk[f] = built[2][f] /\ flaws[t] = {}
  <2>1. stage \in Complete BY <1>1 DEF Complete
  <2>2. PICK t \in Trees : /\ DOMAIN built[1] = emits[t]
                           /\ \A f \in emits[t] : built[1][f].tree = t
    BY <1>1, <2>1, BuildFacts
  <2>3. Hidden \in emits[t] /\ emits[t] \subseteq FileNames /\ emits[t] # {Hidden}
        /\ flaws[t] \subseteq {"incomplete", "broken"}
    BY <1>1 DEF IInv, TypeOK, IsRepository
  <2>4. PICK g \in emits[t] : g # Hidden BY <2>3
  <2>5. flaws[t] = {}
    <3>1. "incomplete" \notin flaws[t] /\ "broken" \notin flaws[t]
      BY <1>1, <2>1, <2>2, <2>4 DEF IInv, FlawInv
    <3> QED BY <2>3, <3>1
  <2>6. Work \ {Hidden} = Visible(emits[t]) \cup {"sbom", "licenses"}
    BY <2>2, <2>3, FilesAssumption DEF Work, Visible
  <2>7. Copied = Work \ {Hidden} /\ DOMAIN disk = Copied \cup {"SHA512SUMS"}
    BY <1>1, DirectoryByStage
  <2>8. \A f \in Copied : disk[f] = Content(f) /\ ~Differs(f)
    BY <1>1, <2>1, CopiedIsRight
  <2>9. DOMAIN disk["SHA512SUMS"] = Work \ {Hidden} BY <1>1 DEF IInv, SumsInv
  <2>10. ASSUME NEW f \in Visible(emits[t]) PROVE disk[f].tree = t /\ disk[f] = built[2][f]
    <3>1. f \in emits[t] /\ f \in Copied BY <2>6, <2>7 DEF Visible
    <3> QED BY <2>2, <2>8, <3>1 DEF Content, Differs
  <2> QED BY <2>5, <2>6, <2>7, <2>9, <2>10
<1>2. IInv => SumsVouchForAll
  BY <1>1 DEF SumsVouchForAll, IInv, SumsInv
<1> QED
  BY <1>2, Invariance, PTL
=============================================================================
