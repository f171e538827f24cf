---------------------------- MODULE ReviewBundle ----------------------------
(***************************************************************************)
(* review.py write_review_bundle and validation.py inspect_manifest over   *)
(* one output directory: compile commands write a bundle file by file with *)
(* the manifest last, inspect commands read it file by file, and the user  *)
(* edits and removes files.  A writer may stop between any two system      *)
(* calls: an OSError is not caught, and nothing is cleaned up.             *)
(***************************************************************************)
EXTENDS Naturals, Sequences

CONSTANTS
  Writers,              \* compile commands, one run each
  Inspectors,           \* inspect commands, one run each
  Bundles,              \* what build_review_bundle can return
  Manifest,             \* the path manifest.json
  Partial,              \* a file that was opened and not yet filled
  Foreign,              \* what a user writes, of no bundle's digests
  UserPaths,            \* paths a user may write
  Exclusive,            \* TRUE: a running compile has the directory to itself
  NoBundle              \* an inspector has read no manifest

ASSUME ExclusiveAssumption == Exclusive \in BOOLEAN
ASSUME BundlesAssumption ==
  \A b \in Bundles :
    /\ b \in Seq([path : {b[k].path : k \in DOMAIN b},
                  content : {b[k].content : k \in DOMAIN b}])
    /\ \A k \in DOMAIN b :
         /\ b[k].path # Manifest
         /\ b[k].content \notin {Partial, Foreign}
ASSUME MarkersAssumption ==
  /\ Partial \notin Bundles
  /\ Foreign \notin Bundles \cup {Partial}
  /\ NoBundle \notin Bundles

VARIABLES
  disk,                 \* path -> content, for the files in the directory
  subdirs,              \* some subdirectory exists
  edited,               \* the paths the user wrote since the last clean up
  bundle,               \* the ReviewBundle each writer holds in memory
  pc, next,             \* per writer: where it is, and its current file
  ipc, listed, inext,   \* per inspector: where it is, entries, current entry
  overtaken             \* history: the inspectors that had read a manifest when
                        \* the user cleaned up

dirVars == <<disk, subdirs, edited>>
writerVars == <<bundle, pc, next>>
inspectorVars == <<ipc, listed, inext, overtaken>>
vars == <<disk, subdirs, edited, bundle, pc, next, ipc, listed, inext, overtaken>>

EmptyDisk == [p \in {} |-> 0]

(* disk with content c at path p *)
Put(p, c) == [q \in DOMAIN disk \cup {p} |-> IF q = p THEN c ELSE disk[q]]

(* Mutant: the manifest is written first. *)
FilesManifestFirst(b) == <<[path |-> Manifest, content |-> b]>> \o b

(* manifest.json carries the path, digest and size of every entry of b: it *)
(* stands for b itself.  It is written after all of them.                  *)
Files(b) == Append(b, [path |-> Manifest, content |-> b])

Active(w) == pc[w] \in {"writing", "filling"}

(* Nobody else is at work in the directory. *)
Quiet == \A w \in Writers : ~Active(w)

Init ==
  /\ disk = EmptyDisk
  /\ subdirs = FALSE
  /\ edited = {}
  /\ bundle \in [Writers -> Bundles]
  /\ pc = [w \in Writers |-> "idle"]
  /\ next = [w \in Writers |-> 1]
  /\ ipc = [i \in Inspectors |-> "idle"]
  /\ listed = [i \in Inspectors |-> NoBundle]
  /\ inext = [i \in Inspectors |-> 1]
  /\ overtaken = {}

-----------------------------------------------------------------------------
(* Mutant: an earlier bundle is written over. *)
CheckNothing(w) ==
  /\ pc[w] = "idle"
  /\ Exclusive => Quiet
  /\ pc' = [pc EXCEPT ![w] = "writing"]
  /\ UNCHANGED <<dirVars, bundle, next, inspectorVars>>

(* review.py:222-224: the directory is absent or empty, or the run ends. *)
CheckOutput(w) ==
  /\ pc[w] = "idle"
  /\ Exclusive => Quiet
  /\ pc' = [pc EXCEPT ![w] = IF disk = EmptyDisk /\ ~subdirs THEN "writing" ELSE "refused"]
  /\ UNCHANGED <<dirVars, bundle, next, inspectorVars>>

(* destination.parent.mkdir, then write_bytes opens the file and truncates. *)
OpenFile(w) ==
  /\ pc[w] = "writing"
  /\ next[w] <= Len(Files(bundle[w]))
  /\ pc' = [pc EXCEPT ![w] = "filling"]
  /\ disk' = Put(Files(bundle[w])[next[w]].path, Partial)
  /\ subdirs' = TRUE
  /\ UNCHANGED <<edited, bundle, next, inspectorVars>>

(* Mutant: every other file is skipped. *)
FillFileAndSkip(w) ==
  /\ pc[w] = "filling"
  /\ pc' = [pc EXCEPT ![w] = "writing"]
  /\ next' = [next EXCEPT ![w] = next[w] + 2]
  /\ disk' = Put(Files(bundle[w])[next[w]].path, Files(bundle[w])[next[w]].content)
  /\ UNCHANGED <<subdirs, edited, bundle, inspectorVars>>

FillFile(w) ==
  /\ pc[w] = "filling"
  /\ pc' = [pc EXCEPT ![w] = "writing"]
  /\ next' = [next EXCEPT ![w] = next[w] + 1]
  /\ disk' = Put(Files(bundle[w])[next[w]].path, Files(bundle[w])[next[w]].content)
  /\ UNCHANGED <<subdirs, edited, bundle, inspectorVars>>

Finish(w) ==
  /\ pc[w] = "writing"
  /\ next[w] > Len(Files(bundle[w]))
  /\ pc' = [pc EXCEPT ![w] = "done"]
  /\ UNCHANGED <<dirVars, bundle, next, inspectorVars>>

(* An OSError, an interrupt or a crash ends the run where it stands; the   *)
(* parent directory of the next file may already have been made.           *)
Stop(w) ==
  /\ Active(w)
  /\ pc' = [pc EXCEPT ![w] = "stopped"]
  /\ subdirs' \in {subdirs, TRUE}
  /\ UNCHANGED <<disk, edited, bundle, next, inspectorVars>>

-----------------------------------------------------------------------------
(* inspect_manifest: an unreadable manifest fails at once. *)
ReadManifest(i) ==
  /\ ipc[i] = "idle"
  /\ \/ /\ Manifest \in DOMAIN disk
        /\ disk[Manifest] \in Bundles
        /\ ipc' = [ipc EXCEPT ![i] = "reading"]
        /\ listed' = [listed EXCEPT ![i] = disk[Manifest]]
     \/ /\ Manifest \in DOMAIN disk => disk[Manifest] \notin Bundles
        /\ ipc' = [ipc EXCEPT ![i] = "unreadable"]
        /\ UNCHANGED listed
  /\ UNCHANGED <<dirVars, writerVars, inext, overtaken>>

(* The entry at hand exists and has the digest and size the manifest says. *)
EntryMatches(i) ==
  LET entry == listed[i][inext[i]]
  IN entry.path \in DOMAIN disk /\ disk[entry.path] = entry.content

(* Mutant: a file that does not match is read again. *)
ReadEntryAgain(i) ==
  /\ ipc[i] = "reading"
  /\ inext[i] <= Len(listed[i])
  /\ EntryMatches(i)
  /\ inext' = [inext EXCEPT ![i] = inext[i] + 1]
  /\ UNCHANGED <<dirVars, writerVars, ipc, listed, overtaken>>

ReadEntry(i) ==
  /\ ipc[i] = "reading"
  /\ inext[i] <= Len(listed[i])
  /\ \/ /\ EntryMatches(i)
        /\ inext' = [inext EXCEPT ![i] = inext[i] + 1]
        /\ UNCHANGED ipc
     \/ /\ ~EntryMatches(i)
        /\ ipc' = [ipc EXCEPT ![i] = "invalid"]
        /\ UNCHANGED inext
  /\ UNCHANGED <<dirVars, writerVars, listed, overtaken>>

ReportValid(i) ==
  /\ ipc[i] = "reading"
  /\ inext[i] > Len(listed[i])
  /\ ipc' = [ipc EXCEPT ![i] = "valid"]
  /\ UNCHANGED <<dirVars, writerVars, listed, inext, overtaken>>

-----------------------------------------------------------------------------
(* The user drops or overwrites a file ... *)
UserWrites(p) ==
  /\ Exclusive => Quiet
  /\ disk' = Put(p, Foreign)
  /\ edited' = edited \cup {p}
  /\ UNCHANGED <<subdirs, writerVars, inspectorVars>>

(* ... or removes the directory, never under a running compile. *)
UserClears ==
  /\ Quiet
  /\ disk # EmptyDisk \/ subdirs
  /\ disk' = EmptyDisk
  /\ subdirs' = FALSE
  /\ edited' = {}
  /\ overtaken' = overtaken \cup {i \in Inspectors : ipc[i] = "reading"}
  /\ UNCHANGED <<writerVars, ipc, listed, inext>>

WriterStep(w) == CheckOutput(w) \/ OpenFile(w) \/ FillFile(w) \/ Finish(w)

InspectorStep(i) == ReadManifest(i) \/ ReadEntry(i) \/ ReportValid(i)

Next ==
  \/ \E w \in Writers : WriterStep(w) \/ Stop(w)
  \/ \E i \in Inspectors : InspectorStep(i)
  \/ \E p \in UserPaths : UserWrites(p)
  \/ UserClears

(* A running command keeps running; nobody has to start one, and the user  *)
(* has to do nothing.                                                      *)
Fairness ==
  /\ \A w \in Writers : WF_vars(OpenFile(w) \/ FillFile(w) \/ Finish(w))
  /\ \A i \in Inspectors : WF_vars(ReadEntry(i) \/ ReportValid(i))

Spec == Init /\ [][Next]_vars

FairSpec == Spec /\ Fairness

-----------------------------------------------------------------------------
(* What may be found in the file at path p. *)
ContentsAt(p) ==
  {Partial, Foreign} \cup
    IF p = Manifest THEN Bundles
    ELSE UNION {{b[k].content : k \in DOMAIN b} : b \in Bundles}

(* The variables hold values of their types. *)
TypeOK ==
  /\ \A p \in DOMAIN disk : disk[p] \in ContentsAt(p)
  /\ subdirs \in BOOLEAN
  /\ edited \subseteq UserPaths
  /\ bundle \in [Writers -> Bundles]
  /\ pc \in [Writers -> {"idle", "writing", "filling", "done", "refused", "stopped"}]
  /\ next \in [Writers -> Nat \ {0}]
  /\ \A w \in Writers : next[w] <= Len(Files(bundle[w])) + 1
  /\ ipc \in [Inspectors -> {"idle", "reading", "valid", "invalid", "unreadable"}]
  /\ listed \in [Inspectors -> Bundles \cup {NoBundle}]
  /\ inext \in [Inspectors -> Nat \ {0}]
  /\ overtaken \subseteq Inspectors

(* The files other than the manifest. *)
Written == [p \in DOMAIN disk \ {Manifest} |-> disk[p]]

(* A finished manifest lies in the directory and the user changed nothing. *)
Listed ==
  /\ edited = {}
  /\ Manifest \in DOMAIN disk
  /\ disk[Manifest] \in Bundles

Catalogue == INSTANCE Publication WITH
  shown <- Listed,
  shelf <- IF Listed THEN Written ELSE EmptyDisk

(* A manifest vouches for the whole directory: every file it lists is      *)
(* there with its content, and nothing else is, whichever runs before it   *)
(* were refused or stopped half way.                                       *)
PublishedIsWhole == Listed => Catalogue!IsCopyOf(Written, disk[Manifest])

(* README: every manifest digest is checked before the bundle is written:  *)
(* a file of a published bundle has the digest its manifest gives it.      *)
ManifestDigestsHold ==
  Listed => \A k \in DOMAIN disk[Manifest] :
              LET entry == disk[Manifest][k] IN disk[entry.path] = entry.content

(* Inspecting a bundle nobody touched never fails, whatever compiles and   *)
(* clean-ups there are meanwhile: an inspector reports an integrity        *)
(* failure only at an entry whose own file the user has written since the  *)
(* bundle was compiled, be it before or after the manifest was read, or if *)
(* the directory was cleaned up after the manifest was read.               *)
NoFalseAlarm ==
  [][\A i \in Inspectors :
       (ipc[i] = "reading" /\ ipc'[i] = "invalid")
         => listed[i][inext[i]].path \in edited \/ i \in overtaken]_vars

(* A run that starts writing finishes or stops; an inspection that starts  *)
(* gives its verdict, even while files change under it.                    *)
CommandsEnd ==
  /\ \A w \in Writers : Active(w) ~> ~Active(w)
  /\ \A i \in Inspectors : ipc[i] = "reading" ~> ipc[i] # "reading"

(* The directory behaves like a shelf on which bundles appear at once. *)
ImplementsPublication == Catalogue!Spec
=============================================================================
