------------------------- MODULE ReviewBundleProofs -------------------------
(***************************************************************************)
(* For any bundles, writers and inspectors: if a running compile has the   *)
(* directory to itself and no bundle has two files of one path, then a     *)
(* published bundle is whole, inspectors raise no false alarm, and the     *)
(* directory implements Publication.                                       *)
(***************************************************************************)
EXTENDS ReviewBundle, TLAPS

(* Spark jobs of two transformations can break this: the theorems exclude it. *)
DistinctPaths ==
  \A b \in Bundles : \A j, k \in DOMAIN b : b[j].path = b[k].path => j = k

-----------------------------------------------------------------------------
(* The inductive invariant. *)
DiskIsFunction == disk = [p \in DOMAIN disk |-> disk[p]]

OneWriter == \A v, w \in Writers : Active(v) /\ Active(w) => v = w

(* The files writer w has completed, and the one it has opened. *)
Completed(w) == {Files(bundle[w])[k].path : k \in 1..(next[w] - 1)}
Opened(w) == IF pc[w] = "filling" THEN {Files(bundle[w])[next[w]].path} ELSE {}

(* While w writes, the directory holds what w wrote and nothing else. *)
Holds(w) ==
  /\ DOMAIN disk = Completed(w) \cup Opened(w)
  /\ \A k \in 1..(next[w] - 1) :
       disk[Files(bundle[w])[k].path] = Files(bundle[w])[k].content
  /\ pc[w] = "filling" =>
       /\ next[w] <= Len(Files(bundle[w]))
       /\ disk[Files(bundle[w])[next[w]].path] = Partial

(* A run that was not let in has written nothing. *)
Fresh == \A w \in Writers : pc[w] = "idle" => next[w] = 1

ActiveHolds == \A w \in Writers : Active(w) => Holds(w)

IInv ==
  /\ TypeOK
  /\ DiskIsFunction
  /\ OneWriter
  /\ Fresh
  /\ ActiveHolds
  /\ PublishedIsWhole

-----------------------------------------------------------------------------
(* Files(b): the entries of b, then the manifest, whose content is b. *)
LEMMA FilesOfBundle ==
  ASSUME NEW b \in Bundles
  PROVE /\ Len(b) \in Nat
        /\ DOMAIN b = 1..Len(b)
        /\ Len(Files(b)) = Len(b) + 1
        /\ \A k \in 1..Len(b) : Files(b)[k] = b[k]
        /\ Files(b)[Len(b) + 1].path = Manifest
        /\ Files(b)[Len(b) + 1].content = b
        /\ \A k \in 1..Len(b) : b[k].path # Manifest
  <1> DEFINE R == [path : {b[k].path : k \in DOMAIN b}, content : {b[k].content : k \in DOMAIN b}]
  <1>1. b \in Seq(R)
    BY BundlesAssumption
  <1>2. Len(b) \in Nat /\ DOMAIN b = 1..Len(b)
    BY <1>1
  <1> DEFINE m == [path |-> Manifest, content |-> b]
  <1>3. Len(Append(b, m)) = Len(b) + 1
    BY <1>1
  <1>4. \A k \in 1..Len(b) : Append(b, m)[k] = b[k]
    BY <1>1
  <1>5. Append(b, m)[Len(b) + 1] = m
    BY <1>1
  <1>6. \A k \in DOMAIN b : b[k].path # Manifest
    BY BundlesAssumption
  <1> QED
    BY <1>2, <1>3, <1>4, <1>5, <1>6 DEF Files

(* No two files written for a bundle share a path. *)
LEMMA FilesHaveDistinctPaths ==
  ASSUME DistinctPaths, NEW b \in Bundles,
         NEW j \in 1..Len(Files(b)), NEW k \in 1..Len(Files(b)),
         Files(b)[j].path = Files(b)[k].path
  PROVE j = k
  <1>1. CASE j \in 1..Len(b) /\ k \in 1..Len(b)
    BY <1>1, FilesOfBundle DEF DistinctPaths
  <1>2. CASE j = Len(b) + 1 /\ k \in 1..Len(b)
    BY <1>2, FilesOfBundle
  <1>3. CASE j \in 1..Len(b) /\ k = Len(b) + 1
    BY <1>3, FilesOfBundle
  <1>4. CASE j = Len(b) + 1 /\ k = Len(b) + 1
    BY <1>4
  <1>5. \A x \in 1..Len(Files(b)) : x \in 1..Len(b) \/ x = Len(b) + 1
    BY FilesOfBundle
  <1> QED
    BY <1>1, <1>2, <1>3, <1>4, <1>5

(* A manifest in a directory a writer is at work in is that writer's own,  *)
(* and the writer has completed every file.                                *)
LEMMA ListedByWriter ==
  ASSUME DistinctPaths, TypeOK, NEW w \in Writers, Active(w), Holds(w), Listed
  PROVE /\ next[w] = Len(Files(bundle[w])) + 1
        /\ pc[w] = "writing"
        /\ disk[Manifest] = bundle[w]
  <1> DEFINE b == bundle[w]
  <1>0. b \in Bundles /\ next[w] \in Nat \ {0} /\ next[w] <= Len(Files(b)) + 1
    BY DEF TypeOK
  <1>1. Manifest \in DOMAIN disk /\ disk[Manifest] \in Bundles
    BY DEF Listed
  <1>2. disk[Manifest] # Partial
    BY <1>1, MarkersAssumption
  <1>3. CASE Manifest \in Completed(w)
    <2>1. PICK k \in 1..(next[w] - 1) : Files(b)[k].path = Manifest
      BY <1>3 DEF Completed
    <2>2. k \in 1..Len(Files(b))
      BY <2>1, <1>0, FilesOfBundle
    <2>3. k = Len(b) + 1
      <3>1. \A x \in 1..Len(b) : Files(b)[x].path # Manifest
        <4>1. \A x \in 1..Len(b) : Files(b)[x] = b[x]
          BY <1>0, FilesOfBundle
        <4>2. \A x \in 1..Len(b) : b[x].path # Manifest
          BY <1>0, FilesOfBundle
        <4> QED
          BY <4>1, <4>2
      <3>2. Len(b) \in Nat /\ Len(Files(b)) = Len(b) + 1
        BY <1>0, FilesOfBundle
      <3>3. k \notin 1..Len(b)
        BY <2>1, <3>1
      <3> QED
        BY <2>2, <3>2, <3>3
    <2>4. next[w] = Len(Files(b)) + 1
      BY <1>0, <2>1, <2>3, FilesOfBundle
    <2>5. pc[w] = "writing"
      BY <1>0, <2>4, FilesOfBundle DEF Holds, Active
    <2>6. disk[Manifest] = b
      BY <1>0, <2>1, <2>3, FilesOfBundle DEF Holds
    <2> QED
      BY <2>4, <2>5, <2>6
  <1>4. CASE Manifest \notin Completed(w)
    <2>1. pc[w] = "filling" /\ Files(b)[next[w]].path = Manifest
      BY <1>1, <1>4 DEF Holds, Opened
    <2> QED
      BY <1>2, <2>1 DEF Holds
  <1> QED
    BY <1>3, <1>4

(* What a writer at work has published is a whole bundle. *)
LEMMA WriterPublishesWhole ==
  ASSUME DistinctPaths, TypeOK, NEW w \in Writers, Active(w), Holds(w)
  PROVE PublishedIsWhole
  <1> SUFFICES ASSUME Listed
               PROVE Catalogue!IsCopyOf(Written, disk[Manifest])
    BY DEF PublishedIsWhole
  <1> DEFINE b == bundle[w]
  <1>1. b \in Bundles
    BY DEF TypeOK
  <1>2. /\ next[w] = Len(b) + 2
        /\ Len(b) \in Nat
        /\ pc[w] = "writing"
        /\ disk[Manifest] = b
    BY <1>1, ListedByWriter, FilesOfBundle
  <1>3. 1..(next[w] - 1) = 1..Len(b) \cup {Len(b) + 1}
    BY <1>2
  <1>4. DOMAIN disk = {b[k].path : k \in DOMAIN b} \cup {Manifest}
    <2>1. DOMAIN disk = {Files(b)[k].path : k \in 1..(next[w] - 1)}
      BY <1>2 DEF Holds, Completed, Opened
    <2>2. DOMAIN disk = {Files(b)[k].path : k \in 1..Len(b)} \cup {Files(b)[Len(b) + 1].path}
      BY <2>1, <1>3
    <2> QED
      BY <2>2, <1>1, FilesOfBundle
  <1>5. DOMAIN Written = {b[k].path : k \in DOMAIN b}
    BY <1>1, <1>4, FilesOfBundle DEF Written
  <1>6. ASSUME NEW k \in DOMAIN b
        PROVE Written[b[k].path] = b[k].content
    <2>1. k \in 1..(next[w] - 1) /\ Files(b)[k] = b[k] /\ b[k].path # Manifest
      BY <1>1, <1>3, FilesOfBundle
    <2>2. disk[b[k].path] = b[k].content
      BY <2>1 DEF Holds
    <2>3. b[k].path \in DOMAIN disk \ {Manifest}
      BY <1>4, <2>1
    <2> QED
      BY <2>2, <2>3 DEF Written
  <1> QED
    BY <1>2, <1>5, <1>6 DEF Catalogue!IsCopyOf, Catalogue!PathsOf

-----------------------------------------------------------------------------
(* Where a writer stands among its files. *)
LEMMA WriterFacts ==
  ASSUME TypeOK, NEW w \in Writers
  PROVE /\ bundle[w] \in Bundles
        /\ next[w] \in Nat \ {0}
        /\ Len(Files(bundle[w])) \in Nat
        /\ next[w] <= Len(Files(bundle[w])) + 1
        /\ \A k \in 1..Len(Files(bundle[w])) :
             Files(bundle[w])[k].content \in ContentsAt(Files(bundle[w])[k].path)
  <1> DEFINE b == bundle[w]
  <1>1. b \in Bundles /\ next[w] \in Nat \ {0} /\ next[w] <= Len(Files(b)) + 1
    BY DEF TypeOK
  <1>2. Len(b) \in Nat /\ Len(Files(b)) = Len(b) + 1 /\ DOMAIN b = 1..Len(b)
    BY <1>1, FilesOfBundle
  <1>3. ASSUME NEW k \in 1..Len(b)
        PROVE Files(b)[k].content \in ContentsAt(Files(b)[k].path)
    <2>1. Files(b)[k] = b[k] /\ b[k].path # Manifest
      BY <1>1, FilesOfBundle
    <2>2. b[k].content \in {b[j].content : j \in DOMAIN b}
      BY <1>2
    <2>3. b[k].content \in UNION {{c[j].content : j \in DOMAIN c} : c \in Bundles}
      BY <1>1, <2>2
    <2> QED
      BY <2>1, <2>3 DEF ContentsAt
  <1>4. Files(b)[Len(b) + 1].content \in ContentsAt(Files(b)[Len(b) + 1].path)
    BY <1>1, FilesOfBundle DEF ContentsAt
  <1>5. \A k \in 1..Len(Files(b)) : k \in 1..Len(b) \/ k = Len(b) + 1
    BY <1>2
  <1> QED
    BY <1>1, <1>2, <1>3, <1>4, <1>5

(* What Put does to the directory. *)
LEMMA PutFacts ==
  ASSUME TypeOK, NEW p, NEW c, c \in ContentsAt(p), disk' = Put(p, c)
  PROVE /\ DOMAIN disk' = DOMAIN disk \cup {p}
        /\ disk'[p] = c
        /\ \A q \in DOMAIN disk \ {p} : disk'[q] = disk[q]
        /\ \A q \in DOMAIN disk' : disk'[q] \in ContentsAt(q)
        /\ DiskIsFunction'
  <1>1. DOMAIN disk' = DOMAIN disk \cup {p}
    BY DEF Put
  <1>2. disk'[p] = c
    BY DEF Put
  <1>3. \A q \in DOMAIN disk \ {p} : disk'[q] = disk[q]
    BY DEF Put
  <1>4. \A q \in DOMAIN disk' : disk'[q] \in ContentsAt(q)
    BY <1>1, <1>2, <1>3 DEF TypeOK
  <1>5. DiskIsFunction'
    BY DEF Put, DiskIsFunction
  <1> QED
    BY <1>1, <1>2, <1>3, <1>4, <1>5

LEMMA PartialIsAnywhere == \A p : Partial \in ContentsAt(p) /\ Foreign \in ContentsAt(p)
  BY DEF ContentsAt

-----------------------------------------------------------------------------
LEMMA InitIInv ==
  ASSUME Init
  PROVE IInv
  <1> USE DEF Init, EmptyDisk
  <1>1. TypeOK
    <2>1. ASSUME NEW w \in Writers
          PROVE next[w] <= Len(Files(bundle[w])) + 1
      <3>1. bundle[w] \in Bundles
        OBVIOUS
      <3>2. Len(bundle[w]) \in Nat /\ Len(Files(bundle[w])) = Len(bundle[w]) + 1
        BY <3>1, FilesOfBundle
      <3> QED
        BY <3>2
    <2>2. next \in [Writers -> Nat \ {0}]
      OBVIOUS
    <2>3. /\ pc \in [Writers -> {"idle", "writing", "filling", "done", "refused", "stopped"}]
          /\ ipc \in [Inspectors -> {"idle", "reading", "valid", "invalid", "unreadable"}]
      OBVIOUS
    <2>4. /\ listed \in [Inspectors -> Bundles \cup {NoBundle}]
          /\ inext \in [Inspectors -> Nat \ {0}]
      OBVIOUS
    <2> QED
      BY <2>1, <2>2, <2>3, <2>4 DEF TypeOK
  <1>2. DiskIsFunction
    BY DEF DiskIsFunction
  <1>3. \A w \in Writers : ~Active(w)
    BY DEF Active
  <1>4. ~Listed
    BY DEF Listed
  <1> QED
    BY <1>1, <1>2, <1>3, <1>4
       DEF IInv, OneWriter, Fresh, ActiveHolds, PublishedIsWhole

(* Steps that leave the directory and the writers' places alone. *)
LEMMA SameDirectory ==
  ASSUME PublishedIsWhole, UNCHANGED <<disk, edited>>
  PROVE PublishedIsWhole'
  BY DEF PublishedIsWhole, Listed, Written, Catalogue!IsCopyOf, Catalogue!PathsOf

LEMMA SameHolds ==
  ASSUME NEW w \in Writers, Holds(w), UNCHANGED <<disk, bundle, next>>, pc'[w] = pc[w]
  PROVE Holds(w)'
  BY DEF Holds, Completed, Opened

(* Steps of inspectors. *)
LEMMA InspectorIInv ==
  ASSUME IInv, UNCHANGED <<disk, edited, bundle, pc, next>>, TypeOK'
  PROVE IInv'
  <1>1. PublishedIsWhole'
    BY SameDirectory DEF IInv
  <1>2. \A w \in Writers : Active(w)' <=> Active(w)
    BY DEF Active
  <1>3. \A w \in Writers : Holds(w) => Holds(w)'
    BY SameHolds
  <1>4. ActiveHolds'
    BY <1>2, <1>3 DEF IInv, ActiveHolds
  <1>5. OneWriter'
    BY <1>2 DEF IInv, OneWriter
  <1>6. DiskIsFunction' /\ Fresh'
    BY DEF IInv, DiskIsFunction, Fresh
  <1> QED
    BY <1>1, <1>4, <1>5, <1>6 DEF IInv

-----------------------------------------------------------------------------
(* A run is let in only when nobody else writes and the directory is empty. *)
LEMMA CheckOutputIInv ==
  ASSUME Exclusive, IInv, NEW w \in Writers, CheckOutput(w)
  PROVE IInv'
  <1>1. /\ pc[w] = "idle" /\ Quiet
        /\ pc' = [pc EXCEPT ![w] =
                    IF disk = EmptyDisk /\ ~subdirs THEN "writing" ELSE "refused"]
        /\ UNCHANGED <<disk, subdirs, edited, bundle, next, ipc, listed, inext, overtaken>>
    BY DEF CheckOutput, dirVars, inspectorVars
  <1>2. TypeOK'
    BY <1>1 DEF IInv, TypeOK, ContentsAt
  <1>3. \A v \in Writers : Active(v)' => v = w /\ disk = EmptyDisk
    BY <1>1 DEF Quiet, Active, IInv, TypeOK
  <1>4. OneWriter'
    BY <1>3 DEF OneWriter
  <1>5. Fresh'
    BY <1>1 DEF IInv, Fresh, TypeOK
  <1>6. ASSUME Active(w)'
        PROVE Holds(w)'
    <2>1. disk' = EmptyDisk /\ pc'[w] = "writing" /\ next'[w] = 1
      BY <1>1, <1>3, <1>6 DEF IInv, Fresh, TypeOK, Active
    <2>2. DOMAIN disk' = {} /\ 1..(next'[w] - 1) = {}
      BY <2>1 DEF EmptyDisk
    <2> QED
      BY <2>1, <2>2 DEF Holds, Completed, Opened
  <1>7. ActiveHolds'
    BY <1>3, <1>6 DEF ActiveHolds
  <1>8. DiskIsFunction'
    BY <1>1 DEF IInv, DiskIsFunction
  <1>9. PublishedIsWhole'
    BY <1>1, SameDirectory DEF IInv
  <1> QED
    BY <1>2, <1>4, <1>5, <1>7, <1>8, <1>9 DEF IInv

(* Opening the current file adds it to the directory, incomplete. *)
LEMMA OpenFileIInv ==
  ASSUME DistinctPaths, IInv, NEW w \in Writers, OpenFile(w)
  PROVE IInv'
  <1> DEFINE fs == Files(bundle[w])
             n == next[w]
  <1>1. /\ pc[w] = "writing" /\ n <= Len(fs)
        /\ pc' = [pc EXCEPT ![w] = "filling"]
        /\ disk' = Put(fs[n].path, Partial)
        /\ subdirs' = TRUE
        /\ UNCHANGED <<edited, bundle, next, ipc, listed, inext, overtaken>>
    BY DEF OpenFile, inspectorVars
  <1>2. TypeOK /\ Active(w) /\ Holds(w)
    BY <1>1 DEF IInv, ActiveHolds, Active
  <1>3. /\ DOMAIN disk' = DOMAIN disk \cup {fs[n].path}
        /\ disk'[fs[n].path] = Partial
        /\ \A q \in DOMAIN disk \ {fs[n].path} : disk'[q] = disk[q]
        /\ \A q \in DOMAIN disk' : disk'[q] \in ContentsAt(q)
        /\ DiskIsFunction'
    BY <1>1, <1>2, PutFacts, PartialIsAnywhere
  <1>4. pc'[w] = "filling" /\ \A v \in Writers \ {w} : pc'[v] = pc[v]
    BY <1>1, <1>2 DEF TypeOK
  <1>5. TypeOK'
    BY <1>1, <1>2, <1>3 DEF TypeOK, ContentsAt
  <1>6. \A v \in Writers : Active(v)' => v = w
    BY <1>2, <1>4 DEF IInv, OneWriter, Active
  <1>7. ASSUME NEW k \in 1..(n - 1)
        PROVE /\ fs[k].path \in DOMAIN disk \ {fs[n].path}
              /\ disk[fs[k].path] = fs[k].content
    <2>1. k \in 1..Len(fs) /\ n \in 1..Len(fs) /\ k # n /\ bundle[w] \in Bundles
      BY <1>1, <1>2, WriterFacts
    <2>2. fs[k].path # fs[n].path
      BY <2>1, FilesHaveDistinctPaths
    <2> QED
      BY <2>2, <1>2 DEF Holds, Completed
  <1>8. Holds(w)'
    <2>1. Completed(w)' = Completed(w) /\ Opened(w)' = {fs[n].path} /\ Opened(w) = {}
      BY <1>1, <1>4 DEF Completed, Opened
    <2>2. DOMAIN disk' = Completed(w)' \cup Opened(w)'
      BY <1>2, <1>3, <2>1 DEF Holds
    <2>3. \A k \in 1..(next'[w] - 1) :
            disk'[Files(bundle'[w])[k].path] = Files(bundle'[w])[k].content
      BY <1>1, <1>3, <1>7
    <2>4. next'[w] <= Len(Files(bundle'[w])) /\ disk'[Files(bundle'[w])[next'[w]].path] = Partial
      BY <1>1, <1>3
    <2> QED
      BY <2>2, <2>3, <2>4 DEF Holds, Files
  <1>9. OneWriter' /\ ActiveHolds'
    BY <1>6, <1>8 DEF OneWriter, ActiveHolds
  <1>10. Fresh'
    BY <1>1, <1>4 DEF IInv, Fresh
  <1>11. PublishedIsWhole'
    <2>1. Active(w)'
      BY <1>4 DEF Active
    <2> QED
      BY <1>5, <1>8, <2>1, WriterPublishesWhole, PTL
  <1> QED
    BY <1>3, <1>5, <1>9, <1>10, <1>11 DEF IInv

(* Filling it completes it, and moves on to the next. *)
LEMMA FillFileIInv ==
  ASSUME DistinctPaths, IInv, NEW w \in Writers, FillFile(w)
  PROVE IInv'
  <1> DEFINE fs == Files(bundle[w])
             n == next[w]
  <1>1. /\ pc[w] = "filling"
        /\ pc' = [pc EXCEPT ![w] = "writing"]
        /\ next' = [next EXCEPT ![w] = n + 1]
        /\ disk' = Put(fs[n].path, fs[n].content)
        /\ UNCHANGED <<subdirs, edited, bundle, ipc, listed, inext, overtaken>>
    BY DEF FillFile, inspectorVars
  <1>2. TypeOK /\ Active(w) /\ Holds(w)
    BY <1>1 DEF IInv, ActiveHolds, Active
  <1>3. n \in 1..Len(fs) /\ fs[n].content \in ContentsAt(fs[n].path) /\ bundle[w] \in Bundles
    BY <1>1, <1>2, WriterFacts DEF Holds
  <1>4. /\ DOMAIN disk' = DOMAIN disk \cup {fs[n].path}
        /\ disk'[fs[n].path] = fs[n].content
        /\ \A q \in DOMAIN disk \ {fs[n].path} : disk'[q] = disk[q]
        /\ \A q \in DOMAIN disk' : disk'[q] \in ContentsAt(q)
        /\ DiskIsFunction'
    BY <1>1, <1>2, <1>3, PutFacts
  <1>5. /\ pc'[w] = "writing" /\ \A v \in Writers \ {w} : pc'[v] = pc[v]
        /\ next'[w] = n + 1 /\ \A v \in Writers \ {w} : next'[v] = next[v]
    BY <1>1, <1>2 DEF TypeOK
  <1>6. TypeOK'
    <2>1. Len(fs) \in Nat /\ n \in Nat
      BY <1>2, WriterFacts
    <2>2. next' \in [Writers -> Nat \ {0}]
      BY <1>1, <1>2, <2>1 DEF TypeOK
    <2>3. ASSUME NEW v \in Writers
          PROVE next'[v] <= Len(Files(bundle'[v])) + 1
      <3>1. CASE v = w
        BY <1>1, <1>3, <1>5, <2>1, <3>1
      <3>2. CASE v # w
        BY <1>1, <1>2, <1>5, <3>2 DEF TypeOK
      <3> QED
        BY <3>1, <3>2
    <2>4. \A q \in DOMAIN disk' : disk'[q] \in ContentsAt(q)'
      BY <1>4 DEF ContentsAt
    <2>5. pc' \in [Writers -> {"idle", "writing", "filling", "done", "refused", "stopped"}]
      BY <1>1, <1>2 DEF TypeOK
    <2> QED
      BY <1>1, <1>2, <2>2, <2>3, <2>4, <2>5 DEF TypeOK, Files
  <1>7. \A v \in Writers : Active(v)' => v = w
    BY <1>2, <1>5 DEF IInv, OneWriter, Active
  <1>8. ASSUME NEW k \in 1..(n - 1)
        PROVE disk'[fs[k].path] = fs[k].content
    <2>1. k \in 1..Len(fs) /\ k # n
      BY <1>2, <1>3, WriterFacts
    <2>2. fs[k].path # fs[n].path
      BY <1>3, <2>1, FilesHaveDistinctPaths
    <2>3. fs[k].path \in DOMAIN disk /\ disk[fs[k].path] = fs[k].content
      BY <1>2 DEF Holds, Completed
    <2> QED
      BY <1>4, <2>2, <2>3
  <1>9. Holds(w)'
    <2>1. 1..(next'[w] - 1) = 1..(n - 1) \cup {n}
      BY <1>2, <1>3, <1>5, WriterFacts
    <2>2. Completed(w)' = Completed(w) \cup {fs[n].path}
      <3>1. Completed(w)' = {fs[k].path : k \in 1..(next'[w] - 1)}
        BY <1>1 DEF Completed, Files
      <3> QED
        BY <2>1, <3>1 DEF Completed
    <2>3. Opened(w)' = {} /\ Opened(w) = {fs[n].path}
      BY <1>1, <1>5 DEF Opened
    <2>4. DOMAIN disk' = Completed(w)' \cup Opened(w)'
      BY <1>2, <1>4, <2>2, <2>3 DEF Holds
    <2>5. \A k \in 1..(next'[w] - 1) : disk'[fs[k].path] = fs[k].content
      BY <1>4, <1>8, <2>1
    <2> QED
      BY <1>1, <1>5, <2>4, <2>5 DEF Holds, Files
  <1>10. OneWriter' /\ ActiveHolds'
    BY <1>7, <1>9 DEF OneWriter, ActiveHolds
  <1>11. Fresh'
    BY <1>5 DEF IInv, Fresh
  <1>12. PublishedIsWhole'
    <2>1. Active(w)'
      BY <1>5 DEF Active
    <2> QED
      BY <1>6, <1>9, <2>1, WriterPublishesWhole, PTL
  <1> QED
    BY <1>4, <1>6, <1>10, <1>11, <1>12 DEF IInv

(* A run ends, by finishing or by stopping where it stands. *)
LEMMA EndIInv ==
  ASSUME IInv, NEW w \in Writers, Finish(w) \/ Stop(w)
  PROVE IInv'
  <1>1. /\ Active(w)
        /\ \E end \in {"done", "stopped"} : pc' = [pc EXCEPT ![w] = end]
        /\ subdirs' \in {subdirs, TRUE}
        /\ UNCHANGED <<disk, edited, bundle, next, ipc, listed, inext, overtaken>>
    BY DEF Finish, Stop, Active, dirVars, inspectorVars
  <1>2. /\ \A v \in Writers \ {w} : pc'[v] = pc[v]
        /\ pc'[w] \in {"done", "stopped"}
    BY <1>1 DEF IInv, TypeOK
  <1>3. TypeOK'
    BY <1>1 DEF IInv, TypeOK, ContentsAt, Files
  <1>4. \A v \in Writers : Active(v)' => v # w /\ Active(v)
    BY <1>2 DEF Active
  <1>5. OneWriter'
    BY <1>4 DEF IInv, OneWriter
  <1>6. \A v \in Writers : Active(v)' => Holds(v)'
    BY <1>1, <1>2, <1>4, SameHolds DEF IInv, ActiveHolds
  <1>7. Fresh'
    BY <1>1, <1>2 DEF IInv, Fresh
  <1>8. DiskIsFunction' /\ PublishedIsWhole'
    BY <1>1, SameDirectory DEF IInv, DiskIsFunction
  <1> QED
    BY <1>3, <1>5, <1>6, <1>7, <1>8 DEF IInv, ActiveHolds

(* What the user does, nobody writing, ends the publication. *)
LEMMA UserIInv ==
  ASSUME Exclusive, IInv, (\E p \in UserPaths : UserWrites(p)) \/ UserClears
  PROVE IInv'
  <1>1. /\ Quiet /\ UNCHANGED <<bundle, pc, next, ipc, listed, inext>>
        /\ overtaken' \subseteq overtaken \cup Inspectors
    BY DEF UserWrites, UserClears, writerVars, inspectorVars
  <1>2. /\ \A p \in DOMAIN disk' : disk'[p] \in ContentsAt(p)
        /\ subdirs' \in BOOLEAN /\ edited' \subseteq UserPaths
        /\ DiskIsFunction'
        /\ ~Listed'
    <2>1. CASE \E p \in UserPaths : UserWrites(p)
      <3>1. PICK p \in UserPaths : UserWrites(p)
        BY <2>1
      <3>2. disk' = Put(p, Foreign) /\ edited' = edited \cup {p} /\ subdirs' = subdirs
        BY <3>1 DEF UserWrites
      <3> QED
        BY <3>2, PutFacts, PartialIsAnywhere DEF IInv, TypeOK, Listed
    <2>2. CASE UserClears
      BY <2>2 DEF UserClears, EmptyDisk, DiskIsFunction, Listed
    <2> QED
      BY <2>1, <2>2
  <1>3. TypeOK'
    BY <1>1, <1>2 DEF IInv, TypeOK, ContentsAt, Files
  <1>4. \A w \in Writers : ~Active(w)'
    BY <1>1 DEF Quiet, Active
  <1>5. Fresh'
    BY <1>1 DEF IInv, Fresh
  <1> QED
    BY <1>2, <1>3, <1>4, <1>5 DEF IInv, OneWriter, ActiveHolds, PublishedIsWhole

-----------------------------------------------------------------------------
LEMMA NextIInv ==
  ASSUME Exclusive, DistinctPaths, IInv, [Next]_vars
  PROVE IInv'
  <1>1. ASSUME NEW w \in Writers, WriterStep(w) \/ Stop(w)
        PROVE IInv'
    BY <1>1, CheckOutputIInv, OpenFileIInv, FillFileIInv, EndIInv DEF WriterStep
  <1>2. ASSUME NEW i \in Inspectors, InspectorStep(i)
        PROVE IInv'
    <2>1. UNCHANGED <<disk, subdirs, edited, bundle, pc, next, overtaken>>
      BY <1>2 DEF InspectorStep, ReadManifest, ReadEntry, ReportValid, dirVars, writerVars
    <2>2. /\ ipc' \in [Inspectors -> {"idle", "reading", "valid", "invalid", "unreadable"}]
          /\ listed' \in [Inspectors -> Bundles \cup {NoBundle}]
          /\ inext' \in [Inspectors -> Nat \ {0}]
      <3>1. /\ ipc \in [Inspectors -> {"idle", "reading", "valid", "invalid", "unreadable"}]
            /\ listed \in [Inspectors -> Bundles \cup {NoBundle}]
            /\ inext \in [Inspectors -> Nat \ {0}]
        BY DEF IInv, TypeOK
      <3>2. CASE ReadManifest(i)
        BY <3>1, <3>2 DEF ReadManifest
      <3>3. CASE ReadEntry(i)
        BY <3>1, <3>3 DEF ReadEntry
      <3>4. CASE ReportValid(i)
        BY <3>1, <3>4 DEF ReportValid
      <3> QED
        BY <1>2, <3>2, <3>3, <3>4 DEF InspectorStep
    <2>3. TypeOK'
      BY <2>1, <2>2 DEF IInv, TypeOK, ContentsAt, Files
    <2> QED
      BY <2>1, <2>3, InspectorIInv
  <1>3. CASE UNCHANGED vars
    <2>1. UNCHANGED <<disk, subdirs, edited, bundle, pc, next, ipc, listed, inext, overtaken>>
      BY <1>3 DEF vars
    <2>2. TypeOK'
      BY <2>1 DEF IInv, TypeOK, ContentsAt, Files
    <2> QED
      BY <2>1, <2>2, InspectorIInv
  <1> QED
    BY <1>1, <1>2, <1>3, UserIInv DEF Next

(* Under the two assumptions the invariant always holds. *)
THEOREM Invariance ==
  ASSUME Exclusive, DistinctPaths
  PROVE Spec => []IInv
  <1>1. Init => IInv
    BY InitIInv
  <1>2. IInv /\ [Next]_vars => IInv'
    BY NextIInv
  <1> QED
    BY <1>1, <1>2, PTL DEF Spec

(* The variables always hold values of their types. *)
THEOREM TypeCorrect ==
  ASSUME Exclusive, DistinctPaths
  PROVE Spec => []TypeOK
  <1>1. IInv => TypeOK
    BY DEF IInv
  <1> QED
    BY <1>1, Invariance, PTL

(* Whatever runs were refused or stopped half way before, a manifest found *)
(* in an unedited directory lists exactly the files that are there, with   *)
(* the contents that are there.                                            *)
THEOREM ManifestVouchesForAll ==
  ASSUME Exclusive, DistinctPaths
  PROVE Spec => []PublishedIsWhole
  <1>1. IInv => PublishedIsWhole
    BY DEF IInv
  <1> QED
    BY <1>1, Invariance, PTL

-----------------------------------------------------------------------------
(* The second invariant: what user edits and clean-ups leave for inspectors. *)

(* Every listed file the user has not written is there with its content. *)
Vouched(b) ==
  \A k \in DOMAIN b :
    b[k].path \notin edited => b[k].path \in DOMAIN disk /\ disk[b[k].path] = b[k].content

EditsAreOnDisk == edited \subseteq DOMAIN disk

NoEditsUnderWriter == \A w \in Writers : Active(w) => edited = {}

ManifestIsTrue ==
  Manifest \in DOMAIN disk /\ disk[Manifest] \in Bundles => Vouched(disk[Manifest])

(* No writer has a file left to open or to fill. *)
NothingLeftToWrite ==
  \A w \in Writers :
    Active(w) => pc[w] = "writing" /\ next[w] = Len(Files(bundle[w])) + 1

(* As long as the directory an inspector reads is not cleaned up, it is not  *)
(* empty, so no further compile is let in, and what the manifest says holds. *)
ReadersAreServed ==
  \A i \in Inspectors :
    ipc[i] = "reading" /\ i \notin overtaken =>
      /\ listed[i] \in Bundles
      /\ DOMAIN disk # {}
      /\ NothingLeftToWrite
      /\ Vouched(listed[i])

InspectorInv ==
  /\ EditsAreOnDisk
  /\ NoEditsUnderWriter
  /\ ManifestIsTrue
  /\ ReadersAreServed

LEMMA InitInspectorInv == Init => InspectorInv
  BY DEF Init, EmptyDisk, InspectorInv, EditsAreOnDisk, NoEditsUnderWriter, ManifestIsTrue,
         ReadersAreServed, Active

(* Under a writer nothing is edited, so a manifest found is a whole bundle's. *)
LEMMA WriterManifestIsTrue ==
  ASSUME PublishedIsWhole, edited = {}
  PROVE ManifestIsTrue
  <1> SUFFICES ASSUME Manifest \in DOMAIN disk, disk[Manifest] \in Bundles
               PROVE Vouched(disk[Manifest])
    BY DEF ManifestIsTrue
  <1>1. Catalogue!IsCopyOf(Written, disk[Manifest])
    BY DEF PublishedIsWhole, Listed
  <1> QED
    BY <1>1 DEF Vouched, Written, Catalogue!IsCopyOf, Catalogue!PathsOf

(* A writer that changes a file has every reader overtaken. *)
LEMMA WritingInspectorInv ==
  ASSUME DistinctPaths, IInv, IInv', InspectorInv, NEW w \in Writers, OpenFile(w) \/ FillFile(w)
  PROVE InspectorInv'
  <1>1. /\ Active(w) /\ pc' = [pc EXCEPT ![w] = IF pc[w] = "writing" THEN "filling" ELSE "writing"]
        /\ disk' = Put(Files(bundle[w])[next[w]].path,
                       IF pc[w] = "writing" THEN Partial ELSE Files(bundle[w])[next[w]].content)
        /\ UNCHANGED <<edited, bundle, ipc, listed, overtaken>>
    BY DEF OpenFile, FillFile, Active, inspectorVars
  <1>2. edited = {} /\ edited' = {}
    BY <1>1 DEF InspectorInv, NoEditsUnderWriter
  <1>3. ~NothingLeftToWrite
    <2>1. pc[w] = "filling" \/ next[w] <= Len(Files(bundle[w]))
      BY DEF OpenFile, FillFile
    <2>2. Len(Files(bundle[w])) \in Nat /\ next[w] \in Nat
      BY WriterFacts DEF IInv
    <2> QED
      BY <1>1, <2>1, <2>2 DEF NothingLeftToWrite
  <1>4. ReadersAreServed'
    BY <1>1, <1>3 DEF InspectorInv, ReadersAreServed
  <1>5. ManifestIsTrue'
    <2>1. PublishedIsWhole' /\ (edited = {})'
      BY <1>2 DEF IInv
    <2> QED
      BY <2>1, WriterManifestIsTrue, PTL
  <1> QED
    BY <1>2, <1>4, <1>5 DEF InspectorInv, EditsAreOnDisk, NoEditsUnderWriter

(* A run is let in only into an empty directory, and leaves readers at peace *)
(* when it ends.                                                            *)
LEMMA QuietWriterInspectorInv ==
  ASSUME Exclusive, IInv, InspectorInv, NEW w \in Writers,
         CheckOutput(w) \/ Finish(w) \/ Stop(w)
  PROVE InspectorInv'
  <1>1. UNCHANGED <<disk, edited, bundle, next, ipc, listed, overtaken>>
    BY DEF CheckOutput, Finish, Stop, dirVars, inspectorVars
  <1>2. ASSUME NEW v \in Writers, Active(v)'
        PROVE \/ Active(v) /\ pc'[v] = pc[v]
              \/ disk = EmptyDisk
    BY <1>2 DEF CheckOutput, Finish, Stop, Active, IInv, TypeOK
  <1>3. disk = EmptyDisk => edited = {} /\ DOMAIN disk = {}
    BY DEF InspectorInv, EditsAreOnDisk, EmptyDisk
  <1>4. NoEditsUnderWriter'
    BY <1>1, <1>2, <1>3 DEF InspectorInv, NoEditsUnderWriter
  <1>5. \A b : Vouched(b) => Vouched(b)'
    BY <1>1 DEF Vouched
  <1>6. ASSUME DOMAIN disk # {}, NothingLeftToWrite
        PROVE NothingLeftToWrite'
    BY <1>1, <1>2, <1>3, <1>6 DEF NothingLeftToWrite, Files
  <1>7. ReadersAreServed'
    BY <1>1, <1>5, <1>6 DEF InspectorInv, ReadersAreServed
  <1>8. ManifestIsTrue'
    BY <1>1, <1>5 DEF InspectorInv, ManifestIsTrue
  <1> QED
    BY <1>1, <1>4, <1>7, <1>8 DEF InspectorInv, EditsAreOnDisk

(* Reading a manifest is what starts the promise; other steps of inspectors *)
(* end it or leave it.                                                      *)
LEMMA InspectorInspectorInv ==
  ASSUME DistinctPaths, IInv, InspectorInv, NEW j \in Inspectors, InspectorStep(j)
  PROVE InspectorInv'
  <1>1. UNCHANGED <<disk, edited, bundle, pc, next, overtaken>>
    BY DEF InspectorStep, ReadManifest, ReadEntry, ReportValid, dirVars, writerVars
  <1>2. /\ \A b : Vouched(b) => Vouched(b)'
        /\ NothingLeftToWrite => NothingLeftToWrite'
    BY <1>1 DEF Vouched, NothingLeftToWrite, Active, Files
  <1>3. EditsAreOnDisk' /\ NoEditsUnderWriter'
    BY <1>1 DEF InspectorInv, EditsAreOnDisk, NoEditsUnderWriter, Active
  <1>4. ManifestIsTrue'
    BY <1>1, <1>2 DEF InspectorInv, ManifestIsTrue
  <1>5. ASSUME NEW i \in Inspectors, ipc'[i] = "reading", i \notin overtaken
        PROVE \/ ipc[i] = "reading" /\ listed'[i] = listed[i]
              \/ /\ Manifest \in DOMAIN disk /\ disk[Manifest] \in Bundles
                 /\ listed'[i] = disk[Manifest]
    BY <1>5 DEF InspectorStep, ReadManifest, ReadEntry, ReportValid, IInv, TypeOK
  <1>6. ASSUME Manifest \in DOMAIN disk, disk[Manifest] \in Bundles
        PROVE NothingLeftToWrite /\ Vouched(disk[Manifest])
    <2>1. ASSUME NEW w \in Writers, Active(w)
          PROVE pc[w] = "writing" /\ next[w] = Len(Files(bundle[w])) + 1
      <3>1. Listed
        BY <1>6, <2>1 DEF Listed, InspectorInv, NoEditsUnderWriter
      <3>2. TypeOK /\ Holds(w)
        BY <2>1 DEF IInv, ActiveHolds
      <3> QED
        BY <2>1, <3>1, <3>2, ListedByWriter
    <2> QED
      BY <1>6, <2>1 DEF NothingLeftToWrite, InspectorInv, ManifestIsTrue
  <1>7. ReadersAreServed'
    <2> SUFFICES ASSUME NEW i \in Inspectors, ipc'[i] = "reading", i \notin overtaken
                 PROVE /\ listed'[i] \in Bundles /\ DOMAIN disk # {}
                       /\ NothingLeftToWrite /\ Vouched(listed'[i])
      BY <1>1, <1>2 DEF ReadersAreServed, Vouched
    <2>1. CASE ipc[i] = "reading" /\ listed'[i] = listed[i]
      BY <2>1 DEF InspectorInv, ReadersAreServed
    <2>2. CASE /\ Manifest \in DOMAIN disk /\ disk[Manifest] \in Bundles
               /\ listed'[i] = disk[Manifest]
      BY <1>6, <2>2
    <2> QED
      BY <1>5, <2>1, <2>2
  <1> QED
    BY <1>3, <1>4, <1>7 DEF InspectorInv

(* The user's own path is excused, and a clean-up overtakes every reader. *)
LEMMA UserInspectorInv ==
  ASSUME Exclusive, IInv, InspectorInv, (\E p \in UserPaths : UserWrites(p)) \/ UserClears
  PROVE InspectorInv'
  <1>1. /\ Quiet /\ UNCHANGED <<bundle, pc, next, ipc, listed>>
        /\ \A w \in Writers : ~Active(w)'
    BY DEF UserWrites, UserClears, writerVars, inspectorVars, Quiet, Active
  <1>2. CASE UserClears
    <2>1. /\ edited' = {} /\ DOMAIN disk' = {}
          /\ \A i \in Inspectors : ipc[i] = "reading" => i \in overtaken'
      BY <1>2 DEF UserClears, EmptyDisk
    <2> QED
      BY <1>1, <2>1 DEF InspectorInv, EditsAreOnDisk, NoEditsUnderWriter, ManifestIsTrue,
                        ReadersAreServed
  <1>3. CASE \E p \in UserPaths : UserWrites(p)
    <2>1. PICK p \in UserPaths : UserWrites(p)
      BY <1>3
    <2>2. disk' = Put(p, Foreign) /\ edited' = edited \cup {p} /\ overtaken' = overtaken
      BY <2>1 DEF UserWrites, inspectorVars
    <2>3. /\ DOMAIN disk' = DOMAIN disk \cup {p} /\ disk'[p] = Foreign
          /\ \A q \in DOMAIN disk \ {p} : disk'[q] = disk[q]
      BY <2>2, PutFacts, PartialIsAnywhere DEF IInv
    <2>4. \A b : Vouched(b) => Vouched(b)'
      BY <2>2, <2>3 DEF Vouched
    <2>5. ManifestIsTrue'
      BY <2>3, <2>4, MarkersAssumption DEF InspectorInv, ManifestIsTrue
    <2>6. NothingLeftToWrite'
      BY <1>1 DEF NothingLeftToWrite
    <2>7. ReadersAreServed'
      BY <1>1, <2>2, <2>3, <2>4, <2>6 DEF InspectorInv, ReadersAreServed
    <2> QED
      BY <1>1, <2>2, <2>3, <2>5, <2>7
         DEF InspectorInv, EditsAreOnDisk, NoEditsUnderWriter
  <1> QED
    BY <1>2, <1>3

LEMMA NextInspectorInv ==
  ASSUME Exclusive, DistinctPaths, IInv, IInv', InspectorInv, [Next]_vars
  PROVE InspectorInv'
  <1>1. CASE UNCHANGED vars
    BY <1>1 DEF vars, InspectorInv, EditsAreOnDisk, NoEditsUnderWriter, ManifestIsTrue,
                ReadersAreServed, Vouched, NothingLeftToWrite, Active, Files
  <1> QED
    BY <1>1, WritingInspectorInv, QuietWriterInspectorInv, InspectorInspectorInv,
       UserInspectorInv DEF Next, WriterStep

THEOREM InspectorInvariance ==
  ASSUME Exclusive, DistinctPaths
  PROVE Spec => []InspectorInv
  BY InitInspectorInv, NextInspectorInv, Invariance, PTL DEF Spec

(* An inspector that finds an entry amiss looks at a file the user wrote   *)
(* after the bundle was compiled, or at a directory the user cleaned up    *)
(* after the manifest was read; whatever writers did makes no alarm.       *)
THEOREM AlarmsAreJustified ==
  ASSUME Exclusive, DistinctPaths
  PROVE Spec => NoFalseAlarm
  <1> DEFINE Justified == \A i \in Inspectors :
               (ipc[i] = "reading" /\ ipc'[i] = "invalid")
                 => listed[i][inext[i]].path \in edited \/ i \in overtaken
  <1>1. ASSUME IInv, InspectorInv, NEW i \in Inspectors, ipc[i] = "reading",
               i \notin overtaken, inext[i] <= Len(listed[i]),
               listed[i][inext[i]].path \notin edited
        PROVE EntryMatches(i)
    <2>1. listed[i] \in Bundles /\ Vouched(listed[i])
      BY <1>1 DEF InspectorInv, ReadersAreServed
    <2>2. inext[i] \in DOMAIN listed[i]
      <3>1. DOMAIN listed[i] = 1..Len(listed[i]) /\ Len(listed[i]) \in Nat
        BY <2>1, FilesOfBundle
      <3>2. inext[i] \in Nat \ {0}
        BY <1>1 DEF IInv, TypeOK
      <3> QED
        BY <1>1, <3>1, <3>2
    <2> QED
      BY <1>1, <2>1, <2>2 DEF EntryMatches, Vouched
  <1>2. ASSUME IInv, Next, NEW i \in Inspectors,
               ipc[i] = "reading", ipc'[i] = "invalid"
        PROVE inext[i] <= Len(listed[i]) /\ ~EntryMatches(i)
    <2>1. ASSUME NEW j \in Inspectors, InspectorStep(j)
          PROVE i = j /\ ReadEntry(i)
      BY <1>2, <2>1 DEF InspectorStep, ReadManifest, ReadEntry, ReportValid, IInv, TypeOK
    <2>2. ASSUME ipc' = ipc
          PROVE FALSE
      BY <1>2, <2>2
    <2>3. PICK j \in Inspectors : InspectorStep(j)
      BY <1>2, <2>2 DEF Next, WriterStep, CheckOutput, OpenFile, FillFile, Finish, Stop,
                        UserWrites, UserClears, inspectorVars
    <2>4. ReadEntry(i)
      BY <2>1, <2>3
    <2> QED
      BY <1>2, <2>4 DEF ReadEntry, IInv, TypeOK
  <1>3. IInv /\ InspectorInv /\ [Next]_vars => [Justified]_vars
    BY <1>1, <1>2
  <1> QED
    BY <1>3, Invariance, InspectorInvariance, PTL DEF Spec, NoFalseAlarm

-----------------------------------------------------------------------------
(* While a bundle is listed, no run touches its files. *)
LEMMA ListedStays ==
  ASSUME Exclusive, DistinctPaths, IInv, Next, Listed, Listed'
  PROVE disk' = disk
  <1>1. ASSUME NEW w \in Writers, OpenFile(w)
        PROVE FALSE
    <2>1. TypeOK /\ Active(w) /\ Holds(w) /\ next[w] <= Len(Files(bundle[w]))
      BY <1>1 DEF IInv, ActiveHolds, Active, OpenFile
    <2> QED
      BY <2>1, ListedByWriter, WriterFacts
  <1>2. ASSUME NEW w \in Writers, FillFile(w)
        PROVE FALSE
    <2>1. TypeOK /\ Active(w) /\ Holds(w) /\ pc[w] = "filling"
      BY <1>2 DEF IInv, ActiveHolds, Active, FillFile
    <2> QED
      BY <2>1, ListedByWriter
  <1>3. ASSUME NEW p \in UserPaths, UserWrites(p)
        PROVE FALSE
    BY <1>3 DEF UserWrites, Listed
  <1>4. ASSUME UserClears
        PROVE FALSE
    BY <1>4 DEF UserClears, EmptyDisk, Listed
  <1> QED
    BY <1>1, <1>2, <1>3, <1>4
       DEF Next, WriterStep, CheckOutput, Finish, Stop,
           InspectorStep, ReadManifest, ReadEntry, ReportValid, dirVars

(* Every step publishes a whole bundle, withdraws one, or changes nothing  *)
(* a reader can see.                                                       *)
LEMMA StepRefines ==
  ASSUME Exclusive, DistinctPaths, IInv, IInv', [Next]_vars
  PROVE Catalogue!Next \/ UNCHANGED <<Listed, IF Listed THEN Written ELSE EmptyDisk>>
  <1>1. CASE ~Listed /\ Listed'
    <2>1. Catalogue!IsCopyOf(Written', disk'[Manifest]) /\ disk'[Manifest] \in Bundles
      BY <1>1 DEF IInv, PublishedIsWhole, Listed, Catalogue!IsCopyOf, Catalogue!PathsOf
    <2> QED
      BY <1>1, <2>1 DEF Catalogue!Next, Catalogue!Publish, Catalogue!IsCopyOf, Catalogue!PathsOf
  <1>2. CASE Listed /\ ~Listed'
    BY <1>2 DEF Catalogue!Next, Catalogue!Withdraw, Catalogue!NoFiles, EmptyDisk
  <1>3. CASE Listed /\ Listed'
    <2>1. disk' = disk
      BY <1>3, ListedStays DEF vars
    <2> QED
      BY <1>3, <2>1 DEF Written
  <1>4. CASE ~Listed /\ ~Listed'
    <2>1. Listed' = Listed
      BY <1>4 DEF Listed
    <2>2. (IF Listed THEN Written ELSE EmptyDisk)' = EmptyDisk
      BY <1>4 DEF EmptyDisk
    <2>3. (IF Listed THEN Written ELSE EmptyDisk) = EmptyDisk
      BY <1>4
    <2> QED
      BY <2>1, <2>2, <2>3
  <1> QED
    BY <1>1, <1>2, <1>3, <1>4

(* The directory, as its readers see it, implements Publication. *)
THEOREM Refinement ==
  ASSUME Exclusive, DistinctPaths
  PROVE Spec => ImplementsPublication
  <1>1. Init => Catalogue!Init
    BY DEF Init, Listed, EmptyDisk, Catalogue!Init, Catalogue!NoFiles
  <1>2. IInv /\ IInv' /\ [Next]_vars
          => [Catalogue!Next]_<<Listed, IF Listed THEN Written ELSE EmptyDisk>>
    BY StepRefines
  <1> QED
    BY <1>1, <1>2, Invariance, PTL DEF Spec, ImplementsPublication, Catalogue!Spec
=============================================================================
