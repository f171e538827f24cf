------------------------- MODULE ExecutionPlanProofs -------------------------
(***************************************************************************)
(* Theorems about ExecutionPlan, for every finite set of ids.              *)
(***************************************************************************)
EXTENDS ExecutionPlan, FiniteSetTheorems, WellFoundedInduction, TLAPS

-----------------------------------------------------------------------------
(* Appending to a sequence adds one element to the set of its elements and *)
(* leaves the earlier positions alone (tuple building in planning.py:48).  *)
LEMMA AppendProperties ==
  ASSUME NEW S, NEW s \in Seq(S), NEW e \in S
  PROVE  /\ Append(s, e) \in Seq(S)
         /\ Len(Append(s, e)) = Len(s) + 1
         /\ DOMAIN Append(s, e) = 1..(Len(s) + 1)
         /\ DOMAIN s = 1..Len(s)
         /\ \A i \in 1..Len(s) : Append(s, e)[i] = s[i]
         /\ Append(s, e)[Len(s) + 1] = e
         /\ Len(s) \in Nat
OBVIOUS

(* A step of the sort places exactly one more node. *)
LEMMA EmittedGrows ==
  ASSUME NEW S, NEW s \in Seq(S), NEW e \in S
  PROVE  {Append(s, e)[i] : i \in DOMAIN Append(s, e)} = {s[i] : i \in DOMAIN s} \cup {e}
<1> DEFINE t == Append(s, e)
<1>1. /\ DOMAIN t = 1..(Len(s) + 1)
      /\ DOMAIN s = 1..Len(s)
      /\ \A i \in 1..Len(s) : t[i] = s[i]
      /\ t[Len(s) + 1] = e
      /\ Len(s) \in Nat
  BY AppendProperties
<1>2. 1..(Len(s) + 1) = (1..Len(s)) \cup {Len(s) + 1}
  BY <1>1
<1> HIDE DEF t
<1>3. QED
  BY <1>1, <1>2 DEF t

(* Predecessor sets are finite, so the in-degree of a node is a number. *)
LEMMA PredecessorsFinite ==
  ASSUME nodes \subseteq Ids, NEW n, NEW T
  PROVE  /\ IsFiniteSet(Predecessors(n) \ T)
         /\ Cardinality(Predecessors(n) \ T) \in Nat
         /\ Cardinality(Predecessors(n) \ T) = 0 <=> Predecessors(n) \ T = {}
<1>1. IsFiniteSet(nodes)
  BY IdsAssumption, FS_Subset
<1>2. Predecessors(n) \ T \subseteq nodes
  BY DEF Predecessors
<1>3. IsFiniteSet(Predecessors(n) \ T)
  BY <1>1, <1>2, FS_Subset
<1>4. QED
  BY <1>3, FS_CardinalityType, FS_EmptySet

-----------------------------------------------------------------------------
(* The prefix yielded so far is a duplicate-free enumeration. *)
NoRepeats == \A i, j \in DOMAIN ordered : ordered[i] = ordered[j] => i = j

(* No member of a self-feeding set is ever yielded: the first of them to   *)
(* be yielded would need a predecessor in the set that was yielded before. *)
CyclesStayOut ==
  \A S \in SUBSET nodes : Abstract!SelfFeeding(S) => S \cap Emitted = {}

(* What each phase of the call has established. *)
PhaseInv ==
  /\ status = "loading" => ordered = <<>>
  /\ status \in {"sorting", "planned"} => Closed
  /\ status = "planned" => Emitted = nodes
  /\ status = "rejected" => ~Closed \/ Abstract!Cyclic

(* A node reaches the heap only when nothing it waits for is missing. *)
ReadyIsAvailable ==
  status = "sorting" => \A n \in ready : Predecessors(n) \subseteq Emitted

(* The inductive invariant. *)
IInv ==
  /\ TypeOK
  /\ PhaseInv
  /\ CountsUnplacedPredecessors
  /\ ReadyIsAvailable
  /\ PlanRespectsDependencies
  /\ NoRepeats
  /\ CyclesStayOut
  /\ EachStepIsFirstAvailable

LEMMA InitIInv == Init => IInv
<1> SUFFICES ASSUME Init PROVE IInv
  OBVIOUS
<1>1. ordered = <<>> /\ DOMAIN ordered = {} /\ Emitted = {}
  BY DEF Init, Emitted
<1>2. TypeOK
  BY <1>1 DEF Init, TypeOK
<1>3. QED
  BY <1>1, <1>2 DEF Init, IInv, PhaseInv, CountsUnplacedPredecessors,
     ReadyIsAvailable, PlanRespectsDependencies, NoRepeats, CyclesStayOut,
     EachStepIsFirstAvailable

(* Starting the sort puts every node with a predecessor in the in-degree   *)
(* map and the others on the heap.                                         *)
LEMMA StartSortIInv == IInv /\ StartSort => IInv'
<1> SUFFICES ASSUME IInv, StartSort PROVE IInv'
  OBVIOUS
<1> USE DEF IInv
<1>1. ordered = <<>> /\ Emitted = {} /\ DOMAIN ordered = {}
  BY DEF StartSort, PhaseInv, Emitted
<1>2. UNCHANGED <<nodes, edges, ordered>> /\ Emitted' = Emitted /\ status' = "sorting"
  BY DEF StartSort, Emitted
<1>3. \A n : Predecessors(n)' = Predecessors(n) /\ Children(n)' = Children(n)
  BY <1>2 DEF Predecessors, Children
<1>4. /\ DOMAIN indegree' = {m \in nodes : Predecessors(m) # {}}
      /\ \A m \in DOMAIN indegree' : indegree'[m] = Cardinality(Predecessors(m))
      /\ ready' = {n \in nodes : Predecessors(n) = {}}
  BY DEF StartSort
<1>5. \A n : /\ Cardinality(Predecessors(n)) \in Nat
             /\ Cardinality(Predecessors(n)) = 0 <=> Predecessors(n) = {}
  <2>1. \A n : Predecessors(n) \ {} = Predecessors(n)
    OBVIOUS
  <2>2. QED
    BY <2>1, PredecessorsFinite DEF TypeOK
<1>6. TypeOK'
  BY <1>2, <1>4, <1>5 DEF TypeOK
<1>7. CountsUnplacedPredecessors'
  <2>1. DOMAIN indegree' = nodes \ (Emitted \cup ready')
    BY <1>1, <1>4
  <2>2. \A n : Predecessors(n) \ Emitted = Predecessors(n)
    BY <1>1
  <2>3. \A n \in DOMAIN indegree' : indegree'[n] = Cardinality(Predecessors(n) \ Emitted)
    BY <1>4, <2>2
  <2>4. \A n \in ready' : Children(n) \subseteq DOMAIN indegree'
    BY <1>4 DEF Children, Predecessors
  <2>5. QED
    BY <1>1, <1>2, <1>3, <2>1, <2>3, <2>4 DEF CountsUnplacedPredecessors
<1>8. PhaseInv'
  BY <1>2 DEF PhaseInv, StartSort, Closed
<1>9. ReadyIsAvailable'
  BY <1>2, <1>3, <1>4 DEF ReadyIsAvailable
<1>10. QED
  BY <1>1, <1>2, <1>3, <1>6, <1>7, <1>8, <1>9
     DEF PlanRespectsDependencies, NoRepeats, CyclesStayOut, Abstract!SelfFeeding,
         EachStepIsFirstAvailable

(* The heart of the sort: yielding n takes exactly n out of the unplaced   *)
(* predecessors of each of its children, so the counts stay exact, nothing *)
(* is released early, and the released nodes are those left with none.     *)
LEMMA EmitIInv ==
  ASSUME IInv, NEW n \in ready, Emit(n)
  PROVE  IInv'
<1> USE DEF IInv
<1> DEFINE freed == {c \in Children(n) : indegree[c] = 1}
<1>1. /\ status = "sorting"
      /\ n \in nodes
      /\ UNCHANGED <<nodes, edges, status>>
      /\ ordered' = Append(ordered, n)
      /\ ordered \in Seq(nodes)
  BY DEF Emit, TypeOK
<1>2. /\ ready' = (ready \ {n}) \cup freed
      /\ DOMAIN indegree' = DOMAIN indegree \ freed
      /\ \A c \in DOMAIN indegree \ freed :
           indegree'[c] = IF c \in Children(n) THEN indegree[c] - 1 ELSE indegree[c]
  BY DEF Emit
<1>3. Emitted' = Emitted \cup {n}
  BY <1>1, EmittedGrows DEF Emitted
<1>4. /\ DOMAIN ordered = 1..Len(ordered)
      /\ DOMAIN ordered' = 1..(Len(ordered) + 1)
      /\ \A i \in 1..Len(ordered) : ordered'[i] = ordered[i]
      /\ ordered'[Len(ordered) + 1] = n
      /\ Len(ordered) \in Nat
      /\ ordered' \in Seq(nodes)
  BY <1>1, AppendProperties
<1>5. \A m : Predecessors(m)' = Predecessors(m) /\ Children(m)' = Children(m)
  BY <1>1 DEF Predecessors, Children
<1>6. /\ n \notin Emitted
      /\ Predecessors(n) \subseteq Emitted
      /\ n \notin DOMAIN indegree
      /\ Children(n) \subseteq DOMAIN indegree
      /\ freed \subseteq DOMAIN indegree
  BY <1>1 DEF CountsUnplacedPredecessors, ReadyIsAvailable
<1>7. DOMAIN indegree = nodes \ (Emitted \cup ready)
  BY <1>1 DEF CountsUnplacedPredecessors
<1>8. \A c \in DOMAIN indegree :
        /\ indegree[c] \in Nat \ {0}
        /\ indegree[c] = Cardinality(Predecessors(c) \ Emitted)
  BY <1>1 DEF CountsUnplacedPredecessors, TypeOK
<1>9. ASSUME NEW c \in Children(n)
      PROVE  Cardinality(Predecessors(c) \ Emitted') = indegree[c] - 1
  <2>1. n \in Predecessors(c) \ Emitted
    BY <1>1, <1>6 DEF Predecessors, Children
  <2>2. Predecessors(c) \ Emitted' = (Predecessors(c) \ Emitted) \ {n}
    BY <1>3
  <2>3. IsFiniteSet(Predecessors(c) \ Emitted)
    <3>1. IsFiniteSet(nodes)
      BY IdsAssumption, FS_Subset DEF TypeOK
    <3>2. QED
      BY <3>1, FS_Subset DEF Predecessors
  <2>4. QED
    BY <2>1, <2>2, <2>3, <1>6, <1>8, FS_RemoveElement
<1>10. ASSUME NEW c \in nodes, c \notin Children(n)
       PROVE  Predecessors(c) \ Emitted' = Predecessors(c) \ Emitted
  BY <1>3, <1>10 DEF Predecessors, Children
<1>11. \A c \in freed : Predecessors(c) \subseteq Emitted'
  <2> SUFFICES ASSUME NEW c \in freed PROVE Predecessors(c) \ Emitted' = {}
    OBVIOUS
  <2>1. Cardinality(Predecessors(c) \ Emitted') = 0
    BY <1>9
  <2>2. QED
    BY <2>1, PredecessorsFinite DEF TypeOK
<1>12. \A c \in DOMAIN indegree' :
         /\ indegree'[c] = Cardinality(Predecessors(c) \ Emitted')
         /\ indegree'[c] \in Nat \ {0}
  <2> SUFFICES ASSUME NEW c \in DOMAIN indegree'
               PROVE  /\ indegree'[c] = Cardinality(Predecessors(c) \ Emitted')
                      /\ indegree'[c] \in Nat \ {0}
    OBVIOUS
  <2>1. CASE c \in Children(n)
    <3>1. c \in DOMAIN indegree /\ indegree[c] # 1 /\ indegree'[c] = indegree[c] - 1
      BY <2>1, <1>2
    <3>2. indegree[c] \in Nat \ {0}
      BY <3>1, <1>8
    <3>3. Cardinality(Predecessors(c) \ Emitted') = indegree[c] - 1
      BY <2>1, <1>9
    <3>4. QED
      BY <3>1, <3>2, <3>3
  <2>2. CASE c \notin Children(n)
    <3>1. c \in nodes
      BY <1>2, <1>7
    <3>2. QED
      BY <2>2, <3>1, <1>2, <1>8, <1>10
  <2>3. QED
    BY <2>1, <2>2
<1>13. DOMAIN indegree' = nodes \ (Emitted' \cup ready')
  BY <1>1, <1>2, <1>3, <1>6, <1>7
<1>14. ReadyIsAvailable'
  BY <1>1, <1>2, <1>3, <1>5, <1>11 DEF ReadyIsAvailable
<1>15. PlanRespectsDependencies'
  <2> SUFFICES ASSUME NEW i \in DOMAIN ordered', NEW m \in Predecessors(ordered'[i])
               PROVE  \E j \in 1..(i - 1) : ordered'[j] = m
    BY <1>5 DEF PlanRespectsDependencies
  <2>1. CASE i \in 1..Len(ordered)
    BY <2>1, <1>4 DEF PlanRespectsDependencies
  <2>2. CASE i = Len(ordered) + 1
    <3>1. PICK j \in DOMAIN ordered : ordered[j] = m
      BY <2>2, <1>4, <1>6 DEF Emitted
    <3>2. QED
      BY <2>2, <3>1, <1>4
  <2>3. QED
    BY <2>1, <2>2, <1>4
<1>16. NoRepeats'
  BY <1>4, <1>6 DEF NoRepeats, Emitted
<1>17. CountsUnplacedPredecessors'
  <2>1. ready' \cap Emitted' = {}
    BY <1>1, <1>2, <1>3, <1>6, <1>7 DEF CountsUnplacedPredecessors
  <2>2. ASSUME NEW r \in ready' PROVE Children(r) \subseteq DOMAIN indegree'
    <3> SUFFICES ASSUME NEW c \in Children(r)
                 PROVE  c \in nodes /\ c \notin Emitted' /\ c \notin ready'
      BY <1>13
    <3>1. r \in nodes /\ r \notin Emitted' /\ c \in nodes /\ r \in Predecessors(c)
      BY <2>1, <1>1, <1>2, <1>6, <1>7 DEF TypeOK, Children, Predecessors
    <3>2. c \notin ready'
      BY <3>1, <1>1, <1>5, <1>14 DEF ReadyIsAvailable
    <3>3. c \notin Emitted'
      BY <3>1, <1>5, <1>15, <1>4 DEF PlanRespectsDependencies, Emitted
    <3>4. QED
      BY <3>1, <3>2, <3>3
  <2>3. QED
    BY <2>1, <2>2, <1>1, <1>5, <1>12, <1>13 DEF CountsUnplacedPredecessors
<1>18. TypeOK'
  <2>1. ready' \subseteq nodes
    BY <1>2 DEF TypeOK, Children
  <2>2. QED
    BY <2>1, <1>1, <1>4, <1>12, <1>13 DEF TypeOK
<1>19. CyclesStayOut'
  <2> SUFFICES ASSUME NEW S \in SUBSET nodes, Abstract!SelfFeeding(S)
               PROVE  S \cap Emitted' = {}
    BY <1>1 DEF CyclesStayOut, Abstract!SelfFeeding
  <2>1. S \cap Emitted = {}
    BY DEF CyclesStayOut
  <2>2. n \notin S
    BY <2>1, <1>6 DEF Abstract!SelfFeeding, Predecessors
  <2>3. QED
    BY <2>1, <2>2, <1>3
<1>20. EachStepIsFirstAvailable'
  <2> SUFFICES ASSUME NEW i \in DOMAIN ordered', NEW m \in nodes,
                      m \notin {ordered'[j] : j \in 1..(i - 1)},
                      Predecessors(m) \subseteq {ordered'[j] : j \in 1..(i - 1)}
               PROVE  Key[ordered'[i]] <= Key[m]
    BY <1>1, <1>5 DEF EachStepIsFirstAvailable
  <2>1. {ordered'[j] : j \in 1..(i - 1)} = {ordered[j] : j \in 1..(i - 1)}
    BY <1>4
  <2>2. CASE i \in 1..Len(ordered)
    BY <2>1, <2>2, <1>4 DEF EachStepIsFirstAvailable
  <2>3. CASE i = Len(ordered) + 1
    <3>1. m \notin Emitted /\ Predecessors(m) \ Emitted = {}
      BY <2>1, <2>3, <1>4 DEF Emitted
    <3>2. m \in ready
      BY <3>1, <1>7, <1>8, PredecessorsFinite DEF TypeOK
    <3>3. QED
      BY <2>3, <3>2, <1>4 DEF Emit, IsLeast
  <2>4. QED
    BY <2>2, <2>3, <1>4
<1>21. PhaseInv'
  BY <1>1 DEF PhaseInv, Closed
<1>22. QED
  BY <1>14, <1>15, <1>16, <1>17, <1>18, <1>19, <1>20, <1>21

(* When the heap runs dry with nodes left over, those nodes feed each      *)
(* other: each has an unplaced predecessor, which is left over as well.    *)
LEMMA LeftoverIsCyclic ==
  ASSUME IInv, RejectCycle
  PROVE  Abstract!Cyclic
<1> USE DEF IInv
<1>1. DOMAIN indegree # {} /\ DOMAIN indegree = nodes \ Emitted
  BY DEF RejectCycle, CountsUnplacedPredecessors
<1>2. ASSUME NEW n \in DOMAIN indegree
      PROVE  \E m \in DOMAIN indegree : <<m, n>> \in edges
  <2>1. Cardinality(Predecessors(n) \ Emitted) # 0
    BY DEF RejectCycle, CountsUnplacedPredecessors, TypeOK
  <2>2. Predecessors(n) \ Emitted # {}
    BY <2>1, PredecessorsFinite DEF TypeOK
  <2>3. PICK m \in Predecessors(n) : m \notin Emitted
    BY <2>2
  <2>4. QED
    BY <2>3, <1>1 DEF Predecessors
<1>3. DOMAIN indegree \in SUBSET nodes
  BY DEF TypeOK
<1>4. QED
  BY <1>1, <1>2, <1>3 DEF Abstract!Cyclic, Abstract!SelfFeeding

(* Emptying both the heap and the in-degree map means every node is placed. *)
LEMMA FinishIsComplete ==
  ASSUME IInv, Finish
  PROVE  Emitted = nodes
<1>1. nodes \ Emitted = {}
  BY DEF IInv, Finish, CountsUnplacedPredecessors
<1>2. Emitted \subseteq nodes
  BY DEF IInv, TypeOK, Emitted
<1>3. QED
  BY <1>1, <1>2

(* The steps that end the call keep the invariant. *)
LEMMA ReturnIInv ==
  ASSUME IInv, RejectUnknownNode \/ Finish \/ RejectCycle
  PROVE  IInv'
<1> USE DEF IInv
<1>1. UNCHANGED <<nodes, edges, indegree, ready>>
  BY DEF RejectUnknownNode, Finish, RejectCycle
<1>2. \A n : Predecessors(n)' = Predecessors(n) /\ Children(n)' = Children(n)
  BY <1>1 DEF Predecessors, Children
<1>3. status' # "sorting"
  BY DEF RejectUnknownNode, Finish, RejectCycle
<1>4. \/ ordered' = ordered /\ Emitted' = Emitted
      \/ ordered' = <<>> /\ Emitted' = {} /\ DOMAIN ordered' = {}
  BY DEF RejectUnknownNode, Finish, RejectCycle, Emitted
<1>5. TypeOK'
  <2>1. ordered' \in Seq(nodes)
    <3>1. <<>> \in Seq(nodes)
      OBVIOUS
    <3>2. ordered' = ordered \/ ordered' = <<>>
      BY <1>4
    <3>3. ordered \in Seq(nodes)
      BY DEF TypeOK
    <3>4. QED
      BY <3>1, <3>2, <3>3
  <2>2. status' \in {"planned", "rejected"}
    BY DEF RejectUnknownNode, Finish, RejectCycle
  <2>3. QED
    BY <2>1, <2>2, <1>1 DEF TypeOK
<1>6. CountsUnplacedPredecessors' /\ ReadyIsAvailable'
  BY <1>3 DEF CountsUnplacedPredecessors, ReadyIsAvailable
<1>7. PlanRespectsDependencies' /\ NoRepeats' /\ EachStepIsFirstAvailable'
  BY <1>1, <1>2, <1>4 DEF PlanRespectsDependencies, NoRepeats, EachStepIsFirstAvailable
<1>8. CyclesStayOut'
  BY <1>1, <1>4 DEF CyclesStayOut, Abstract!SelfFeeding
<1>9. PhaseInv'
  <2>1. CASE RejectUnknownNode
    BY <2>1 DEF RejectUnknownNode, PhaseInv, Closed
  <2>2. CASE Finish
    BY <2>2, <1>4, FinishIsComplete DEF Finish, PhaseInv, Closed, Emitted
  <2>3. CASE RejectCycle
    BY <2>3, LeftoverIsCyclic
       DEF RejectCycle, PhaseInv, Abstract!Cyclic, Abstract!SelfFeeding
  <2>4. QED
    BY <2>1, <2>2, <2>3
<1>10. QED
  BY <1>5, <1>6, <1>7, <1>8, <1>9

LEMMA StutterIInv == IInv /\ UNCHANGED vars => IInv'
<1> SUFFICES ASSUME IInv, UNCHANGED vars PROVE IInv'
  OBVIOUS
<1>1. \A n : Predecessors(n)' = Predecessors(n) /\ Children(n)' = Children(n)
  BY DEF vars, Predecessors, Children
<1>2. Emitted' = Emitted
  BY DEF vars, Emitted
<1>3. TypeOK' /\ PhaseInv' /\ CyclesStayOut'
  BY <1>2 DEF vars, IInv, TypeOK, PhaseInv, CyclesStayOut, Closed,
     Abstract!Cyclic, Abstract!SelfFeeding
<1>4. CountsUnplacedPredecessors' /\ ReadyIsAvailable'
  BY <1>1, <1>2 DEF vars, IInv, CountsUnplacedPredecessors, ReadyIsAvailable
<1>5. PlanRespectsDependencies' /\ NoRepeats' /\ EachStepIsFirstAvailable'
  BY <1>1 DEF vars, IInv, PlanRespectsDependencies, NoRepeats, EachStepIsFirstAvailable
<1>6. QED
  BY <1>3, <1>4, <1>5 DEF IInv

LEMMA NextIInv == IInv /\ [Next]_vars => IInv'
BY StartSortIInv, EmitIInv, ReturnIInv, StutterIInv DEF Next, Returned

(* Every reachable state of the planner satisfies the inductive invariant. *)
THEOREM Invariance == Spec => []IInv
BY InitIInv, NextIInv, PTL DEF Spec

(* The planner's variables keep their types (planning.py:38-66). *)
THEOREM TypeCorrect == Spec => []TypeOK
BY Invariance, PTL DEF IInv

(* No step of a plan, or of a prefix of one, comes before a dependency it  *)
(* lists: plan.json can be executed top to bottom.                         *)
THEOREM DependenciesFirst == Spec => []PlanRespectsDependencies
BY Invariance, PTL DEF IInv

(* A returned plan holds every node of the IR exactly once. *)
THEOREM Complete == Spec => []PlanIsComplete
<1>1. IInv => PlanIsComplete
  BY DEF IInv, PhaseInv, NoRepeats, PlanIsComplete
<1>2. QED
  BY <1>1, Invariance, PTL

(* The in-degree bookkeeping is exact and never meets an absent key. *)
THEOREM ExactCounts == Spec => []CountsUnplacedPredecessors
BY Invariance, PTL DEF IInv

(* The plan is the one the stable ids determine: each position holds the   *)
(* first available node.                                                   *)
THEOREM FirstAvailable == Spec => []EachStepIsFirstAvailable
BY Invariance, PTL DEF IInv

(* CycleError means there is no plan, and a plan means there is no cycle:  *)
(* nodes that feed each other are never placed, and nodes left over always *)
(* feed each other.                                                        *)
THEOREM RejectionIsExact == Spec => []RejectedOnlyWithoutPlan
<1>1. IInv => RejectedOnlyWithoutPlan
  <2> SUFFICES ASSUME IInv PROVE RejectedOnlyWithoutPlan
    OBVIOUS
  <2>1. ASSUME status = "planned" PROVE Closed /\ ~Abstract!Cyclic
    <3>1. Closed /\ Emitted = nodes
      BY <2>1 DEF IInv, PhaseInv
    <3>2. QED
      BY <3>1 DEF IInv, CyclesStayOut, Abstract!Cyclic, Abstract!SelfFeeding
  <2>2. QED
    BY <2>1 DEF IInv, PhaseInv, RejectedOnlyWithoutPlan
<1>2. QED
  BY <1>1, Invariance, PTL

-----------------------------------------------------------------------------
(* Of some positions, one is the first. *)
LEMMA FirstPosition ==
  ASSUME NEW T \in SUBSET Nat, T # {}
  PROVE  \E n \in T : \A m \in T : n <= m
<1> DEFINE R == OpToRel(<, Nat)
<1>1. IsWellFoundedOn(R, Nat)
  BY NatLessThanWellFounded
<1>2. R = {p \in Nat \X Nat : p[1] < p[2]}
  BY DEF OpToRel
<1> HIDE DEF R
<1>3. PICK n \in T : \A m \in T : ~(<<m, n>> \in R)
  BY <1>1, WFMin
<1>4. ASSUME NEW m \in T PROVE n <= m
  <2>1. ~(m < n)
    BY <1>2, <1>3
  <2>2. QED
    BY <2>1
<1>5. QED
  BY <1>4

(* A topological order places every node at one position, and whatever a   *)
(* node depends on before it.                                              *)
LEMMA OrderProperties ==
  ASSUME nodes \subseteq Ids, NEW p \in TopologicalOrders
  PROVE  /\ Cardinality(nodes) \in Nat
         /\ DOMAIN p = 1..Cardinality(nodes)
         /\ \A i \in DOMAIN p : p[i] \in nodes
         /\ \A i, j \in DOMAIN p : p[i] = p[j] => i = j
         /\ \A n \in nodes : \E i \in DOMAIN p : p[i] = n
         /\ \A i, j \in DOMAIN p : <<p[i], p[j]>> \in edges => i < j
<1> DEFINE D == 1..Cardinality(nodes)
<1>1. IsFiniteSet(nodes) /\ Cardinality(nodes) \in Nat
  BY IdsAssumption, FS_Subset, FS_CardinalityType
<1>2. /\ p \in [D -> nodes]
      /\ \A i, j \in D : p[i] = p[j] => i = j
      /\ \A i, j \in D : <<p[i], p[j]>> \in edges => i < j
  BY DEF TopologicalOrders, SetToSeqs
<1>3. IsFiniteSet(D) /\ Cardinality(D) = Cardinality(nodes)
  BY <1>1, FS_Interval
<1>4. p \in Injection(D, nodes)
  BY <1>2 DEF Injection, IsInjective
<1>5. p \in Surjection(D, nodes)
  BY <1>1, <1>3, <1>4, FS_Injection
<1>6. \A n \in nodes : \E i \in D : p[i] = n
  BY <1>5 DEF Surjection
<1>7. QED
  BY <1>1, <1>2, <1>6

(* A sequence that is complete, without repeats and respects dependencies  *)
(* is a topological order.                                                 *)
LEMMA PlanIsAnOrder ==
  ASSUME IInv, status = "planned"
  PROVE  ordered \in TopologicalOrders
<1> DEFINE l == Len(ordered)
           D == 1..Len(ordered)
<1>1. /\ ordered \in Seq(nodes) /\ nodes \subseteq Ids
      /\ Closed /\ Emitted = nodes /\ NoRepeats /\ PlanRespectsDependencies
  BY DEF IInv, TypeOK, PhaseInv
<1>2. l \in Nat /\ DOMAIN ordered = D /\ ordered \in [D -> nodes]
  BY <1>1
<1>3. /\ ordered \in Injection(D, nodes)
      /\ ordered \in Surjection(D, nodes)
  BY <1>1, <1>2 DEF Injection, IsInjective, Surjection, NoRepeats, Emitted
<1>4. IsFiniteSet(D) /\ Cardinality(D) = l
  BY <1>2, FS_Interval
<1>5. Cardinality(nodes) = l
  BY <1>3, <1>4, FS_Surjection
<1>6. ordered \in SetToSeqs(nodes)
  <2>1. \A i, j \in D : i # j => ordered[i] # ordered[j]
    BY <1>1, <1>2 DEF NoRepeats
  <2>2. QED
    BY <1>2, <1>5, <2>1 DEF SetToSeqs
<1>7. ASSUME NEW i \in D, NEW j \in D, <<ordered[i], ordered[j]>> \in edges
      PROVE  i < j
  <2>1. ordered[i] \in Predecessors(ordered[j])
    BY <1>2, <1>7 DEF Predecessors
  <2>2. PICK k \in 1..(j - 1) : ordered[k] = ordered[i]
    BY <1>1, <1>2, <2>1 DEF PlanRespectsDependencies
  <2>3. k \in D /\ k = i
    BY <1>1, <1>2, <2>2 DEF NoRepeats
  <2>4. QED
    BY <1>2, <2>3
<1>8. QED
  BY <1>2, <1>6, <1>7 DEF TopologicalOrders

(* Where another topological order leaves the plan for the first time it   *)
(* places a node that was available and that the plan did not take.        *)
LEMMA PlanPrecedes ==
  ASSUME IInv, status = "planned", NEW p \in TopologicalOrders, p # ordered
  PROVE  Precedes(ordered, p)
<1> DEFINE D == 1..Cardinality(nodes)
           T == {i \in D : p[i] # ordered[i]}
<1>1. nodes \subseteq Ids /\ EachStepIsFirstAvailable
  BY DEF IInv, TypeOK
<1>2. /\ Cardinality(nodes) \in Nat
      /\ DOMAIN p = D
      /\ \A i \in D : p[i] \in nodes
      /\ \A i, j \in D : p[i] = p[j] => i = j
      /\ \A n \in nodes : \E i \in D : p[i] = n
      /\ \A i, j \in D : <<p[i], p[j]>> \in edges => i < j
  BY <1>1, OrderProperties
<1>3. DOMAIN ordered = D /\ \A i \in D : ordered[i] \in nodes
  BY <1>1, PlanIsAnOrder, OrderProperties
<1>4. T \in SUBSET Nat /\ T # {}
  <2>1. p = [i \in D |-> p[i]] /\ ordered = [i \in D |-> ordered[i]]
    BY PlanIsAnOrder DEF TopologicalOrders, SetToSeqs
  <2>2. QED
    BY <1>2, <2>1
<1>5. PICK i \in T : \A j \in T : i <= j
  BY <1>4, FirstPosition
<1> DEFINE before == {ordered[j] : j \in 1..(i - 1)}
<1>6. \A j \in 1..(i - 1) : j \in D /\ p[j] = ordered[j]
  BY <1>2, <1>5
<1>7. p[i] \notin before
  BY <1>2, <1>5, <1>6
<1>8. Predecessors(p[i]) \subseteq before
  <2> SUFFICES ASSUME NEW m \in Predecessors(p[i]) PROVE m \in before
    OBVIOUS
  <2>1. PICK k \in D : p[k] = m
    BY <1>2 DEF Predecessors
  <2>2. k < i
    BY <1>2, <1>5, <2>1 DEF Predecessors
  <2>3. k \in 1..(i - 1)
    BY <1>2, <1>5, <2>2
  <2>4. QED
    BY <1>6, <2>1, <2>3
<1>9. Key[ordered[i]] <= Key[p[i]]
  BY <1>1, <1>2, <1>3, <1>5, <1>7, <1>8 DEF EachStepIsFirstAvailable
<1>10. Key[ordered[i]] < Key[p[i]]
  <2>1. p[i] \in Ids /\ ordered[i] \in Ids /\ p[i] # ordered[i]
    BY <1>1, <1>2, <1>3, <1>5
  <2>2. QED
    BY <1>9, <2>1, KeyAssumption
<1>11. QED
  BY <1>3, <1>5, <1>6, <1>10 DEF Precedes

(* The first member of a self-feeding set in an order would need another   *)
(* one before it.                                                          *)
LEMMA CyclicHasNoOrder ==
  ASSUME nodes \subseteq Ids, Abstract!Cyclic
  PROVE  TopologicalOrders = {}
<1> SUFFICES ASSUME NEW p \in TopologicalOrders PROVE FALSE
  OBVIOUS
<1>1. PICK S \in SUBSET nodes : S # {} /\ \A n \in S : \E m \in S : <<m, n>> \in edges
  BY DEF Abstract!Cyclic, Abstract!SelfFeeding
<1> DEFINE D == 1..Cardinality(nodes)
           T == {i \in D : p[i] \in S}
<1>2. /\ Cardinality(nodes) \in Nat
      /\ \A n \in nodes : \E i \in D : p[i] = n
      /\ \A i, j \in D : <<p[i], p[j]>> \in edges => i < j
  BY OrderProperties
<1>3. T \in SUBSET Nat /\ T # {}
  BY <1>1, <1>2
<1>4. PICK i \in T : \A j \in T : i <= j
  BY <1>3, FirstPosition
<1>5. PICK m \in S : <<m, p[i]>> \in edges
  BY <1>1, <1>4
<1>6. PICK j \in D : p[j] = m
  BY <1>1, <1>2, <1>5
<1>7. j < i /\ j \in T
  BY <1>2, <1>4, <1>5, <1>6
<1>8. QED
  BY <1>2, <1>4, <1>7

(* Whatever the heap did, the plan is the least of all topological orders  *)
(* of the IR, and a closed graph is rejected only when it has none.        *)
THEOREM LeastOrder == Spec => []PlanIsLeastOrder
<1>1. ASSUME IInv PROVE PlanIsLeastOrder
  <2>1. nodes \subseteq Ids
    BY <1>1 DEF IInv, TypeOK
  <2>2. status = "rejected" /\ Closed => TopologicalOrders = {}
    BY <1>1, <2>1, CyclicHasNoOrder DEF IInv, PhaseInv
  <2>3. QED
    BY <1>1, <2>2, PlanIsAnOrder, PlanPrecedes DEF PlanIsLeastOrder
<1>2. QED
  BY <1>1, Invariance, PTL

-----------------------------------------------------------------------------
(* The phases of the call, as TopologicalOrder sees them. *)
LEMMA InitRefines == Init => Abstract!Init
BY DEF Init, Abstract!Init

LEMMA StepRefines == IInv /\ [Next]_vars => [Abstract!Next]_(Abstract!vars)
<1> SUFFICES ASSUME IInv, [Next]_vars
             PROVE  [Abstract!Next]_(Abstract!vars)
  OBVIOUS
<1> USE DEF Abstract!vars
<1>1. CASE RejectUnknownNode
  <2>1. ordered' = ordered /\ ordered = <<>>
    BY <1>1 DEF RejectUnknownNode, IInv, PhaseInv
  <2>2. Abstract!Refuse
    BY <1>1, <2>1 DEF RejectUnknownNode, Abstract!Refuse, Abstract!Closed, Closed
  <2>3. QED
    BY <2>2 DEF Abstract!Next
<1>2. CASE StartSort
  BY <1>2 DEF StartSort
<1>3. ASSUME NEW n \in ready, Emit(n) PROVE Abstract!Next
  <2>1. /\ status = "sorting" /\ n \in nodes /\ n \notin Emitted
        /\ Predecessors(n) \subseteq Emitted /\ Closed
        /\ UNCHANGED <<nodes, edges, status>> /\ ordered' = Append(ordered, n)
    BY <1>3 DEF Emit, IInv, TypeOK, PhaseInv, CountsUnplacedPredecessors, ReadyIsAvailable
  <2>2. Abstract!Place(n)
    BY <2>1 DEF Abstract!Place, Abstract!Closed, Abstract!Placed, Emitted, Closed, Predecessors
  <2>3. QED
    BY <2>1, <2>2 DEF Abstract!Next
<1>4. CASE Finish
  <2>1. Emitted = nodes /\ Closed /\ status = "sorting" /\ status' = "planned"
        /\ UNCHANGED <<nodes, edges, ordered>>
    BY <1>4, FinishIsComplete DEF Finish, IInv, PhaseInv
  <2>2. Abstract!Accept
    BY <2>1 DEF Abstract!Accept, Abstract!Closed, Abstract!Placed, Emitted, Closed
  <2>3. QED
    BY <2>2 DEF Abstract!Next
<1>5. CASE RejectCycle
  <2>1. Abstract!Refuse
    BY <1>5, LeftoverIsCyclic DEF RejectCycle, Abstract!Refuse
  <2>2. QED
    BY <2>1 DEF Abstract!Next
<1>6. CASE Returned \/ UNCHANGED vars
  BY <1>6 DEF Returned, vars
<1>7. QED
  BY <1>1, <1>2, <1>3, <1>4, <1>5, <1>6 DEF Next

(* The heap-and-counter sort makes only the moves TopologicalOrder allows: *)
(* it places available nodes, accepts complete plans, and refuses only     *)
(* graphs that have none.                                                  *)
THEOREM Refinement == Spec => ImplementsTopologicalOrder
BY InitRefines, StepRefines, Invariance, PTL
   DEF Spec, ImplementsTopologicalOrder, Abstract!Spec
=============================================================================
