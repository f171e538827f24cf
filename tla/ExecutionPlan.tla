---------------------------- MODULE ExecutionPlan ----------------------------
(***************************************************************************)
(* compiler/planning.py: build_execution_plan over one IR, with networkx's *)
(* lexicographical_topological_sort (a heap of ready nodes and a map of    *)
(* the remaining in-degrees) as it is used there.                          *)
(***************************************************************************)
EXTENDS Naturals, Sequences, FiniteSets, SequencesExt

CONSTANTS
  Ids,                  \* every stable id an IR may mention
  Key                   \* the place of an id in the order of str

ASSUME IdsAssumption == IsFiniteSet(Ids)
ASSUME KeyAssumption ==
  /\ Key \in [Ids -> Nat]
  /\ \A m, n \in Ids : Key[m] = Key[n] => m = n

VARIABLES
  nodes,                \* {node.stable_id : node \in ir.nodes}
  edges,                \* <<source, target>> of every edge of ir.edges
  status,               \* "loading", "sorting", "planned" or "rejected"
  indegree,             \* indegree_map: unplaced predecessors, while positive
  ready,                \* zero_indegree: the heap
  ordered               \* the ids yielded so far

vars == <<nodes, edges, status, indegree, ready, ordered>>

Emitted == {ordered[i] : i \in DOMAIN ordered}

Predecessors(n) == {m \in nodes : <<m, n>> \in edges}
Children(n) == {c \in nodes : <<n, c>> \in edges}

Closed == edges \subseteq nodes \X nodes

Init ==
  /\ nodes \in SUBSET Ids
  /\ edges \in SUBSET (Ids \X Ids)
  /\ status = "loading"
  /\ indegree = [n \in {} |-> 0]
  /\ ready = {}
  /\ ordered = <<>>

(* An edge with an undeclared end raises CycleError before any sorting. *)
RejectUnknownNode ==
  /\ status = "loading"
  /\ ~Closed
  /\ status' = "rejected"
  /\ UNCHANGED <<nodes, edges, indegree, ready, ordered>>

(* Mutant: edge ends are not looked up among the nodes. *)
StartSortUnchecked ==
  /\ status = "loading"
  /\ status' = "sorting"
  /\ ready' = {n \in nodes : Predecessors(n) = {}}
  /\ indegree' = [n \in {m \in nodes : Predecessors(m) # {}} |->
                    Cardinality(Predecessors(n))]
  /\ UNCHANGED <<nodes, edges, ordered>>

(* The graph is complete; the sort counts in-degrees and fills its heap. *)
StartSort ==
  /\ status = "loading"
  /\ Closed
  /\ status' = "sorting"
  /\ ready' = {n \in nodes : Predecessors(n) = {}}
  /\ indegree' = [n \in {m \in nodes : Predecessors(m) # {}} |->
                    Cardinality(Predecessors(n))]
  /\ UNCHANGED <<nodes, edges, ordered>>

(* Mutant: a plain topological sort, whichever node comes first. *)
IsAny(n) == n \in ready

(* heappop: the ready node that sorts first. *)
IsLeast(n) == \A m \in ready : Key[n] <= Key[m]

(* Mutant: a child is released one predecessor too early. *)
EmitReleasingEarly(n) ==
  LET freed == {c \in Children(n) \cap DOMAIN indegree : indegree[c] \in {1, 2}}
  IN /\ status = "sorting"
     /\ n \in ready
     /\ IsLeast(n)
     /\ ordered' = Append(ordered, n)
     /\ ready' = (ready \ {n}) \cup freed
     /\ indegree' = [c \in DOMAIN indegree \ freed |->
                       IF c \in Children(n) THEN indegree[c] - 1 ELSE indegree[c]]
     /\ UNCHANGED <<nodes, edges, status>>

(* Mutant: a released child stays in indegree_map. *)
EmitKeepingFreed(n) ==
  /\ status = "sorting"
  /\ n \in ready
  /\ IsLeast(n)
  /\ ordered' = Append(ordered, n)
  /\ ready' = (ready \ {n}) \cup {c \in Children(n) : indegree[c] = 1}
  /\ indegree' = [c \in DOMAIN indegree |->
                    IF c \in Children(n) THEN indegree[c] - 1 ELSE indegree[c]]
  /\ UNCHANGED <<nodes, edges, status>>

(* Yield n and release the children whose last predecessor it was. *)
Emit(n) ==
  LET freed == {c \in Children(n) : indegree[c] = 1}
  IN /\ status = "sorting"
     /\ n \in ready
     /\ IsLeast(n)
     /\ ordered' = Append(ordered, n)
     /\ ready' = (ready \ {n}) \cup freed
     /\ indegree' = [c \in DOMAIN indegree \ freed |->
                       IF c \in Children(n) THEN indegree[c] - 1 ELSE indegree[c]]
     /\ UNCHANGED <<nodes, edges, status>>

(* The heap is empty and every node has been yielded. *)
Finish ==
  /\ status = "sorting"
  /\ ready = {}
  /\ DOMAIN indegree = {}
  /\ status' = "planned"
  /\ UNCHANGED <<nodes, edges, indegree, ready, ordered>>

(* Mutant: the prefix that was yielded is returned with the error. *)
RejectCycleKeepingPrefix ==
  /\ status = "sorting"
  /\ ready = {}
  /\ DOMAIN indegree # {}
  /\ status' = "rejected"
  /\ UNCHANGED <<nodes, edges, indegree, ready, ordered>>

(* Mutant: the sort is tried again when it fails. *)
RetryCycle ==
  /\ status = "sorting"
  /\ ready = {}
  /\ DOMAIN indegree # {}
  /\ status' = "loading"
  /\ ordered' = <<>>
  /\ UNCHANGED <<nodes, edges, indegree, ready>>

(* NetworkXUnfeasible becomes CycleError; tuple(...) drops what was yielded. *)
RejectCycle ==
  /\ status = "sorting"
  /\ ready = {}
  /\ DOMAIN indegree # {}
  /\ status' = "rejected"
  /\ ordered' = <<>>
  /\ UNCHANGED <<nodes, edges, indegree, ready>>

(* The call has returned. *)
Returned ==
  /\ status \in {"planned", "rejected"}
  /\ UNCHANGED vars

Next ==
  \/ RejectUnknownNode
  \/ StartSort
  \/ \E n \in ready : Emit(n)
  \/ Finish
  \/ RejectCycle
  \/ Returned

(* One synchronous call: the interpreter keeps taking its next step. *)
Fairness == WF_vars(Next)

Spec == Init /\ [][Next]_vars

-----------------------------------------------------------------------------
Abstract == INSTANCE TopologicalOrder WITH
  order <- ordered,
  verdict <- CASE status = "planned" -> "accepted"
               [] status = "rejected" -> "refused"
               [] OTHER -> "open"

(* The variables hold values of their types. *)
TypeOK ==
  /\ nodes \subseteq Ids
  /\ edges \subseteq Ids \X Ids
  /\ status \in {"loading", "sorting", "planned", "rejected"}
  /\ DOMAIN indegree \subseteq nodes
  /\ \A n \in DOMAIN indegree : indegree[n] \in Nat \ {0}
  /\ ready \subseteq nodes
  /\ ordered \in Seq(nodes)

(* A position of plan.json never precedes a step it lists among its        *)
(* dependencies, in the plan and in every prefix the sort has yielded.     *)
PlanRespectsDependencies ==
  \A i \in DOMAIN ordered : \A m \in Predecessors(ordered[i]) :
    \E j \in 1..(i - 1) : ordered[j] = m

(* A plan lists every node of the IR once; nothing is lost when a node is  *)
(* released twice or never.                                                *)
PlanIsComplete ==
  status = "planned" =>
    /\ Emitted = nodes
    /\ \A i, j \in DOMAIN ordered : ordered[i] = ordered[j] => i = j

(* CycleError is raised for the graphs that have no plan, and only them:   *)
(* an undeclared edge end, or a set of nodes that feeds itself.            *)
RejectedOnlyWithoutPlan ==
  /\ status = "planned" => Closed /\ ~Abstract!Cyclic
  /\ status = "rejected" => ~Closed \/ Abstract!Cyclic

(* The counts the sort keeps are the predecessors still to be placed, and  *)
(* looking a child up in indegree_map never fails with KeyError.           *)
CountsUnplacedPredecessors ==
  status = "sorting" =>
    /\ DOMAIN indegree = nodes \ (Emitted \cup ready)
    /\ ready \cap Emitted = {}
    /\ \A n \in DOMAIN indegree :
         indegree[n] = Cardinality(Predecessors(n) \ Emitted)
    /\ \A n \in ready : Children(n) \subseteq DOMAIN indegree

(* Every step takes the first, by stable id, of the nodes whose            *)
(* dependencies were already placed: the plan is a function of the IR and  *)
(* not of how its edges were enumerated.                                   *)
EachStepIsFirstAvailable ==
  \A i \in DOMAIN ordered : \A n \in nodes :
    LET before == {ordered[j] : j \in 1..(i - 1)}
    IN n \notin before /\ Predecessors(n) \subseteq before
         => Key[ordered[i]] <= Key[n]

(* The orders of all nodes, each once, in which every edge points ahead. *)
TopologicalOrders ==
  {p \in SetToSeqs(nodes) :
     \A i, j \in DOMAIN p : <<p[i], p[j]>> \in edges => i < j}

Precedes(p, q) ==
  \E i \in DOMAIN p : Key[p[i]] < Key[q[i]] /\ \A j \in 1..(i - 1) : p[j] = q[j]

(* Reference definition: the plan is the lexicographically least of all    *)
(* topological orders of the IR, and a closed graph is rejected only when  *)
(* it has no topological order at all.                                     *)
PlanIsLeastOrder ==
  /\ status = "planned" =>
       /\ ordered \in TopologicalOrders
       /\ \A p \in TopologicalOrders : p = ordered \/ Precedes(ordered, p)
  /\ status = "rejected" /\ Closed => TopologicalOrders = {}

(* build_execution_plan returns or raises; it never spins on a bad graph. *)
Terminates == <>(status \in {"planned", "rejected"})

(* The sort only ever makes the moves TopologicalOrder allows. *)
ImplementsTopologicalOrder == Abstract!Spec
=============================================================================
