-------------------------- MODULE TopologicalOrder --------------------------
(***************************************************************************)
(* What a reader of plan.json may rely on, whatever algorithm produced it: *)
(* nodes are placed one at a time, each after everything it depends on; a  *)
(* plan is accepted when it is complete, and a graph is refused only when  *)
(* no complete plan exists.  ExecutionPlan implements this specification.  *)
(***************************************************************************)
EXTENDS Naturals, Sequences

CONSTANT Ids            \* every stable id an IR may mention

VARIABLES
  nodes,                \* stable ids of the nodes the IR declares
  edges,                \* <<source, target>> pairs of the IR's edges
  order,                \* the ids placed so far
  verdict               \* "open", "accepted" or "refused"

vars == <<nodes, edges, order, verdict>>

Placed == {order[i] : i \in DOMAIN order}

(* Every edge joins two declared nodes. *)
Closed == edges \subseteq nodes \X nodes

(* Some nonempty set of nodes feeds itself: none of its members can be the *)
(* first of them to be placed.  For a finite graph this is a cycle.        *)
SelfFeeding(S) ==
  /\ S # {}
  /\ \A n \in S : \E m \in S : <<m, n>> \in edges

Cyclic == \E S \in SUBSET nodes : SelfFeeding(S)

Init ==
  /\ nodes \in SUBSET Ids
  /\ edges \in SUBSET (Ids \X Ids)
  /\ order = <<>>
  /\ verdict = "open"

Place(n) ==
  /\ verdict = "open"
  /\ Closed
  /\ n \notin Placed
  /\ \A m \in nodes : <<m, n>> \in edges => m \in Placed
  /\ order' = Append(order, n)
  /\ UNCHANGED <<nodes, edges, verdict>>

Accept ==
  /\ verdict = "open"
  /\ Closed
  /\ Placed = nodes
  /\ verdict' = "accepted"
  /\ UNCHANGED <<nodes, edges, order>>

(* A refusal discards whatever had been placed. *)
Refuse ==
  /\ verdict = "open"
  /\ ~Closed \/ Cyclic
  /\ verdict' = "refused"
  /\ order' = <<>>
  /\ UNCHANGED <<nodes, edges>>

Next ==
  \/ \E n \in nodes : Place(n)
  \/ Accept
  \/ Refuse

Spec == Init /\ [][Next]_vars
=============================================================================
