--------------------------- MODULE MCExecutionPlan ---------------------------
(* Instances of ExecutionPlan for TLC: stable ids are 1..N, sorted as numbers. *)
EXTENDS ExecutionPlan

CONSTANT N              \* bound: how many stable ids there are

MCIds == 1..N
MCKey == [n \in MCIds |-> n]

(* Every set of declared nodes with every set of edges over three ids, and *)
(* over all N ids the graphs without self-loops.                           *)
MCInit ==
  /\ Init
  /\ \/ edges \subseteq (1..3) \X (1..3) /\ nodes \subseteq 1..3
     \/ nodes = Ids /\ \A n \in Ids : <<n, n>> \notin edges

MCSpec == MCInit /\ [][Next]_vars /\ Fairness
=============================================================================
