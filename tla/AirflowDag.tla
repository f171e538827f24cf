----------------------------- MODULE AirflowDag -----------------------------
(***************************************************************************)
(* adapters/airflow.py validate and generate, and one run of the generated *)
(* DAG under Airflow.  An IR is a record                                   *)
(*   unsupported  the pipeline-wide fields validate refuses                *)
(*   nodes        stable id -> [kind, name, maxAttempts, action, stream]   *)
(*   edges        [source, target, kind]                                   *)
(* A stable id is a field of its own, which a direct caller may choose     *)
(* whatever kind and name are; only its order is looked at, as generate    *)
(* sorts whatever order the IR lists its nodes in.  Stable ids are taken   *)
(* to differ, which nothing in the adapter checks.                         *)
(***************************************************************************)
EXTENDS Integers, FiniteSets

CONSTANTS
  Urns,                 \* stable ids
  Names,
  PythonName,           \* _python_name: '-' and '_' coincide
  Key,                  \* the order of stable ids as strings
  Malformed             \* a retry policy that is not an integer maxAttempts

SupportedNodeKinds == {"source", "asset", "transformation", "quality", "anomaly"}
SupportedEdgeKinds == {"reads", "depends_on", "transforms", "validates", "observes"}
HeaderFields == {"contractApiVersion", "irVersion", "orchestrator", "schedule"}

ASSUME UrnsAssumption == IsFiniteSet(Urns)

ASSUME KeyAssumption ==
  /\ Key \in [Urns -> Nat]
  /\ \A m, n \in Urns : Key[m] = Key[n] => m = n

VARIABLES
  ir,
  phase,
  dag,                  \* the Python file: tasks by variable, dependencies
  manifest,             \* the manifest: tasks and lineage by stable id
  state,                \* Airflow: variable -> state of its task instance
  tries                 \* Airflow: variable -> attempts begun

vars == <<ir, phase, dag, manifest, state, tries>>

-----------------------------------------------------------------------------
(* What an IR may hold: its model checks shapes, model_copy checks nothing. *)
Attributes ==
  [kind : SupportedNodeKinds \cup {"other"}, name : Names,
   maxAttempts : Int \cup {Malformed}, action : {"fail", "other"}, stream : BOOLEAN]

IsIR(i) ==
  /\ i.unsupported \subseteq HeaderFields
  /\ DOMAIN i.nodes \subseteq Urns
  /\ \A n \in DOMAIN i.nodes : i.nodes[n] \in Attributes
  /\ \A e \in i.edges : {e.source, e.target} \subseteq Urns

-----------------------------------------------------------------------------
(* The kind keeps apart what names alone would not. *)
TaskId(node) == <<node.kind, PythonName[node.name]>>

IsRetryPolicy(p) == p # Malformed /\ p >= 1

(* Mutant: nodes are grouped by the names they were given. *)
CollideAsNamed(i) ==
  {n \in DOMAIN i.nodes : \E m \in DOMAIN i.nodes \ {n} :
     i.nodes[m].kind = i.nodes[n].kind /\ i.nodes[m].name = i.nodes[n].name}

(* The nodes that share their task id with another. *)
Collide(i) ==
  {n \in DOMAIN i.nodes : \E m \in DOMAIN i.nodes \ {n} : TaskId(i.nodes[m]) = TaskId(i.nodes[n])}

NodeViolations(i, n) ==
  {code \in {"unsupported_node_kind", "unsupported_failure_policy",
             "unsupported_retry_policy", "streaming_not_supported"} :
     \/ code = "unsupported_node_kind" /\ i.nodes[n].kind \notin SupportedNodeKinds
     \/ code = "unsupported_failure_policy" /\ i.nodes[n].action # "fail"
     \/ code = "unsupported_retry_policy" /\ ~IsRetryPolicy(i.nodes[n].maxAttempts)
     \/ code = "streaming_not_supported" /\ i.nodes[n].kind = "source" /\ i.nodes[n].stream}

EdgeViolations(i, e) ==
  {code \in {"unsupported_edge_kind", "unresolved_edge"} :
     \/ code = "unsupported_edge_kind" /\ e.kind \notin SupportedEdgeKinds
     \/ code = "unresolved_edge" /\ ~({e.source, e.target} \subseteq DOMAIN i.nodes)}

(* validate: every violation, with what it is about. *)
Violations(i) ==
  {<<"unsupported", f>> : f \in i.unsupported}
    \cup (UNION {NodeViolations(i, n) \X {n} : n \in DOMAIN i.nodes})
    \cup {<<"task_id_collision", TaskId(i.nodes[n])>> : n \in Collide(i)}
    \cup (UNION {EdgeViolations(i, e) \X {e} : e \in i.edges})

-----------------------------------------------------------------------------
(* Mutant: Airflow is told the attempts for the retries. *)
RetriesAsAttempts(node) == node.maxAttempts

(* maxAttempts counts the first attempt, Airflow's retries do not. *)
Retries(node) == node.maxAttempts - 1

(* The number in task_000 and node_000: the place among the sorted nodes. *)
Index(i, n) == Cardinality({m \in DOMAIN i.nodes : Key[m] < Key[n]})

Variables(i) == {Index(i, n) : n \in DOMAIN i.nodes}

NodeAt(i, v) == CHOOSE n \in DOMAIN i.nodes : Index(i, n) = v

(* The file executed: one task per variable, one >> per edge. *)
RenderDag(i) ==
  [tasks |-> [v \in Variables(i) |->
                LET node == i.nodes[NodeAt(i, v)]
                IN [taskId |-> TaskId(node), retries |-> Retries(node)]],
   dependencies |-> {<<Index(i, e.source), Index(i, e.target)>> : e \in i.edges}]

TaskMetadata(i, n) ==
  [stableId |-> n, taskId |-> TaskId(i.nodes[n]), retries |-> Retries(i.nodes[n]),
   qualityGate |-> i.nodes[n].kind = "quality"]

LineageMetadata(i, e) ==
  [kind |-> e.kind, upstream |-> e.source, downstream |-> e.target,
   upstreamTask |-> TaskId(i.nodes[e.source]), downstreamTask |-> TaskId(i.nodes[e.target])]

Manifest(i) ==
  [tasks |-> {TaskMetadata(i, n) : n \in DOMAIN i.nodes},
   lineage |-> {LineageMetadata(i, e) : e \in i.edges}]

-----------------------------------------------------------------------------
Init ==
  /\ IsIR(ir)
  /\ phase = "compiled"
  /\ dag = [tasks |-> [v \in {} |-> 0], dependencies |-> {}]
  /\ manifest = [tasks |-> {}, lineage |-> {}]
  /\ state = [v \in {} |-> "none"]
  /\ tries = [v \in {} |-> 0]

(* UnsupportedSemanticsError, which ends the command. *)
Refuse ==
  /\ phase = "compiled"
  /\ Violations(ir) # {}
  /\ phase' = "refused"
  /\ UNCHANGED <<ir, dag, manifest, state, tries>>

(* Mutant: generate relies on its caller to have validated. *)
GenerateUnchecked ==
  /\ phase = "compiled"
  /\ \A e \in ir.edges : {e.source, e.target} \subseteq DOMAIN ir.nodes
  /\ \A n \in DOMAIN ir.nodes : ir.nodes[n].maxAttempts # Malformed
  /\ phase' = "generated"
  /\ dag' = RenderDag(ir)
  /\ manifest' = Manifest(ir)
  /\ UNCHANGED <<ir, state, tries>>

Generate ==
  /\ phase = "compiled"
  /\ Violations(ir) = {}
  /\ phase' = "generated"
  /\ dag' = RenderDag(ir)
  /\ manifest' = Manifest(ir)
  /\ UNCHANGED <<ir, state, tries>>

Tasks == DOMAIN dag.tasks

Upstream(v) == {u \in Tasks : <<u, v>> \in dag.dependencies}

(* Airflow refuses to import a file whose >> chains close a cycle: tasks   *)
(* each of which waits for another of them, or for itself.                 *)
Cycles == {vs \in SUBSET Tasks \ {{}} : \A v \in vs : Upstream(v) \cap vs # {}}

(* Airflow: a run is triggered, by its schedule or by hand. *)
StartRun ==
  /\ phase = "generated"
  /\ Cycles = {}
  /\ phase' = "running"
  /\ state' = [v \in Tasks |-> "none"]
  /\ tries' = [v \in Tasks |-> 0]
  /\ UNCHANGED <<ir, dag, manifest>>

(* Trigger rule all_success: every upstream task has succeeded. *)
StartTask(v) ==
  /\ phase = "running"
  /\ state[v] \in {"none", "up_for_retry"}
  /\ \A u \in Upstream(v) : state[u] = "success"
  /\ state' = [state EXCEPT ![v] = "running"]
  /\ tries' = [tries EXCEPT ![v] = tries[v] + 1]
  /\ UNCHANGED <<ir, phase, dag, manifest>>

(* Mutant: the body of a task does nothing. *)
BodyPasses(v) ==
  /\ phase = "running"
  /\ state[v] = "running"
  /\ state' = [state EXCEPT ![v] = "success"]
  /\ UNCHANGED <<ir, phase, dag, manifest, tries>>

(* Every body raises RuntimeError; for the scheduler a worker that dies is *)
(* the same: another try while the task has retries.                       *)
BodyRaises(v) ==
  /\ phase = "running"
  /\ state[v] = "running"
  /\ state' = [state EXCEPT ![v] =
                 IF tries[v] <= dag.tasks[v].retries THEN "up_for_retry" ELSE "failed"]
  /\ UNCHANGED <<ir, phase, dag, manifest, tries>>

(* A task below a failed one is not tried. *)
UpstreamFails(v) ==
  /\ phase = "running"
  /\ state[v] = "none"
  /\ \E u \in Upstream(v) : state[u] \in {"failed", "upstream_failed"}
  /\ state' = [state EXCEPT ![v] = "upstream_failed"]
  /\ UNCHANGED <<ir, phase, dag, manifest, tries>>

Leaves == {v \in Tasks : \A w \in Tasks : v \notin Upstream(w)}

(* The leaves of the DAG decide what becomes of its run. *)
EndRun ==
  /\ phase = "running"
  /\ \A v \in Tasks : state[v] \in {"success", "failed", "upstream_failed"}
  /\ phase' = IF \E v \in Leaves : state[v] # "success" THEN "failed" ELSE "success"
  /\ UNCHANGED <<ir, dag, manifest, state, tries>>

Ended ==
  \/ phase \in {"refused", "failed", "success"}
  \/ phase = "generated" /\ Cycles # {}

Exit ==
  /\ Ended
  /\ UNCHANGED vars

RunStep ==
  \/ \E v \in DOMAIN state :
       \/ StartTask(v)
       \/ BodyRaises(v)
       \/ UpstreamFails(v)
  \/ EndRun

Next ==
  \/ Refuse
  \/ Generate
  \/ StartRun
  \/ RunStep
  \/ Exit

(* Airflow keeps a run that was started going; nobody has to start one. *)
Fairness == WF_vars(RunStep)

Spec == Init /\ [][Next]_vars /\ Fairness

-----------------------------------------------------------------------------
Generated == phase \notin {"compiled", "refused"}

(* What the template makes of an IR: tasks of the numbered variables, with *)
(* retry counts, and every >> between two of them.  That they close no     *)
(* cycle is not promised: the compiler refuses cycles, the adapter does    *)
(* not look for them.                                                      *)
IsRendered(d) ==
  /\ DOMAIN d.tasks \subseteq 0..(Cardinality(DOMAIN ir.nodes) - 1)
  /\ \A v \in DOMAIN d.tasks : d.tasks[v].retries \in Nat
  /\ d.dependencies \subseteq (DOMAIN d.tasks) \X (DOMAIN d.tasks)

States == {"none", "running", "up_for_retry", "success", "failed", "upstream_failed"}

TypeOK ==
  /\ IsIR(ir)
  /\ phase \in {"compiled", "refused", "generated", "running", "failed", "success"}
  /\ Generated => IsRendered(dag)
  /\ DOMAIN state = DOMAIN tries
  /\ DOMAIN state = IF phase \in {"running", "failed", "success"} THEN Tasks ELSE {}
  /\ \A v \in DOMAIN state : state[v] \in States /\ tries[v] \in Nat

Arcs == {<<e.source, e.target>> : e \in ir.edges}

(* What the manifest calls the node of a task. *)
StableIds(taskId) == {t.stableId : t \in {u \in manifest.tasks : u.taskId = taskId}}

(* RFC-0004: the DAG is the IR.  Read back through the manifest, each task *)
(* of the Python file is one node and each >> between two tasks one arc of *)
(* the IR, none lost and none added, and the manifest says of task and     *)
(* lineage what the file says.                                             *)
DagIsTheIR ==
  Generated =>
    LET IdOf(v) == dag.tasks[v].taskId
    IN /\ \A v \in Tasks : \E n \in DOMAIN ir.nodes : StableIds(IdOf(v)) = {n}
       /\ UNION {StableIds(IdOf(v)) : v \in Tasks} = DOMAIN ir.nodes
       /\ UNION {StableIds(IdOf(d[1])) \X StableIds(IdOf(d[2])) : d \in dag.dependencies} = Arcs
       /\ {<<l.upstreamTask, l.downstreamTask>> : l \in manifest.lineage}
            = {<<IdOf(d[1]), IdOf(d[2])>> : d \in dag.dependencies}
       /\ {<<t.taskId, t.retries>> : t \in manifest.tasks}
            = {<<IdOf(v), dag.tasks[v].retries>> : v \in Tasks}

(* RFC-0004: "retry count is maxAttempts - 1, preserving the difference    *)
(* between attempts and retries": a run gives up on a task after exactly   *)
(* the declared attempts, and tries nothing whose dependencies in the IR   *)
(* have not all succeeded, so that no check runs over data never built.    *)
AttemptsAreDeclared ==
  \A n \in DOMAIN ir.nodes :
    LET v == Index(ir, n)
    IN v \in DOMAIN state =>
         /\ tries[v] <= ir.nodes[n].maxAttempts
         /\ state[v] = "failed" => tries[v] = ir.nodes[n].maxAttempts
         /\ tries[v] > 0 => \A a \in Arcs : a[2] = n => state[Index(ir, a[1])] = "success"

(* RFC-0004: the scaffold "prevents an incomplete no-op pipeline from      *)
(* reporting false success": every run that has a task to try ends, and    *)
(* fails.  (The run of an IR without nodes has none, and succeeds.)        *)
RunsFail == phase = "running" /\ Tasks # {} ~> phase = "failed"
=============================================================================
