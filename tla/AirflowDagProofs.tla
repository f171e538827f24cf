-------------------------- MODULE AirflowDagProofs --------------------------
(***************************************************************************)
(* For any finite set of stable ids and any IR over it: what validate lets *)
(* pass is rendered without loss, and a run of the DAG keeps to the        *)
(* declared attempts.                                                      *)
(***************************************************************************)
EXTENDS AirflowDag, FiniteSetTheorems, TLAPS

-----------------------------------------------------------------------------
(* The numbering of the nodes. *)
Below(i, n) == {m \in DOMAIN i.nodes : Key[m] < Key[n]}

(* An IR has finitely many nodes. *)
LEMMA NodesFinite ==
  ASSUME NEW i, IsIR(i)
  PROVE  IsFiniteSet(DOMAIN i.nodes)
  BY UrnsAssumption, FS_Subset DEF IsIR

(* A node's number is one of 0 .. n-1 for n nodes. *)
LEMMA IndexRange ==
  ASSUME NEW i, IsIR(i), NEW n \in DOMAIN i.nodes
  PROVE  Index(i, n) \in 0..(Cardinality(DOMAIN i.nodes) - 1)
<1>1. IsFiniteSet(DOMAIN i.nodes) BY NodesFinite
<1>2. Below(i, n) \in SUBSET (DOMAIN i.nodes) BY DEF Below
<1>3. n \notin Below(i, n)
  BY KeyAssumption DEF Below, IsIR
<1>4. IsFiniteSet(Below(i, n)) BY <1>1, <1>2, FS_Subset
<1>5. /\ Cardinality(Below(i, n)) <= Cardinality(DOMAIN i.nodes)
      /\ Cardinality(DOMAIN i.nodes) = Cardinality(Below(i, n)) => DOMAIN i.nodes = Below(i, n)
  BY <1>1, <1>2, FS_Subset
<1>6. Cardinality(Below(i, n)) \in Nat /\ Cardinality(DOMAIN i.nodes) \in Nat
  BY <1>1, <1>4, FS_CardinalityType
<1>7. Cardinality(Below(i, n)) # Cardinality(DOMAIN i.nodes)
  BY <1>3, <1>5
<1>8. Index(i, n) = Cardinality(Below(i, n)) BY DEF Index, Below
<1> QED
  BY <1>5, <1>6, <1>7, <1>8

(* Numbers follow the order of stable ids. *)
LEMMA IndexMonotone ==
  ASSUME NEW i, IsIR(i), NEW m \in DOMAIN i.nodes, NEW n \in DOMAIN i.nodes, Key[m] < Key[n]
  PROVE  Index(i, m) < Index(i, n)
<1>1. IsFiniteSet(DOMAIN i.nodes) BY NodesFinite
<1>2. IsFiniteSet(Below(i, n)) BY <1>1, FS_Subset DEF Below
<1>3. \A k \in DOMAIN i.nodes : Key[k] \in Nat
  BY KeyAssumption DEF IsIR
<1>4. Below(i, m) \in SUBSET Below(i, n)
  BY <1>3 DEF Below
<1>5. m \in Below(i, n) /\ m \notin Below(i, m)
  BY <1>3 DEF Below
<1>6. IsFiniteSet(Below(i, m)) BY <1>2, <1>4, FS_Subset
<1>7. /\ Cardinality(Below(i, m)) <= Cardinality(Below(i, n))
      /\ Cardinality(Below(i, m)) # Cardinality(Below(i, n))
  BY <1>2, <1>4, <1>5, FS_Subset
<1>8. Cardinality(Below(i, m)) \in Nat /\ Cardinality(Below(i, n)) \in Nat
  BY <1>2, <1>6, FS_CardinalityType
<1>9. Index(i, m) = Cardinality(Below(i, m)) /\ Index(i, n) = Cardinality(Below(i, n))
  BY DEF Index, Below
<1> QED
  BY <1>7, <1>8, <1>9

(* No two nodes share a number: task_000 is one node. *)
LEMMA IndexInjective ==
  ASSUME NEW i, IsIR(i), NEW m \in DOMAIN i.nodes, NEW n \in DOMAIN i.nodes,
         Index(i, m) = Index(i, n)
  PROVE  m = n
<1>1. Key[m] \in Nat /\ Key[n] \in Nat /\ m \in Urns /\ n \in Urns
  BY KeyAssumption DEF IsIR
<1>2. Index(i, m) \in Int /\ Index(i, n) \in Int
  BY IndexRange
<1>3. ~(Key[m] < Key[n])
  BY <1>2, IndexMonotone
<1>4. ~(Key[n] < Key[m])
  BY <1>2, IndexMonotone
<1>5. Key[m] = Key[n]
  BY <1>1, <1>3, <1>4
<1> QED
  BY <1>1, <1>5, KeyAssumption

(* The node read back from its number. *)
LEMMA NodeAtIndex ==
  ASSUME NEW i, IsIR(i), NEW n \in DOMAIN i.nodes
  PROVE  NodeAt(i, Index(i, n)) = n
<1> DEFINE k == NodeAt(i, Index(i, n))
<1>1. k \in DOMAIN i.nodes /\ Index(i, k) = Index(i, n)
  BY DEF NodeAt
<1> QED
  BY <1>1, IndexInjective

-----------------------------------------------------------------------------
(* What validate promises of the IRs it lets pass. *)
LEMMA NodesAreSupported ==
  ASSUME NEW i, IsIR(i), Violations(i) = {}, NEW n \in DOMAIN i.nodes
  PROVE  i.nodes[n].maxAttempts \in Nat /\ i.nodes[n].maxAttempts >= 1
<1>1. NodeViolations(i, n) \X {n} = {}
  BY DEF Violations
<1>2. NodeViolations(i, n) = {}
  <2>1. ASSUME NEW c \in NodeViolations(i, n) PROVE FALSE
    <3>1. <<c, n>> \in NodeViolations(i, n) \X {n} OBVIOUS
    <3> QED BY <1>1, <3>1
  <2> QED BY <2>1
<1>3. IsRetryPolicy(i.nodes[n].maxAttempts)
  <2>1. SUFFICES ASSUME ~IsRetryPolicy(i.nodes[n].maxAttempts) PROVE FALSE
    OBVIOUS
  <2>2. "unsupported_retry_policy" \in NodeViolations(i, n)
    BY <2>1 DEF NodeViolations
  <2> QED BY <1>2, <2>2
<1>4. i.nodes[n] \in Attributes
  BY DEF IsIR
<1> QED
  BY <1>3, <1>4 DEF IsRetryPolicy, Attributes

LEMMA EdgesResolve ==
  ASSUME NEW i, IsIR(i), Violations(i) = {}, NEW e \in i.edges
  PROVE  e.source \in DOMAIN i.nodes /\ e.target \in DOMAIN i.nodes
<1>1. EdgeViolations(i, e) \X {e} = {}
  BY DEF Violations
<1>2. EdgeViolations(i, e) = {}
  <2>1. ASSUME NEW c \in EdgeViolations(i, e) PROVE FALSE
    <3>1. <<c, e>> \in EdgeViolations(i, e) \X {e} OBVIOUS
    <3> QED BY <1>1, <3>1
  <2> QED BY <2>1
<1>3. SUFFICES ASSUME ~({e.source, e.target} \subseteq DOMAIN i.nodes) PROVE FALSE
  OBVIOUS
<1>4. "unresolved_edge" \in EdgeViolations(i, e)
  BY <1>3 DEF EdgeViolations
<1> QED
  BY <1>2, <1>4

LEMMA TaskIdsDiffer ==
  ASSUME NEW i, Violations(i) = {}, NEW m \in DOMAIN i.nodes, NEW n \in DOMAIN i.nodes,
         TaskId(i.nodes[m]) = TaskId(i.nodes[n])
  PROVE  m = n
<1>1. Collide(i) = {}
  <2>1. ASSUME NEW k \in Collide(i) PROVE FALSE
    <3>1. <<"task_id_collision", TaskId(i.nodes[k])>> \in Violations(i)
      BY <2>1 DEF Violations
    <3> QED BY <3>1
  <2> QED BY <2>1
<1> QED
  BY <1>1 DEF Collide

-----------------------------------------------------------------------------
(* What generate makes of them. *)
LEMMA TaskOfNode ==
  ASSUME NEW i, IsIR(i), NEW n \in DOMAIN i.nodes
  PROVE  /\ Index(i, n) \in DOMAIN RenderDag(i).tasks
         /\ RenderDag(i).tasks[Index(i, n)].taskId = TaskId(i.nodes[n])
         /\ RenderDag(i).tasks[Index(i, n)].retries = Retries(i.nodes[n])
<1>1. Index(i, n) \in Variables(i) BY DEF Variables
<1>2. NodeAt(i, Index(i, n)) = n BY NodeAtIndex
<1> QED
  BY <1>1, <1>2 DEF RenderDag

LEMMA NodeOfTask ==
  ASSUME NEW i, NEW v \in DOMAIN RenderDag(i).tasks
  PROVE  \E n \in DOMAIN i.nodes : Index(i, n) = v
  BY DEF RenderDag, Variables

LEMMA WhatIsRendered ==
  ASSUME NEW i, IsIR(i), Violations(i) = {}
  PROVE  LET d == RenderDag(i)
         IN /\ DOMAIN d.tasks \subseteq 0..(Cardinality(DOMAIN i.nodes) - 1)
            /\ \A v \in DOMAIN d.tasks : d.tasks[v].retries \in Nat
            /\ d.dependencies \subseteq (DOMAIN d.tasks) \X (DOMAIN d.tasks)
<1> DEFINE d == RenderDag(i)
<1>1. DOMAIN d.tasks \subseteq 0..(Cardinality(DOMAIN i.nodes) - 1)
  BY NodeOfTask, IndexRange
<1>2. ASSUME NEW v \in DOMAIN d.tasks PROVE d.tasks[v].retries \in Nat
  <2>1. PICK n \in DOMAIN i.nodes : Index(i, n) = v BY <1>2, NodeOfTask
  <2>2. d.tasks[v].retries = Retries(i.nodes[n]) BY <2>1, TaskOfNode
  <2>3. i.nodes[n].maxAttempts \in Nat /\ i.nodes[n].maxAttempts >= 1 BY NodesAreSupported
  <2> QED BY <2>2, <2>3 DEF Retries
<1>3. ASSUME NEW a \in d.dependencies PROVE a \in (DOMAIN d.tasks) \X (DOMAIN d.tasks)
  <2>1. PICK e \in i.edges : a = <<Index(i, e.source), Index(i, e.target)>>
    BY <1>3 DEF RenderDag
  <2>2. e.source \in DOMAIN i.nodes /\ e.target \in DOMAIN i.nodes BY EdgesResolve
  <2> QED BY <2>1, <2>2, TaskOfNode
<1> QED
  BY <1>1, <1>2, <1>3

(* The manifest names one node for each task id. *)
LEMMA ManifestNamesOne ==
  ASSUME NEW i, IsIR(i), Violations(i) = {}, manifest = Manifest(i), NEW n \in DOMAIN i.nodes
  PROVE  StableIds(TaskId(i.nodes[n])) = {n}
<1>1. manifest.tasks = {TaskMetadata(i, m) : m \in DOMAIN i.nodes}
  BY DEF Manifest
<1>2. \A m \in DOMAIN i.nodes :
        TaskMetadata(i, m).stableId = m /\ TaskMetadata(i, m).taskId = TaskId(i.nodes[m])
  BY DEF TaskMetadata
<1>3. n \in StableIds(TaskId(i.nodes[n]))
  BY <1>1, <1>2 DEF StableIds
<1>4. ASSUME NEW k \in StableIds(TaskId(i.nodes[n])) PROVE k = n
  <2>1. PICK t \in manifest.tasks : t.taskId = TaskId(i.nodes[n]) /\ k = t.stableId
    BY <1>4 DEF StableIds
  <2>2. PICK m \in DOMAIN i.nodes : t = TaskMetadata(i, m) BY <1>1
  <2>3. TaskId(i.nodes[m]) = TaskId(i.nodes[n]) /\ k = m BY <1>2, <2>1, <2>2
  <2> QED BY <2>3, TaskIdsDiffer
<1> QED
  BY <1>3, <1>4

LEMMA RenderIsTheIR ==
  ASSUME IsIR(ir), Violations(ir) = {}, dag = RenderDag(ir), manifest = Manifest(ir)
  PROVE  DagIsTheIR
<1> DEFINE IdOf(v) == dag.tasks[v].taskId
           I(n) == Index(ir, n)
<1>1. ASSUME NEW n \in DOMAIN ir.nodes
      PROVE  /\ I(n) \in Tasks
             /\ IdOf(I(n)) = TaskId(ir.nodes[n])
             /\ dag.tasks[I(n)].retries = Retries(ir.nodes[n])
             /\ StableIds(IdOf(I(n))) = {n}
  BY <1>1, TaskOfNode, ManifestNamesOne DEF Tasks
<1>2. \A v \in Tasks : \E n \in DOMAIN ir.nodes : I(n) = v
  BY NodeOfTask DEF Tasks
<1>3. \A v \in Tasks : \E n \in DOMAIN ir.nodes : StableIds(IdOf(v)) = {n}
  BY <1>1, <1>2
<1>4. (UNION {StableIds(IdOf(v)) : v \in Tasks}) = DOMAIN ir.nodes
  <2>1. ASSUME NEW n \in DOMAIN ir.nodes PROVE n \in UNION {StableIds(IdOf(v)) : v \in Tasks}
    BY <1>1, <2>1
  <2>2. ASSUME NEW n \in UNION {StableIds(IdOf(v)) : v \in Tasks} PROVE n \in DOMAIN ir.nodes
    BY <1>3, <2>2
  <2> QED BY <2>1, <2>2
<1>5. \A e \in ir.edges : e.source \in DOMAIN ir.nodes /\ e.target \in DOMAIN ir.nodes
  BY EdgesResolve
<1>6. dag.dependencies = {<<I(e.source), I(e.target)>> : e \in ir.edges}
  BY DEF RenderDag
<1>7. (UNION {StableIds(IdOf(d[1])) \X StableIds(IdOf(d[2])) : d \in dag.dependencies}) = Arcs
  <2> DEFINE Pair(d) == StableIds(IdOf(d[1])) \X StableIds(IdOf(d[2]))
  <2>1. ASSUME NEW e \in ir.edges
        PROVE  Pair(<<I(e.source), I(e.target)>>) = {<<e.source, e.target>>}
    <3>1. /\ StableIds(IdOf(I(e.source))) = {e.source}
          /\ StableIds(IdOf(I(e.target))) = {e.target}
      BY <1>1, <1>5
    <3>2. Pair(<<I(e.source), I(e.target)>>) = {e.source} \X {e.target} BY <3>1
    <3> HIDE DEF Pair, I
    <3>3. {e.source} \X {e.target} = {<<e.source, e.target>>} OBVIOUS
    <3> QED BY <3>2, <3>3
  <2>2. ASSUME NEW a \in Arcs PROVE a \in UNION {Pair(d) : d \in dag.dependencies}
    <3>1. PICK e \in ir.edges : a = <<e.source, e.target>> BY <2>2 DEF Arcs
    <3>2. <<I(e.source), I(e.target)>> \in dag.dependencies BY <1>6
    <3> HIDE DEF Pair
    <3> QED BY <2>1, <3>1, <3>2
  <2>3. ASSUME NEW a \in UNION {Pair(d) : d \in dag.dependencies} PROVE a \in Arcs
    <3> HIDE DEF Pair
    <3>1. PICK d \in dag.dependencies : a \in Pair(d) BY <2>3
    <3>2. PICK e \in ir.edges : d = <<I(e.source), I(e.target)>> BY <1>6
    <3>3. a = <<e.source, e.target>> BY <2>1, <3>1, <3>2
    <3> QED BY <3>3 DEF Arcs
  <2> QED BY <2>2, <2>3
<1>8. {<<l.upstreamTask, l.downstreamTask>> : l \in manifest.lineage}
        = {<<IdOf(d[1]), IdOf(d[2])>> : d \in dag.dependencies}
  <2> DEFINE Line(l) == <<l.upstreamTask, l.downstreamTask>>
             Ids(d) == <<IdOf(d[1]), IdOf(d[2])>>
             Arrow(e) == <<I(e.source), I(e.target)>>
             Named(e) == <<TaskId(ir.nodes[e.source]), TaskId(ir.nodes[e.target])>>
  <2>1. manifest.lineage = {LineageMetadata(ir, e) : e \in ir.edges} BY DEF Manifest
  <2>2. \A e \in ir.edges : Line(LineageMetadata(ir, e)) = Named(e) BY DEF LineageMetadata
  <2>3. \A e \in ir.edges : Ids(Arrow(e)) = Named(e) BY <1>1, <1>5
  <2>4. dag.dependencies = {Arrow(e) : e \in ir.edges} BY <1>6
  <2> HIDE DEF Line, Ids, Arrow, Named
  <2>5. {Line(l) : l \in manifest.lineage} = {Named(e) : e \in ir.edges} BY <2>1, <2>2
  <2>6. {Ids(d) : d \in dag.dependencies} = {Named(e) : e \in ir.edges} BY <2>3, <2>4
  <2> QED BY <2>5, <2>6 DEF Line, Ids
<1>9. {<<t.taskId, t.retries>> : t \in manifest.tasks}
        = {<<IdOf(v), dag.tasks[v].retries>> : v \in Tasks}
  <2> DEFINE OfTask(t) == <<t.taskId, t.retries>>
             OfVariable(v) == <<IdOf(v), dag.tasks[v].retries>>
             OfNode(n) == <<TaskId(ir.nodes[n]), Retries(ir.nodes[n])>>
  <2>1. manifest.tasks = {TaskMetadata(ir, n) : n \in DOMAIN ir.nodes} BY DEF Manifest
  <2>2. \A n \in DOMAIN ir.nodes : OfTask(TaskMetadata(ir, n)) = OfNode(n) BY DEF TaskMetadata
  <2>3. \A n \in DOMAIN ir.nodes : I(n) \in Tasks /\ OfVariable(I(n)) = OfNode(n) BY <1>1
  <2> HIDE DEF OfTask, OfVariable, OfNode, I
  <2>4. {OfTask(t) : t \in manifest.tasks} = {OfNode(n) : n \in DOMAIN ir.nodes}
    BY <2>1, <2>2
  <2>5. {OfVariable(v) : v \in Tasks} = {OfNode(n) : n \in DOMAIN ir.nodes}
    BY <1>2, <2>3
  <2> QED BY <2>4, <2>5 DEF OfTask, OfVariable
<1> QED
  BY <1>3, <1>4, <1>7, <1>8, <1>9 DEF DagIsTheIR

-----------------------------------------------------------------------------
(* The inductive invariant. *)
FilesAreRendered ==
  Generated => Violations(ir) = {} /\ dag = RenderDag(ir) /\ manifest = Manifest(ir)

(* What the attempts of a task say of its state. *)
AttemptsFit ==
  \A v \in DOMAIN state :
    LET r == dag.tasks[v].retries
    IN /\ tries[v] <= r + 1
       /\ state[v] = "none" => tries[v] = 0
       /\ state[v] = "up_for_retry" => tries[v] <= r
       /\ state[v] = "failed" => tries[v] = r + 1

(* A task that was tried has nothing before it that has not succeeded. *)
TriedAfterUpstream ==
  \A v \in DOMAIN state :
    tries[v] > 0 => \A u \in Upstream(v) : u \in DOMAIN state /\ state[u] = "success"

IInv ==
  /\ TypeOK
  /\ FilesAreRendered
  /\ AttemptsFit
  /\ TriedAfterUpstream

LEMMA InitIInv == Init => IInv
  BY DEF Init, IInv, TypeOK, FilesAreRendered, AttemptsFit, TriedAfterUpstream, Generated

LEMMA RefuseIInv ==
  ASSUME IInv, Refuse
  PROVE  IInv'
  BY DEF Refuse, IInv, TypeOK, FilesAreRendered, AttemptsFit, TriedAfterUpstream, Generated

LEMMA GenerateIInv ==
  ASSUME IInv, Generate
  PROVE  IInv'
<1>1. IsIR(ir) /\ ir' = ir /\ DOMAIN state = {} /\ DOMAIN tries = {}
  BY DEF Generate, IInv, TypeOK
<1>2. IsRendered(dag)'
  BY <1>1, WhatIsRendered DEF Generate, IsRendered
<1>3. TypeOK'
  BY <1>1, <1>2 DEF Generate, TypeOK, Generated
<1>4. FilesAreRendered'
  BY <1>1 DEF Generate, FilesAreRendered
<1> QED
  BY <1>1, <1>3, <1>4 DEF Generate, IInv, AttemptsFit, TriedAfterUpstream

LEMMA StartRunIInv ==
  ASSUME IInv, StartRun
  PROVE  IInv'
<1>1. Generated /\ IsRendered(dag)
  BY DEF StartRun, IInv, TypeOK, Generated
<1>2. IsRendered(dag)'
  BY <1>1 DEF StartRun, IsRendered
<1>3. TypeOK'
  BY <1>1, <1>2 DEF StartRun, IInv, TypeOK, Generated, Tasks, States
<1>4. FilesAreRendered'
  BY <1>1 DEF StartRun, IInv, FilesAreRendered, Generated
<1>5. AttemptsFit'
  BY <1>1 DEF StartRun, AttemptsFit, IsRendered, Tasks
<1>6. TriedAfterUpstream'
  BY DEF StartRun, TriedAfterUpstream
<1> QED
  BY <1>3, <1>4, <1>5, <1>6 DEF IInv

(* The steps of a run leave the files and the phase as they are. *)
LEMMA FilesStay ==
  ASSUME IInv, phase = "running", UNCHANGED <<ir, phase, dag, manifest>>
  PROVE  /\ IsIR(ir)'
         /\ IsRendered(dag)'
         /\ FilesAreRendered'
         /\ DOMAIN state = Tasks
         /\ \A v \in Tasks : dag.tasks[v].retries \in Nat
  BY DEF IInv, TypeOK, IsRendered, FilesAreRendered, Generated, Tasks

LEMMA StartTaskIInv ==
  ASSUME IInv, NEW v \in DOMAIN state, StartTask(v)
  PROVE  IInv'
<1>1. phase = "running" /\ UNCHANGED <<ir, phase, dag, manifest>>
  BY DEF StartTask
<1>2. DOMAIN state' = DOMAIN state /\ DOMAIN tries' = DOMAIN tries
  BY DEF StartTask
<1>3. TypeOK'
  BY <1>1, <1>2, FilesStay DEF StartTask, IInv, TypeOK, Tasks, States, Generated
<1>4. AttemptsFit'
  BY <1>1, <1>2, FilesStay DEF StartTask, IInv, TypeOK, AttemptsFit, Tasks
<1>5. TriedAfterUpstream'
  <2> SUFFICES ASSUME NEW w \in DOMAIN state, tries'[w] > 0, NEW u \in Upstream(w)
               PROVE  u \in DOMAIN state /\ state'[u] = "success"
    BY <1>1, <1>2 DEF TriedAfterUpstream, Upstream, Tasks
  <2>1. u \in DOMAIN state BY <1>1, FilesStay DEF Upstream
  <2>2. state[u] = "success"
    BY <2>1 DEF StartTask, IInv, TypeOK, TriedAfterUpstream
  <2> QED BY <2>1, <2>2 DEF StartTask
<1> QED
  BY <1>1, <1>3, <1>4, <1>5, FilesStay DEF IInv

LEMMA BodyRaisesIInv ==
  ASSUME IInv, NEW v \in DOMAIN state, BodyRaises(v)
  PROVE  IInv'
<1>1. phase = "running" /\ UNCHANGED <<ir, phase, dag, manifest, tries>>
  BY DEF BodyRaises
<1>2. DOMAIN state' = DOMAIN state
  BY DEF BodyRaises
<1>3. TypeOK'
  BY <1>1, <1>2, FilesStay DEF BodyRaises, IInv, TypeOK, Tasks, States, Generated
<1>4. AttemptsFit'
  BY <1>1, <1>2, FilesStay DEF BodyRaises, IInv, TypeOK, AttemptsFit, Tasks
<1>5. TriedAfterUpstream'
  BY <1>1, <1>2 DEF BodyRaises, IInv, TriedAfterUpstream, Upstream, Tasks
<1> QED
  BY <1>1, <1>3, <1>4, <1>5, FilesStay DEF IInv

LEMMA UpstreamFailsIInv ==
  ASSUME IInv, NEW v \in DOMAIN state, UpstreamFails(v)
  PROVE  IInv'
<1>1. phase = "running" /\ UNCHANGED <<ir, phase, dag, manifest, tries>>
  BY DEF UpstreamFails
<1>2. DOMAIN state' = DOMAIN state
  BY DEF UpstreamFails
<1>3. TypeOK'
  BY <1>1, <1>2, FilesStay DEF UpstreamFails, IInv, TypeOK, Tasks, States, Generated
<1>4. AttemptsFit'
  BY <1>1, <1>2, FilesStay DEF UpstreamFails, IInv, TypeOK, AttemptsFit, Tasks
<1>5. TriedAfterUpstream'
  BY <1>1, <1>2 DEF UpstreamFails, IInv, TriedAfterUpstream, Upstream, Tasks
<1> QED
  BY <1>1, <1>3, <1>4, <1>5, FilesStay DEF IInv

LEMMA EndRunIInv ==
  ASSUME IInv, EndRun
  PROVE  IInv'
  BY DEF EndRun, IInv, TypeOK, IsRendered, FilesAreRendered, AttemptsFit, TriedAfterUpstream,
         Upstream, Generated, Tasks

LEMMA StutterIInv ==
  ASSUME IInv, UNCHANGED vars
  PROVE  IInv'
  BY DEF vars, IInv, TypeOK, IsRendered, FilesAreRendered, AttemptsFit, TriedAfterUpstream,
         Upstream, Generated, Tasks

LEMMA NextIInv ==
  ASSUME IInv, [Next]_vars
  PROVE  IInv'
<1>1. CASE Refuse BY <1>1, RefuseIInv
<1>2. CASE Generate BY <1>2, GenerateIInv
<1>3. CASE StartRun BY <1>3, StartRunIInv
<1>4. CASE EndRun BY <1>4, EndRunIInv
<1>5. CASE UNCHANGED vars BY <1>5, StutterIInv
<1>6. CASE \E v \in DOMAIN state : StartTask(v) \/ BodyRaises(v) \/ UpstreamFails(v)
  BY <1>6, StartTaskIInv, BodyRaisesIInv, UpstreamFailsIInv
<1> QED
  BY <1>1, <1>2, <1>3, <1>4, <1>5, <1>6 DEF Next, RunStep, Exit

LEMMA SpecIInv == Spec => []IInv
  BY InitIInv, NextIInv, PTL DEF Spec

-----------------------------------------------------------------------------
(* Whatever IR the adapter is given, a file it generates has every >>      *)
(* between two of its own tasks and retry counts that are natural numbers, *)
(* and a run of it has one state and one count for every task.  (Nothing   *)
(* is said of cycles, which the adapter renders if the IR has them.)       *)
THEOREM TypeCorrect == Spec => []TypeOK
<1>1. IInv => TypeOK BY DEF IInv
<1> QED BY <1>1, SpecIInv, PTL

(* RFC-0004: what is generated is the IR, node for node and edge for edge, *)
(* whatever the names of the nodes and whatever the IR asks for.           *)
THEOREM GeneratedDagIsTheIR == Spec => []DagIsTheIR
<1>1. IInv => DagIsTheIR
  <2>1. CASE Generated BY <2>1, RenderIsTheIR DEF IInv, TypeOK, FilesAreRendered
  <2>2. CASE ~Generated BY <2>2 DEF DagIsTheIR
  <2> QED BY <2>1, <2>2
<1> QED BY <1>1, SpecIInv, PTL

(* RFC-0004: a run gives up on a task after exactly maxAttempts attempts   *)
(* and starts none before all its dependencies in the IR have succeeded,   *)
(* in any interleaving of any number of tasks.                             *)
THEOREM DeclaredAttempts == Spec => []AttemptsAreDeclared
<1>1. ASSUME IInv PROVE AttemptsAreDeclared
  <2> SUFFICES ASSUME NEW n \in DOMAIN ir.nodes, Index(ir, n) \in DOMAIN state
               PROVE  LET v == Index(ir, n)
                      IN /\ tries[v] <= ir.nodes[n].maxAttempts
                         /\ state[v] = "failed" => tries[v] = ir.nodes[n].maxAttempts
                         /\ tries[v] > 0 =>
                              \A a \in Arcs : a[2] = n => state[Index(ir, a[1])] = "success"
    BY DEF AttemptsAreDeclared
  <2> DEFINE v == Index(ir, n)
  <2>1. /\ IsIR(ir) /\ Violations(ir) = {} /\ dag = RenderDag(ir)
        /\ phase \in {"running", "failed", "success"}
    BY <1>1 DEF IInv, TypeOK, FilesAreRendered, Generated
  <2>2. ir.nodes[n].maxAttempts \in Nat /\ ir.nodes[n].maxAttempts >= 1
    BY <2>1, NodesAreSupported
  <2>3. dag.tasks[v].retries = ir.nodes[n].maxAttempts - 1
    BY <2>1, TaskOfNode DEF Retries
  <2>4. tries[v] <= ir.nodes[n].maxAttempts /\ (state[v] = "failed" => tries[v] = ir.nodes[n].maxAttempts)
    BY <1>1, <2>2, <2>3 DEF IInv, AttemptsFit
  <2>5. ASSUME tries[v] > 0, NEW a \in Arcs, a[2] = n
        PROVE  state[Index(ir, a[1])] = "success"
    <3>1. PICK e \in ir.edges : a = <<e.source, e.target>> BY DEF Arcs
    <3>2. <<Index(ir, a[1]), v>> \in dag.dependencies
      BY <2>1, <2>5, <3>1 DEF RenderDag
    <3>3. Index(ir, a[1]) \in Tasks
      BY <2>1, <3>1, EdgesResolve, TaskOfNode DEF Tasks
    <3> QED BY <1>1, <2>5, <3>2, <3>3 DEF IInv, TriedAfterUpstream, Upstream
  <2> QED BY <2>4, <2>5
<1> QED BY <1>1, SpecIInv, PTL
=============================================================================
