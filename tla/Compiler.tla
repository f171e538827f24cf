------------------------------ MODULE Compiler ------------------------------
(***************************************************************************)
(* compile_contract followed by build_execution_plan on its result, as the *)
(* CLI runs them (cli.py _prepare, review.py build_review_bundle): resolve *)
(* references, build the graph, refuse cycles, run schema hooks, plan.     *)
(***************************************************************************)
EXTENDS PipelineGraph, Sequences

CONSTANTS
  SchemaHooks,          \* registered SchemaCompatibilityHooks (the CLI has none)
  Key                   \* the place of a stable id in the order of str

ASSUME NamesAssumption ==
  /\ IsFiniteSet(SourceNames) /\ IsFiniteSet(AssetNames) /\ IsFiniteSet(TransformationIds)
  /\ IsFiniteSet(RuleIds) /\ IsFiniteSet(AnomalyIds)

ASSUME KeyAssumption ==
  /\ Key \in [NodeIds -> Nat]
  /\ \A m, n \in NodeIds : Key[m] = Key[n] => m = n

VARIABLES
  contract,             \* the normalized DataProduct
  phase,                \* how far compile_contract has come, or how it failed
  ir,                   \* [nodes, edges] of the PipelineIR being built
  status, indegree, ready, ordered      \* build_execution_plan, see ExecutionPlan

compilerVars == <<contract, phase, ir>>
plannerVars == <<status, indegree, ready, ordered>>
vars == <<contract, phase, ir, status, indegree, ready, ordered>>

Planner == INSTANCE ExecutionPlan WITH
  Ids <- NodeIds, nodes <- ir.nodes, edges <- Arcs(ir.edges)

Init ==
  /\ IsContract(contract)
  /\ phase = "parsed"
  /\ ir = [nodes |-> {}, edges |-> {}]
  /\ status = "loading"
  /\ indegree = [n \in {} |-> 0]
  /\ ready = {}
  /\ ordered = <<>>

(* ReferenceResolutionError is raised inside the loops, so it wins over    *)
(* the MissingReferenceError raised after them.                            *)
ValidateReferences ==
  /\ phase = "parsed"
  /\ phase' = IF InputsDisagree(contract) \/ HasMalformedReference(contract)
              THEN "inconsistent"
              ELSE IF HasMissing(contract) THEN "missing" ELSE "resolved"
  /\ UNCHANGED <<contract, ir, plannerVars>>

(* Mutant: an asset without a source gets an edge from source None. *)
BuildGraphFromNone ==
  /\ phase = "resolved"
  /\ ir' = [nodes |-> Nodes(contract),
            edges |-> Edges(contract) \cup
              {Edge(SourceNode(contract.assets[a].source), AssetNode(a), "reads") :
                 a \in DOMAIN contract.assets}]
  /\ phase' = "built"
  /\ UNCHANGED <<contract, plannerVars>>

(* Looking an undeclared name up in source_ids or asset_ids would raise a  *)
(* KeyError, which no handler of the CLI catches.                          *)
BuildGraph ==
  /\ phase = "resolved"
  /\ IF Arcs(Edges(contract)) \subseteq Nodes(contract) \X Nodes(contract)
     THEN /\ ir' = [nodes |-> Nodes(contract), edges |-> Edges(contract)]
          /\ phase' = "built"
     ELSE /\ phase' = "crashed"
          /\ UNCHANGED ir
  /\ UNCHANGED <<contract, plannerVars>>

DetectCycle ==
  /\ phase = "built"
  /\ phase' = IF IsCyclic(ir.nodes, Arcs(ir.edges)) THEN "cyclic" ELSE "acyclic"
  /\ UNCHANGED <<contract, ir, plannerVars>>

(* A hook sees every data-carrying edge; one rejection fails the compile. *)
HookRejects ==
  /\ phase = "acyclic"
  /\ \E hook \in SchemaHooks, e \in ir.edges : CarriesData(e)
  /\ phase' = "incompatible"
  /\ UNCHANGED <<contract, ir, plannerVars>>

ReturnIR ==
  /\ phase = "acyclic"
  /\ phase' = "compiled"
  /\ UNCHANGED <<contract, ir, plannerVars>>

(* Only a returned IR reaches the planner. *)
Plan ==
  /\ phase = "compiled"
  /\ UNCHANGED compilerVars
  /\ Planner!Next

Failed == phase \in {"inconsistent", "missing", "crashed", "cyclic", "incompatible"}

(* An error ends the command. *)
Exit ==
  /\ Failed
  /\ UNCHANGED vars

Next ==
  \/ ValidateReferences
  \/ BuildGraph
  \/ DetectCycle
  \/ HookRejects
  \/ ReturnIR
  \/ Plan
  \/ Exit

Spec == Init /\ [][Next]_vars

-----------------------------------------------------------------------------
TypeOK ==
  /\ IsContract(contract)
  /\ phase \in {"parsed", "inconsistent", "missing", "resolved", "crashed", "built",
                "cyclic", "acyclic", "incompatible", "compiled"}
  /\ ir.nodes \subseteq NodeIds
  /\ Arcs(ir.edges) \subseteq NodeIds \X NodeIds

(* Reference validation is strong enough for graph construction: no        *)
(* accepted contract makes _build_graph look up a name nobody declared.    *)
LookupsSucceed == phase # "crashed"

Predecessors(n) == {m \in ir.nodes : <<m, n>> \in Arcs(ir.edges)}

(* The assets whose data reaches asset a in the IR without passing through *)
(* another asset.                                                          *)
UpstreamAssets(a) ==
  {b \in AssetNames :
     \/ <<AssetNode(b), AssetNode(a)>> \in Arcs(ir.edges)
     \/ \E t \in TransformationIds :
          /\ <<AssetNode(b), TransformationNode(t)>> \in Arcs(ir.edges)
          /\ <<TransformationNode(t), AssetNode(a)>> \in Arcs(ir.edges)}

(* Lineage is neither lost nor invented: through whichever transformations *)
(* produce it, an asset is fed by exactly the inputs it declares.          *)
LineageIsDeclared ==
  phase = "compiled" =>
    \A a \in DOMAIN contract.assets : UpstreamAssets(a) = contract.assets[a].inputs

(* Every transformation node reads something and writes exactly one asset, *)
(* which the Spark adapter relies on (spark.py:104 takes the next output). *)
TransformationsAreWired ==
  phase = "compiled" =>
    \A t \in DOMAIN contract.transformations :
      /\ Predecessors(TransformationNode(t)) # {}
      /\ \E a \in DOMAIN contract.assets :
           {n \in ir.nodes : <<TransformationNode(t), n>> \in Arcs(ir.edges)}
             = {AssetNode(a)}

(* The asset-to-asset dependencies as the contract's author reads them. *)
DeclaredArcs ==
  UNION {contract.assets[a].inputs \X {a} : a \in DOMAIN contract.assets}

(* CycleError is about the contract: it is raised exactly when assets are  *)
(* declared in terms of each other, whatever nodes the IR adds in between. *)
CycleErrorIsDeclaredCycle ==
  /\ phase = "cyclic" => IsCyclic(DOMAIN contract.assets, DeclaredArcs)
  /\ phase = "compiled" => ~IsCyclic(DOMAIN contract.assets, DeclaredArcs)

Position(n) == CHOOSE i \in DOMAIN ordered : ordered[i] = n

Before(m, n) == Position(m) < Position(n)

(* Carrying out plan.json in order, every asset finds its source or its    *)
(* input assets already built, a transformation runs between its inputs    *)
(* and its output, and checks run after the asset they check.              *)
PlanBuildsInputsFirst ==
  status = "planned" =>
    /\ \A a \in DOMAIN contract.assets :
         /\ \A s \in {contract.assets[a].source} \ {None} :
              Before(SourceNode(s), AssetNode(a))
         /\ \A b \in contract.assets[a].inputs : Before(AssetNode(b), AssetNode(a))
         /\ \A t \in contract.assets[a].transformationIds :
              /\ Before(TransformationNode(t), AssetNode(a))
              /\ \A b \in contract.assets[a].inputs :
                   Before(AssetNode(b), TransformationNode(t))
    /\ \A q \in DOMAIN contract.quality :
         Before(AssetNode(contract.quality[q].asset), QualityNode(q))
    /\ \A o \in DOMAIN contract.anomalies :
         Before(AssetNode(contract.anomalies[o]), AnomalyNode(o))

(* A contract that compiled can always be planned: the planner's own       *)
(* CycleError never reaches a user of the CLI.                             *)
CompiledMeansPlannable == status # "rejected"

(* RFC-0003: "The IR converts all resolved references to stable URNs ...   *)
(* plus sorted, stable dependency edges": so also the asset prefix of a    *)
(* referential_integrity rule.                                             *)
EveryReferenceIsAnEdge ==
  phase = "compiled" =>
    \A q \in DOMAIN contract.quality :
      contract.quality[q].reference # None =>
        <<AssetNode(contract.quality[q].reference), QualityNode(q)>> \in Arcs(ir.edges)
=============================================================================
