--------------------------- MODULE CompilerProofs ---------------------------
(***************************************************************************)
(* For any contract over finite sets of names: what _validate_references   *)
(* accepts, _build_graph turns into an IR that says what the contract      *)
(* says, and an IR that is returned has a plan that builds inputs first.   *)
(***************************************************************************)
EXTENDS Compiler, FiniteSetTheorems, TLAPS

PlannerProofs == INSTANCE ExecutionPlanProofs WITH
  Ids <- NodeIds, nodes <- ir.nodes, edges <- Arcs(ir.edges)

-----------------------------------------------------------------------------
(* The contracts _validate_references accepts. *)
IsResolved(c) == ~InputsDisagree(c) /\ ~HasMalformedReference(c) /\ ~HasMissing(c)

(* Every name an asset, a transformation or a check mentions is declared,  *)
(* and an asset and its transformations name each other and one another's  *)
(* inputs.                                                                 *)
LEMMA ResolvedAssets ==
  ASSUME NEW c, IsContract(c), IsResolved(c), NEW a \in DOMAIN c.assets
  PROVE  /\ a \in AssetNames
         /\ c.assets[a].source \in c.sources \cup {None}
         /\ c.assets[a].source = None <=> c.assets[a].inputs # {}
         /\ c.assets[a].inputs \subseteq DOMAIN c.assets
         /\ \A t \in c.assets[a].transformationIds :
              /\ t \in DOMAIN c.transformations
              /\ c.transformations[t].output = a
<1>1. ~AssetHasMissing(c, a)
  BY DEF IsResolved, HasMissing
<1>2. c.assets[a] \in AssetModel /\ a \in AssetNames
  BY DEF IsContract
<1> QED
  BY <1>1, <1>2 DEF AssetHasMissing, AssetModel

LEMMA ResolvedTransformations ==
  ASSUME NEW c, IsContract(c), IsResolved(c), NEW t \in DOMAIN c.transformations
  PROVE  /\ t \in TransformationIds
         /\ c.transformations[t].output \in DOMAIN c.assets
         /\ t \in c.assets[c.transformations[t].output].transformationIds
         /\ c.transformations[t].inputs = c.assets[c.transformations[t].output].inputs
         /\ c.transformations[t].inputs # {}
<1>1. ~TransformationHasMissing(c, t)
  BY DEF IsResolved, HasMissing
<1>2. t \in TransformationIds /\ c.transformations[t].inputs # {}
  BY DEF IsContract, TransformationModel
<1>3. BoundToOutput(c, t)
  BY <1>1 DEF TransformationHasMissing
<1>4. c.transformations[t].inputs = c.assets[c.transformations[t].output].inputs
  BY <1>3 DEF IsResolved, InputsDisagree
<1> QED
  BY <1>2, <1>3, <1>4 DEF BoundToOutput

LEMMA ResolvedChecks ==
  ASSUME NEW c, IsContract(c), IsResolved(c)
  PROVE  /\ \A q \in DOMAIN c.quality : q \in RuleIds /\ c.quality[q].asset \in DOMAIN c.assets
         /\ \A o \in DOMAIN c.anomalies : o \in AnomalyIds /\ c.anomalies[o] \in DOMAIN c.assets
  BY DEF IsResolved, HasMissing, RuleHasMissing, IsContract

(* The transformations linked to an asset are the ones it names. *)
LEMMA LinkedIsNamed ==
  ASSUME NEW c, IsContract(c), IsResolved(c), NEW a \in DOMAIN c.assets
  PROVE  /\ Linked(c, a) = c.assets[a].transformationIds
         /\ \A t \in Linked(c, a) :
              t \in DOMAIN c.transformations /\ c.transformations[t].inputs = c.assets[a].inputs
  BY ResolvedAssets, ResolvedTransformations DEF Linked

-----------------------------------------------------------------------------
(* The arcs of the IR, by what they end in. *)
IntoAsset(c, a, m) ==
  \/ c.assets[a].source # None /\ m = SourceNode(c.assets[a].source)
  \/ Linked(c, a) = {} /\ \E i \in c.assets[a].inputs : m = AssetNode(i)
  \/ \E t \in Linked(c, a) : m = TransformationNode(t)

IntoTransformation(c, t, m) ==
  /\ \E a \in DOMAIN c.assets : t \in Linked(c, a)
  /\ \E i \in c.transformations[t].inputs : m = AssetNode(i)

Feeds(c, m, n) ==
  \/ \E a \in DOMAIN c.assets : n = AssetNode(a) /\ IntoAsset(c, a, m)
  \/ \E t \in DOMAIN c.transformations : n = TransformationNode(t) /\ IntoTransformation(c, t, m)
  \/ \E q \in DOMAIN c.quality : n = QualityNode(q) /\ m = AssetNode(c.quality[q].asset)
  \/ \E o \in DOMAIN c.anomalies : n = AnomalyNode(o) /\ m = AssetNode(c.anomalies[o])

LEMMA AssetEdgesFeed ==
  ASSUME NEW c, NEW a \in DOMAIN c.assets, NEW e \in AssetEdges(c, a)
  PROVE  Feeds(c, e.source, e.target)
<1>1. CASE e \in {Edge(SourceNode(s), AssetNode(a), "reads") : s \in {c.assets[a].source} \ {None}}
  BY <1>1 DEF Edge, Feeds, IntoAsset
<1>2. CASE /\ Linked(c, a) # {}
           /\ e \in UNION {{Edge(AssetNode(i), TransformationNode(t), "transforms") :
                              i \in c.transformations[t].inputs} : t \in Linked(c, a)}
  <2>1. PICK t \in Linked(c, a) : \E i \in c.transformations[t].inputs :
               e = Edge(AssetNode(i), TransformationNode(t), "transforms")
    BY <1>2
  <2> QED BY <2>1 DEF Edge, Feeds, IntoTransformation, Linked
<1>3. CASE /\ Linked(c, a) # {}
           /\ e \in {Edge(TransformationNode(t), AssetNode(a), "transforms") : t \in Linked(c, a)}
  BY <1>3 DEF Edge, Feeds, IntoAsset
<1>4. CASE /\ Linked(c, a) = {}
           /\ e \in {Edge(AssetNode(i), AssetNode(a), "depends_on") : i \in c.assets[a].inputs}
  BY <1>4 DEF Edge, Feeds, IntoAsset
<1> QED
  BY <1>1, <1>2, <1>3, <1>4 DEF AssetEdges

LEMMA EdgesFeed ==
  ASSUME NEW c, NEW e \in Edges(c)
  PROVE  Feeds(c, e.source, e.target)
<1>1. CASE e \in UNION {AssetEdges(c, a) : a \in DOMAIN c.assets}
  BY <1>1, AssetEdgesFeed
<1>2. CASE e \in {Edge(AssetNode(c.quality[q].asset), QualityNode(q), "validates") :
                    q \in DOMAIN c.quality}
  BY <1>2 DEF Edge, Feeds
<1>3. CASE e \in {Edge(AssetNode(c.anomalies[o]), AnomalyNode(o), "observes") :
                    o \in DOMAIN c.anomalies}
  BY <1>3 DEF Edge, Feeds
<1> QED
  BY <1>1, <1>2, <1>3 DEF Edges

LEMMA AssetEdgesComplete ==
  ASSUME NEW c, NEW a \in DOMAIN c.assets
  PROVE  /\ \A m : IntoAsset(c, a, m) =>
              \E e \in AssetEdges(c, a) : e.source = m /\ e.target = AssetNode(a)
         /\ \A t \in Linked(c, a) : \A i \in c.transformations[t].inputs :
              \E e \in AssetEdges(c, a) : e.source = AssetNode(i) /\ e.target = TransformationNode(t)
<1>1. ASSUME c.assets[a].source # None
      PROVE  Edge(SourceNode(c.assets[a].source), AssetNode(a), "reads") \in AssetEdges(c, a)
  BY <1>1 DEF AssetEdges
<1>2. ASSUME Linked(c, a) = {}, NEW i \in c.assets[a].inputs
      PROVE  Edge(AssetNode(i), AssetNode(a), "depends_on") \in AssetEdges(c, a)
  BY <1>2 DEF AssetEdges
<1>3. ASSUME NEW t \in Linked(c, a)
      PROVE  Edge(TransformationNode(t), AssetNode(a), "transforms") \in AssetEdges(c, a)
  BY <1>3 DEF AssetEdges
<1>4. ASSUME NEW t \in Linked(c, a), NEW i \in c.transformations[t].inputs
      PROVE  Edge(AssetNode(i), TransformationNode(t), "transforms") \in AssetEdges(c, a)
  <2>1. Edge(AssetNode(i), TransformationNode(t), "transforms") \in
          UNION {{Edge(AssetNode(j), TransformationNode(u), "transforms") :
                    j \in c.transformations[u].inputs} : u \in Linked(c, a)}
    BY <1>4
  <2>2. Linked(c, a) # {} OBVIOUS
  <2> QED BY <2>1, <2>2 DEF AssetEdges
<1>5. \A m, n, k : Edge(m, n, k).source = m /\ Edge(m, n, k).target = n
  BY DEF Edge
<1> QED
  BY <1>1, <1>2, <1>3, <1>4, <1>5 DEF IntoAsset

(* The arcs networkx sees are exactly those. *)
LEMMA ArcIff ==
  ASSUME NEW c, NEW m, NEW n
  PROVE  <<m, n>> \in Arcs(Edges(c)) <=> Feeds(c, m, n)
<1>1. ASSUME <<m, n>> \in Arcs(Edges(c)) PROVE Feeds(c, m, n)
  <2>1. PICK e \in Edges(c) : <<m, n>> = <<e.source, e.target>> BY <1>1 DEF Arcs
  <2> QED BY <2>1, EdgesFeed
<1>2. ASSUME Feeds(c, m, n) PROVE \E e \in Edges(c) : e.source = m /\ e.target = n
  <2>1. \A x, y, k : Edge(x, y, k).source = x /\ Edge(x, y, k).target = y
    BY DEF Edge
  <2>2. CASE \E a \in DOMAIN c.assets : n = AssetNode(a) /\ IntoAsset(c, a, m)
    BY <2>2, AssetEdgesComplete DEF Edges
  <2>3. CASE \E t \in DOMAIN c.transformations :
               n = TransformationNode(t) /\ IntoTransformation(c, t, m)
    BY <2>3, AssetEdgesComplete DEF Edges, IntoTransformation
  <2>4. CASE \E q \in DOMAIN c.quality : n = QualityNode(q) /\ m = AssetNode(c.quality[q].asset)
    <3>1. PICK q \in DOMAIN c.quality : n = QualityNode(q) /\ m = AssetNode(c.quality[q].asset)
      BY <2>4
    <3>2. Edge(AssetNode(c.quality[q].asset), QualityNode(q), "validates") \in Edges(c)
      BY DEF Edges
    <3> QED BY <2>1, <3>1, <3>2
  <2>5. CASE \E o \in DOMAIN c.anomalies : n = AnomalyNode(o) /\ m = AssetNode(c.anomalies[o])
    <3>1. PICK o \in DOMAIN c.anomalies : n = AnomalyNode(o) /\ m = AssetNode(c.anomalies[o])
      BY <2>5
    <3>2. Edge(AssetNode(c.anomalies[o]), AnomalyNode(o), "observes") \in Edges(c)
      BY DEF Edges
    <3> QED BY <2>1, <3>1, <3>2
  <2> QED BY <1>2, <2>2, <2>3, <2>4, <2>5 DEF Feeds
<1> QED
  BY <1>1, <1>2 DEF Arcs

-----------------------------------------------------------------------------
(* What feeds a node of each kind, in the IR of a resolved contract. *)
LEMMA AssetFeeders ==
  ASSUME NEW c, IsContract(c), IsResolved(c), NEW a, NEW m
  PROVE  <<m, AssetNode(a)>> \in Arcs(Edges(c)) <=>
           /\ a \in DOMAIN c.assets
           /\ \/ c.assets[a].source # None /\ m = SourceNode(c.assets[a].source)
              \/ /\ c.assets[a].transformationIds = {}
                 /\ \E i \in c.assets[a].inputs : m = AssetNode(i)
              \/ \E t \in c.assets[a].transformationIds : m = TransformationNode(t)
<1>1. <<m, AssetNode(a)>> \in Arcs(Edges(c)) <=>
        \E b \in DOMAIN c.assets : AssetNode(a) = AssetNode(b) /\ IntoAsset(c, b, m)
  BY ArcIff DEF Feeds, AssetNode, TransformationNode, QualityNode, AnomalyNode
<1>2. \A b : AssetNode(a) = AssetNode(b) => a = b
  BY DEF AssetNode
<1> QED
  BY <1>1, <1>2, LinkedIsNamed DEF IntoAsset

LEMMA TransformationFeeders ==
  ASSUME NEW c, IsContract(c), IsResolved(c), NEW t, NEW m
  PROVE  <<m, TransformationNode(t)>> \in Arcs(Edges(c)) <=>
           /\ t \in DOMAIN c.transformations
           /\ \E i \in c.transformations[t].inputs : m = AssetNode(i)
<1>1. <<m, TransformationNode(t)>> \in Arcs(Edges(c)) <=>
        \E u \in DOMAIN c.transformations :
          TransformationNode(t) = TransformationNode(u) /\ IntoTransformation(c, u, m)
  BY ArcIff DEF Feeds, AssetNode, TransformationNode, QualityNode, AnomalyNode
<1>2. \A u : TransformationNode(t) = TransformationNode(u) => t = u
  BY DEF TransformationNode
<1>3. \A u \in DOMAIN c.transformations : \E a \in DOMAIN c.assets : u \in Linked(c, a)
  BY ResolvedTransformations, LinkedIsNamed
<1> QED
  BY <1>1, <1>2, <1>3 DEF IntoTransformation

LEMMA CheckFeeders ==
  ASSUME NEW c
  PROVE  /\ \A q, m : <<m, QualityNode(q)>> \in Arcs(Edges(c)) <=>
              q \in DOMAIN c.quality /\ m = AssetNode(c.quality[q].asset)
         /\ \A o, m : <<m, AnomalyNode(o)>> \in Arcs(Edges(c)) <=>
              o \in DOMAIN c.anomalies /\ m = AssetNode(c.anomalies[o])
<1>1. ASSUME NEW q, NEW m
      PROVE  <<m, QualityNode(q)>> \in Arcs(Edges(c)) <=>
               \E r \in DOMAIN c.quality :
                 QualityNode(q) = QualityNode(r) /\ m = AssetNode(c.quality[r].asset)
  BY ArcIff DEF Feeds, AssetNode, TransformationNode, QualityNode, AnomalyNode
<1>2. ASSUME NEW o, NEW m
      PROVE  <<m, AnomalyNode(o)>> \in Arcs(Edges(c)) <=>
               \E r \in DOMAIN c.anomalies :
                 AnomalyNode(o) = AnomalyNode(r) /\ m = AssetNode(c.anomalies[r])
  BY ArcIff DEF Feeds, AssetNode, TransformationNode, QualityNode, AnomalyNode
<1>3. /\ \A q, r : QualityNode(q) = QualityNode(r) => q = r
      /\ \A o, r : AnomalyNode(o) = AnomalyNode(r) => o = r
  BY DEF QualityNode, AnomalyNode
<1> QED
  BY <1>1, <1>2, <1>3

LEMMA SourcesAreNotFed ==
  ASSUME NEW c, NEW s, NEW m
  PROVE  <<m, SourceNode(s)>> \notin Arcs(Edges(c))
  BY ArcIff DEF Feeds, SourceNode, AssetNode, TransformationNode, QualityNode, AnomalyNode

(* Every lookup of _build_graph finds its name: compile.py:203-331 raises  *)
(* no KeyError.                                                            *)
LEMMA ArcsAreDeclared ==
  ASSUME NEW c, IsContract(c), IsResolved(c)
  PROVE  Arcs(Edges(c)) \subseteq Nodes(c) \X Nodes(c)
<1>1. /\ \A s \in c.sources : SourceNode(s) \in Nodes(c)
      /\ \A a \in DOMAIN c.assets : AssetNode(a) \in Nodes(c)
      /\ \A t \in DOMAIN c.transformations : TransformationNode(t) \in Nodes(c)
      /\ \A q \in DOMAIN c.quality : QualityNode(q) \in Nodes(c)
      /\ \A o \in DOMAIN c.anomalies : AnomalyNode(o) \in Nodes(c)
  BY DEF Nodes
<1>2. ASSUME NEW m, NEW n, Feeds(c, m, n) PROVE m \in Nodes(c) /\ n \in Nodes(c)
  <2>1. ASSUME NEW a \in DOMAIN c.assets, n = AssetNode(a), IntoAsset(c, a, m)
        PROVE  m \in Nodes(c) /\ n \in Nodes(c)
    BY <1>1, <2>1, ResolvedAssets DEF IntoAsset, Linked
  <2>2. ASSUME NEW t \in DOMAIN c.transformations, n = TransformationNode(t),
               IntoTransformation(c, t, m)
        PROVE  m \in Nodes(c) /\ n \in Nodes(c)
    BY <1>1, <2>2, ResolvedAssets, ResolvedTransformations DEF IntoTransformation
  <2> QED BY <1>1, <1>2, <2>1, <2>2, ResolvedChecks DEF Feeds
<1>3. ASSUME NEW x \in Arcs(Edges(c)) PROVE x \in Nodes(c) \X Nodes(c)
  <2>1. PICK e \in Edges(c) : x = <<e.source, e.target>> BY <1>3 DEF Arcs
  <2>2. Feeds(c, e.source, e.target) BY EdgesFeed
  <2> QED BY <1>2, <2>1, <2>2
<1> QED
  BY <1>3

LEMMA NodesAreIds ==
  ASSUME NEW c, IsContract(c)
  PROVE  Nodes(c) \subseteq NodeIds
  BY DEF IsContract, Nodes, NodeIds

-----------------------------------------------------------------------------
(* Lineage: the IR feeds an asset from exactly its declared inputs. *)
Upstream(c, a) ==
  {b \in AssetNames :
     \/ <<AssetNode(b), AssetNode(a)>> \in Arcs(Edges(c))
     \/ \E t \in TransformationIds :
          /\ <<AssetNode(b), TransformationNode(t)>> \in Arcs(Edges(c))
          /\ <<TransformationNode(t), AssetNode(a)>> \in Arcs(Edges(c))}

LEMMA UpstreamIsDeclared ==
  ASSUME NEW c, IsContract(c), IsResolved(c), NEW a \in DOMAIN c.assets
  PROVE  Upstream(c, a) = c.assets[a].inputs
<1>1. \A b, t : /\ AssetNode(b) # TransformationNode(t)
                /\ \A s : AssetNode(b) # SourceNode(s) /\ TransformationNode(t) # SourceNode(s)
                /\ \A d : AssetNode(b) = AssetNode(d) => b = d
                /\ \A u : TransformationNode(t) = TransformationNode(u) => t = u
  BY DEF AssetNode, TransformationNode, SourceNode
<1>2. \A b : <<AssetNode(b), AssetNode(a)>> \in Arcs(Edges(c)) <=>
              c.assets[a].transformationIds = {} /\ b \in c.assets[a].inputs
  BY <1>1, AssetFeeders
<1>3. \A t : <<TransformationNode(t), AssetNode(a)>> \in Arcs(Edges(c)) <=>
              t \in c.assets[a].transformationIds
  BY <1>1, AssetFeeders
<1>4. \A b, t : <<AssetNode(b), TransformationNode(t)>> \in Arcs(Edges(c)) <=>
                 t \in DOMAIN c.transformations /\ b \in c.transformations[t].inputs
  BY <1>1, TransformationFeeders
<1>5. \A t \in c.assets[a].transformationIds :
        /\ t \in TransformationIds /\ t \in DOMAIN c.transformations
        /\ c.transformations[t].inputs = c.assets[a].inputs
  BY ResolvedAssets, ResolvedTransformations
<1>6. c.assets[a].inputs \subseteq AssetNames
  BY ResolvedAssets
<1> QED
  BY <1>2, <1>3, <1>4, <1>5, <1>6 DEF Upstream

(* A transformation node writes its output asset and nothing else. *)
LEMMA OutputIsOne ==
  ASSUME NEW c, IsContract(c), IsResolved(c), NEW t \in DOMAIN c.transformations
  PROVE  {n \in Nodes(c) : <<TransformationNode(t), n>> \in Arcs(Edges(c))}
           = {AssetNode(c.transformations[t].output)}
<1> DEFINE out == c.transformations[t].output
<1>1. /\ \A b : TransformationNode(t) # AssetNode(b) /\ TransformationNode(t) # SourceNode(b)
      /\ \A u : TransformationNode(t) = TransformationNode(u) => t = u
  BY DEF AssetNode, TransformationNode, SourceNode
<1>2. out \in DOMAIN c.assets /\ t \in c.assets[out].transformationIds
  BY ResolvedTransformations
<1>3. <<TransformationNode(t), AssetNode(out)>> \in Arcs(Edges(c))
  BY <1>2, AssetFeeders
<1>4. AssetNode(out) \in Nodes(c)
  BY <1>2 DEF Nodes
<1>5. ASSUME NEW n, <<TransformationNode(t), n>> \in Arcs(Edges(c)) PROVE n = AssetNode(out)
  <2>1. Feeds(c, TransformationNode(t), n) BY <1>5, ArcIff
  <2>2. PICK a \in DOMAIN c.assets : n = AssetNode(a) /\ IntoAsset(c, a, TransformationNode(t))
    BY <2>1, <1>1 DEF Feeds, IntoTransformation
  <2>3. t \in Linked(c, a) BY <2>2, <1>1 DEF IntoAsset
  <2>4. a = out BY <2>3 DEF Linked
  <2> QED BY <2>2, <2>4
<1> QED
  BY <1>3, <1>4, <1>5

LEMMA InputsArePredecessors ==
  ASSUME NEW c, IsContract(c), IsResolved(c), NEW t \in DOMAIN c.transformations
  PROVE  {m \in Nodes(c) : <<m, TransformationNode(t)>> \in Arcs(Edges(c))} # {}
<1>1. PICK i : i \in c.transformations[t].inputs
  BY ResolvedTransformations
<1>2. <<AssetNode(i), TransformationNode(t)>> \in Arcs(Edges(c))
  BY <1>1, TransformationFeeders
<1>3. AssetNode(i) \in Nodes(c)
  BY <1>2, ArcsAreDeclared
<1> QED
  BY <1>2, <1>3

-----------------------------------------------------------------------------
(* Cycles of the IR are cycles of the declaration, and the other way round. *)
Declared(c) == UNION {c.assets[a].inputs \X {a} : a \in DOMAIN c.assets}

LEMMA DeclaredIff ==
  ASSUME NEW c, NEW b, NEW a
  PROVE  <<b, a>> \in Declared(c) <=> a \in DOMAIN c.assets /\ b \in c.assets[a].inputs
  BY DEF Declared

(* Each kind of node in a set that feeds itself comes from an asset in it. *)
LEMMA CycleOfAssets ==
  ASSUME NEW c, IsContract(c), IsResolved(c), IsCyclic(Nodes(c), Arcs(Edges(c)))
  PROVE  IsCyclic(DOMAIN c.assets, Declared(c))
<1>1. PICK S \in SUBSET Nodes(c) : SelfFeeding(S, Arcs(Edges(c)))
  BY DEF IsCyclic
<1> DEFINE A == {a \in DOMAIN c.assets : AssetNode(a) \in S}
<1>2. ASSUME NEW n \in S PROVE \E m \in S : <<m, n>> \in Arcs(Edges(c))
  BY <1>1 DEF SelfFeeding
<1>3. \A s : SourceNode(s) \notin S
  BY <1>2, SourcesAreNotFed
<1>4. \A b : AssetNode(b) \in S => b \in A
  <2>1. \A b : AssetNode(b) \in Nodes(c) => b \in DOMAIN c.assets
    BY DEF Nodes, AssetNode, SourceNode, TransformationNode, QualityNode, AnomalyNode
  <2> QED BY <2>1
<1>5. ASSUME NEW t, TransformationNode(t) \in S
      PROVE  t \in DOMAIN c.transformations /\ \E i \in c.transformations[t].inputs : i \in A
  <2>1. PICK m \in S : <<m, TransformationNode(t)>> \in Arcs(Edges(c)) BY <1>2, <1>5
  <2>2. PICK i \in c.transformations[t].inputs : m = AssetNode(i)
    BY <2>1, TransformationFeeders
  <2>3. t \in DOMAIN c.transformations BY <2>1, TransformationFeeders
  <2> QED BY <2>1, <2>2, <2>3, <1>4
<1>6. ASSUME NEW a \in A PROVE \E b \in A : <<b, a>> \in Declared(c)
  <2>1. PICK m \in S : <<m, AssetNode(a)>> \in Arcs(Edges(c)) BY <1>2
  <2>2. CASE \E i \in c.assets[a].inputs : m = AssetNode(i)
    BY <2>2, <1>4, DeclaredIff
  <2>3. CASE \E t \in c.assets[a].transformationIds : m = TransformationNode(t)
    <3>1. PICK t \in c.assets[a].transformationIds : m = TransformationNode(t) BY <2>3
    <3>2. PICK i \in c.transformations[t].inputs : i \in A BY <3>1, <1>5
    <3>3. c.transformations[t].inputs = c.assets[a].inputs
      BY ResolvedAssets, ResolvedTransformations
    <3> QED BY <3>2, <3>3, DeclaredIff
  <2> QED BY <2>1, <2>2, <2>3, <1>3, AssetFeeders
<1>7. A # {}
  <2>1. PICK n : n \in S BY <1>1 DEF SelfFeeding
  <2>2. CASE \E a \in DOMAIN c.assets : n = AssetNode(a) BY <2>1, <2>2
  <2>3. CASE \E t \in DOMAIN c.transformations : n = TransformationNode(t) BY <2>1, <2>3, <1>5
  <2> PICK m \in S : <<m, n>> \in Arcs(Edges(c)) BY <2>1, <1>2
  <2>4. CASE \E q \in DOMAIN c.quality : n = QualityNode(q)
    <3>1. PICK q : n = QualityNode(q) BY <2>4
    <3>2. m = AssetNode(c.quality[q].asset) BY <3>1, CheckFeeders
    <3> QED BY <3>2, <1>4
  <2>5. CASE \E o \in DOMAIN c.anomalies : n = AnomalyNode(o)
    <3>1. PICK o : n = AnomalyNode(o) BY <2>5
    <3>2. m = AssetNode(c.anomalies[o]) BY <3>1, CheckFeeders
    <3> QED BY <3>2, <1>4
  <2> QED BY <2>1, <2>2, <2>3, <2>4, <2>5, <1>3 DEF Nodes
<1> QED
  BY <1>6, <1>7 DEF IsCyclic, SelfFeeding

(* The transformations between the assets of a cycle close it in the IR. *)
LEMMA CycleOfNodes ==
  ASSUME NEW c, IsContract(c), IsResolved(c), IsCyclic(DOMAIN c.assets, Declared(c))
  PROVE  IsCyclic(Nodes(c), Arcs(Edges(c)))
<1>1. PICK A \in SUBSET DOMAIN c.assets : SelfFeeding(A, Declared(c))
  BY DEF IsCyclic
<1> DEFINE T == {t \in DOMAIN c.transformations : c.transformations[t].output \in A}
           S == {AssetNode(a) : a \in A} \cup {TransformationNode(t) : t \in T}
<1>2. ASSUME NEW a \in A PROVE \E b \in A : b \in c.assets[a].inputs
  BY <1>1, DeclaredIff DEF SelfFeeding
<1>3. ASSUME NEW a \in A PROVE \E m \in S : <<m, AssetNode(a)>> \in Arcs(Edges(c))
  <2>1. PICK b \in A : b \in c.assets[a].inputs BY <1>2
  <2>2. CASE c.assets[a].transformationIds = {}
    <3>1. <<AssetNode(b), AssetNode(a)>> \in Arcs(Edges(c)) BY <2>1, <2>2, AssetFeeders
    <3> QED BY <3>1
  <2>3. CASE c.assets[a].transformationIds # {}
    <3>1. PICK t \in c.assets[a].transformationIds : TRUE BY <2>3
    <3>2. t \in T BY ResolvedAssets
    <3>3. <<TransformationNode(t), AssetNode(a)>> \in Arcs(Edges(c)) BY AssetFeeders
    <3> QED BY <3>2, <3>3
  <2> QED BY <2>2, <2>3
<1>4. ASSUME NEW t \in T PROVE \E m \in S : <<m, TransformationNode(t)>> \in Arcs(Edges(c))
  <2>1. PICK b \in A : b \in c.assets[c.transformations[t].output].inputs BY <1>2
  <2>2. b \in c.transformations[t].inputs BY <2>1, ResolvedTransformations
  <2>3. <<AssetNode(b), TransformationNode(t)>> \in Arcs(Edges(c))
    BY <2>2, TransformationFeeders
  <2> QED BY <2>3
<1>5. S # {} BY <1>1 DEF SelfFeeding
<1>6. S \subseteq Nodes(c) BY DEF Nodes
<1> QED
  BY <1>3, <1>4, <1>5, <1>6 DEF IsCyclic, SelfFeeding

-----------------------------------------------------------------------------
(* The planner, as Compiler and as its own theorems name it. *)
LEMMA NodeIdsFinite == PlannerProofs!IsFiniteSet(NodeIds)
<1>1. /\ IsFiniteSet({SourceNode(s) : s \in SourceNames})
      /\ IsFiniteSet({AssetNode(a) : a \in AssetNames})
      /\ IsFiniteSet({TransformationNode(t) : t \in TransformationIds})
      /\ IsFiniteSet({QualityNode(q) : q \in RuleIds})
      /\ IsFiniteSet({AnomalyNode(o) : o \in AnomalyIds})
  <2>1. ASSUME NEW S, IsFiniteSet(S), NEW k PROVE IsFiniteSet({<<k, x>> : x \in S})
    <3>1. {<<k, x>> : x \in S} = {k} \X S OBVIOUS
    <3>2. IsFiniteSet({k}) BY FS_Singleton
    <3>3. IsFiniteSet({k} \X S) BY <2>1, <3>2, FS_Product
    <3> QED BY <3>1, <3>3
  <2> QED
    BY <2>1, NamesAssumption
       DEF SourceNode, AssetNode, TransformationNode, QualityNode, AnomalyNode
<1>2. IsFiniteSet(NodeIds)
  BY <1>1, FS_Union DEF NodeIds
<1> QED
  BY <1>2 DEF PlannerProofs!IsFiniteSet, IsFiniteSet

LEMMA PlannerStep ==
  ASSUME Planner!Next
  PROVE  PlannerProofs!Next
  BY DEF Planner!Next, Planner!RejectUnknownNode, Planner!StartSort, Planner!Emit, Planner!Finish,
         Planner!RejectCycle, Planner!Returned, Planner!vars, Planner!Children, Planner!Closed,
         Planner!Predecessors, Planner!IsLeast, Planner!Cardinality,
         PlannerProofs!Next, PlannerProofs!RejectUnknownNode, PlannerProofs!StartSort,
         PlannerProofs!Emit, PlannerProofs!Finish, PlannerProofs!RejectCycle,
         PlannerProofs!Returned, PlannerProofs!vars, PlannerProofs!Children,
         PlannerProofs!Closed, PlannerProofs!Predecessors, PlannerProofs!IsLeast,
         PlannerProofs!Cardinality

LEMMA PlannerKeepsIInv ==
  ASSUME PlannerProofs!IInv, Planner!Next
  PROVE  PlannerProofs!IInv'
<1>1. PlannerProofs!Next BY PlannerStep
<1> QED
  BY <1>1, PlannerProofs!NextIInv, NodeIdsFinite, KeyAssumption

(* Before the IR is returned the planner has not begun. *)
PlannerIdle ==
  /\ status = "loading"
  /\ indegree = [n \in {} |-> 0]
  /\ ready = {}
  /\ ordered = <<>>

LEMMA PlannerStarts ==
  ASSUME PlannerIdle, ir.nodes \subseteq NodeIds, Arcs(ir.edges) \subseteq NodeIds \X NodeIds
  PROVE  PlannerProofs!IInv
<1>1. PlannerProofs!Init
  BY DEF PlannerIdle, PlannerProofs!Init
<1> QED
  BY <1>1, PlannerProofs!InitIInv, NodeIdsFinite, KeyAssumption

LEMMA PlannerStays ==
  ASSUME PlannerProofs!IInv, UNCHANGED <<ir, plannerVars>>
  PROVE  PlannerProofs!IInv'
<1>1. UNCHANGED PlannerProofs!vars
  BY DEF plannerVars, PlannerProofs!vars
<1> QED
  BY <1>1, PlannerProofs!NextIInv, NodeIdsFinite, KeyAssumption

-----------------------------------------------------------------------------
(* The inductive invariant: what each phase has established. *)
Phases == {"parsed", "inconsistent", "missing", "resolved", "built",
           "cyclic", "acyclic", "incompatible", "compiled"}

Built == phase \in {"built", "cyclic", "acyclic", "incompatible", "compiled"}

ReferencesResolve == phase = "resolved" \/ Built => IsResolved(contract)

GraphIsBuilt ==
  IF Built
  THEN ir.nodes = Nodes(contract) /\ ir.edges = Edges(contract)
  ELSE ir.nodes = {} /\ ir.edges = {}

CyclesAreFound ==
  /\ phase = "cyclic" => IsCyclic(ir.nodes, Arcs(ir.edges))
  /\ phase \in {"acyclic", "incompatible", "compiled"} => ~IsCyclic(ir.nodes, Arcs(ir.edges))

PlannerIsFed ==
  IF phase = "compiled" THEN PlannerProofs!IInv ELSE PlannerIdle

IInv ==
  /\ IsContract(contract)
  /\ phase \in Phases
  /\ ReferencesResolve
  /\ GraphIsBuilt
  /\ CyclesAreFound
  /\ PlannerIsFed

LEMMA InitIInv == Init => IInv
  BY DEF Init, IInv, Phases, Built, ReferencesResolve, GraphIsBuilt, CyclesAreFound,
         PlannerIsFed, PlannerIdle

LEMMA ValidateReferencesIInv ==
  ASSUME IInv, ValidateReferences
  PROVE  IInv'
<1>1. /\ phase = "parsed" /\ UNCHANGED <<contract, ir, plannerVars>>
      /\ phase' \in {"inconsistent", "missing", "resolved"}
      /\ phase' = "resolved" => IsResolved(contract)
  BY DEF ValidateReferences, IsResolved
<1> QED
  BY <1>1 DEF IInv, Phases, Built, ReferencesResolve, GraphIsBuilt, CyclesAreFound, PlannerIsFed,
              PlannerIdle, plannerVars

LEMMA BuildGraphIInv ==
  ASSUME IInv, BuildGraph
  PROVE  IInv'
<1>1. phase = "resolved" /\ UNCHANGED <<contract, plannerVars>> /\ IsContract(contract)
  BY DEF BuildGraph, IInv
<1>2. IsResolved(contract)
  BY <1>1 DEF IInv, ReferencesResolve
<1>3. phase' = "built" /\ ir'.nodes = Nodes(contract) /\ ir'.edges = Edges(contract)
  BY <1>1, <1>2, ArcsAreDeclared DEF BuildGraph
<1> QED
  BY <1>1, <1>2, <1>3
     DEF IInv, Phases, Built, ReferencesResolve, GraphIsBuilt, CyclesAreFound, PlannerIsFed,
         PlannerIdle, plannerVars

LEMMA DetectCycleIInv ==
  ASSUME IInv, DetectCycle
  PROVE  IInv'
<1>1. /\ phase = "built" /\ UNCHANGED <<contract, ir, plannerVars>>
      /\ phase' \in {"cyclic", "acyclic"}
      /\ phase' = "cyclic" <=> IsCyclic(ir.nodes, Arcs(ir.edges))
  BY DEF DetectCycle
<1> QED
  BY <1>1 DEF IInv, Phases, Built, ReferencesResolve, GraphIsBuilt, CyclesAreFound, PlannerIsFed,
              PlannerIdle, plannerVars

LEMMA HookRejectsIInv ==
  ASSUME IInv, HookRejects
  PROVE  IInv'
<1>1. phase = "acyclic" /\ phase' = "incompatible" /\ UNCHANGED <<contract, ir, plannerVars>>
  BY DEF HookRejects
<1> QED
  BY <1>1 DEF IInv, Phases, Built, ReferencesResolve, GraphIsBuilt, CyclesAreFound, PlannerIsFed,
              PlannerIdle, plannerVars

LEMMA BuiltIsDeclared ==
  ASSUME IInv, Built
  PROVE  /\ IsContract(contract) /\ IsResolved(contract)
         /\ ir.nodes = Nodes(contract) /\ ir.edges = Edges(contract)
         /\ ir.nodes \subseteq NodeIds
         /\ Arcs(ir.edges) \subseteq ir.nodes \X ir.nodes
         /\ Arcs(ir.edges) \subseteq NodeIds \X NodeIds
<1>1. /\ IsContract(contract) /\ IsResolved(contract)
      /\ ir.nodes = Nodes(contract) /\ ir.edges = Edges(contract)
  BY DEF IInv, ReferencesResolve, GraphIsBuilt
<1>2. ir.nodes \subseteq NodeIds BY <1>1, NodesAreIds
<1>3. Arcs(ir.edges) \subseteq ir.nodes \X ir.nodes BY <1>1, ArcsAreDeclared
<1> QED
  BY <1>1, <1>2, <1>3

LEMMA ReturnIRIInv ==
  ASSUME IInv, ReturnIR
  PROVE  IInv'
<1>1. phase = "acyclic" /\ phase' = "compiled" /\ UNCHANGED <<contract, ir, plannerVars>>
  BY DEF ReturnIR
<1>2. PlannerProofs!IInv
  BY <1>1, BuiltIsDeclared, PlannerStarts DEF Built, IInv, PlannerIsFed
<1>3. PlannerProofs!IInv'
  BY <1>1, <1>2, PlannerStays
<1> QED
  BY <1>1, <1>3 DEF IInv, Phases, Built, ReferencesResolve, GraphIsBuilt, CyclesAreFound,
                    PlannerIsFed

LEMMA PlanIInv ==
  ASSUME IInv, Plan
  PROVE  IInv'
<1>1. phase = "compiled" /\ UNCHANGED <<contract, phase, ir>>
  BY DEF Plan, compilerVars
<1>2. PlannerProofs!IInv'
  BY <1>1, PlannerKeepsIInv DEF Plan, IInv, PlannerIsFed
<1> QED
  BY <1>1, <1>2 DEF IInv, Phases, Built, ReferencesResolve, GraphIsBuilt, CyclesAreFound,
                    PlannerIsFed

LEMMA StutterIInv ==
  ASSUME IInv, UNCHANGED vars
  PROVE  IInv'
<1>1. UNCHANGED <<contract, phase, ir, plannerVars>>
  BY DEF vars, plannerVars
<1>2. PlannerProofs!IInv => PlannerProofs!IInv'
  BY <1>1, PlannerStays
<1> QED
  BY <1>1, <1>2 DEF IInv, Phases, Built, ReferencesResolve, GraphIsBuilt, CyclesAreFound,
                    PlannerIsFed, PlannerIdle, plannerVars

LEMMA NextIInv ==
  ASSUME IInv, [Next]_vars
  PROVE  IInv'
  BY ValidateReferencesIInv, BuildGraphIInv, DetectCycleIInv, HookRejectsIInv, ReturnIRIInv,
     PlanIInv, StutterIInv DEF Next, Exit

(* Every reachable state of the compiler satisfies the inductive invariant. *)
THEOREM Invariance == Spec => []IInv
  BY InitIInv, NextIInv, PTL DEF Spec
-----------------------------------------------------------------------------
(* Every variable holds values of its type, whatever the contract.         *)
THEOREM TypeCorrect == Spec => []TypeOK
<1>1. ASSUME IInv PROVE TypeOK
  <2>1. IsContract(contract) /\ phase \in Phases BY <1>1 DEF IInv
  <2>2. CASE Built
    BY <1>1, <2>1, <2>2, BuiltIsDeclared DEF TypeOK, Phases
  <2>3. CASE ~Built
    BY <1>1, <2>1, <2>3 DEF IInv, GraphIsBuilt, Arcs, TypeOK, Phases
  <2> QED BY <2>2, <2>3
<1> QED
  BY <1>1, Invariance, PTL

(* _build_graph raises no KeyError: what _validate_references lets through *)
(* declares every name the graph looks up.                                 *)
THEOREM LookupsSafe == Spec => []LookupsSucceed
<1>1. IInv => LookupsSucceed
  BY DEF IInv, Phases, LookupsSucceed
<1> QED
  BY <1>1, Invariance, PTL

(* An asset of a compiled IR is fed by exactly the assets it declares.     *)
THEOREM Lineage == Spec => []LineageIsDeclared
<1>1. ASSUME IInv, phase = "compiled", NEW a \in DOMAIN contract.assets
      PROVE  UpstreamAssets(a) = contract.assets[a].inputs
  <2>1. /\ IsContract(contract) /\ IsResolved(contract)
        /\ ir.edges = Edges(contract)
    BY <1>1, BuiltIsDeclared DEF Built
  <2>2. UpstreamAssets(a) = Upstream(contract, a)
    BY <2>1 DEF UpstreamAssets, Upstream
  <2> QED BY <2>1, <2>2, UpstreamIsDeclared
<1>2. IInv => LineageIsDeclared
  BY <1>1 DEF LineageIsDeclared
<1> QED
  BY <1>2, Invariance, PTL

(* Every transformation of a compiled IR has an input and one output, the  *)
(* node spark.py takes for it.                                             *)
THEOREM Wiring == Spec => []TransformationsAreWired
<1>1. ASSUME IInv, phase = "compiled", NEW t \in DOMAIN contract.transformations
      PROVE  /\ Predecessors(TransformationNode(t)) # {}
             /\ \E a \in DOMAIN contract.assets :
                  {n \in ir.nodes : <<TransformationNode(t), n>> \in Arcs(ir.edges)}
                    = {AssetNode(a)}
  <2>1. /\ IsContract(contract) /\ IsResolved(contract)
        /\ ir.nodes = Nodes(contract) /\ ir.edges = Edges(contract)
    BY <1>1, BuiltIsDeclared DEF Built
  <2>2. Predecessors(TransformationNode(t)) # {}
    BY <2>1, InputsArePredecessors DEF Predecessors
  <2>3. contract.transformations[t].output \in DOMAIN contract.assets
    BY <2>1, ResolvedTransformations
  <2> QED BY <2>1, <2>2, <2>3, OutputIsOne
<1>2. IInv => TransformationsAreWired
  BY <1>1 DEF TransformationsAreWired
<1> QED
  BY <1>2, Invariance, PTL

(* CycleError says of the IR what is true of the declaration: assets are   *)
(* declared in terms of each other.                                        *)
THEOREM CycleErrors == Spec => []CycleErrorIsDeclaredCycle
<1>1. ASSUME IInv PROVE CycleErrorIsDeclaredCycle
  <2>1. DeclaredArcs = Declared(contract) BY DEF DeclaredArcs, Declared
  <2>2. ASSUME Built
        PROVE  /\ IsContract(contract) /\ IsResolved(contract)
               /\ IsCyclic(ir.nodes, Arcs(ir.edges))
                    <=> IsCyclic(Nodes(contract), Arcs(Edges(contract)))
    BY <1>1, <2>2, BuiltIsDeclared
  <2>3. ASSUME phase = "cyclic" PROVE IsCyclic(DOMAIN contract.assets, Declared(contract))
    BY <1>1, <2>2, <2>3, CycleOfAssets DEF Built, IInv, CyclesAreFound
  <2>4. ASSUME phase = "compiled" PROVE ~IsCyclic(DOMAIN contract.assets, Declared(contract))
    BY <1>1, <2>2, <2>4, CycleOfNodes DEF Built, IInv, CyclesAreFound
  <2> QED BY <2>1, <2>3, <2>4 DEF CycleErrorIsDeclaredCycle
<1> QED
  BY <1>1, Invariance, PTL

(* The planner is only given closed graphs without cycles, which are the   *)
(* graphs it does not refuse.                                              *)
THEOREM Plannable == Spec => []CompiledMeansPlannable
<1>1. ASSUME IInv, status = "rejected" PROVE FALSE
  <2>1. phase = "compiled" /\ PlannerProofs!IInv
    BY <1>1 DEF IInv, PlannerIsFed, PlannerIdle
  <2>2. PlannerProofs!Closed
    BY <1>1, <2>1, BuiltIsDeclared DEF Built, PlannerProofs!Closed
  <2>3. PlannerProofs!Abstract!Cyclic
    BY <1>1, <2>1, <2>2 DEF PlannerProofs!IInv, PlannerProofs!PhaseInv
  <2>4. IsCyclic(ir.nodes, Arcs(ir.edges))
    BY <2>3 DEF PlannerProofs!Abstract!Cyclic, PlannerProofs!Abstract!SelfFeeding,
                IsCyclic, SelfFeeding
  <2> QED BY <1>1, <2>1, <2>4 DEF IInv, CyclesAreFound
<1>2. IInv => CompiledMeansPlannable
  BY <1>1 DEF CompiledMeansPlannable
<1> QED
  BY <1>2, Invariance, PTL

-----------------------------------------------------------------------------
(* In a finished plan the ends of every arc are in order. *)
LEMMA ArcsAreInOrder ==
  ASSUME IInv, status = "planned", NEW m, NEW n, <<m, n>> \in Arcs(ir.edges)
  PROVE  Before(m, n) /\ Position(m) \in Nat /\ Position(n) \in Nat
<1>1. phase = "compiled" /\ PlannerProofs!IInv
  BY DEF IInv, PlannerIsFed, PlannerIdle
<1>2. m \in ir.nodes /\ n \in ir.nodes
  BY <1>1, BuiltIsDeclared DEF Built
<1>3. {ordered[i] : i \in DOMAIN ordered} = ir.nodes
  BY <1>1 DEF PlannerProofs!IInv, PlannerProofs!PhaseInv, PlannerProofs!Emitted
<1>4. \A i, j \in DOMAIN ordered : ordered[i] = ordered[j] => i = j
  BY <1>1 DEF PlannerProofs!IInv, PlannerProofs!NoRepeats
<1>5. \A i \in DOMAIN ordered : \A k \in PlannerProofs!Predecessors(ordered[i]) :
        \E j \in 1..(i - 1) : ordered[j] = k
  BY <1>1 DEF PlannerProofs!IInv, PlannerProofs!PlanRespectsDependencies
<1>6. DOMAIN ordered = 1..Len(ordered) /\ Len(ordered) \in Nat
  BY <1>1 DEF PlannerProofs!IInv, PlannerProofs!TypeOK
<1>7. PICK i \in DOMAIN ordered : ordered[i] = n BY <1>2, <1>3
<1>8. m \in PlannerProofs!Predecessors(ordered[i])
  BY <1>2, <1>7 DEF PlannerProofs!Predecessors
<1>9. PICK j \in 1..(i - 1) : ordered[j] = m BY <1>5, <1>7, <1>8
<1>10. j \in DOMAIN ordered /\ j < i /\ i \in Nat /\ j \in Nat BY <1>6, <1>7, <1>9
<1>11. Position(n) = i BY <1>4, <1>7 DEF Position
<1>12. Position(m) = j BY <1>4, <1>9, <1>10 DEF Position
<1> QED
  BY <1>10, <1>11, <1>12 DEF Before

(* Carrying out plan.json in order never reads what is not built yet.      *)
THEOREM PlanOrder == Spec => []PlanBuildsInputsFirst
<1> USE DEF Built
<1>1. ASSUME IInv, status = "planned" PROVE phase = "compiled"
  BY <1>1 DEF IInv, PlannerIsFed, PlannerIdle
<1>2. ASSUME IInv, status = "planned"
      PROVE  /\ IsContract(contract) /\ IsResolved(contract)
             /\ ir.edges = Edges(contract)
  BY <1>1, <1>2, BuiltIsDeclared
<1>3. ASSUME IInv, status = "planned", NEW a \in DOMAIN contract.assets
      PROVE  /\ \A s \in {contract.assets[a].source} \ {None} :
                  Before(SourceNode(s), AssetNode(a))
             /\ \A b \in contract.assets[a].inputs : Before(AssetNode(b), AssetNode(a))
             /\ \A t \in contract.assets[a].transformationIds :
                  /\ Before(TransformationNode(t), AssetNode(a))
                  /\ \A b \in contract.assets[a].inputs :
                       Before(AssetNode(b), TransformationNode(t))
  <2>1. ASSUME NEW s \in {contract.assets[a].source} \ {None}
        PROVE  Before(SourceNode(s), AssetNode(a))
    BY <1>2, <1>3, AssetFeeders, ArcsAreInOrder
  <2>2. ASSUME NEW t \in contract.assets[a].transformationIds
        PROVE  <<TransformationNode(t), AssetNode(a)>> \in Arcs(ir.edges)
    BY <1>2, <1>3, AssetFeeders
  <2>3. ASSUME NEW t \in contract.assets[a].transformationIds,
               NEW b \in contract.assets[a].inputs
        PROVE  <<AssetNode(b), TransformationNode(t)>> \in Arcs(ir.edges)
    <3>1. t \in DOMAIN contract.transformations /\ b \in contract.transformations[t].inputs
      BY <1>2, <1>3, ResolvedAssets, ResolvedTransformations
    <3> QED BY <1>2, <1>3, <3>1, TransformationFeeders
  <2>4. ASSUME NEW b \in contract.assets[a].inputs PROVE Before(AssetNode(b), AssetNode(a))
    <3>1. CASE contract.assets[a].transformationIds = {}
      BY <1>2, <1>3, <3>1, AssetFeeders, ArcsAreInOrder
    <3>2. CASE contract.assets[a].transformationIds # {}
      <4>1. PICK t \in contract.assets[a].transformationIds : TRUE BY <3>2
      <4>2. /\ Before(AssetNode(b), TransformationNode(t)) /\ Position(AssetNode(b)) \in Nat
            /\ Before(TransformationNode(t), AssetNode(a)) /\ Position(AssetNode(a)) \in Nat
            /\ Position(TransformationNode(t)) \in Nat
        BY <1>3, <2>2, <2>3, ArcsAreInOrder
      <4> QED BY <4>2 DEF Before
    <3> QED BY <3>1, <3>2
  <2> QED BY <1>3, <2>1, <2>2, <2>3, <2>4, ArcsAreInOrder
<1>4. ASSUME IInv, status = "planned"
      PROVE  /\ \A q \in DOMAIN contract.quality :
                  Before(AssetNode(contract.quality[q].asset), QualityNode(q))
             /\ \A o \in DOMAIN contract.anomalies :
                  Before(AssetNode(contract.anomalies[o]), AnomalyNode(o))
  BY <1>2, <1>4, CheckFeeders, ArcsAreInOrder
<1>5. IInv => PlanBuildsInputsFirst
  BY <1>3, <1>4 DEF PlanBuildsInputsFirst
<1> QED
  BY <1>5, Invariance, PTL
=============================================================================
