---------------------------- MODULE PipelineGraph ----------------------------
(***************************************************************************)
(* The pure part of compiler/compile.py: which references of a DataProduct *)
(* resolve, and the nodes and edges of its IR.  A contract is a record     *)
(*   sources          the set of source names                              *)
(*   assets           name -> [source, inputs, transformationIds]          *)
(*   transformations  id   -> [inputs, output]                             *)
(*   quality          id   -> [asset, reference]                           *)
(*   anomalies        id   -> the asset observed                           *)
(* and its lists are sets: _require_unique makes names and ids unique, and *)
(* normalize_contract sorts by them, so declaration order carries nothing. *)
(***************************************************************************)
EXTENDS Naturals, FiniteSets

CONSTANTS
  SourceNames, AssetNames, TransformationIds, RuleIds, AnomalyIds,
  None,                 \* an optional field left out
  Malformed             \* a quality reference without the 'asset.field' form

ASSUME MarkersAssumption ==
  /\ None \notin SourceNames \cup AssetNames
  /\ Malformed \notin AssetNames \cup {None}

-----------------------------------------------------------------------------
(* What contracts/models.py accepts as a DataProduct. *)
AssetModel ==
  {a \in [source : SourceNames \cup {None},
          inputs : SUBSET AssetNames,
          transformationIds : SUBSET TransformationIds] :
     (a.source = None) # (a.inputs = {})}

TransformationModel ==
  [inputs : (SUBSET AssetNames) \ {{}}, output : AssetNames]

QualityModel ==
  [asset : AssetNames, reference : AssetNames \cup {None, Malformed}]

IsContract(c) ==
  /\ c.sources \in SUBSET SourceNames
  /\ DOMAIN c.assets \subseteq AssetNames
  /\ \A a \in DOMAIN c.assets : c.assets[a] \in AssetModel
  /\ DOMAIN c.transformations \subseteq TransformationIds
  /\ \A t \in DOMAIN c.transformations : c.transformations[t] \in TransformationModel
  /\ DOMAIN c.quality \subseteq RuleIds
  /\ \A q \in DOMAIN c.quality : c.quality[q] \in QualityModel
  /\ DOMAIN c.anomalies \subseteq AnomalyIds
  /\ \A o \in DOMAIN c.anomalies : c.anomalies[o] \in AssetNames

-----------------------------------------------------------------------------
(* Mutant: the inputs of an asset are not looked up. *)
AssetHasMissingButInputs(c, a) ==
  \/ c.assets[a].source \notin c.sources \cup {None}
  \/ \E t \in c.assets[a].transformationIds :
       \/ t \notin DOMAIN c.transformations
       \/ c.transformations[t].output # a

(* _validate_references: what ends up in the list `missing`. *)
AssetHasMissing(c, a) ==
  \/ c.assets[a].source \notin c.sources \cup {None}
  \/ ~(c.assets[a].inputs \subseteq DOMAIN c.assets)
  \/ \E t \in c.assets[a].transformationIds :
       \/ t \notin DOMAIN c.transformations
       \/ c.transformations[t].output # a

(* Mutant: the output asset need not name the transformation back. *)
BoundToExistingOutput(c, t) == c.transformations[t].output \in DOMAIN c.assets

(* The output asset exists and names the transformation back. *)
BoundToOutput(c, t) ==
  /\ c.transformations[t].output \in DOMAIN c.assets
  /\ t \in c.assets[c.transformations[t].output].transformationIds

TransformationHasMissing(c, t) ==
  \/ ~(c.transformations[t].inputs \subseteq DOMAIN c.assets)
  \/ ~BoundToOutput(c, t)

RuleHasMissing(c, q) ==
  \/ c.quality[q].asset \notin DOMAIN c.assets
  \/ c.quality[q].reference \notin DOMAIN c.assets \cup {None, Malformed}

HasMissing(c) ==
  \/ \E a \in DOMAIN c.assets : AssetHasMissing(c, a)
  \/ \E t \in DOMAIN c.transformations : TransformationHasMissing(c, t)
  \/ \E q \in DOMAIN c.quality : RuleHasMissing(c, q)
  \/ \E o \in DOMAIN c.anomalies : c.anomalies[o] \notin DOMAIN c.assets

(* Mutant: a transformation may leave inputs of its asset out. *)
InputsExceed(c) ==
  \E t \in DOMAIN c.transformations :
    /\ BoundToOutput(c, t)
    /\ ~(c.transformations[t].inputs \subseteq c.assets[c.transformations[t].output].inputs)

(* The two errors raised on the spot, whatever else is missing. *)
InputsDisagree(c) ==
  \E t \in DOMAIN c.transformations :
    /\ BoundToOutput(c, t)
    /\ c.transformations[t].inputs # c.assets[c.transformations[t].output].inputs

HasMalformedReference(c) == \E q \in DOMAIN c.quality : c.quality[q].reference = Malformed

-----------------------------------------------------------------------------
(* Stable ids: the URN of an object within its product. *)
SourceNode(s) == <<"source", s>>
AssetNode(a) == <<"asset", a>>
TransformationNode(t) == <<"transformation", t>>
QualityNode(q) == <<"quality", q>>
AnomalyNode(o) == <<"anomaly", o>>

NodeIds ==
  {SourceNode(s) : s \in SourceNames} \cup {AssetNode(a) : a \in AssetNames}
    \cup {TransformationNode(t) : t \in TransformationIds}
    \cup {QualityNode(q) : q \in RuleIds} \cup {AnomalyNode(o) : o \in AnomalyIds}

Nodes(c) ==
  {SourceNode(s) : s \in c.sources} \cup {AssetNode(a) : a \in DOMAIN c.assets}
    \cup {TransformationNode(t) : t \in DOMAIN c.transformations}
    \cup {QualityNode(q) : q \in DOMAIN c.quality}
    \cup {AnomalyNode(o) : o \in DOMAIN c.anomalies}

Edge(source, target, kind) == [source |-> source, target |-> target, kind |-> kind]

(* The transformations that produce asset a. *)
Linked(c, a) ==
  {t \in DOMAIN c.transformations :
     c.transformations[t].output = a /\ t \in c.assets[a].transformationIds}

(* Mutant: a direct dependency points at the input. *)
AssetEdgesBackwards(c, a) ==
  {Edge(SourceNode(s), AssetNode(a), "reads") : s \in {c.assets[a].source} \ {None}}
    \cup
  IF Linked(c, a) # {}
  THEN (UNION {{Edge(AssetNode(i), TransformationNode(t), "transforms") :
                  i \in c.transformations[t].inputs} : t \in Linked(c, a)})
         \cup {Edge(TransformationNode(t), AssetNode(a), "transforms") : t \in Linked(c, a)}
  ELSE {Edge(AssetNode(a), AssetNode(i), "depends_on") : i \in c.assets[a].inputs}

AssetEdges(c, a) ==
  {Edge(SourceNode(s), AssetNode(a), "reads") : s \in {c.assets[a].source} \ {None}}
    \cup
  IF Linked(c, a) # {}
  THEN (UNION {{Edge(AssetNode(i), TransformationNode(t), "transforms") :
                  i \in c.transformations[t].inputs} : t \in Linked(c, a)})
         \cup {Edge(TransformationNode(t), AssetNode(a), "transforms") : t \in Linked(c, a)}
  ELSE {Edge(AssetNode(i), AssetNode(a), "depends_on") : i \in c.assets[a].inputs}

(* Mutant: a quality rule gates the asset instead of following it. *)
EdgesGatingAssets(c) ==
  (UNION {AssetEdges(c, a) : a \in DOMAIN c.assets})
    \cup {Edge(QualityNode(q), AssetNode(c.quality[q].asset), "validates") :
            q \in DOMAIN c.quality}
    \cup {Edge(AssetNode(c.anomalies[o]), AnomalyNode(o), "observes") :
            o \in DOMAIN c.anomalies}

Edges(c) ==
  (UNION {AssetEdges(c, a) : a \in DOMAIN c.assets})
    \cup {Edge(AssetNode(c.quality[q].asset), QualityNode(q), "validates") :
            q \in DOMAIN c.quality}
    \cup {Edge(AssetNode(c.anomalies[o]), AnomalyNode(o), "observes") :
            o \in DOMAIN c.anomalies}

(* The edges of a graph as the pairs networkx sees. *)
Arcs(es) == {<<e.source, e.target>> : e \in es}

(* A set of nodes each of which has a predecessor in the set. *)
SelfFeeding(S, arcs) ==
  /\ S # {}
  /\ \A n \in S : \E m \in S : <<m, n>> \in arcs

(* Mutant: only an edge from a node to itself is seen. *)
HasSelfLoop(nodes, arcs) == \E n \in nodes : <<n, n>> \in arcs

IsCyclic(nodes, arcs) == \E S \in SUBSET nodes : SelfFeeding(S, arcs)

(* The edges shown to schema hooks. *)
CarriesData(e) == e.kind \in {"reads", "depends_on", "transforms"}
=============================================================================
