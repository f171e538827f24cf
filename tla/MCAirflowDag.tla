---------------------------- MODULE MCAirflowDag ----------------------------
(***************************************************************************)
(* IRs for AirflowDag: those compile_contract makes of small contracts,    *)
(* and IRs handed to the adapter directly, which it must check itself.     *)
(***************************************************************************)
EXTENDS AirflowDag, TLC

CONSTANTS
  Attempts,             \* bound: the values of maxAttempts
  None                  \* an optional field of a contract left out

MCNames == {"a-b", "a_b", "c"}
MCPythonName == [n \in MCNames |-> IF n = "c" THEN "c" ELSE "a_b"]

KindRank ==
  [k \in SupportedNodeKinds \cup {"other"} |->
     CASE k = "anomaly" -> 0 [] k = "asset" -> 1 [] k = "other" -> 2 [] k = "quality" -> 3
       [] k = "source" -> 4 [] k = "transformation" -> 5]
NameRank == [n \in MCNames |-> CASE n = "a-b" -> 0 [] n = "a_b" -> 1 [] n = "c" -> 2]
MCUrns == (SupportedNodeKinds \cup {"other"}) \X MCNames
MCKey == [n \in MCUrns |-> 3 * KindRank[n[1]] + NameRank[n[2]]]

Graph == INSTANCE PipelineGraph WITH
  SourceNames <- MCNames, AssetNames <- MCNames, TransformationIds <- MCNames,
  RuleIds <- MCNames, AnomalyIds <- MCNames

Asset(s, i, t) == [source |-> s, inputs |-> i, transformationIds |-> t]
Nothing == [x \in {} |-> None]

(* Asset a reads a source, asset b reads a, directly or through            *)
(* transformation t; one rule and one anomaly check.  Any of the names may *)
(* coincide after _python_name.                                            *)
Contract(a, b, t, q) ==
  [sources |-> {"c"},
   assets |-> a :> Asset("c", {}, {}) @@ b :> Asset(None, {a}, t),
   transformations |-> [x \in t |-> [inputs |-> {a}, output |-> b]],
   quality |-> q :> [asset |-> b, reference |-> None],
   anomalies |-> "c" :> a]

(* Two sources feed one asset each, a third asset reads both of them, and  *)
(* one or two transformations build it.                                    *)
Join(T) ==
  [sources |-> {"a-b", "c"},
   assets |-> "a-b" :> Asset("a-b", {}, {}) @@ "c" :> Asset("c", {}, {})
                @@ "a_b" :> Asset(None, {"a-b", "c"}, T),
   transformations |-> [x \in T |-> [inputs |-> {"a-b", "c"}, output |-> "a_b"]],
   quality |-> Nothing, anomalies |-> Nothing]

(* Two chains side by side, and a rule that refers to the other one. *)
TwoSources ==
  [sources |-> {"a-b", "c"},
   assets |-> "a-b" :> Asset("a-b", {}, {}) @@ "c" :> Asset("c", {}, {}),
   transformations |-> Nothing,
   quality |-> "c" :> [asset |-> "c", reference |-> "a-b"] @@
               "a-b" :> [asset |-> "a-b", reference |-> None],
   anomalies |-> Nothing]

Contracts ==
  {Contract(a, b, t, q) : a, b \in MCNames, t \in {{}, {"a-b"}, {"a-b", "a_b"}}, q \in MCNames}
    \cup {Join(t) : t \in {{}, {"c"}}} \cup {TwoSources}

(* A node as compile_contract names it: its stable id is made of its kind  *)
(* and its name.                                                           *)
Node(n, k, action, stream) ==
  [kind |-> n[1], name |-> n[2], maxAttempts |-> k, action |-> action, stream |-> stream]

(* What compile_contract makes of a contract: it resolves, it has no       *)
(* cycle, and every node gets the retry policy of the product.             *)
Compiles(c) ==
  /\ Cardinality(DOMAIN c.assets) > 1
  /\ ~Graph!HasMissing(c)
  /\ ~Graph!InputsDisagree(c)
  /\ ~Graph!IsCyclic(Graph!Nodes(c), Graph!Arcs(Graph!Edges(c)))

Compiled ==
  \E c \in {d \in Contracts : Compiles(d)}, k \in Attempts \ {0}, s \in BOOLEAN,
     u \in {{}, {"orchestrator"}, {"schedule"}} :
    ir = [unsupported |-> u,
          nodes |-> [n \in Graph!Nodes(c) |->
                       Node(n, k, "fail", s /\ n[1] = "source")],
          edges |-> Graph!Edges(c)]

(* An IR built by a caller of the adapter: attempts differ from node to    *)
(* node or are no number of attempts, and edges may lead nowhere.          *)
Given(ids, attempts, edges) ==
  \E k \in [ids -> attempts], es \in SUBSET edges :
    ir = [unsupported |-> {},
          nodes |-> [n \in ids |-> Node(n, k[n], "fail", FALSE)],
          edges |-> {Graph!Edge(e[1], e[2], "depends_on") : e \in es}]

(* One whose stable ids say nothing of kinds and names; ids may be empty. *)
Renamed(ids, edges) ==
  \E k \in [ids -> {"asset", "quality"} \X MCNames], es \in SUBSET edges :
    ir = [unsupported |-> {},
          nodes |-> [n \in ids |-> Node(k[n], 1, "fail", FALSE)],
          edges |-> {Graph!Edge(e[1], e[2], "depends_on") : e \in es}]

N(kind, name) == <<kind, name>>
A == N("asset", "a-b")
B == N("asset", "c")
S == N("source", "c")
T == N("transformation", "a_b")

ByHand ==
  \/ Given({A, B, S}, Attempts \cup {Malformed}, {<<S, A>>, <<A, B>>, <<S, B>>, <<A, T>>})
  \/ Given({A, B, S, T}, Attempts \ {0}, {<<S, T>>, <<T, A>>, <<S, B>>, <<B, A>>})
  \/ Given({A, B}, {1}, {<<A, B>>, <<B, A>>, <<B, B>>})
  \/ Renamed({}, {})
  \/ Renamed({A, B, S}, {<<S, A>>, <<A, B>>})
  \/ \E n \in {N("other", "c"), A}, action \in {"fail", "other"}, kind \in {"reads", "other"} :
       ir = [unsupported |-> {},
             nodes |-> [m \in {n, S} |-> Node(m, 1, action, FALSE)],
             edges |-> {Graph!Edge(S, n, kind)}]

MCInit ==
  /\ Compiled \/ ByHand
  /\ Init

MCSpec == MCInit /\ [][Next]_vars /\ Fairness
=============================================================================
