----------------------------- MODULE MCCompiler -----------------------------
(***************************************************************************)
(* Families of contracts for Compiler.  Names are numbers; source 9 and    *)
(* asset 9 are mentioned by contracts but never declared.                  *)
(***************************************************************************)
EXTENDS Compiler, TLC

MCSources == {1, 9}
MCAssets == {1, 2, 3, 9}
MCTransformations == {1, 2}
MCRules == {1}
MCAnomalies == {1}

NonEmpty(S) == (SUBSET S) \ {{}}

(* Every asset reading source s \in S or a nonempty set of inputs from I. *)
AssetsOver(S, I, T) ==
  [source : S, inputs : {{}}, transformationIds : SUBSET T]
    \cup [source : {None}, inputs : NonEmpty(I), transformationIds : SUBSET T]

TransformationsOver(I, O) == [inputs : NonEmpty(I), output : O]

NoRules == [q \in {} |-> 0]
RuleOn(a) == 1 :> [asset |-> a, reference |-> None]

Contract(assets, transformations, quality, anomalies) ==
  contract = [sources |-> {1}, assets |-> assets, transformations |-> transformations,
              quality |-> quality, anomalies |-> anomalies]

(* Two assets, a transformation or none, any of them naming source 9,      *)
(* asset 9 or transformation 2, none of which is declared.                 *)
DanglingNames ==
  \E a \in AssetsOver({1, 9}, {1, 2, 9}, {1}), b \in AssetsOver({1, 9}, {1, 2, 9}, {1, 2}),
     t \in {NoRules} \cup {1 :> x : x \in TransformationsOver({1, 2, 9}, {1, 2, 9})} :
    Contract(1 :> a @@ 2 :> b, t, RuleOn(2), NoRules)

(* Every quality and anomaly rule over a small fixed graph. *)
Rules ==
  \E q \in {NoRules} \cup {1 :> r : r \in [asset : {1, 2, 9},
                                          reference : {None, Malformed, 1, 2, 9}]},
     o \in {NoRules} \cup {1 :> a : a \in {1, 2, 9}} :
    Contract(1 :> [source |-> 1, inputs |-> {}, transformationIds |-> {}]
               @@ 2 :> [source |-> None, inputs |-> {1}, transformationIds |-> {1}],
             1 :> [inputs |-> {1}, output |-> 2], q, o)

(* Three assets that read each other directly or through transformations,  *)
(* each of which has the inputs of its output asset (own) or asset 1 alone. *)
Graphs ==
  \E a \in [source : {1}, inputs : {{}}, transformationIds : {{}}]
             \cup [source : {None}, inputs : {{2}, {3}}, transformationIds : {{}}],
     b, c \in AssetsOver({1}, {1, 2, 3}, {1, 2}) :
    LET declared(out) == IF out = 2 THEN b.inputs ELSE c.inputs
        Producers == UNION {{[inputs |-> i, output |-> out] :
                               i \in {declared(out), {1}} \ {{}}} : out \in {2, 3}}
    IN \E t \in {NoRules} \cup {1 :> x @@ 2 :> y : x, y \in Producers} :
         Contract(1 :> a @@ 2 :> b @@ 3 :> c, t, RuleOn(2), 1 :> 3)

MCInit ==
  /\ DanglingNames \/ Rules \/ Graphs
  /\ Init

MCSpec == MCInit /\ [][Next]_vars

(* "urn:dagwright:<product>:<kind>:<name>" sorts by kind, then by name. *)
KindRank ==
  [k \in {"anomaly", "asset", "quality", "source", "transformation"} |->
     CASE k = "anomaly" -> 0 [] k = "asset" -> 1 [] k = "quality" -> 2
       [] k = "source" -> 3 [] k = "transformation" -> 4]
MCKey == [n \in NodeIds |-> 10 * KindRank[n[1]] + n[2]]
=============================================================================
