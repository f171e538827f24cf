---------------------------- MODULE MCSparkRunner ----------------------------
(***************************************************************************)
(* SparkRunner over products with a transformation "t" of the inputs "a"   *)
(* and "b".  Files "a0" and "b0" are its fixtures, "x" and "y" replace     *)
(* them in negative controls.                                              *)
(***************************************************************************)
EXTENDS SparkRunner, TLC

Baseline == "a" :> "a0" @@ "b" :> "b0"

Control(fixtures, failures) == [fixtures |-> fixtures, failures |-> failures]

Given(rules, fixtures, controls, attempts, expected) ==
  /\ product = [transformations |-> "t" :> {"a", "b"}, rules |-> rules]
  /\ suite = [transformation |-> "t", fixtures |-> fixtures, controls |-> controls,
              attempts |-> attempts, expected |-> expected, schema |-> TRUE]

(* Rows that are not repeatable break the rules of flips in draw 1 exactly *)
(* where they do not in draw 0, where they break the rules of b.           *)
Breaks(b, flips) ==
  /\ repeatable => flips = {}
  /\ breaks = [f \in Files, d \in Draws |->
                 IF d = 0 THEN b[f] ELSE (b[f] \ flips) \cup (flips \ b[f])]

(* Suites that bind, or fail to, in every way validate_verification_suite  *)
(* tells apart; a rule may refer to asset "c", which is no input.          *)
Bindings ==
  /\ \E fixtures \in {Baseline, "a" :> "a0", Baseline @@ "c" :> "x"},
        replaced \in {"a" :> "x", "b" :> "b0", "c" :> "x"},
        failures \in {{"r1"}, {"r2"}, {"r1", "r2"}},
        rules \in {"r1" :> None, "r1" :> "b", "r1" :> "c"},
        expected \in {"right", "malformed"} :
       Given(rules, fixtures, <<Control(replaced, failures)>>, 2, expected)
  /\ Breaks([f \in Files |-> IF f = "x" THEN {"r1"} ELSE {}], {})

UnknownTransformation ==
  /\ product = [transformations |-> "u" :> {"a"}, rules |-> "r1" :> None]
  /\ suite = [transformation |-> "t", fixtures |-> "a" :> "a0",
              controls |-> <<Control("a" :> "x", {"r1"})>>, attempts |-> 2, expected |-> "right",
              schema |-> TRUE]
  /\ Breaks([f \in Files |-> {}], {})

(* Nothing wrong, perhaps, but the expected schema. *)
WrongSchema ==
  /\ product = [transformations |-> "t" :> {"a", "b"}, rules |-> "r1" :> None]
  /\ suite = [transformation |-> "t", fixtures |-> Baseline,
              controls |-> <<Control("a" :> "x", {"r1"})>>, attempts |-> 2, expected |-> "right",
              schema |-> FALSE]
  /\ \E b \in [Files -> SUBSET {"r1"}], flips \in SUBSET {"r1"} : Breaks(b, flips)

(* Two controls one after the other, three attempts, any of the data good  *)
(* or bad; everything is repeatable.                                       *)
Replacements == {"a" :> "x", "b" :> "y", "a" :> "x" @@ "b" :> "y"}

TwoControls ==
  /\ repeatable /\ ordered
  /\ \E v, w \in Replacements, e \in {{"r1"}, {"r1", "r2"}}, f \in {{"r1"}, {"r2"}},
        expected \in {"right", "wrong"} :
       Given("r1" :> None @@ "r2" :> "a", Baseline, <<Control(v, e), Control(w, f)>>, 3, expected)
  /\ \E b \in [Files -> SUBSET {"r1", "r2"}] :
       /\ b["b0"] = {}
       /\ b["a0"] \subseteq {"r1"}
       /\ Breaks(b, {})

(* The rows, their order or both differ from one evaluation or read to the *)
(* next: three attempts and a control, or two and two.                     *)
Unrepeatable ==
  /\ ~repeatable \/ ~ordered
  /\ \/ \E e \in {{"r1"}, {"r1", "r2"}} :
          Given("r1" :> None @@ "r2" :> "a", Baseline, <<Control("a" :> "x", e)>>, 3, "right")
     \/ \E w \in {"a" :> "x", "b" :> "y"} :
          Given("r1" :> None @@ "r2" :> "a", Baseline,
                <<Control("a" :> "x", {"r1"}), Control(w, {"r2"})>>, 2, "right")
  /\ \E r, s \in SUBSET {"r1", "r2"}, t \in {{}, {"r1"}}, flips \in {{}, {"r1"}, {"r1", "r2"}} :
       Breaks([f \in Files |-> CASE f = "x" -> r [] f = "y" -> s [] f = "a0" -> t [] OTHER -> {}],
              flips)

MCInit ==
  /\ repeatable \in BOOLEAN
  /\ ordered \in BOOLEAN
  /\ Bindings \/ UnknownTransformation \/ WrongSchema \/ TwoControls \/ Unrepeatable
  /\ Init

MCSpec == MCInit /\ [][Next]_vars
=============================================================================
