------------------------- MODULE MCReleaseCandidate -------------------------
(***************************************************************************)
(* Locks of up to four packages for ReleaseCandidate, one of them in two   *)
(* versions, and two trees between which somebody may switch.              *)
(***************************************************************************)
EXTENDS ReleaseCandidate, TLC

InOrder == <<".gitignore", "native wheel", "wheel", "sdist", "sbom", "licenses">>
MCFileNames == {".gitignore", "native wheel", "wheel", "sdist"}
MCPlace == [f \in MCFileNames \cup {"sbom", "licenses"} |-> CHOOSE k \in 1..6 : InOrder[k] = f]
MCTrees == {1, 2}

On(name) == [name |-> name, applies |-> TRUE]
Off(name) == [name |-> name, applies |-> FALSE]
Locked(name, version, dependencies) ==
  [name |-> name, version |-> version, dependencies |-> dependencies]

Lock(directly, a, b1, b2, c) ==
  [direct |-> directly,
   packages |-> {Locked("a", 1, a), Locked("b", 1, b1), Locked("b", 2, b2), Locked("c", 1, c)}]

OtherLock == Lock({"a"}, {On("b")}, {}, {}, {})

Emitted == {".gitignore", "wheel", "sdist"}

Given(l, e, s, f) ==
  /\ lock = 1 :> l @@ 2 :> OtherLock
  /\ emits = 1 :> e @@ 2 :> Emitted
  /\ steady = 1 :> s @@ 2 :> Emitted
  /\ flaws = 1 :> f @@ 2 :> {}

(* Closures of a tree that can be released: packages that depend on each  *)
(* other or on themselves, on a name the lock lacks, through one version   *)
(* only, under a marker that does not hold, or are not needed at all.      *)
Closures ==
  \E directly \in {{"a"}, {"b", "a"}},
     a \in {{On("b"), On("a")}, {Off("b"), On("c")}},
     b1 \in {{On("d")}, {On("c")}}, b2 \in {{On("a")}, {Off("c"), On("b")}},
     c \in {{}, {On("b")}} :
    Given(Lock(directly, a, b1, b2, c), Emitted, Emitted, {})

(* Every way a tree can fail to be released, and another set of files. *)
Builds ==
  \/ \E s \in SUBSET {"wheel", "sdist"}, f \in SUBSET {"incomplete", "broken"} :
       Given(OtherLock, Emitted, {".gitignore"} \cup s, f)
  \/ Given(OtherLock, {".gitignore", "native wheel", "sdist"},
           {".gitignore", "native wheel", "sdist"}, {})

MCInit ==
  /\ Closures \/ Builds
  /\ Init

MCSpec == MCInit /\ [][Next]_vars /\ Fairness
=============================================================================
