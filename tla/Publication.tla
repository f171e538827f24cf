----------------------------- MODULE Publication -----------------------------
(***************************************************************************)
(* What a reader of an output directory may rely on: a compiled bundle     *)
(* appears there all at once, stays as it is, and goes away only when the  *)
(* user takes it away.  ReviewBundle implements this specification.        *)
(***************************************************************************)
EXTENDS Sequences

CONSTANT Bundles        \* the bundles that can be compiled: sequences of files

VARIABLES
  shown,                \* a bundle is on display
  shelf                 \* its files, path -> content

PathsOf(b) == {b[k].path : k \in DOMAIN b}

(* files is bundle b: these paths, each with the content b gives it. *)
IsCopyOf(files, b) ==
  /\ DOMAIN files = PathsOf(b)
  /\ \A k \in DOMAIN b : files[b[k].path] = b[k].content

NoFiles == [p \in {} |-> 0]

Init ==
  /\ ~shown
  /\ shelf = NoFiles

Publish ==
  /\ ~shown
  /\ shown'
  /\ \E b \in Bundles : IsCopyOf(shelf', b)

Withdraw ==
  /\ shown
  /\ ~shown'
  /\ shelf' = NoFiles

Next == Publish \/ Withdraw

Spec == Init /\ [][Next]_<<shown, shelf>>
=============================================================================
