--------------------------- MODULE MCVerifyCommand ---------------------------
(***************************************************************************)
(* VerifyCommand for two commands one after the other: what the first may *)
(* leave to the second is all there is, a bundle whole or not, evidence    *)
(* and a subprocess that outlives its command.                             *)
(***************************************************************************)
EXTENDS VerifyCommand
=============================================================================
