----------------------------- MODULE MCOverlays -----------------------------
(***************************************************************************)
(* Overlays over a contract with a version, metadata (a name and an        *)
(* environment) and two sources, the first of them with a connection.      *)
(***************************************************************************)
EXTENDS Overlays, TLC

Strings == <<"+", "0", "00", "1", "environment", "metadata", "name", "ref", "sources", "version">>
MCRank == [t \in ToSet(Strings) |-> CHOOSE k \in DOMAIN Strings : Strings[k] = t]

MCIndexOf == "0" :> 0 @@ "00" :> 0 @@ "1" :> 1
MCIndexToken == 0 :> "0" @@ 1 :> "1"

MCScalars == {"old", "new", "newer", "newest", "bad"}

MCIdentity == {<<"version">>, <<"metadata", "name">>}

Scalar(s) == <<>> :> s
Source(ref) == <<>> :> "object" @@ <<"ref">> :> ref
Metadata(s) == <<>> :> "object" @@ <<"name">> :> s @@ <<"environment">> :> s

MCBase ==
  <<>> :> "object" @@ <<"version">> :> "old"
    @@ <<"metadata">> :> "object" @@ <<"metadata", "name">> :> "old"
    @@ <<"metadata", "environment">> :> "old"
    @@ <<"sources">> :> "list" @@ <<"sources", "0">> :> "object"
    @@ <<"sources", "0", "ref">> :> "old" @@ <<"sources", "1">> :> "object"
    @@ <<"sources", "1", "ref">> :> "old"

(* A source has a connection or is not there at all; "bad" is no value of  *)
(* any field.                                                              *)
MCIsDataProduct(doc) ==
  /\ \A p \in DOMAIN doc :
       /\ p \in DOMAIN MCBase
       /\ doc[p] \in {"object", "list"} \/ MCBase[p] \in {"object", "list"} => doc[p] = MCBase[p]
       /\ doc[p] # "bad"
  /\ \A p \in DOMAIN MCBase : Front(p) \in DOMAIN doc /\ Len(p) # 2 => p \in DOMAIN doc

(* Fields that exist, that do not, and list elements written in two ways. *)
Pointers ==
  {<<"version">>, <<"metadata">>, <<"metadata", "name">>, <<"metadata", "environment">>,
   <<"metadata", "+">>, <<"metadata", "environment", "+">>, <<"sources">>, <<"sources", "0">>,
   <<"sources", "00">>, <<"sources", "+">>, <<"sources", "00", "ref">>, <<"sources", "1", "ref">>}

MCPatches ==
  {[pointer |-> p, value |-> v] : p \in Pointers,
     v \in {Scalar("new"), Scalar("bad"), Source("new"), Source("newer")}}
    \cup {[pointer |-> <<"metadata">>, value |-> Metadata("new")]}

Overlay(name, patches) == [name |-> name, patches |-> patches]

(* Two overlays in both orders, the second with one patch or with two.     *)
MCInit ==
  /\ base = MCBase
  /\ \E p, q \in MCPatches, name \in {1, 2}, more \in {<<>>} \cup
        {<<[pointer |-> s, value |-> Scalar("newest")]>> :
           s \in {<<"metadata", "environment">>, <<"sources", "0", "ref">>}} :
       LET a == Overlay(2, <<p>>)
           b == Overlay(name, <<q>> \o more)
       IN arguments = [c \in Calls |-> IF c = 1 THEN <<a, b>> ELSE <<b, a>>]
  /\ Init

MCSpec == MCInit /\ [][Next]_vars
=============================================================================
