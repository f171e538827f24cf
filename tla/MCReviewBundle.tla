--------------------------- MODULE MCReviewBundle ---------------------------
(***************************************************************************)
(* ReviewBundle over the bundles of small contracts.  Transformations 1    *)
(* and 2 are "a-b" and "a_b"; 3 is another name.                           *)
(***************************************************************************)
EXTENDS ReviewBundle

CONSTANTS
  Targets,              \* bound: the --target values used
  Versions              \* bound: the contract versions compiled

MCSafeName == <<1, 1, 2>>

Build == INSTANCE BundleFiles WITH SafeName <- MCSafeName

(* Each contract has one or two of the transformations, all of them SQL. *)
Contracts ==
  {[version |-> v, target |-> t, sql |-> s, transformations |-> {s[k] : k \in DOMAIN s}] :
     v \in Versions, t \in Targets, s \in {<<3>>, <<1, 2>>, <<2, 3>>}}

MCBundles == {Build!BuildReviewBundle(c) : c \in {d \in Contracts : Build!Accepted(d)}}

MCManifest == <<5, 0>>

MCUserPaths == {MCManifest, Build!CorePath}
=============================================================================
