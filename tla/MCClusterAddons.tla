------------------------- MODULE MCClusterAddons -------------------------
(***************************************************************************)
(* Instances of ClusterAddons for TLC.                                     *)
(***************************************************************************)
EXTENDS ClusterAddons

\* An object at the beginning of an add-on and one in the middle.
RefusableObjects == {"requester-clusterrole", "coredns-deployment"}

\* A /24, and a /29 at the end of the byte.
TwoNetworks == {[last |-> 0, size |-> 256], [last |-> 248, size |-> 8]}
=============================================================================
