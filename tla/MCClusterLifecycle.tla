------------------------ MODULE MCClusterLifecycle ------------------------
(***************************************************************************)
(* The instance of ClusterLifecycle: the constants are in the              *)
(* configuration.                                                          *)
(***************************************************************************)
EXTENDS ClusterLifecycle
=============================================================================
