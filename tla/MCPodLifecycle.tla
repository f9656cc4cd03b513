-------------------------- MODULE MCPodLifecycle --------------------------
(* Instances of PodLifecycle for model checking.                           *)
EXTENDS PodLifecycle
=============================================================================
