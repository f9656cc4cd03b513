------------------------ MODULE MCIngressReconcile ------------------------
(***************************************************************************)
(* Instances of IngressReconcile for TLC.                                  *)
(***************************************************************************)
EXTENDS IngressReconcile

=============================================================================
