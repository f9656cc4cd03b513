-------------------------- MODULE MCEtcdMembership --------------------------
(***************************************************************************)
(* Instances of EtcdMembership for TLC.                                    *)
(***************************************************************************)
EXTENDS EtcdMembership

=============================================================================
