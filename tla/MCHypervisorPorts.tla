------------------------- MODULE MCHypervisorPorts -------------------------
(* Five owners compete for a range of four ports.                          *)
EXTENDS HypervisorPorts
=============================================================================
