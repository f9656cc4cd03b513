----------------------- MODULE MCComponentScheduling -----------------------
(***************************************************************************)
(* Instances of ComponentScheduling for TLC.                               *)
(***************************************************************************)
EXTENDS ComponentScheduling, TLC

\* Managers run the same code and are interchangeable.
Managers == Permutations(Manager)
=============================================================================
