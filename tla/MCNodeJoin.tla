---------------------------- MODULE MCNodeJoin ----------------------------
(***************************************************************************)
(* Instances of NodeJoin for TLC.                                          *)
(***************************************************************************)
EXTENDS NodeJoin

OneToken == {[id |-> 1, secret |-> 1]}

\* Two tokens with one id: their secrets have the same name.
TwinTokens == OneToken \cup {[id |-> 1, secret |-> 2]}

=============================================================================
