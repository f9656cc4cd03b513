----------------------------- MODULE PortLeases -----------------------------
(***************************************************************************)
(* What a hypervisor promises to the components scheduled on it: ports are *)
(* leased one at a time, each to at most one owner, until they are given   *)
(* back.  Which free port an owner gets is left open.                      *)
(***************************************************************************)
CONSTANTS Port, Owner

VARIABLE leases        \* the owners of each port, none when it is free

HeldBy(o) == {p \in Port : o \in leases[p]}

Grant(o, p) ==
    /\ HeldBy(o) = {}
    /\ leases[p] = {}
    /\ leases' = [leases EXCEPT ![p] = {o}]

Release(o) ==
    /\ HeldBy(o) # {}
    /\ leases' = [p \in Port |-> leases[p] \ {o}]

Init == leases = [p \in Port |-> {}]

Next == \E o \in Owner : Release(o) \/ \E p \in Port : Grant(o, p)

Spec == Init /\ [][Next]_leases
=============================================================================
