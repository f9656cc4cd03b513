-------------------------- MODULE HypervisorPorts --------------------------
(***************************************************************************)
(* One hypervisor and the callers that request and free ports on it, in    *)
(* any order and any number of times.  The callers go through the API      *)
(* server, which serialises the writes of one hypervisor's status, so a    *)
(* request or a release is one step; what happens when a write is refused, *)
(* lost or repeated is the subject of module ComponentReconcile.           *)
(***************************************************************************)
EXTENDS PortAllocation

CONSTANT Owner         \* who a port can be allocated to

VARIABLE status        \* the allocatedPorts and freedPorts of the hypervisor

Request(o) ==
    /\ CanRequest(status, o)
    /\ status' = RequestPort(status, o)

\* A request on an exhausted hypervisor returns an error and changes nothing.
RequestRefused(o) ==
    /\ ~ CanRequest(status, o)
    /\ UNCHANGED status

Free(o) == status' = FreePort(status, o)

Init == status = NewStatus

Next == \E o \in Owner : Request(o) \/ RequestRefused(o) \/ Free(o)

Spec == Init /\ [][Next]_status

-----------------------------------------------------------------------------

\* The shape of the status: entries of known owners with a port number, and a
\* list of port numbers.
TypeOK ==
    /\ status \in [allocatedPorts : SUBSET [owner : Owner, port : Int],
                   freedPorts : Seq(Int)]
    /\ IsFiniteSet(status.allocatedPorts)

\* RequestPort never hands out a port twice, although the number it invents is a
\* count of the entries and not the highest port in use: two entries of the
\* hypervisor, or an entry and a freed port, never name the same port, and no
\* port is listed twice as free.
PortsExclusive == Exclusive(status)

\* HasPort keeps a repeated request (the retry after a conflict, the next
\* reconcile) from taking a second port: an owner has at most one.
OnePortPerOwner == OnePerOwner(status)

\* Every port that is handed out or waits to be reused lies in the range of the
\* hypervisor, although freed ports are reused without looking at the range.
PortsInRange ==
    Allocated(status) \cup Freed(status) \subseteq PortRangeLow..PortRangeHigh

\* RequestPort answers "no available ports" only when each port of the range is
\* allocated to somebody.
RefusedOnlyWhenFull ==
    Exhausted(status) => PortRangeLow..PortRangeHigh \subseteq Allocated(status)

\* The inductive invariant: the four conjuncts of Sound need one another (a new
\* port is new only because there are no gaps, and there are no gaps only
\* because FreePort removes exactly one entry).
StatusSound == Sound(status)

-----------------------------------------------------------------------------

\* The lease table this status stands for.
LeaseTable ==
    [p \in PortRangeLow..PortRangeHigh |->
        {e.owner : e \in {f \in status.allocatedPorts : f.port = p}}]

Leases == INSTANCE PortLeases WITH
             Port <- PortRangeLow..PortRangeHigh, leases <- LeaseTable

\* The bookkeeping implements a lease table: it only ever grants a port nobody
\* holds to an owner that holds none, or takes one back.
ImplementsLeases == Leases!Spec
=============================================================================
