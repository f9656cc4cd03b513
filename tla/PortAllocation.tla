--------------------------- MODULE PortAllocation ---------------------------
(***************************************************************************)
(* The port bookkeeping of one hypervisor (internal/pkg/infra/             *)
(* hypervisor.go), as operators on the part of a hypervisor's status that  *)
(* it reads and writes.                                                    *)
(*                                                                         *)
(* A status is a record                                                    *)
(*    allocatedPorts : the set of [owner, port] entries in use             *)
(*    freedPorts     : the sequence of ports that were given back          *)
(*                                                                         *)
(* An owner stands for the triple (cluster namespace, cluster, component   *)
(* name suffixed with the subcomponent) that the code compares field by    *)
(* field.  allocatedPorts is a slice in the code; only its length and its  *)
(* members are used, so it is a set here.                                  *)
(***************************************************************************)
EXTENDS Integers, FiniteSets, Sequences, Functions

CONSTANTS
    PortRangeLow,      \* spec.portRange.low of the hypervisor
    PortRangeHigh      \* spec.portRange.high, the last port that may be used

ASSUME PortRangeAssumption ==
    /\ PortRangeLow \in Nat
    /\ PortRangeHigh \in Nat

NoPort == PortRangeLow - 1

\* A hypervisor on which no port was ever requested.
NewStatus == [allocatedPorts |-> {}, freedPorts |-> <<>>]

EntriesOf(st, owner) == {e \in st.allocatedPorts : e.owner = owner}

HasPort(st, owner) == EntriesOf(st, owner) # {}

\* The port HasPort returns: that of the first entry that matches.
PortOf(st, owner) ==
    IF HasPort(st, owner) THEN (CHOOSE e \in EntriesOf(st, owner) : TRUE).port
    ELSE NoPort

\* Mutant: the freed ports are not looked at.
NextPortByCount(st) == PortRangeLow + Cardinality(st.allocatedPorts)

\* The port a request takes when its owner has none yet: the oldest freed one,
\* else the one right after the ports in use.
NextPort(st) ==
    IF st.freedPorts # <<>> THEN Head(st.freedPorts)
    ELSE PortRangeLow + Cardinality(st.allocatedPorts)

\* Mutant: the comparison is off by one.
ExhaustedEarly(st) == st.freedPorts = <<>> /\ NextPort(st) >= PortRangeHigh

\* "no available ports on hypervisor": the bound is only looked at when there is
\* no freed port to hand out.
Exhausted(st) == st.freedPorts = <<>> /\ NextPort(st) > PortRangeHigh

CanRequest(st, owner) == HasPort(st, owner) \/ ~ Exhausted(st)

\* Mutant: no check whether the owner has a port.
RequestPortAgain(st, owner) ==
    IF ~ CanRequest(st, owner) THEN st
    ELSE [allocatedPorts |-> st.allocatedPorts \cup
                               {[owner |-> owner, port |-> NextPort(st)]},
          freedPorts |-> IF st.freedPorts # <<>> THEN Tail(st.freedPorts)
                         ELSE st.freedPorts]

RequestPort(st, owner) ==
    IF ~ CanRequest(st, owner) \/ HasPort(st, owner) THEN st
    ELSE [allocatedPorts |-> st.allocatedPorts \cup
                               {[owner |-> owner, port |-> NextPort(st)]},
          freedPorts |-> IF st.freedPorts # <<>> THEN Tail(st.freedPorts)
                         ELSE st.freedPorts]

\* Mutant: the port is never reused.
FreePortForever(st, owner) ==
    [st EXCEPT !.allocatedPorts = @ \ EntriesOf(st, owner)]

FreePort(st, owner) ==
    IF ~ HasPort(st, owner) THEN st
    ELSE [allocatedPorts |-> st.allocatedPorts \ EntriesOf(st, owner),
          freedPorts |-> Append(st.freedPorts, PortOf(st, owner))]

-----------------------------------------------------------------------------
(***************************************************************************)
(* What the operators above keep true of a status.                         *)
(***************************************************************************)

Allocated(st) == {e.port : e \in st.allocatedPorts}

Freed(st) == Range(st.freedPorts)

InUse(st) == Cardinality(st.allocatedPorts) + Len(st.freedPorts)

IsStatus(st) ==
    /\ st = [allocatedPorts |-> st.allocatedPorts, freedPorts |-> st.freedPorts]
    /\ IsFiniteSet(st.allocatedPorts)
    /\ \A e \in st.allocatedPorts :
          e.port \in Int /\ e = [owner |-> e.owner, port |-> e.port]
    /\ st.freedPorts \in Seq(Int)

\* No port is named by two entries, twice in the freed ports, or by both.
Exclusive(st) ==
    /\ \A e, f \in st.allocatedPorts : e.port = f.port => e = f
    /\ \A i, j \in DOMAIN st.freedPorts :
          st.freedPorts[i] = st.freedPorts[j] => i = j
    /\ Allocated(st) \cap Freed(st) = {}

OnePerOwner(st) ==
    \A e, f \in st.allocatedPorts : e.owner = f.owner => e = f

\* What makes counting the entries a sound way to find a new port: the ports
\* handed out so far, in use or freed, are the first ones of the range.
NoGaps(st) ==
    /\ Allocated(st) \cup Freed(st) = PortRangeLow..(PortRangeLow + InUse(st) - 1)
    /\ InUse(st) = 0 \/ PortRangeLow + InUse(st) - 1 <= PortRangeHigh

Sound(st) == IsStatus(st) /\ Exclusive(st) /\ OnePerOwner(st) /\ NoGaps(st)
=============================================================================
