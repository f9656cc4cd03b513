----------------------- MODULE HypervisorPortsProofs ------------------------
(***************************************************************************)
(* RequestPort and FreePort keep a hypervisor's port bookkeeping sound, for *)
(* every port range and every history of requests and releases: its ports  *)
(* stay exclusive, in range and free of gaps whatever its callers request  *)
(* and free, and the bookkeeping implements a lease table.                 *)
(***************************************************************************)
EXTENDS HypervisorPorts, FiniteSetTheorems, TLAPS

-----------------------------------------------------------------------------
(***************************************************************************)
(* RequestPort and FreePort.                                               *)
(***************************************************************************)

\* A hypervisor that never handed out a port is sound.
LEMMA NewStatusSound == Sound(NewStatus)
<1>1. IsStatus(NewStatus)
  BY FS_EmptySet DEF IsStatus, NewStatus
<1>2. Exclusive(NewStatus) /\ OnePerOwner(NewStatus)
  BY DEF Exclusive, OnePerOwner, NewStatus, Allocated, Freed, Range
<1>3. InUse(NewStatus) = 0
  BY FS_EmptySet DEF InUse, NewStatus
<1>4. Allocated(NewStatus) \cup Freed(NewStatus) = {}
  BY DEF NewStatus, Allocated, Freed, Range
<1>5. NoGaps(NewStatus)
  BY <1>3, <1>4, PortRangeAssumption DEF NoGaps
<1> QED BY <1>1, <1>2, <1>5 DEF Sound

\* The number of ports handed out is a number.
LEMMA InUseType ==
  ASSUME NEW st, IsStatus(st)
  PROVE  /\ Cardinality(st.allocatedPorts) \in Nat
         /\ Len(st.freedPorts) \in Nat
         /\ DOMAIN st.freedPorts = 1..Len(st.freedPorts)
BY FS_CardinalityType DEF IsStatus

\* In a sound status an owner with a port has exactly one entry, the one whose
\* port HasPort returns.
LEMMA PortOfEntry ==
  ASSUME NEW st, Sound(st), NEW owner, HasPort(st, owner)
  PROVE  /\ [owner |-> owner, port |-> PortOf(st, owner)] \in st.allocatedPorts
         /\ PortOf(st, owner) \in Int
         /\ EntriesOf(st, owner) = {[owner |-> owner, port |-> PortOf(st, owner)]}
<1> DEFINE e == CHOOSE x \in EntriesOf(st, owner) : TRUE
<1>1. e \in EntriesOf(st, owner)
  BY DEF HasPort
<1>2. PortOf(st, owner) = e.port
  BY DEF PortOf
<1>3. e \in st.allocatedPorts /\ e.owner = owner
  BY <1>1 DEF EntriesOf
<1> HIDE DEF e
<1>4. e = [owner |-> owner, port |-> PortOf(st, owner)] /\ e.port \in Int
  BY <1>2, <1>3 DEF Sound, IsStatus
<1>5. EntriesOf(st, owner) = {e}
  BY <1>1, <1>3 DEF EntriesOf, Sound, OnePerOwner
<1> QED BY <1>2, <1>3, <1>4, <1>5

\* Dropping the head of a list without repetitions leaves the other members,
\* still without repetitions.
LEMMA TailOfDistinct ==
  ASSUME NEW f \in Seq(Int), f # <<>>,
         \A i, j \in DOMAIN f : f[i] = f[j] => i = j,
         NEW g, g = Tail(f)
  PROVE  /\ Head(f) \in Range(f)
         /\ Range(g) = Range(f) \ {Head(f)}
         /\ \A i, j \in DOMAIN g : g[i] = g[j] => i = j
<1>1. PICK n : n = Len(f)
  OBVIOUS
<1>3. n \in Nat /\ n > 0 /\ DOMAIN f = 1..n
  BY <1>1
<1>4. g \in Seq(Int) /\ Len(g) = n - 1 /\ \A i \in 1..(n - 1) : g[i] = f[i + 1]
  BY <1>1, <1>3
<1>5. DOMAIN g = 1..(n - 1)
  BY <1>4
<1>6. Head(f) = f[1]
  OBVIOUS
<1>7. Range(g) \subseteq Range(f) \ {f[1]}
  <2> SUFFICES ASSUME NEW i \in 1..(n - 1)
               PROVE  g[i] \in {f[j] : j \in 1..n} /\ g[i] # f[1]
    BY <1>3, <1>5 DEF Range
  <2>1. i + 1 \in 1..n /\ 1 \in 1..n /\ i + 1 # 1
    BY <1>3
  <2> QED BY <2>1, <1>3, <1>4
<1>8. Range(f) \ {f[1]} \subseteq Range(g)
  <2> SUFFICES ASSUME NEW i \in 1..n, f[i] # f[1]
               PROVE  f[i] \in {g[j] : j \in 1..(n - 1)}
    BY <1>3, <1>5, Zenon DEF Range
  <2>1. i # 1 /\ i - 1 \in 1..(n - 1) /\ (i - 1) + 1 = i
    BY <1>3
  <2> QED BY <2>1, <1>4
<1>9. \A i, j \in DOMAIN g : g[i] = g[j] => i = j
  <2> SUFFICES ASSUME NEW i \in 1..(n - 1), NEW j \in 1..(n - 1), g[i] = g[j]
               PROVE  i = j
    BY <1>5
  <2>1. i + 1 \in 1..n /\ j + 1 \in 1..n /\ f[i + 1] = f[j + 1]
    BY <1>3, <1>4
  <2>2. i + 1 = j + 1
    BY <2>1, <1>3
  <2> QED BY <2>2, <1>3
<1>10. f[1] \in Range(f)
  BY <1>3 DEF Range
<1>11. Range(g) = Range(f) \ {f[1]}
  BY <1>7, <1>8
<1> QED BY <1>6, <1>9, <1>10, <1>11

\* Adding an element to a list that does not have it keeps the list free of
\* repetitions.
LEMMA AppendToDistinct ==
  ASSUME NEW f \in Seq(Int), NEW p \in Int, p \notin Range(f),
         \A i, j \in DOMAIN f : f[i] = f[j] => i = j,
         NEW g, g = Append(f, p)
  PROVE  /\ Range(g) = Range(f) \cup {p}
         /\ \A i, j \in DOMAIN g : g[i] = g[j] => i = j
<1>1. PICK n : n = Len(f)
  OBVIOUS
<1>3. n \in Nat /\ DOMAIN f = 1..n
  BY <1>1
<1>4. /\ g \in Seq(Int) /\ Len(g) = n + 1
      /\ \A i \in 1..n : g[i] = f[i]
      /\ g[n + 1] = p
  BY <1>1
<1>5. DOMAIN g = 1..(n + 1)
  BY <1>4
<1>6. Range(g) \subseteq Range(f) \cup {p}
  BY <1>3, <1>4, <1>5 DEF Range
<1>7. Range(f) \cup {p} \subseteq Range(g)
  <2>1. \A i \in 1..n : i \in 1..(n + 1) /\ f[i] = g[i]
    BY <1>3, <1>4
  <2>2. n + 1 \in 1..(n + 1) /\ g[n + 1] = p
    BY <1>3, <1>4
  <2> QED BY <2>1, <2>2, <1>3, <1>5 DEF Range
<1>8. \A i, j \in DOMAIN g : g[i] = g[j] => i = j
  <2> SUFFICES ASSUME NEW i \in 1..(n + 1), NEW j \in 1..(n + 1), g[i] = g[j]
               PROVE  i = j
    BY <1>5, Zenon
  <2>1. CASE i \in 1..n /\ j \in 1..n
    BY <2>1, <1>3, <1>4, SMTT(30)
  <2>2. CASE i = n + 1 /\ j \in 1..n
    BY <2>2, <1>3, <1>4 DEF Range
  <2>3. CASE i \in 1..n /\ j = n + 1
    BY <2>3, <1>3, <1>4 DEF Range
  <2>4. CASE i = n + 1 /\ j = n + 1
    BY <2>4
  <2> QED BY <2>1, <2>2, <2>3, <2>4, <1>3
<1> QED BY <1>6, <1>7, <1>8

\* Exclusive in terms of the sets of ports: what a request or a release has to
\* re-establish.
LEMMA AddEntrySound ==
  ASSUME NEW st, Sound(st), NEW owner, ~ HasPort(st, owner),
         NEW p \in Int, p \notin Allocated(st),
         NEW g \in Seq(Int),
         \A i, j \in DOMAIN g : g[i] = g[j] => i = j,
         Range(g) = Freed(st) \ {p},
         \/ Len(g) = Len(st.freedPorts) - 1 /\ p \in Freed(st)
         \/ /\ Len(g) = Len(st.freedPorts)
            /\ p = PortRangeLow + InUse(st)
            /\ p <= PortRangeHigh
  PROVE  Sound([allocatedPorts |-> st.allocatedPorts \cup
                                     {[owner |-> owner, port |-> p]},
                freedPorts |-> g])
<1>1. PICK e : e = [owner |-> owner, port |-> p]
  BY Zenon
<1>2. PICK new : new = [allocatedPorts |-> st.allocatedPorts \cup {e}, freedPorts |-> g]
  BY Zenon
<1>3. new.allocatedPorts = st.allocatedPorts \cup {e} /\ new.freedPorts = g
  BY <1>2
<1>4. e.owner = owner /\ e.port = p
  BY <1>1
<1>5. e \notin st.allocatedPorts
  BY <1>4 DEF Allocated
<1>6. /\ IsFiniteSet(new.allocatedPorts)
      /\ Cardinality(new.allocatedPorts) = Cardinality(st.allocatedPorts) + 1
  BY <1>3, <1>5, FS_AddElement DEF Sound, IsStatus
<1>7. IsStatus(new)
  BY <1>1, <1>2, <1>3, <1>4, <1>6 DEF Sound, IsStatus
<1>8. Allocated(new) = Allocated(st) \cup {p}
  BY <1>3, <1>4 DEF Allocated
<1>9. Freed(new) = Freed(st) \ {p}
  BY <1>3 DEF Freed
<1>10. Exclusive(new)
  <2>1. \A x, y \in new.allocatedPorts : x.port = y.port => x = y
    BY <1>3, <1>4 DEF Sound, Exclusive, Allocated
  <2>2. Allocated(new) \cap Freed(new) = {}
    BY <1>8, <1>9 DEF Sound, Exclusive
  <2> QED BY <2>1, <2>2, <1>3 DEF Exclusive
<1>11. OnePerOwner(new)
  BY <1>3, <1>4 DEF OnePerOwner, Sound, HasPort, EntriesOf
<1>12. NoGaps(new)
  <2>1. /\ Cardinality(st.allocatedPorts) \in Nat
        /\ Len(st.freedPorts) \in Nat
        /\ Len(new.freedPorts) \in Nat
    BY <1>3, InUseType DEF Sound
  <2>2. CASE Len(g) = Len(st.freedPorts) - 1 /\ p \in Freed(st)
    <3>1. InUse(new) = InUse(st)
      BY <2>1, <2>2, <1>3, <1>6 DEF InUse
    <3>2. Allocated(new) \cup Freed(new) = Allocated(st) \cup Freed(st)
      BY <2>2, <1>8, <1>9
    <3> QED BY <3>1, <3>2 DEF NoGaps, Sound
  <2>3. CASE /\ Len(g) = Len(st.freedPorts)
             /\ p = PortRangeLow + InUse(st)
             /\ p <= PortRangeHigh
    <3>1. InUse(st) \in Nat /\ InUse(new) = InUse(st) + 1
      BY <2>1, <2>3, <1>3, <1>6 DEF InUse
    <3>2. Allocated(new) \cup Freed(new) = (Allocated(st) \cup Freed(st)) \cup {p}
      BY <1>8, <1>9
    <3>3. Allocated(st) \cup Freed(st) = PortRangeLow..(PortRangeLow + InUse(st) - 1)
      BY DEF Sound, NoGaps
    <3>4. (PortRangeLow..(PortRangeLow + InUse(st) - 1)) \cup {p} =
             PortRangeLow..(PortRangeLow + InUse(new) - 1)
      BY <3>1, <2>3, PortRangeAssumption
    <3> QED BY <3>1, <3>2, <3>3, <3>4, <2>3, PortRangeAssumption DEF NoGaps
  <2> QED BY <2>2, <2>3
<1> QED BY <1>1, <1>2, <1>7, <1>10, <1>11, <1>12 DEF Sound

\* RequestPort keeps the bookkeeping sound, whether it finds the port its owner
\* already has, reuses a freed port, takes a new one or refuses.
LEMMA RequestPortSound ==
  ASSUME NEW st, Sound(st), NEW owner
  PROVE  Sound(RequestPort(st, owner))
<1>1. CASE HasPort(st, owner) \/ Exhausted(st)
  BY <1>1 DEF RequestPort, CanRequest
<1>2. CASE ~ HasPort(st, owner) /\ ~ Exhausted(st)
  <2>1. RequestPort(st, owner) =
          [allocatedPorts |-> st.allocatedPorts \cup
                                {[owner |-> owner, port |-> NextPort(st)]},
           freedPorts |-> IF st.freedPorts # <<>> THEN Tail(st.freedPorts)
                          ELSE st.freedPorts]
    BY <1>2 DEF RequestPort, CanRequest
  <2>2. /\ st.freedPorts \in Seq(Int)
        /\ \A i, j \in DOMAIN st.freedPorts :
              st.freedPorts[i] = st.freedPorts[j] => i = j
        /\ Allocated(st) \cap Freed(st) = {}
    BY DEF Sound, IsStatus, Exclusive
  <2>3. CASE st.freedPorts # <<>>
    <3>1. PICK g : g = Tail(st.freedPorts)
      BY Zenon
    <3>2. g \in Seq(Int) /\ Len(g) = Len(st.freedPorts) - 1
      BY <2>2, <2>3, <3>1
    <3>3. PICK p : p = Head(st.freedPorts)
      OBVIOUS
    <3>4. /\ p \in Freed(st)
          /\ Range(g) = Freed(st) \ {p}
          /\ \A i, j \in DOMAIN g : g[i] = g[j] => i = j
      BY <2>2, <2>3, <3>1, <3>3, TailOfDistinct, Zenon DEF Freed
    <3>5. p \in Int /\ p \notin Allocated(st)
      BY <2>2, <2>3, <3>3, <3>4
    <3>6. NextPort(st) = p
      BY <2>3, <3>3 DEF NextPort
    <3>7. Sound([allocatedPorts |-> st.allocatedPorts \cup
                                      {[owner |-> owner, port |-> p]},
                 freedPorts |-> g])
      BY <1>2, <3>2, <3>4, <3>5, AddEntrySound
    <3> QED BY <2>1, <2>3, <3>1, <3>6, <3>7
  <2>4. CASE st.freedPorts = <<>>
    <3>1. PICK g : g = st.freedPorts
      OBVIOUS
    <3>2. PICK p : p = NextPort(st)
      OBVIOUS
    <3>3. Len(g) = 0 /\ Freed(st) = {}
      BY <2>4, <3>1 DEF Freed, Range
    <3>4. /\ p = PortRangeLow + InUse(st) /\ p <= PortRangeHigh
          /\ p \in Int /\ InUse(st) \in Nat
      BY <1>2, <2>4, <3>1, <3>2, <3>3, InUseType, PortRangeAssumption
         DEF NextPort, Exhausted, InUse, Sound
    <3>5. p \notin Allocated(st)
      BY <3>3, <3>4, PortRangeAssumption DEF Sound, NoGaps
    <3>6. Range(g) = Freed(st) \ {p}
      BY <3>1, <3>3 DEF Freed
    <3>7. Sound([allocatedPorts |-> st.allocatedPorts \cup
                                      {[owner |-> owner, port |-> p]},
                 freedPorts |-> g])
      BY <1>2, <2>2, <3>1, <3>4, <3>5, <3>6, AddEntrySound
    <3> QED BY <2>1, <2>4, <3>1, <3>2, <3>7
  <2> QED BY <2>3, <2>4
<1> QED BY <1>1, <1>2

\* FreePort keeps the bookkeeping sound: the one entry of the owner leaves, its
\* port becomes the last of the freed ports.
LEMMA FreePortSound ==
  ASSUME NEW st, Sound(st), NEW owner
  PROVE  Sound(FreePort(st, owner))
<1>1. CASE ~ HasPort(st, owner)
  BY <1>1 DEF FreePort
<1>2. CASE HasPort(st, owner)
  <2>1. PICK p : p = PortOf(st, owner)
    OBVIOUS
  <2>2. PICK e : e = [owner |-> owner, port |-> p]
    BY Zenon
  <2>3. /\ e \in st.allocatedPorts
        /\ p \in Int
        /\ EntriesOf(st, owner) = {e}
    BY <1>2, <2>1, <2>2, PortOfEntry
  <2>4. e.owner = owner /\ e.port = p
    BY <2>2
  <2>5. PICK g : g = Append(st.freedPorts, p)
    BY Zenon
  <2>6. PICK new : new = [allocatedPorts |-> st.allocatedPorts \ {e}, freedPorts |-> g]
    BY Zenon
  <2>7. FreePort(st, owner) = new
    BY <1>2, <2>1, <2>3, <2>5, <2>6 DEF FreePort
  <2>8. new.allocatedPorts = st.allocatedPorts \ {e} /\ new.freedPorts = g
    BY <2>6
  <2>9. p \in Allocated(st) /\ p \notin Freed(st)
    BY <2>3, <2>4 DEF Allocated, Sound, Exclusive
  <2>10. g \in Seq(Int) /\ Len(g) = Len(st.freedPorts) + 1
    BY <2>3, <2>5 DEF Sound, IsStatus
  <2>11. /\ Range(g) = Freed(st) \cup {p}
         /\ \A i, j \in DOMAIN g : g[i] = g[j] => i = j
    BY <2>3, <2>5, <2>9, AppendToDistinct, Zenon DEF Freed, Sound, IsStatus, Exclusive
  <2>12. Freed(new) = Freed(st) \cup {p}
    BY <2>8, <2>11 DEF Freed
  <2>13. Allocated(new) = Allocated(st) \ {p}
    BY <2>3, <2>4, <2>8 DEF Allocated, Sound, Exclusive
  <2>14. /\ IsFiniteSet(new.allocatedPorts)
         /\ Cardinality(new.allocatedPorts) = Cardinality(st.allocatedPorts) - 1
    BY <2>3, <2>8, FS_RemoveElement, Zenon DEF Sound, IsStatus
  <2>15. IsStatus(new)
    BY <2>6, <2>8, <2>10, <2>14 DEF Sound, IsStatus
  <2>16. Exclusive(new)
    BY <2>8, <2>11, <2>12, <2>13 DEF Sound, Exclusive
  <2>17. OnePerOwner(new)
    BY <2>8 DEF Sound, OnePerOwner
  <2>18. NoGaps(new)
    <3>1. InUse(new) = InUse(st)
      BY <2>8, <2>10, <2>14, InUseType DEF InUse, Sound
    <3>2. Allocated(new) \cup Freed(new) = Allocated(st) \cup Freed(st)
      BY <2>9, <2>12, <2>13
    <3> QED BY <3>1, <3>2 DEF NoGaps, Sound
  <2> QED BY <2>7, <2>15, <2>16, <2>17, <2>18 DEF Sound
<1> QED BY <1>1, <1>2

\* The ports of a sound status are in the hypervisor's range.
LEMMA AllocatedInRange ==
  ASSUME NEW st, Sound(st), NEW e \in st.allocatedPorts
  PROVE  e.port \in PortRangeLow..PortRangeHigh
<1>1. /\ Cardinality(st.allocatedPorts) \in Nat /\ Len(st.freedPorts) \in Nat
      /\ e.port \in Int
  BY InUseType DEF Sound, IsStatus
<1>2. e.port \in Allocated(st)
  BY DEF Allocated
<1>3. PICK n : n = InUse(st)
  OBVIOUS
<1>4. n \in Nat
  BY <1>1, <1>3 DEF InUse
<1>5. e.port \in PortRangeLow..(PortRangeLow + n - 1)
  BY <1>2, <1>3 DEF Sound, NoGaps
<1>6. n = 0 \/ PortRangeLow + n - 1 <= PortRangeHigh
  BY <1>3 DEF Sound, NoGaps
<1> QED BY <1>1, <1>4, <1>5, <1>6, PortRangeAssumption

\* The port HasPort returns is one of the range that is allocated to the owner,
\* or none.
LEMMA PortOfType ==
  ASSUME NEW st, Sound(st), NEW owner
  PROVE  /\ PortOf(st, owner) \in (PortRangeLow..PortRangeHigh) \cup {NoPort}
         /\ PortOf(st, owner) # NoPort =>
               [owner |-> owner, port |-> PortOf(st, owner)] \in st.allocatedPorts
<1>1. CASE HasPort(st, owner)
  <2>1. PICK e : e = [owner |-> owner, port |-> PortOf(st, owner)]
    BY Zenon
  <2>2. e \in st.allocatedPorts /\ e.port = PortOf(st, owner)
    BY <1>1, <2>1, PortOfEntry
  <2> QED BY <2>1, <2>2, AllocatedInRange
<1>2. CASE ~ HasPort(st, owner)
  BY <1>2 DEF PortOf
<1> QED BY <1>1, <1>2

-----------------------------------------------------------------------------
(***************************************************************************)
(* One hypervisor and its callers.                                         *)
(***************************************************************************)

\* StatusSound is inductive: RequestPort and FreePort preserve it.
THEOREM StatusSoundInvariant == Spec => []StatusSound
<1>1. Init => StatusSound
  BY NewStatusSound DEF Init, StatusSound
<1>2. StatusSound /\ [Next]_status => StatusSound'
  <2> SUFFICES ASSUME StatusSound, [Next]_status
               PROVE  StatusSound'
    OBVIOUS
  <2>1. ASSUME NEW o \in Owner, Request(o)
        PROVE  StatusSound'
    BY <2>1, RequestPortSound DEF Request, StatusSound
  <2>2. ASSUME NEW o \in Owner, RequestRefused(o)
        PROVE  StatusSound'
    BY <2>2 DEF RequestRefused, StatusSound
  <2>3. ASSUME NEW o \in Owner, Free(o)
        PROVE  StatusSound'
    BY <2>3, FreePortSound DEF Free, StatusSound
  <2>4. CASE UNCHANGED status
    BY <2>4 DEF StatusSound
  <2> QED BY <2>1, <2>2, <2>3, <2>4 DEF Next
<1> QED BY <1>1, <1>2, PTL DEF Spec

\* Every port in use or freed is one of the hypervisor's range.
LEMMA SoundInRange ==
  ASSUME StatusSound
  PROVE  PortsInRange
<1>1. InUse(status) \in Nat
  BY InUseType DEF StatusSound, Sound, InUse
<1> QED BY <1>1, PortRangeAssumption DEF StatusSound, Sound, NoGaps, PortsInRange

\* A request is refused only when each port of the range has an owner.
LEMMA SoundRefusal ==
  ASSUME StatusSound
  PROVE  RefusedOnlyWhenFull
<1> SUFFICES ASSUME Exhausted(status)
             PROVE  PortRangeLow..PortRangeHigh \subseteq Allocated(status)
  BY DEF RefusedOnlyWhenFull
<1>1. status.freedPorts = <<>>
  BY DEF Exhausted
<1>2. Freed(status) = {} /\ Len(status.freedPorts) = 0
  BY <1>1 DEF Freed, Range
<1>3. InUse(status) \in Nat /\ InUse(status) = Cardinality(status.allocatedPorts)
  BY <1>2, InUseType DEF StatusSound, Sound, InUse
<1>4. PortRangeLow + InUse(status) > PortRangeHigh
  BY <1>1, <1>3 DEF Exhausted, NextPort
<1> QED BY <1>2, <1>3, <1>4, PortRangeAssumption DEF StatusSound, Sound, NoGaps

\* The safety of RequestPort and FreePort: no port has two owners or is both
\* owned and free, no owner has two ports, and no port leaves the range.
THEOREM PortSafety ==
  Spec => [](PortsExclusive /\ OnePortPerOwner /\ PortsInRange)
<1>1. StatusSound => PortsExclusive /\ OnePortPerOwner
  BY DEF StatusSound, Sound, PortsExclusive, OnePortPerOwner
<1> QED BY <1>1, SoundInRange, StatusSoundInvariant, PTL

\* RequestPort returns its error on a full hypervisor only, although it looks at the
\* number of entries and not at the ports: nothing that was freed is lost to it.
THEOREM RefusalMeansFull == Spec => []RefusedOnlyWhenFull
BY SoundRefusal, StatusSoundInvariant, PTL

\* Entries only ever belong to the callers of RequestPort.
THEOREM TypeCorrect == Spec => []TypeOK
<1>1. Init => TypeOK
  BY FS_EmptySet DEF Init, NewStatus, TypeOK
<1>2. TypeOK /\ StatusSound /\ [Next]_status => TypeOK'
  <2> SUFFICES ASSUME TypeOK, StatusSound, [Next]_status, StatusSound'
               PROVE  TypeOK'
    <3>1. StatusSound /\ [Next]_status => StatusSound'
      BY RequestPortSound, FreePortSound
         DEF Next, Request, RequestRefused, Free, StatusSound
    <3> QED BY <3>1
  <2>1. IsStatus(status')
    BY DEF StatusSound, Sound
  <2>2. \A e \in status'.allocatedPorts : e.owner \in Owner
    BY DEF TypeOK, Next, Request, RequestRefused, Free, RequestPort, FreePort
  <2>3. status'.allocatedPorts \in SUBSET [owner : Owner, port : Int]
    BY <2>1, <2>2 DEF IsStatus
  <2> QED BY <2>1, <2>3 DEF IsStatus, TypeOK
<1> QED BY <1>1, <1>2, StatusSoundInvariant, PTL DEF Spec

-----------------------------------------------------------------------------

\* The owners LeaseTable gives a port.
LEMMA LeaseOf ==
  ASSUME NEW p \in PortRangeLow..PortRangeHigh
  PROVE  \A o : o \in LeaseTable[p] <=>
                   \E e \in status.allocatedPorts : e.port = p /\ e.owner = o
BY DEF LeaseTable

\* A request that allocates a port grants a free port to an owner that has none.
LEMMA RequestGrants ==
  ASSUME StatusSound, StatusSound', NEW o \in Owner, Request(o), ~ HasPort(status, o)
  PROVE  Leases!Next
<1>1. PICK p : p = NextPort(status)
  OBVIOUS
<1>2. PICK e : e = [owner |-> o, port |-> p]
  BY Zenon
<1>3. e.owner = o /\ e.port = p
  BY <1>2
<1>4. status'.allocatedPorts = status.allocatedPorts \cup {e}
  BY <1>1, <1>2 DEF Request, RequestPort
<1>5. p \in PortRangeLow..PortRangeHigh
  <2>1. p \in Allocated(status')
    BY <1>3, <1>4 DEF Allocated
  <2>2. InUse(status') \in Nat
    BY InUseType DEF StatusSound, Sound, InUse
  <2> QED BY <2>1, <2>2, PortRangeAssumption DEF StatusSound, Sound, NoGaps
<1>6. \A x \in status.allocatedPorts : x.owner # o
  BY DEF HasPort, EntriesOf
<1>7. e \notin status.allocatedPorts
  BY <1>3, <1>6
<1>8. \A x \in status.allocatedPorts : x.port # p
  BY <1>3, <1>4, <1>7 DEF StatusSound, Sound, Exclusive
<1>9. Leases!HeldBy(o) = {}
  BY <1>6, LeaseOf DEF Leases!HeldBy
<1>10. LeaseTable[p] = {}
  BY <1>5, <1>8, LeaseOf
<1>11. LeaseTable' = [LeaseTable EXCEPT ![p] = {o}]
  <2>1. ASSUME NEW q \in PortRangeLow..PortRangeHigh
        PROVE  LeaseTable'[q] = IF q = p THEN {o} ELSE LeaseTable[q]
    <3>1. LeaseTable'[q] =
            {x.owner : x \in {y \in status.allocatedPorts \cup {e} : y.port = q}}
      BY <1>4 DEF LeaseTable
    <3>2. CASE q = p
      BY <3>1, <3>2, <1>3, <1>8
    <3>3. CASE q # p
      <4>1. {y \in status.allocatedPorts \cup {e} : y.port = q} =
            {y \in status.allocatedPorts : y.port = q}
        BY <3>3, <1>3
      <4> QED BY <3>1, <3>3, <4>1 DEF LeaseTable
    <3> QED BY <3>2, <3>3
  <2> QED BY <2>1, Zenon DEF LeaseTable
<1>12. Leases!Grant(o, p)
  BY <1>9, <1>10, <1>11 DEF Leases!Grant
<1> QED BY <1>5, <1>12 DEF Leases!Next

\* A release of an owner's port ends its lease and no other.
LEMMA FreeReleases ==
  ASSUME StatusSound, NEW o \in Owner, Free(o), HasPort(status, o)
  PROVE  Leases!Next
<1>1. PICK p : p = PortOf(status, o)
  OBVIOUS
<1>2. PICK e : e = [owner |-> o, port |-> p]
  BY Zenon
<1>3. e.owner = o /\ e.port = p
  BY <1>2
<1>4. e \in status.allocatedPorts /\ EntriesOf(status, o) = {e}
  BY <1>1, <1>2, PortOfEntry DEF StatusSound
<1>5. status'.allocatedPorts = status.allocatedPorts \ {e}
  BY <1>4 DEF Free, FreePort
<1>6. \A x \in status.allocatedPorts : x.owner = o <=> x = e
  BY <1>3, <1>4 DEF EntriesOf
<1>7. p \in PortRangeLow..PortRangeHigh
  BY <1>3, <1>4, SoundInRange DEF PortsInRange, Allocated
<1>8. Leases!HeldBy(o) # {}
  <2>1. o \in LeaseTable[p]
    BY <1>3, <1>4, <1>7, LeaseOf
  <2> QED BY <2>1, <1>7 DEF Leases!HeldBy
<1>9. LeaseTable' = [q \in PortRangeLow..PortRangeHigh |-> LeaseTable[q] \ {o}]
  <2>1. ASSUME NEW q \in PortRangeLow..PortRangeHigh
        PROVE  LeaseTable'[q] = LeaseTable[q] \ {o}
    <3>1. LeaseTable'[q] =
            {x.owner : x \in {y \in status.allocatedPorts \ {e} : y.port = q}}
      BY <1>5 DEF LeaseTable
    <3> QED BY <3>1, <1>6 DEF LeaseTable
  <2> QED BY <2>1 DEF LeaseTable
<1>10. Leases!Release(o)
  BY <1>8, <1>9 DEF Leases!Release
<1> QED BY <1>10 DEF Leases!Next

\* The port bookkeeping implements the lease table: every RequestPort and every
\* FreePort is a grant of a free port, a release, or changes nothing.
THEOREM Refinement == Spec => ImplementsLeases
<1>1. Init => Leases!Init
  BY DEF Init, NewStatus, Leases!Init, LeaseTable
<1>2. StatusSound /\ StatusSound' /\ [Next]_status => [Leases!Next]_LeaseTable
  <2> SUFFICES ASSUME StatusSound, StatusSound', [Next]_status
               PROVE  Leases!Next \/ UNCHANGED LeaseTable
    OBVIOUS
  <2>1. CASE UNCHANGED status
    BY <2>1 DEF LeaseTable
  <2>2. ASSUME NEW o \in Owner, Request(o)
        PROVE  Leases!Next \/ UNCHANGED LeaseTable
    <3>1. CASE HasPort(status, o)
      BY <2>1, <2>2, <3>1 DEF Request, RequestPort
    <3>2. CASE ~ HasPort(status, o)
      BY <2>2, <3>2, RequestGrants
    <3> QED BY <3>1, <3>2
  <2>3. ASSUME NEW o \in Owner, RequestRefused(o)
        PROVE  Leases!Next \/ UNCHANGED LeaseTable
    BY <2>1, <2>3 DEF RequestRefused
  <2>4. ASSUME NEW o \in Owner, Free(o)
        PROVE  Leases!Next \/ UNCHANGED LeaseTable
    <3>1. CASE ~ HasPort(status, o)
      BY <2>1, <2>4, <3>1 DEF Free, FreePort
    <3>2. CASE HasPort(status, o)
      BY <2>4, <3>2, FreeReleases
    <3> QED BY <3>1, <3>2
  <2> QED BY <2>1, <2>2, <2>3, <2>4 DEF Next
<1> QED BY <1>1, <1>2, StatusSoundInvariant, PTL
        DEF Spec, ImplementsLeases, Leases!Spec
=============================================================================
