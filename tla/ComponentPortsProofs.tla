----------------------- MODULE ComponentPortsProofs -------------------------
(***************************************************************************)
(* The second half of the argument on ports.  A worker that takes down a   *)
(* component, or writes to the API server, goes on to know what it has to; *)
(* so do the others when one of them or somebody else writes.  Together    *)
(* with the steps of ComponentWorkerProofs these are all there are: the    *)
(* invariant PortsInv holds at first and every step keeps it.              *)
(***************************************************************************)
EXTENDS ComponentWorkerProofs

-----------------------------------------------------------------------------
(***************************************************************************)
(* The steps of a worker that takes down its component.                    *)
(***************************************************************************)

\* A worker that takes down a component, which is being deleted.
LEMMA TearingFacts ==
  ASSUME NEW cs, NEW hs, NEW w, WorkerOK(w, cs, hs), w.pc \in Tearing
  PROVE  /\ OnCourse(w, cs, hs) /\ PendingOK(w)
         /\ IsWorker(w) /\ IsMemory(w.mem)
         /\ w.component \in Scheduled(w.mem.components) \ Live(w.mem.components)
         /\ ~ Undeleted(w.mem.components, w.component)
         /\ w.pc \in {"member", "stopEtcd"} => w.component \in ControlPlane
<1>1. OnCourse(w, cs, hs) /\ Positioned(w)
  BY DEF WorkerOK, Tearing, Writing
<1>2. IsWorker(w) /\ IsMemory(w.mem)
  BY <1>1 DEF OnCourse, Informed, IsWorker
<1>3. /\ w.component \in Scheduled(w.mem.components) \ Live(w.mem.components)
      /\ w.pc \in {"member", "stopEtcd"} => w.component \in ControlPlane
      /\ PendingOK(w)
  BY <1>1 DEF Positioned
<1>4. w.component \in Listed(w.mem.components)
  BY <1>1 DEF OnCourse
<1>5. ~ Undeleted(w.mem.components, w.component)
  BY <1>3, <1>4 DEF Undeleted, Listed, Live
<1> QED BY <1>1, <1>2, <1>3, <1>5

\* Two releases in a row.
LEMMA FreeTwiceGrows ==
  ASSUME PortRules, NEW mem, IsMemory(mem), NEW c \in Scheduled(mem.components),
         ~ Undeleted(mem.components, c), NEW a \in OwnPorts(c), NEW b \in OwnPorts(c)
  PROVE  Grows(mem, FreeComponentPort(FreeComponentPort(mem, c, a), c, b))
<1>1. PICK new : new = FreeComponentPort(mem, c, a)
  OBVIOUS
<1>2. Grows(mem, new)
  BY <1>1, FreeGrows
<1>3. IsMemory(new) /\ c \in Component
  BY <1>2 DEF Grows, Scheduled
<1>4. c \in Scheduled(new.components) /\ ~ Undeleted(new.components, c)
  BY <1>2, <1>3, GrowsKeepsStates
<1>5. Grows(new, FreeComponentPort(new, c, b))
  BY <1>3, <1>4, FreeGrows
<1> QED BY <1>1, <1>2, <1>5, GrowsTransitive

\* stopControlPlane.
LEMMA StopControlPlaneOK ==
  ASSUME PortRules, NEW cs, NEW hs, NEW w, WorkerOK(w, cs, hs), w.pc = "stop",
         w.component \in ControlPlane
  PROVE  LET v == LeavingEtcd([w EXCEPT !.mem = FreeComponentPort(@, w.component, "apiserver")])
         IN  WorkerOK(v, cs, hs) /\ Onward(v, w, {"member", "stopEtcd"})
<1>1. /\ OnCourse(w, cs, hs) /\ PendingOK(w) /\ IsWorker(w) /\ IsMemory(w.mem)
      /\ w.component \in Scheduled(w.mem.components) \ Live(w.mem.components)
      /\ ~ Undeleted(w.mem.components, w.component)
  BY TearingFacts DEF Tearing
<1>2. PICK mem : mem = FreeComponentPort(w.mem, w.component, "apiserver")
  OBVIOUS
<1>3. Grows(w.mem, mem)
  BY <1>1, <1>2, FreeGrows DEF OwnPorts
<1>4. PICK u : u = [w EXCEPT !.mem = FreeComponentPort(@, w.component, "apiserver")]
  BY Zenon
<1>5. u = [w EXCEPT !.mem = mem] /\ u.mem = mem
  BY <1>1, <1>2, <1>4 DEF IsWorker, WorkerField
<1>6. CASE u.cluster.deleting
  <2>1. PICK v : v = [u EXCEPT !.pc = "stopEtcd"]
    BY Zenon
  <2>2. v = Stepped(w, "stopEtcd", w.target, mem, w.pending, w.todo)
    BY <2>1, <1>1, <1>5, Zenon DEF IsWorker, WorkerField, Stepped
  <2>3. WorkerOK(v, cs, hs) /\ Onward(v, w, {"stopEtcd"})
    BY <2>2, <1>1, <1>3, MoveOn, Zenon DEF PendingOK, Tearing
  <2> QED BY <2>1, <2>3, <1>4, <1>6 DEF LeavingEtcd, Onward
<1>7. CASE ~ u.cluster.deleting
  <2>1. PICK pending : pending = Missing(u, Peers(u) \X {"etcd-client"})
    OBVIOUS
  <2>2. Scheduled(u.mem.components) = Scheduled(w.mem.components)
    BY <1>3, <1>5, GrowsKeepsStates
  <2>3. \A l \in pending : l[1] \in Scheduled(w.mem.components) /\ l[2] \in OwnPorts(l[1])
    BY <2>1, <2>2 DEF Missing, Peers, OwnPorts
  <2>4. PICK v : v = [u EXCEPT !.pc = "member", !.pending = pending]
    OBVIOUS
  <2>5. v = Stepped(w, "member", w.target, mem, pending, w.todo)
    BY <2>4, <1>1, <1>5, Zenon DEF IsWorker, WorkerField, Stepped
  <2>6. WorkerOK(v, cs, hs) /\ Onward(v, w, {"member"})
    BY <2>3, <2>5, <1>1, <1>3, MoveOn, Zenon DEF Tearing
  <2> QED BY <2>1, <2>4, <2>6, <1>4, <1>7 DEF LeavingEtcd, Onward
<1> QED BY <1>6, <1>7

\* ReconcileDeletion of an ingress gives its ports back.
LEMMA StopIngressOK ==
  ASSUME PortRules, NEW cs, NEW hs, NEW w, WorkerOK(w, cs, hs), w.pc = "stop",
         w.component \in Ingress
  PROVE  LET mem == FreeComponentPort(w.mem, w.component, "apiserver")
             v == [w EXCEPT !.pc = "cleanup", !.mem =
                      IF VPNEnabled THEN FreeComponentPort(mem, w.component, "wireguard")
                      ELSE mem]
         IN  WorkerOK(v, cs, hs) /\ Onward(v, w, {"cleanup"})
<1>1. /\ OnCourse(w, cs, hs) /\ PendingOK(w) /\ IsWorker(w) /\ IsMemory(w.mem)
      /\ w.component \in Scheduled(w.mem.components) \ Live(w.mem.components)
      /\ ~ Undeleted(w.mem.components, w.component)
  BY TearingFacts DEF Tearing
<1>2. PICK one : one = FreeComponentPort(w.mem, w.component, "apiserver")
  OBVIOUS
<1>3. PICK mem : mem = IF VPNEnabled THEN FreeComponentPort(one, w.component, "wireguard")
                       ELSE one
  OBVIOUS
<1>4. Grows(w.mem, mem)
  <2>1. w.component \notin ControlPlane
    BY NamesAssumption
  <2>2. "apiserver" \in OwnPorts(w.component)
    BY DEF OwnPorts
  <2>3. CASE VPNEnabled
    <3>1. "wireguard" \in OwnPorts(w.component)
      BY <2>1, <2>3 DEF OwnPorts
    <3> QED BY <2>2, <2>3, <3>1, <1>1, <1>2, <1>3, FreeTwiceGrows
  <2>4. CASE ~ VPNEnabled
    BY <2>2, <2>4, <1>1, <1>2, <1>3, FreeGrows
  <2> QED BY <2>3, <2>4
<1>5. PICK v : v = [w EXCEPT !.pc = "cleanup", !.mem = mem]
  OBVIOUS
<1>6. v = Stepped(w, "cleanup", w.target, mem, w.pending, w.todo)
  BY <1>1, <1>5, Zenon DEF IsWorker, WorkerField, Stepped
<1>7. WorkerOK(v, cs, hs) /\ Onward(v, w, {"cleanup"})
  BY <1>1, <1>4, <1>6, MoveOn, Zenon DEF PendingOK, Tearing
<1> QED BY <1>2, <1>3, <1>5, <1>7

\* removeEtcdMember: the deletion goes on or the pass ends.
LEMMA RemoveEtcdMemberOK ==
  ASSUME PortRules, NEW cs, NEW hs, NEW w, WorkerOK(w, cs, hs), w.pc = "member", w.pending = {},
         NEW v, v = [w EXCEPT !.mem = RequestComponentPort(@, w.component, "etcd-peer")]
  PROVE  /\ \A u \in {[w EXCEPT !.pc = "stopEtcd"], [v EXCEPT !.pc = "stopEtcd"]} :
               WorkerOK(u, cs, hs) /\ Onward(u, w, {"stopEtcd"})
         /\ \A u \in {Finishing(w), Finishing(v)} : WorkerOK(u, cs, hs) /\ u.pc \notin Working
<1>1. /\ OnCourse(w, cs, hs) /\ PendingOK(w) /\ IsWorker(w) /\ IsMemory(w.mem)
      /\ w.component \in Scheduled(w.mem.components) \ Live(w.mem.components)
      /\ w.component \in ControlPlane
  BY TearingFacts DEF Tearing
<1>2. PICK mem : mem = RequestComponentPort(w.mem, w.component, "etcd-peer")
  OBVIOUS
<1>3. Grows(w.mem, mem)
  BY <1>1, <1>2, RequestGrows DEF OwnPorts
<1>4. v = Stepped(w, w.pc, w.target, mem, w.pending, w.todo)
  BY <1>1, <1>2, Zenon DEF IsWorker, WorkerField, Stepped
<1>5. Follows(v, w) /\ v.pending = {} /\ v.todo = w.todo
  BY <1>1, <1>3, <1>4, ShapeOfStep DEF IsWorker
<1>6. OnCourse(v, cs, hs)
  BY <1>1, <1>5, FollowsOnCourse
<1>7. v.component \in Scheduled(v.mem.components) \ Live(v.mem.components)
      /\ v.component \in ControlPlane
  BY <1>1, <1>5, GrowsKeepsStates DEF Follows
<1>8. ASSUME NEW x, OnCourse(x, cs, hs), x.pending = {}, x.component \in ControlPlane,
             x.component \in Scheduled(x.mem.components) \ Live(x.mem.components),
             NEW u, u = [x EXCEPT !.pc = "stopEtcd"]
      PROVE  WorkerOK(u, cs, hs) /\ Onward(u, x, {"stopEtcd"})
  <2>1. "stopEtcd" \in Tearing \cup {"save"}
    BY DEF Tearing
  <2>2. /\ WorkerOK([x EXCEPT !.pc = "stopEtcd"], cs, hs)
        /\ Onward([x EXCEPT !.pc = "stopEtcd"], x, {"stopEtcd"})
    BY ONLY <2>1, <1>8, MovePc
  <2> QED BY ONLY <2>2, <1>8
<1>9. PICK a, b : a = [w EXCEPT !.pc = "stopEtcd"] /\ b = [v EXCEPT !.pc = "stopEtcd"]
  BY Zenon
<1>10. WorkerOK(a, cs, hs) /\ Onward(a, w, {"stopEtcd"})
  BY <1>1, <1>8, <1>9
<1>11. WorkerOK(b, cs, hs) /\ Onward(b, w, {"stopEtcd"})
  BY <1>5, <1>6, <1>7, <1>8, <1>9, FollowsTransitive, Zenon DEF Onward
<1> QED BY <1>1, <1>6, <1>9, <1>10, <1>11, FinishingOK

\* stopEtcd.
LEMMA StopEtcdOK ==
  ASSUME PortRules, NEW cs, NEW hs, NEW w, WorkerOK(w, cs, hs), w.pc = "stopEtcd"
  PROVE  LET v == [w EXCEPT !.pc = "cleanup",
                      !.mem = FreeComponentPort(FreeComponentPort(@, w.component, "etcd-peer"),
                                                w.component, "etcd-client")]
         IN  WorkerOK(v, cs, hs) /\ Onward(v, w, {"cleanup"})
<1>1. /\ OnCourse(w, cs, hs) /\ PendingOK(w) /\ IsWorker(w) /\ IsMemory(w.mem)
      /\ w.component \in Scheduled(w.mem.components) \ Live(w.mem.components)
      /\ ~ Undeleted(w.mem.components, w.component) /\ w.component \in ControlPlane
  BY TearingFacts DEF Tearing
<1>2. PICK mem : mem = FreeComponentPort(FreeComponentPort(w.mem, w.component, "etcd-peer"),
                                         w.component, "etcd-client")
  OBVIOUS
<1>3. Grows(w.mem, mem)
  BY <1>1, <1>2, FreeTwiceGrows DEF OwnPorts
<1>4. PICK v : v = [w EXCEPT !.pc = "cleanup",
                      !.mem = FreeComponentPort(FreeComponentPort(@, w.component, "etcd-peer"),
                                                w.component, "etcd-client")]
  OBVIOUS
<1>5. v = Stepped(w, "cleanup", w.target, mem, w.pending, w.todo)
  BY <1>1, <1>2, <1>4, Zenon DEF IsWorker, WorkerField, Stepped
<1>6. WorkerOK(v, cs, hs) /\ Onward(v, w, {"cleanup"})
  BY <1>1, <1>3, <1>5, MoveOn, Zenon DEF PendingOK, Tearing
<1> QED BY <1>4, <1>6

\* hostCleanup.
LEMMA CleanUpOK ==
  ASSUME NEW cs, NEW hs, NEW w, WorkerOK(w, cs, hs), w.pc = "cleanup", NEW h, NEW c
  PROVE  LET v == [w EXCEPT !.pc = "save", !.mem.files[h][c] = {}]
         IN  WorkerOK(v, cs, hs) /\ Onward(v, w, {"save"})
<1>1. OnCourse(w, cs, hs) /\ PendingOK(w) /\ IsWorker(w) /\ IsMemory(w.mem)
  BY TearingFacts DEF Tearing
<1>2. PICK mem : mem = [w.mem EXCEPT !.files[h][c] = {}]
  BY Zenon
<1>3. /\ mem = [f \in MemoryField |-> mem[f]]
      /\ mem.hypervisors = w.mem.hypervisors /\ mem.components = w.mem.components
  BY <1>1, <1>2 DEF IsMemory, MemoryField
<1>4. IsMemory(mem)
  BY <1>1, <1>3 DEF IsMemory
<1>5. Grows(w.mem, mem)
  BY <1>3, <1>4 DEF Grows
<1>6. PICK v : v = [w EXCEPT !.pc = "save", !.mem.files[h][c] = {}]
  OBVIOUS
<1>7. v = Stepped(w, "save", w.target, mem, w.pending, w.todo)
  BY <1>1, <1>2, <1>6, Zenon DEF IsWorker, WorkerField, Stepped
<1>8. WorkerOK(v, cs, hs) /\ Onward(v, w, {"save"})
  BY <1>1, <1>5, <1>7, MoveOn, Zenon DEF PendingOK, Tearing
<1> QED BY <1>6, <1>8

-----------------------------------------------------------------------------
(***************************************************************************)
(* The steps that write to the API server.                                 *)
(***************************************************************************)

\* What no write does: undelete a component, move it, or take a port from it
\* unless it is deleted.
Evolves(old, new) ==
    /\ new.phase \in {"absent", "live"} =>
          /\ old.phase \in {"absent", "live"}
          /\ \A name \in PortName : old.ports[name] # NoPort => new.ports[name] = old.ports[name]
    /\ new.phase # "gone" =>
          /\ old.phase # "gone"
          /\ old.hypervisor \in Hypervisor => new.hypervisor = old.hypervisor

\* Object o is written: cs and hs become newCs and newHs.
Written(o, cs, hs, newCs, newHs) ==
    /\ \A c \in Component : Evolves(cs[c], newCs[c]) /\ (c # o => newCs[c] = cs[c])
    /\ \A h \in Hypervisor : h # o => newHs[h] = hs[h]
    /\ EntriesKept(cs, hs, newHs)

\* A worker that learns that an object was written.
Overtaken(w, o) == [w EXCEPT !.stale = @ \cup {o}]

\* What a worker relies on survives the writes of others.
LEMMA OvertakenOK ==
  ASSUME NEW cs, NEW hs, NEW newCs, NEW newHs, NEW o, Written(o, cs, hs, newCs, newHs),
         NEW w, WorkerOK(w, cs, hs)
  PROVE  /\ WorkerOK(Overtaken(w, o), newCs, newHs)
         /\ w.pc = "idle" => WorkerOK(w, newCs, newHs)
<1>0. IsWorker(w)
  BY Zenon DEF WorkerOK, OnCourse, ReadyToWrite, Informed
<1>1. PICK v : v = Overtaken(w, o)
  OBVIOUS
<1>2. /\ v.pc = w.pc /\ v.phase = w.phase /\ v.component = w.component /\ v.mem = w.mem
      /\ v.read = w.read /\ v.stale = w.stale \cup {o} /\ v.todo = w.todo
      /\ v.target = w.target /\ v.pending = w.pending
      /\ v = [f \in WorkerField |-> v[f]]
  BY <1>0, <1>1 DEF IsWorker, WorkerField, Overtaken
<1>3. IsWorker(v)
  BY <1>0, <1>2 DEF IsWorker
<1>4. \A c \in Component : Undeleted(newCs, c) => Undeleted(cs, c)
  BY DEF Written, Evolves, Undeleted
<1>5. ASSUME HypervisorsSeen(w, cs, hs)
      PROVE  HypervisorsSeen(v, newCs, newHs)
  <2>1. EntriesKept(newCs, v.read.hypervisors, newHs)
    BY <1>2, <1>4, <1>5 DEF HypervisorsSeen, EntriesKept, Written
  <2>2. ASSUME NEW h \in Hypervisor \ v.stale, NEW e \in newHs[h].allocatedPorts,
               e.owner[1] \in Component, Undeleted(newCs, e.owner[1])
        PROVE  e \in v.mem.hypervisors[h].allocatedPorts
    <3>1. newHs[h] = hs[h] /\ h \in Hypervisor \ w.stale
      BY <2>2, <1>2 DEF Written
    <3> QED BY <2>2, <3>1, <1>2, <1>4, <1>5 DEF HypervisorsSeen
  <2> QED BY <2>1, <2>2 DEF HypervisorsSeen
<1>6. ASSUME ComponentsSeen(w, cs)
      PROVE  ComponentsSeen(v, newCs)
  <2>1. ASSUME NEW c \in Component
        PROVE  /\ Undeleted(newCs, c) => Undeleted(v.mem.components, c)
               /\ newCs[c].phase # "gone" /\ v.mem.components[c].hypervisor \in Hypervisor =>
                     newCs[c].hypervisor = v.mem.components[c].hypervisor
    BY <2>1, <1>2, <1>4, <1>6 DEF ComponentsSeen, ComponentSeen, Written, Evolves
  <2>2. ASSUME NEW c \in Component, c \notin v.stale
        PROVE  newCs[c] = cs[c] /\ c \notin w.stale
    BY <2>2, <1>2 DEF Written
  <2>3. \A c \in Component : newCs[c] = cs[c] => (Undeleted(newCs, c) = Undeleted(cs, c))
    BY DEF Undeleted
  <2> QED BY <2>1, <2>2, <2>3, <1>2, <1>6 DEF ComponentsSeen, ComponentSeen
<1>7. ASSUME Remembered(w, cs)
      PROVE  Remembered(v, newCs)
  BY <1>2, <1>4, <1>7 DEF Remembered, Written, Evolves, Undeleted
<1>8. ASSUME w.component \in Component, Granted(w, cs)
      PROVE  Granted(v, newCs)
  <2>1. ASSUME Undeleted(newCs, w.component), NEW name \in OwnPorts(w.component)
        PROVE  newCs[w.component].ports[name] # NoPort
    <3>1. cs[w.component].ports[name] # NoPort /\ name \in PortName
      BY <2>1, <1>4, <1>8, OwnPortsAreNames DEF Granted
    <3> QED BY <2>1, <3>1, <1>8 DEF Written, Evolves, Undeleted
  <2> QED BY <2>1, <1>2 DEF Granted
<1>9. ASSUME Informed(w, cs, hs)
      PROVE  Informed(v, newCs, newHs)
  BY <1>2, <1>3, <1>5, <1>6, <1>9 DEF Informed
<1>10. CASE w.pc \in {"idle", "panicked"}
  BY <1>0, <1>1, <1>2, <1>3, <1>10 DEF WorkerOK, Working, Writing, Tearing
<1>11. CASE w.pc \in {"load", "list"}
  <2>1. /\ w.pending = {} /\ w.component \in Component
        /\ w.phase = "pre" \/ (w.phase = "main" /\ Granted(w, cs))
        /\ w.pc = "list" => HypervisorsSeen(w, cs, hs)
    BY <1>11 DEF WorkerOK, Working, Writing, Tearing
  <2>2. /\ w.phase = "pre" \/ (w.phase = "main" /\ Granted(v, newCs))
        /\ w.pc = "list" => HypervisorsSeen(v, newCs, newHs)
    BY <2>1, <1>5, <1>8
  <2> QED BY <2>1, <2>2, <1>1, <1>2, <1>3, <1>11 DEF WorkerOK
<1>12. CASE w.pc \in Working
  <2>1. OnCourse(w, cs, hs) /\ Positioned(w)
    BY <1>12 DEF WorkerOK, Working, Writing, Tearing
  <2>2. OnCourse(v, newCs, newHs)
    BY <2>1, <1>2, <1>7, <1>8, <1>9 DEF OnCourse, Informed
  <2>3. Positioned(v)
    BY <2>1, <1>2 DEF Positioned, PendingOK, OthersReady
  <2> QED BY <2>2, <2>3, <1>1, <1>2, <1>12 DEF WorkerOK, Working, Tearing
<1>13. CASE w.pc \in Writing
  <2>1. /\ ReadyToWrite(w, cs, hs)
        /\ w.pc = "components" => w.mem.hypervisors = w.read.hypervisors
    BY <1>13 DEF WorkerOK, Working, Writing, Tearing
  <2>2. ReadyToWrite(v, newCs, newHs)
    BY <2>1, <1>2, <1>7, <1>8, <1>9 DEF ReadyToWrite, Informed
  <2> QED BY <2>1, <2>2, <1>1, <1>2, <1>13 DEF WorkerOK, Writing
<1> QED BY <1>10, <1>11, <1>12, <1>13, Zenon DEF WorkerOK

\* A port that is allocated in `from' is allocated in `to'.
LEMMA AllottedKept ==
  ASSUME NEW cs, NEW from, NEW to, EntriesKept(cs, from, to), NEW c \in Component,
         Undeleted(cs, c), NEW mem, NEW name, Allotted(mem, from, c, name)
  PROVE  Allotted(mem, to, c, name)
<1>1. PICK e : e = Entry(c, name, mem[c].ports[name])
  OBVIOUS
<1>2. PICK h : h = mem[c].hypervisor
  OBVIOUS
<1>3. e.owner[1] = c /\ h \in Hypervisor /\ e \in from[h].allocatedPorts
  BY <1>1, <1>2 DEF Entry, Allotted
<1>4. e \in to[h].allocatedPorts
  BY <1>3 DEF EntriesKept
<1> QED BY <1>1, <1>2, <1>3, <1>4 DEF Allotted

\* A worker that takes st and fs for what it read of hypervisor h.
ReadHypervisor(w, h, st, fs, rewritten) ==
    [w EXCEPT !.read.hypervisors[h] = st, !.read.files[h] = fs, !.rewritten = rewritten]

\* UpdateResources wrote hypervisor h, which nobody else wrote since it was listed.
LEMMA HypervisorWritten ==
  ASSUME PortRules, NEW cs, NEW hs, StoreOK(cs, hs), NEW w, WorkerOK(w, cs, hs),
         w.pc = "hypervisors",
         NEW h \in Hypervisor \ w.stale,
         NEW newHs, newHs = [hs EXCEPT ![h] = w.mem.hypervisors[h]],
         NEW fs, NEW rewritten, NEW v,
         v = ReadHypervisor(w, h, w.mem.hypervisors[h], fs, rewritten)
  PROVE  /\ Written(h, cs, hs, cs, newHs)
         /\ StoreOK(cs, newHs)
         /\ WorkerOK(Updating(v), cs, newHs) /\ Updating(v).pc \notin Working
<1>1. ReadyToWrite(w, cs, hs)
  BY DEF WorkerOK, Working, Writing, Tearing
<1>2. /\ Informed(w, cs, hs) /\ IsWorker(w) /\ IsMemory(w.mem) /\ IsMemory(w.read)
      /\ HypervisorsSeen(w, cs, hs)
  BY <1>1 DEF ReadyToWrite, Informed, IsWorker
<1>3. IsHypervisors(hs) /\ IsComponents(cs) /\ Recorded(cs, hs)
  BY DEF StoreOK
<1>4. PICK st : st = w.mem.hypervisors[h]
  OBVIOUS
<1>5. Sound(st)
  BY <1>2, <1>4 DEF IsMemory, IsHypervisors
<1>6. /\ newHs = [g \in Hypervisor |-> newHs[g]]
      /\ newHs[h] = st
      /\ \A g \in Hypervisor \ {h} : newHs[g] = hs[g]
  BY <1>3, <1>4 DEF IsHypervisors
<1>7. IsHypervisors(newHs)
  BY <1>3, <1>5, <1>6 DEF IsHypervisors
<1>8. EntriesKept(cs, hs, newHs)
  BY <1>2, <1>4, <1>6 DEF HypervisorsSeen, EntriesKept
<1>9. Written(h, cs, hs, cs, newHs)
  BY <1>6, <1>8 DEF Written, Evolves
<1>10. Recorded(cs, newHs)
  BY <1>3, <1>8, AllottedKept DEF Recorded
<1>11. StoreOK(cs, newHs)
  BY <1>3, <1>7, <1>10 DEF StoreOK
<1>12. PICK read : read = [w.read EXCEPT !.hypervisors[h] = st, !.files[h] = fs]
  OBVIOUS
<1>13. /\ read = [f \in MemoryField |-> read[f]]
       /\ read.hypervisors = [w.read.hypervisors EXCEPT ![h] = st]
       /\ read.components = w.read.components
  BY <1>2, <1>12, Zenon DEF IsMemory, MemoryField
<1>14. /\ read.hypervisors = [g \in Hypervisor |-> read.hypervisors[g]]
       /\ read.hypervisors[h] = st
       /\ \A g \in Hypervisor \ {h} : read.hypervisors[g] = w.read.hypervisors[g]
  BY <1>2, <1>13, Zenon DEF IsMemory, IsHypervisors
<1>15. IsHypervisors(read.hypervisors)
  BY <1>2, <1>5, <1>14, Zenon DEF IsMemory, IsHypervisors
<1>16. IsMemory(read)
  BY ONLY <1>2, <1>13, <1>15 DEF IsMemory
<1>17. /\ v.phase = w.phase /\ v.component = w.component /\ v.mem = w.mem
       /\ v.read = read /\ v.stale = w.stale /\ v.todo = w.todo /\ v.pending = w.pending
       /\ v = [f \in WorkerField |-> v[f]]
  <2>1. v = ReadHypervisor(w, h, st, fs, rewritten)
    BY <1>4
  <2>2. v.read = read
    BY ONLY <2>1, <1>2, <1>12, Zenon DEF IsWorker, WorkerField, ReadHypervisor
  <2>3. /\ v.phase = w.phase /\ v.component = w.component /\ v.mem = w.mem
        /\ v.stale = w.stale /\ v.todo = w.todo /\ v.pending = w.pending
    BY ONLY <2>1, <1>2 DEF IsWorker, WorkerField, ReadHypervisor
  <2>4. PICK a : a = [w EXCEPT !.read.hypervisors[h] = st]
    BY Zenon
  <2>5. PICK b : b = [a EXCEPT !.read.files[h] = fs]
    BY Zenon
  <2>6. v = [b EXCEPT !.rewritten = rewritten]
    BY <2>1, <2>4, <2>5 DEF ReadHypervisor
  <2>7. a = [f \in WorkerField |-> a[f]]
    BY ONLY <2>4, <1>2 DEF IsWorker, WorkerField
  <2>8. b = [f \in WorkerField |-> b[f]]
    BY ONLY <2>5, <2>7 DEF WorkerField
  <2>9. v = [f \in WorkerField |-> v[f]]
    BY ONLY <2>6, <2>8 DEF WorkerField
  <2> QED BY <2>2, <2>3, <2>9
<1>18. IsWorker(v)
  BY <1>2, <1>16, <1>17, Zenon DEF IsWorker
<1>19. HypervisorsSeen(v, cs, newHs)
  <2>1. EntriesKept(cs, read.hypervisors, newHs)
    BY <1>2, <1>6, <1>14 DEF HypervisorsSeen, EntriesKept
  <2>2. \A g \in Hypervisor \ w.stale : \A e \in newHs[g].allocatedPorts :
           e.owner[1] \in Component /\ Undeleted(cs, e.owner[1]) =>
              e \in w.mem.hypervisors[g].allocatedPorts
    BY <1>2, <1>4, <1>6 DEF HypervisorsSeen
  <2> QED BY <2>1, <2>2, <1>17 DEF HypervisorsSeen
<1>20. ComponentsSeen(v, cs)
  BY <1>2, <1>17, ZenonT(30) DEF Informed, ComponentsSeen, ComponentSeen
<1>21. /\ Granted(w, cs) => Granted(v, cs)
       /\ Remembered(w, cs) => Remembered(v, cs)
  <2>1. v.read.components = w.read.components
    BY <1>13, <1>17
  <2> QED BY ONLY <2>1, <1>17 DEF Granted, Remembered
<1>22. ReadyToWrite(v, cs, newHs)
  BY <1>1, <1>17, <1>18, <1>19, <1>20, <1>21, Zenon DEF ReadyToWrite, Informed
<1>23. WorkerOK(Updating(v), cs, newHs) /\ Updating(v).pc \notin Working
  BY ONLY <1>18, <1>22, PortRules, UpdatingOK, UpdatingEnds
<1> QED BY <1>9, <1>11, <1>23

\* Writing component c leaves the API server in order when each port that c then
\* has is allocated to it.
LEMMA StoreComponent ==
  ASSUME NEW cs, NEW hs, StoreOK(cs, hs), NEW c \in Component, NEW r, IsComponent(r),
         \A name \in PortName \ OwnPorts(c) : r.ports[name] = NoPort,
         Evolves(cs[c], r),
         r.phase \in {"absent", "live"} =>
            \A name \in PortName : r.ports[name] # NoPort =>
               /\ r.hypervisor \in Hypervisor
               /\ Entry(c, name, r.ports[name]) \in hs[r.hypervisor].allocatedPorts,
         NEW newCs, newCs = WithComponent(cs, c, r)
  PROVE  StoreOK(newCs, hs) /\ Written(c, cs, hs, newCs, hs) /\ newCs[c] = r
<1>1. IsComponents(cs) /\ IsHypervisors(hs) /\ Recorded(cs, hs)
  BY DEF StoreOK
<1>2. /\ IsComponents(newCs)
      /\ newCs[c] = r
      /\ \A x \in Component \ {c} : newCs[x] = cs[x]
  BY <1>1, PutComponent
<1>3. Recorded(newCs, hs)
  BY <1>1, <1>2 DEF Recorded, Allotted, Undeleted
<1>4. \A x \in Component : Evolves(cs[x], newCs[x])
  BY <1>2 DEF Evolves
<1>5. Written(c, cs, hs, newCs, hs)
  BY <1>2, <1>4 DEF Written, EntriesKept
<1> QED BY <1>1, <1>2, <1>3, <1>5 DEF StoreOK

\* A worker that takes r for what it read of component c.
ReadComponent(w, c, r) == [w EXCEPT !.read.components[c] = r]

\* UpdateResources wrote component c, after all the hypervisors.
LEMMA ComponentWritten ==
  ASSUME PortRules, NEW cs, NEW hs, StoreOK(cs, hs), NEW w, WorkerOK(w, cs, hs),
         w.pc = "components",
         NEW c \in Component \ w.stale,
         NEW newCs, newCs = WithComponent(cs, c, w.mem.components[c]),
         NEW v, v = ReadComponent(w, c, w.mem.components[c])
  PROVE  /\ Written(c, cs, hs, newCs, hs)
         /\ StoreOK(newCs, hs)
         /\ WorkerOK(Updating(v), newCs, hs) /\ Updating(v).pc \notin Working
<1>1. ReadyToWrite(w, cs, hs) /\ w.mem.hypervisors = w.read.hypervisors
  BY DEF WorkerOK, Working, Writing, Tearing
<1>2. /\ Informed(w, cs, hs) /\ IsWorker(w) /\ IsMemory(w.mem) /\ IsMemory(w.read)
      /\ HypervisorsSeen(w, cs, hs) /\ ComponentsSeen(w, cs)
  BY <1>1 DEF ReadyToWrite, Informed, IsWorker
<1>3. IsComponents(cs) /\ Recorded(cs, hs)
  BY DEF StoreOK
<1>4. PICK r : r = w.mem.components[c]
  BY Zenon
<1>5. IsComponent(r) /\ \A name \in PortName \ OwnPorts(c) : r.ports[name] = NoPort
  BY <1>2, <1>4 DEF IsMemory, IsComponents
<1>6. /\ r.phase = cs[c].phase /\ r.hypervisor = cs[c].hypervisor
      /\ Undeleted(cs, c) => \A name \in PortName :
            /\ cs[c].ports[name] # NoPort => r.ports[name] = cs[c].ports[name]
            /\ r.ports[name] # NoPort =>
                  \/ r.ports[name] = cs[c].ports[name]
                  \/ Allotted(w.mem.components, w.mem.hypervisors, c, name)
  BY <1>2, <1>4, Zenon DEF ComponentsSeen, ComponentSeen
<1>7. Evolves(cs[c], r)
  BY <1>6 DEF Evolves, Undeleted
<1>8. ASSUME r.phase \in {"absent", "live"}, NEW name \in PortName, r.ports[name] # NoPort
      PROVE  /\ r.hypervisor \in Hypervisor
             /\ Entry(c, name, r.ports[name]) \in hs[r.hypervisor].allocatedPorts
  <2>1. Undeleted(cs, c)
    BY <1>6, <1>8 DEF Undeleted
  <2>2. CASE r.ports[name] = cs[c].ports[name]
    BY <2>1, <2>2, <1>3, <1>6, <1>8, Zenon DEF Recorded, Allotted
  <2>3. CASE Allotted(w.mem.components, w.mem.hypervisors, c, name)
    <3>1. EntriesKept(cs, w.mem.hypervisors, hs)
      BY ONLY <1>1, <1>2 DEF HypervisorsSeen
    <3>2. Allotted(w.mem.components, hs, c, name)
      BY ONLY <2>1, <2>3, <3>1, c \in Component, AllottedKept
    <3> QED BY ONLY <3>2, <1>4 DEF Allotted
  <2> QED BY <2>1, <2>2, <2>3, <1>6, <1>8, Zenon
<1>9. StoreOK(newCs, hs) /\ Written(c, cs, hs, newCs, hs) /\ newCs[c] = r
  <2>1. newCs = WithComponent(cs, c, r)
    BY ONLY <1>4, newCs = WithComponent(cs, c, w.mem.components[c])
  <2>2. r.phase \in {"absent", "live"} =>
           \A name \in PortName : r.ports[name] # NoPort =>
              /\ r.hypervisor \in Hypervisor
              /\ Entry(c, name, r.ports[name]) \in hs[r.hypervisor].allocatedPorts
    BY ONLY <1>8
  <2> QED BY ONLY <2>1, <2>2, <1>5, <1>7, StoreOK(cs, hs), c \in Component, StoreComponent
<1>10. PICK read : read = [w.read EXCEPT !.components[c] = r]
  BY Zenon
<1>11. /\ read = [f \in MemoryField |-> read[f]]
       /\ read.hypervisors = w.read.hypervisors
       /\ read.components = WithComponent(w.read.components, c, r)
  BY <1>2, <1>10 DEF IsMemory, MemoryField, WithComponent
<1>12. /\ IsComponents(read.components)
       /\ read.components[c] = r
       /\ \A x \in Component \ {c} : read.components[x] = w.read.components[x]
  <2>1. IsComponents(w.read.components)
    BY ONLY <1>2 DEF IsMemory
  <2> QED BY ONLY <2>1, <1>5, <1>11, c \in Component, PutComponent
<1>13. IsMemory(read)
  BY ONLY <1>2, <1>11, <1>12 DEF IsMemory
<1>14. /\ v.phase = w.phase /\ v.component = w.component /\ v.mem = w.mem
       /\ v.read = read /\ v.stale = w.stale /\ v.todo = w.todo /\ v.pending = w.pending
       /\ v = [f \in WorkerField |-> v[f]]
  BY <1>2, <1>4, <1>10 DEF IsWorker, WorkerField, ReadComponent
<1>15. IsWorker(v)
  BY <1>2, <1>13, <1>14, Zenon DEF IsWorker
<1>16. /\ \A x \in Component \ {c} : newCs[x] = cs[x]
       /\ \A x \in Component : Undeleted(newCs, x) = Undeleted(cs, x)
  BY <1>6, <1>9 DEF Written, Undeleted
<1>17. HypervisorsSeen(v, newCs, hs)
  BY <1>2, <1>11, <1>14, <1>16, Zenon DEF HypervisorsSeen, EntriesKept
<1>18. ComponentsSeen(v, newCs)
  <2>1. newCs[c] = v.mem.components[c] /\ Undeleted(newCs, c) = Undeleted(v.mem.components, c)
    BY <1>4, <1>9, <1>14 DEF Undeleted
  <2> SUFFICES ASSUME NEW x \in Component
               PROVE  ComponentSeen(v, newCs, x)
    BY DEF ComponentsSeen
  <2>2. CASE x = c
    BY ONLY <2>1, <2>2 DEF ComponentSeen
  <2>3. CASE x # c
    <3>1. newCs[x] = cs[x] /\ Undeleted(newCs, x) = Undeleted(cs, x)
      BY <2>3, <1>16
    <3>2. ComponentSeen(w, cs, x)
      BY <1>2 DEF ComponentsSeen
    <3> QED BY ONLY <3>1, <3>2, <1>14 DEF ComponentSeen
  <2> QED BY ONLY <2>2, <2>3
<1>19. Remembered(w, cs) => Remembered(v, newCs)
  <2> SUFFICES ASSUME Remembered(w, cs), NEW x \in Component, NEW name \in PortName,
                      v.read.components[x].ports[name] # NoPort
               PROVE  /\ Undeleted(newCs, x) =>
                            newCs[x].ports[name] = v.read.components[x].ports[name]
                      /\ Undeleted(v.mem.components, x) =>
                            v.mem.components[x].ports[name] = v.read.components[x].ports[name]
    BY Zenon DEF Remembered
  <2>1. CASE x = c
    BY <2>1, <1>4, <1>9, <1>12, <1>14
  <2>2. CASE x # c
    <3>1. /\ newCs[x] = cs[x] /\ Undeleted(newCs, x) = Undeleted(cs, x)
          /\ v.read.components[x] = w.read.components[x] /\ v.mem = w.mem
      BY <2>2, <1>12, <1>14, <1>16
    <3>2. w.read.components[x].ports[name] # NoPort
      BY <3>1
    <3>3. /\ Undeleted(cs, x) => cs[x].ports[name] = w.read.components[x].ports[name]
          /\ Undeleted(w.mem.components, x) =>
                w.mem.components[x].ports[name] = w.read.components[x].ports[name]
      BY <3>2, Zenon DEF Remembered
    <3> QED BY ONLY <3>1, <3>3
  <2> QED BY ONLY <2>1, <2>2
<1>20. Granted(w, cs) => Granted(v, newCs)
  <2> SUFFICES ASSUME Granted(w, cs), Undeleted(newCs, w.component),
                      NEW name \in OwnPorts(w.component)
               PROVE  newCs[w.component].ports[name] # NoPort
    BY <1>14, Zenon DEF Granted
  <2>1. /\ w.component \in Component /\ Undeleted(cs, w.component) /\ name \in PortName
        /\ cs[w.component].ports[name] # NoPort
    BY <1>2, <1>16, OwnPortsAreNames, Zenon DEF Granted, Informed
  <2>2. CASE w.component = c
    BY ONLY <2>1, <2>2, <1>6, <1>9
  <2>3. CASE w.component # c
    BY ONLY <2>1, <2>3, <1>16
  <2> QED BY ONLY <2>2, <2>3
<1>21. ReadyToWrite(v, newCs, hs)
  BY <1>1, <1>14, <1>15, <1>17, <1>18, <1>19, <1>20, Zenon DEF ReadyToWrite, Informed
<1>22. WorkerOK(Updating(v), newCs, hs) /\ Updating(v).pc \notin Working
  BY ONLY <1>15, <1>21, PortRules, UpdatingOK, UpdatingEnds
<1> QED BY <1>9, <1>22

\* The requested component was written by itself, before the hypervisors: it has its
\* ports since the PreReconcile phase.
LEMMA Saved ==
  ASSUME NEW cs, NEW hs, StoreOK(cs, hs), NEW w, WorkerOK(w, cs, hs), w.pc = "save",
         w.component \notin w.stale,
         NEW newCs,
         newCs = WithComponent(cs, w.component,
                     IF w.component \in Live(w.mem.components)
                     THEN w.mem.components[w.component]
                     ELSE [AbsentComponent EXCEPT !.phase = "gone"])
  PROVE  /\ Written(w.component, cs, hs, newCs, hs)
         /\ StoreOK(newCs, hs)
<1>1. OnCourse(w, cs, hs)
  BY DEF WorkerOK, Working, Writing, Tearing
<1>2. /\ Informed(w, cs, hs) /\ IsWorker(w) /\ IsMemory(w.mem)
      /\ ComponentsSeen(w, cs) /\ Remembered(w, cs)
  BY <1>1 DEF OnCourse, Informed, IsWorker
<1>3. PICK c : c = w.component
  OBVIOUS
<1>4. c \in Component /\ c \notin w.stale
  BY <1>2, <1>3 DEF Informed
<1>5. IsComponents(cs) /\ Recorded(cs, hs)
  BY DEF StoreOK
<1>6. CASE c \in Live(w.mem.components)
  <2>1. PICK r : r = w.mem.components[c]
    OBVIOUS
  <2>2. IsComponent(r) /\ \A name \in PortName \ OwnPorts(c) : r.ports[name] = NoPort
    BY <2>1, <1>2, <1>4 DEF IsMemory, IsComponents
  <2>3. r.phase = cs[c].phase /\ r.hypervisor = cs[c].hypervisor /\ Undeleted(cs, c)
        /\ Undeleted(w.mem.components, c)
    BY <2>1, <1>2, <1>4, <1>6 DEF ComponentsSeen, ComponentSeen, Undeleted, Live
  <2>4. \A name \in OwnPorts(c) : r.ports[name] = cs[c].ports[name]
    <3>1. HasPorts(w.read, c, OwnPorts(c))
      BY <1>1, <1>3, <1>6 DEF OnCourse
    <3> QED BY <2>1, <2>3, <3>1, <1>2, <1>4, OwnPortsAreNames DEF Remembered, HasPorts
  <2>5. \A name \in PortName : r.ports[name] = cs[c].ports[name]
    BY <2>2, <2>4, <1>4, <1>5 DEF IsComponents
  <2>6. Evolves(cs[c], r)
    BY <2>3, <2>5 DEF Evolves, Undeleted
  <2>7. \A name \in PortName : r.ports[name] # NoPort =>
           /\ r.hypervisor \in Hypervisor
           /\ Entry(c, name, r.ports[name]) \in hs[r.hypervisor].allocatedPorts
    BY <2>3, <2>5, <1>4, <1>5 DEF Recorded, Allotted
  <2>8. newCs = WithComponent(cs, c, r)
    BY <2>1, <1>3, <1>6
  <2>9. StoreOK(newCs, hs) /\ Written(c, cs, hs, newCs, hs)
    BY <2>2, <2>6, <2>7, <2>8, <1>4, StoreComponent
  <2> QED BY <2>9, <1>3
<1>7. CASE c \notin Live(w.mem.components)
  <2>1. PICK r : r = [AbsentComponent EXCEPT !.phase = "gone"]
    OBVIOUS
  <2>2. /\ r = [f \in ComponentField |-> r[f]]
        /\ r.phase = "gone" /\ r.hypervisor = NoHypervisor /\ r.ports = NoPorts
    BY <2>1, Zenon DEF AbsentComponent, ComponentField
  <2>3. IsComponent(r) /\ \A name \in PortName \ OwnPorts(c) : r.ports[name] = NoPort
    BY <2>2 DEF IsComponent, Place, NoPorts, Port
  <2>4. Evolves(cs[c], r)
    BY <2>2 DEF Evolves
  <2>5. newCs = WithComponent(cs, c, r)
    BY <2>1, <1>3, <1>7
  <2>6. StoreOK(newCs, hs) /\ Written(c, cs, hs, newCs, hs)
    BY ONLY <2>2, <2>3, <2>4, <2>5, <1>4, StoreOK(cs, hs), StoreComponent
  <2> QED BY <2>6, <1>3
<1> QED BY <1>6, <1>7

-----------------------------------------------------------------------------
(***************************************************************************)
(* The ports, for any number of managers.                                  *)
(***************************************************************************)

\* After a write all workers that have listed the object know it is stale; the
\* worker that wrote it may have moved on before or after that.
LEMMA OutdatedOK ==
  ASSUME NEW cs, NEW hs, NEW newCs, NEW newHs, NEW o, Written(o, cs, hs, newCs, newHs),
         NEW ws,
         \A m \in Manager : WorkerOK(ws[m], cs, hs) \/ WorkerOK(ws[m], newCs, newHs)
  PROVE  \A m \in Manager : WorkerOK(Outdated(ws, o)[m], newCs, newHs)
<1>1. Written(o, newCs, newHs, newCs, newHs)
  BY DEF Written, Evolves, EntriesKept
<1>2. ASSUME NEW m \in Manager
      PROVE  WorkerOK(Outdated(ws, o)[m], newCs, newHs)
  <2>1. Outdated(ws, o)[m] = IF ws[m].pc = "idle" THEN ws[m] ELSE Overtaken(ws[m], o)
    BY DEF Outdated, Overtaken
  <2>2. CASE WorkerOK(ws[m], cs, hs)
    BY <2>1, <2>2, OvertakenOK
  <2>3. CASE WorkerOK(ws[m], newCs, newHs)
    BY <2>1, <2>3, <1>1, OvertakenOK
  <2> QED BY <2>2, <2>3
<1> QED BY <1>2

\* A component that is created, scheduled or deleted by somebody else.
LEMMA EditedComponent ==
  ASSUME NEW cs, NEW hs, StoreOK(cs, hs), NEW c \in Component, NEW r,
         r = [f \in ComponentField |-> r[f]], r.ports = cs[c].ports,
         r.phase \in {"absent", "live", "deleting", "gone"}, r.hypervisor \in Place,
         Evolves(cs[c], r), NEW newCs, newCs = WithComponent(cs, c, r)
  PROVE  StoreOK(newCs, hs) /\ Written(c, cs, hs, newCs, hs)
<1>1. IsComponents(cs) /\ Recorded(cs, hs)
  BY DEF StoreOK
<1>2. IsComponent(r) /\ \A name \in PortName \ OwnPorts(c) : r.ports[name] = NoPort
  BY <1>1 DEF IsComponents, IsComponent
<1>3. ASSUME r.phase \in {"absent", "live"}, NEW name \in PortName, r.ports[name] # NoPort
      PROVE  /\ r.hypervisor \in Hypervisor
             /\ Entry(c, name, r.ports[name]) \in hs[r.hypervisor].allocatedPorts
  <2>1. Undeleted(cs, c) /\ cs[c].phase # "gone"
    BY <1>3 DEF Evolves, Undeleted
  <2>2. Allotted(cs, hs, c, name)
    BY <2>1, <1>1, <1>3 DEF Recorded
  <2>3. r.hypervisor = cs[c].hypervisor
    BY <2>2, <1>3 DEF Evolves, Allotted
  <2> QED BY <2>2, <2>3 DEF Allotted
<1> QED BY <1>2, <1>3, StoreComponent, Zenon

\* A worker moves on and the API server stays as it is.
LEMMA BecomeOK ==
  ASSUME PortsInv, NEW m \in Manager, NEW v, WorkerOK(v, components, hypervisors),
         Become(m, v), UNCHANGED <<components, hypervisors>>
  PROVE  PortsInv'
<1>1. /\ StoreOK(components, hypervisors)
      /\ workers = [n \in Manager |-> workers[n]]
      /\ \A n \in Manager : WorkerOK(workers[n], components, hypervisors)
  BY DEF PortsInv
<1>2. workers' = [workers EXCEPT ![m] = v]
  BY DEF Become
<1>3. /\ workers' = [n \in Manager |-> workers'[n]]
      /\ \A n \in Manager : WorkerOK(workers'[n], components, hypervisors)
  BY <1>1, <1>2
<1> QED BY <1>1, <1>3 DEF PortsInv

\* An object is written and the workers learn of it.
LEMMA WriteOK ==
  ASSUME PortsInv, NEW o, NEW ws,
         StoreOK(components', hypervisors'),
         Written(o, components, hypervisors, components', hypervisors'),
         \A m \in Manager : \/ WorkerOK(ws[m], components, hypervisors)
                            \/ WorkerOK(ws[m], components', hypervisors'),
         workers' = Outdated(ws, o)
  PROVE  PortsInv'
<1>1. \A m \in Manager : WorkerOK(workers'[m], components', hypervisors')
  BY OutdatedOK
<1>2. workers' = [m \in Manager |-> workers'[m]]
  BY DEF Outdated
<1> QED BY <1>1, <1>2 DEF PortsInv

\* The other writers.
LEMMA OthersKeepPorts ==
  ASSUME PortsInv, Others
  PROVE  PortsInv'
<1>1. /\ StoreOK(components, hypervisors) /\ IsComponents(components)
      /\ \A m \in Manager : WorkerOK(workers[m], components, hypervisors)
  BY DEF PortsInv, StoreOK
<1>2. ASSUME NEW c \in Component, NEW r,
             r = [f \in ComponentField |-> r[f]], r.ports = components[c].ports,
             r.phase \in {"absent", "live", "deleting", "gone"}, r.hypervisor \in Place,
             Evolves(components[c], r), components' = WithComponent(components, c, r),
             workers' = Outdated(workers, c), UNCHANGED hypervisors
      PROVE  PortsInv'
  <2>1. /\ StoreOK(components', hypervisors)
        /\ Written(c, components, hypervisors, components', hypervisors)
    BY <1>1, <1>2, EditedComponent
  <2> QED BY <2>1, <1>1, <1>2, WriteOK
<1>3. ASSUME NEW c \in Component, CreateComponent(c)
      PROVE  PortsInv'
  <2>1. PICK r : r = [components[c] EXCEPT !.phase = "live"]
    BY Zenon
  <2>2. IsComponent(components[c]) /\ components[c].phase = "absent"
    BY <1>1, <1>3 DEF IsComponents, CreateComponent
  <2>3. /\ r = [f \in ComponentField |-> r[f]] /\ r.ports = components[c].ports
        /\ r.phase = "live" /\ r.hypervisor = components[c].hypervisor
        /\ r.hypervisor \in Place
    BY <2>1, <2>2 DEF IsComponent, ComponentField
  <2>4. Evolves(components[c], r)
    BY <2>2, <2>3 DEF Evolves
  <2>5. /\ components' = WithComponent(components, c, r)
        /\ workers' = Outdated(workers, c) /\ UNCHANGED hypervisors
    BY <2>1, <1>3 DEF CreateComponent, WithComponent
  <2> QED BY <2>3, <2>4, <2>5, <1>2
<1>4. ASSUME NEW c \in Component, DeleteComponent(c)
      PROVE  PortsInv'
  <2>1. PICK r : r = [components[c] EXCEPT !.phase = "deleting"]
    BY Zenon
  <2>2. IsComponent(components[c]) /\ components[c].phase = "live"
    BY <1>1, <1>4 DEF IsComponents, DeleteComponent
  <2>3. /\ r = [f \in ComponentField |-> r[f]] /\ r.ports = components[c].ports
        /\ r.phase = "deleting" /\ r.hypervisor = components[c].hypervisor
        /\ r.hypervisor \in Place
    BY <2>1, <2>2 DEF IsComponent, ComponentField
  <2>4. Evolves(components[c], r)
    BY <2>2, <2>3 DEF Evolves
  <2>5. /\ components' = WithComponent(components, c, r)
        /\ workers' = Outdated(workers, c) /\ UNCHANGED hypervisors
    BY <2>1, <1>4 DEF DeleteComponent, WithComponent
  <2> QED BY <2>3, <2>4, <2>5, <1>2
<1>5. ASSUME NEW c \in Component, NEW h \in Hypervisor, ScheduleComponent(c, h)
      PROVE  PortsInv'
  <2>1. PICK r : r = [components[c] EXCEPT !.hypervisor = h]
    BY Zenon
  <2>2. /\ IsComponent(components[c]) /\ components[c].phase # "gone"
        /\ components[c].hypervisor \notin Hypervisor
    BY <1>1, <1>5, NamesAssumption DEF IsComponents, ScheduleComponent, Scheduled, Listed
  <2>3. /\ r = [f \in ComponentField |-> r[f]] /\ r.ports = components[c].ports
        /\ r.phase = components[c].phase
        /\ r.phase \in {"absent", "live", "deleting", "gone"} /\ r.hypervisor \in Place
    BY <2>1, <2>2 DEF IsComponent, ComponentField, Place
  <2>4. Evolves(components[c], r)
    BY <2>2, <2>3 DEF Evolves
  <2>5. /\ components' = WithComponent(components, c, r)
        /\ workers' = Outdated(workers, c) /\ UNCHANGED hypervisors
    BY <2>1, <1>5 DEF ScheduleComponent, WithComponent
  <2> QED BY <2>3, <2>4, <2>5, <1>2
<1>6. ASSUME NEW h \in Hypervisor, TouchHypervisor(h)
      PROVE  PortsInv'
  <2>1. /\ workers' = Outdated(workers, h)
        /\ components' = components /\ hypervisors' = hypervisors
    BY <1>6 DEF TouchHypervisor, store
  <2>2. Written(h, components, hypervisors, components, hypervisors)
    BY DEF Written, Evolves, EntriesKept
  <2> QED BY <2>1, <2>2, <1>1, WriteOK
<1>7. CASE DeleteCluster \/ InitializeCluster
  BY <1>7 DEF DeleteCluster, InitializeCluster, PortsInv
<1> QED BY <1>3, <1>4, <1>5, <1>6, <1>7 DEF Others

\* Where a worker is when it reconciles a component.
LEMMA InReconcileFacts ==
  ASSUME NEW cs, NEW hs, NEW w, WorkerOK(w, cs, hs), w.pc \in {"reconcile", "own"}
  PROVE  /\ OnCourse(w, cs, hs) /\ Positioned(w) /\ IsWorker(w) /\ IsMemory(w.mem)
         /\ w.target \in Component
<1>1. OnCourse(w, cs, hs) /\ Positioned(w)
  BY DEF WorkerOK, Writing
<1> QED BY <1>1 DEF OnCourse, Informed, IsWorker, Positioned

\* The end of Reconcile, with the files uploaded or not.
LEMMA EndOfReconcile ==
  ASSUME PortRules, NEW cs, NEW hs, NEW w, WorkerOK(w, cs, hs), w.pc \in {"reconcile", "own"},
         w.pending = {}, NEW ok
  PROVE  \A v \in {Reconciled(w, ok), Reconciled(Uploaded(w, w.target), ok)} :
            WorkerOK(v, cs, hs) /\ AfterReconcile(w, v)
<1>1. OnCourse(w, cs, hs) /\ Positioned(w) /\ w.target \in Component
  BY InReconcileFacts
<1>2. PICK u : u = Uploaded(w, w.target)
  OBVIOUS
<1>3. /\ OnCourse(u, cs, hs) /\ Positioned(u) /\ u.pending = {} /\ u.pc = w.pc
      /\ Follows(u, w) /\ u.todo = w.todo
  BY <1>1, <1>2, UploadedOK
<1>4. ASSUME NEW v, AfterReconcile(u, v)
      PROVE  AfterReconcile(w, v)
  <2>1. \A pcs : Onward(v, u, pcs) => Onward(v, w, pcs)
    BY <1>3, FollowsTransitive DEF Onward
  <2>2. u.component = w.component /\ Scheduled(u.mem.components) = Scheduled(w.mem.components)
    BY <1>3, GrowsKeepsStates DEF Follows
  <2> QED BY <2>1, <2>2, <1>3, <1>4 DEF AfterReconcile, TakesUp
<1>5. WorkerOK(Reconciled(w, ok), cs, hs) /\ AfterReconcile(w, Reconciled(w, ok))
  BY <1>1, ReconciledOK
<1>6. WorkerOK(Reconciled(u, ok), cs, hs) /\ AfterReconcile(w, Reconciled(u, ok))
  BY <1>3, <1>4, ReconciledOK
<1> QED BY <1>2, <1>5, <1>6

\* The steps of a worker, failures included, that write nothing.
LEMMA StepsInMemory ==
  ASSUME PortRules, PortsInv, NEW m \in Manager
  PROVE  \/ ListHypervisors(m) \/ ListComponents(m) \/ LookUp(m)
         \/ ReconcileControlPlane(m) \/ ReconcileIngress(m) \/ ReconcileRefused(m)
         \/ StopControlPlane(m) \/ StopIngress(m) \/ RemoveEtcdMember(m) \/ StopEtcd(m)
         \/ CleanUp(m) \/ SaveConflicts(m) \/ WriteConflicts(m) \/ Restart(m)
         \/ Failure(m) \/ (\E c \in Component : Begin(m, c))
         => PortsInv'
<1> DEFINE w == workers[m]
<1>1. /\ StoreOK(components, hypervisors) /\ IsComponents(components) /\ IsHypervisors(hypervisors)
      /\ WorkerOK(w, components, hypervisors)
  BY DEF PortsInv, StoreOK
<1>2. WorkerOK(IdleWorker, components, hypervisors)
      /\ WorkerOK([IdleWorker EXCEPT !.pc = "panicked"], components, hypervisors)
  BY IdleOK
<1>3. ASSUME \E c \in Component : Begin(m, c)
      PROVE  PortsInv'
  <2>1. PICK c \in Component : Begin(m, c)
    BY <1>3
  <2>2. PICK v : v = LET x == [IdleWorker EXCEPT !.component = c, !.cluster = cluster]
                     IN  IF c \in Live(components) THEN Loading(x, "pre", 1)
                         ELSE Loading(x, "main", 0)
    OBVIOUS
  <2>3. Become(m, v) /\ c \in Listed(components) /\ UNCHANGED <<components, hypervisors>>
    BY <2>1, <2>2, Zenon DEF Begin, store
  <2>4. WorkerOK(v, components, hypervisors)
    BY <2>2, <2>3, BeginOK, Zenon
  <2> QED BY <2>3, <2>4, BecomeOK
<1>4. ASSUME ListHypervisors(m)
      PROVE  PortsInv'
  <2>1. PICK v : v = [w EXCEPT !.pc = "list", !.stale = {},
                         !.mem.hypervisors = hypervisors, !.mem.files = files,
                         !.read.hypervisors = hypervisors, !.read.files = files]
    OBVIOUS
  <2>2. Become(m, v) /\ w.pc = "load" /\ UNCHANGED <<components, hypervisors>>
    BY <2>1, <1>4 DEF ListHypervisors, store, At
  <2>3. WorkerOK(v, components, hypervisors)
    BY <2>1, <2>2, <1>1, ListHypervisorsOK, Zenon
  <2> QED BY <2>2, <2>3, BecomeOK
<1>5. ASSUME ListComponents(m)
      PROVE  PortsInv'
  <2>1. PICK u : u = HavingListed(w, components)
    BY Zenon
  <2>2. PICK x : x = HavingFirst(u)
    BY Zenon
  <2>3. PICK v : v = IF u.component \notin Listed(components)
                     THEN [IdleWorker EXCEPT !.pc = "panicked"]
                     ELSE IF u.phase = "pre" THEN PreReconciled(u)
                     ELSE TakeNext(x)
    BY Zenon
  <2>4. Become(m, v) /\ w.pc = "list" /\ UNCHANGED <<components, hypervisors>>
    BY <2>1, <2>2, <2>3, <1>5 DEF ListComponents, HavingListed, HavingFirst, store, At
  <2>5. u.component \in Listed(components) =>
           /\ u.phase = "pre" => WorkerOK(PreReconciled(u), components, hypervisors)
           /\ u.phase # "pre" => WorkerOK(TakeNext(x), components, hypervisors)
    <3>1. ASSUME u.component \in Listed(components)
          PROVE  /\ u.phase = "pre" => WorkerOK(PreReconciled(u), components, hypervisors)
                 /\ u.phase # "pre" => WorkerOK(TakeNext(x), components, hypervisors)
      BY <2>1, <2>2, <2>4, <3>1, <1>1, ListComponentsOK
    <3> QED BY <3>1
  <2>6. WorkerOK(v, components, hypervisors)
    BY <2>3, <2>5, <1>2
  <2> QED BY <2>4, <2>6, BecomeOK
<1>6. ASSUME LookUp(m)
      PROVE  PortsInv'
  <2>1. PICK l : l = CHOOSE x \in w.pending : TRUE
    BY Zenon
  <2>2. PICK v : v = LookedUp(w, l)
    BY Zenon
  <2>3. Become(m, v) /\ l \in w.pending /\ UNCHANGED <<components, hypervisors>>
    BY <2>1, <2>2, <1>6 DEF LookUp, LookedUp, store
  <2>4. WorkerOK(v, components, hypervisors)
    BY <2>2, <2>3, <1>1, LookUpOK, Zenon
  <2> QED BY <2>3, <2>4, BecomeOK
<1>7. ASSUME InReconcile(m), UNCHANGED <<components, hypervisors>>,
             \/ Become(m, [IdleWorker EXCEPT !.pc = "panicked"])
             \/ \E ok : Become(m, Reconciled(w, ok))
             \/ \E ok : Become(m, Reconciled(Uploaded(w, w.target), ok))
      PROVE  PortsInv'
  <2>1. w.pc \in {"reconcile", "own"} /\ w.pending = {}
    BY <1>7 DEF InReconcile
  <2>2. \A ok : /\ WorkerOK(Reconciled(w, ok), components, hypervisors)
                /\ WorkerOK(Reconciled(Uploaded(w, w.target), ok), components, hypervisors)
    BY <2>1, <1>1, EndOfReconcile, Zenon
  <2>3. PICK v : WorkerOK(v, components, hypervisors) /\ Become(m, v)
    BY <2>2, <1>2, <1>7
  <2> QED BY <2>3, <1>7, BecomeOK
<1>8. ASSUME ReconcileControlPlane(m)
      PROVE  PortsInv'
  <2>1. \/ Become(m, [IdleWorker EXCEPT !.pc = "panicked"])
        \/ \E ok : Become(m, Reconciled(Uploaded(w, w.target), ok))
    BY <1>8 DEF ReconcileControlPlane
  <2>2. InReconcile(m) /\ UNCHANGED <<components, hypervisors>>
    BY <1>8 DEF ReconcileControlPlane, store
  <2> QED BY <2>1, <2>2, <1>7
<1>9. ASSUME ReconcileIngress(m)
      PROVE  PortsInv'
  <2>1. \/ Become(m, [IdleWorker EXCEPT !.pc = "panicked"])
        \/ \E ok : Become(m, Reconciled(Uploaded(w, w.target), ok))
    BY <1>9, Zenon DEF ReconcileIngress
  <2>2. InReconcile(m) /\ UNCHANGED <<components, hypervisors>>
    BY <1>9 DEF ReconcileIngress, store
  <2> QED BY <2>1, <2>2, <1>7
<1>10. ASSUME ReconcileRefused(m)
       PROVE  PortsInv'
  BY <1>7, <1>10, Zenon DEF ReconcileRefused, store
<1>11. ASSUME ReconcileFails(m)
       PROVE  PortsInv'
  BY <1>7, <1>11, Zenon DEF ReconcileFails, store
<1>12. ASSUME StopControlPlane(m)
       PROVE  PortsInv'
  <2>1. PICK v : v = LeavingEtcd([w EXCEPT !.mem = FreeComponentPort(@, w.component, "apiserver")])
    OBVIOUS
  <2>2. /\ Become(m, v) /\ w.pc = "stop" /\ w.component \in ControlPlane
        /\ UNCHANGED <<components, hypervisors>>
    BY <2>1, <1>12 DEF StopControlPlane, store, At
  <2>3. WorkerOK(v, components, hypervisors)
    BY <2>1, <2>2, <1>1, StopControlPlaneOK
  <2> QED BY <2>2, <2>3, BecomeOK, Zenon
<1>13. ASSUME StopIngress(m)
       PROVE  PortsInv'
  <2>1. PICK v : v = LET mem == FreeComponentPort(w.mem, w.component, "apiserver")
                     IN  [w EXCEPT !.pc = "cleanup", !.mem =
                            IF VPNEnabled THEN FreeComponentPort(mem, w.component, "wireguard")
                            ELSE mem]
    OBVIOUS
  <2>2. /\ Become(m, v) /\ w.pc = "stop" /\ w.component \in Ingress
        /\ UNCHANGED <<components, hypervisors>>
    BY <2>1, <1>13 DEF StopIngress, store, At
  <2>3. WorkerOK(v, components, hypervisors)
    BY <2>1, <2>2, <1>1, StopIngressOK, Zenon
  <2> QED BY <2>2, <2>3, BecomeOK
<1>14. ASSUME RemoveEtcdMember(m)
       PROVE  PortsInv'
  <2>1. PICK u : u = [w EXCEPT !.mem = RequestComponentPort(@, w.component, "etcd-peer")]
    BY Zenon
  <2>2. w.pc = "member" /\ w.pending = {} /\ UNCHANGED <<components, hypervisors>>
    BY <1>14 DEF RemoveEtcdMember, store, At
  <2>3. /\ WorkerOK([w EXCEPT !.pc = "stopEtcd"], components, hypervisors)
        /\ WorkerOK([u EXCEPT !.pc = "stopEtcd"], components, hypervisors)
        /\ WorkerOK(Finishing(w), components, hypervisors)
        /\ WorkerOK(Finishing(u), components, hypervisors)
    BY <2>1, <2>2, <1>1, RemoveEtcdMemberOK, Zenon
  <2>4. \/ Become(m, [w EXCEPT !.pc = "stopEtcd"])
        \/ Become(m, [u EXCEPT !.pc = "stopEtcd"])
        \/ Become(m, Finishing(w))
        \/ Become(m, Finishing(u))
    BY <2>1, <1>14 DEF RemoveEtcdMember
  <2> QED BY <2>2, <2>3, <2>4, BecomeOK
<1>15. ASSUME StopEtcd(m)
       PROVE  PortsInv'
  <2>1. PICK v : v = [w EXCEPT !.pc = "cleanup",
                         !.mem = FreeComponentPort(FreeComponentPort(@, w.component, "etcd-peer"),
                                                   w.component, "etcd-client")]
    OBVIOUS
  <2>2. Become(m, v) /\ w.pc = "stopEtcd" /\ UNCHANGED <<components, hypervisors>>
    BY <2>1, <1>15 DEF StopEtcd, store, At
  <2>3. WorkerOK(v, components, hypervisors)
    BY <2>1, <2>2, <1>1, StopEtcdOK, Zenon
  <2> QED BY <2>2, <2>3, BecomeOK
<1>16. ASSUME CleanUp(m)
       PROVE  PortsInv'
  <2>1. PICK h : h = HypervisorOf(w, w.component)
    OBVIOUS
  <2>2. PICK v : v = [w EXCEPT !.pc = "save", !.mem.files[h][w.component] = {}]
    OBVIOUS
  <2>3. Become(m, v) /\ w.pc = "cleanup" /\ UNCHANGED <<components, hypervisors>>
    BY <2>1, <2>2, <1>16 DEF CleanUp, store, At
  <2>4. WorkerOK(v, components, hypervisors)
    BY <2>2, <2>3, <1>1, CleanUpOK, Zenon
  <2> QED BY <2>3, <2>4, BecomeOK
<1>17. ASSUME DeletionFails(m) \/ SaveConflicts(m) \/ SaveFails(m)
       PROVE  PortsInv'
  <2>1. /\ w.pc \in Working
        /\ Become(m, Finishing(w)) /\ UNCHANGED <<components, hypervisors>>
    BY <1>17 DEF DeletionFails, SaveConflicts, SaveFails, At, store, Working, Tearing
  <2>2. OnCourse(w, components, hypervisors)
    BY <2>1, <1>1 DEF WorkerOK, Working, Writing, Tearing
  <2>3. WorkerOK(Finishing(w), components, hypervisors)
    BY <2>2, FinishingOK
  <2> QED BY <2>1, <2>3, BecomeOK
<1>18. ASSUME WriteConflicts(m) \/ WriteFails(m)
       PROVE  PortsInv'
  <2>1. /\ w.pc \in Writing /\ UNCHANGED <<components, hypervisors>>
        /\ \E conflict \in BOOLEAN : Become(m, UpdateFailed(w, conflict))
    BY <1>18, Zenon DEF WriteConflicts, WriteFails, ToWrite, Writing, store
  <2>2. w.component \in Component
    BY <2>1, <1>1, Zenon DEF WorkerOK, Working, Writing, Tearing, ReadyToWrite, Informed
  <2> QED BY <2>1, <2>2, UpdateFailedOK, BecomeOK
<1>19. ASSUME Crash(m) \/ Restart(m)
       PROVE  PortsInv'
  BY <1>2, <1>19, BecomeOK DEF Crash, Restart, store
<1> QED BY <1>3, <1>4, <1>5, <1>6, <1>8, <1>9, <1>10, <1>11, <1>12, <1>13, <1>14, <1>15,
           <1>16, <1>17, <1>18, <1>19 DEF Failure

\* The steps of a worker that write.
LEMMA StepsThatWrite ==
  ASSUME PortRules, PortsInv, NEW m \in Manager
  PROVE  \/ Save(m)
         \/ \E h \in Hypervisor : WriteHypervisor(m, h)
         \/ \E c \in Component : WriteComponent(m, c)
         => PortsInv'
<1> DEFINE w == workers[m]
<1>1. /\ StoreOK(components, hypervisors)
      /\ workers = [n \in Manager |-> workers[n]]
      /\ \A n \in Manager : WorkerOK(workers[n], components, hypervisors)
  BY DEF PortsInv
<1>2. ASSUME NEW v, NEW o, workers' = Outdated([workers EXCEPT ![m] = v], o),
             StoreOK(components', hypervisors'),
             Written(o, components, hypervisors, components', hypervisors'),
             \/ WorkerOK(v, components, hypervisors)
             \/ WorkerOK(v, components', hypervisors')
      PROVE  PortsInv'
  <2>1. PICK ws : ws = [workers EXCEPT ![m] = v]
    BY Zenon
  <2>2. \A n \in Manager : ws[n] = IF n = m THEN v ELSE workers[n]
    BY <2>1, <1>1
  <2>3. \A n \in Manager : \/ WorkerOK(ws[n], components, hypervisors)
                           \/ WorkerOK(ws[n], components', hypervisors')
    BY <2>2, <1>1, <1>2
  <2> QED BY <2>1, <2>3, <1>2, WriteOK, Zenon
<1>3. ASSUME Save(m)
      PROVE  PortsInv'
  <2>1. /\ w.pc = "save" /\ w.component \notin w.stale
        /\ components' = WithComponent(components, w.component,
                            IF w.component \in Live(w.mem.components)
                            THEN w.mem.components[w.component]
                            ELSE [AbsentComponent EXCEPT !.phase = "gone"])
        /\ workers' = Outdated([workers EXCEPT ![m] = Finishing(w)], w.component)
        /\ hypervisors' = hypervisors
    BY <1>3 DEF Save, At, WithComponent
  <2>2. /\ Written(w.component, components, hypervisors, components', hypervisors)
        /\ StoreOK(components', hypervisors)
    BY <2>1, <1>1, Saved
  <2>3. OnCourse(w, components, hypervisors)
    BY <2>1, <1>1 DEF WorkerOK, Working, Writing, Tearing
  <2>4. WorkerOK(Finishing(w), components, hypervisors)
    BY <2>3, FinishingOK
  <2> QED BY <2>1, <2>2, <2>4, <1>2, Zenon
<1>4. ASSUME NEW h \in Hypervisor, WriteHypervisor(m, h)
      PROVE  PortsInv'
  <2>1. PICK u : u = ReadHypervisor(w, h, w.mem.hypervisors[h], w.mem.files[h], w.rewritten \ {h})
    OBVIOUS
  <2>2. /\ w.pc = "hypervisors" /\ h \in Hypervisor \ w.stale
        /\ hypervisors' = [hypervisors EXCEPT ![h] = w.mem.hypervisors[h]]
        /\ components' = components
    BY <1>4, Zenon DEF WriteHypervisor, At
  <2>3. workers' = Outdated([workers EXCEPT ![m] = Updating(u)], h)
    BY <2>1, <1>1, <1>4, Zenon DEF WriteHypervisor, ReadHypervisor
  <2>4. /\ Written(h, components, hypervisors, components, hypervisors')
        /\ StoreOK(components, hypervisors')
        /\ WorkerOK(Updating(u), components, hypervisors')
    BY <2>1, <2>2, <1>1, HypervisorWritten, Zenon
  <2> QED BY <2>2, <2>3, <2>4, <1>2, Zenon
<1>5. ASSUME NEW c \in Component, WriteComponent(m, c)
      PROVE  PortsInv'
  <2>1. PICK u : u = ReadComponent(w, c, w.mem.components[c])
    OBVIOUS
  <2>2. /\ w.pc = "components" /\ c \in Component \ w.stale
        /\ components' = WithComponent(components, c, w.mem.components[c])
        /\ hypervisors' = hypervisors
    BY <1>5 DEF WriteComponent, At, WithComponent
  <2>3. workers' = Outdated([workers EXCEPT ![m] = Updating(u)], c)
    BY <2>1, <1>1, <1>5 DEF WriteComponent, ReadComponent
  <2>4. /\ Written(c, components, hypervisors, components', hypervisors)
        /\ StoreOK(components', hypervisors)
        /\ WorkerOK(Updating(u), components', hypervisors)
    BY <2>1, <2>2, <1>1, ComponentWritten
  <2> QED BY <2>2, <2>3, <2>4, <1>2, Zenon
<1> QED BY <1>3, <1>4, <1>5

\* The invariant holds when the first object is created.
LEMMA PortsInvInit ==
  ASSUME PortRules
  PROVE  Init => PortsInv
<1> SUFFICES ASSUME Init
             PROVE  PortsInv
  OBVIOUS
<1>1. components = NewMemory.components /\ hypervisors = NewMemory.hypervisors
  BY DEF Init, NewMemory
<1>2. IsComponents(components) /\ IsHypervisors(hypervisors)
  BY <1>1, NewMemoryOK DEF IsMemory
<1>3. \A c \in Component : \A name \in PortName : components[c].ports[name] = NoPort
  BY DEF Init, AbsentComponent, NoPorts
<1>4. StoreOK(components, hypervisors)
  BY <1>2, <1>3 DEF StoreOK, Recorded
<1>5. workers = [m \in Manager |-> IdleWorker]
  BY DEF Init
<1> QED BY <1>4, <1>5, IdleOK DEF PortsInv

\* Every step keeps it.
LEMMA PortsInvNext ==
  ASSUME PortRules
  PROVE  PortsInv /\ [Next]_vars => PortsInv'
<1> SUFFICES ASSUME PortsInv, [Next]_vars
             PROVE  PortsInv'
  OBVIOUS
<1>1. CASE UNCHANGED vars
  BY <1>1 DEF vars, PortsInv
<1>2. CASE Others
  BY <1>2, OthersKeepPorts
<1>3. ASSUME NEW m \in Manager, Step(m) \/ Failure(m) \/ \E c \in Component : Begin(m, c)
      PROVE  PortsInv'
  BY <1>3, StepsInMemory, StepsThatWrite DEF Step
<1> QED BY <1>1, <1>2, <1>3 DEF Next
=============================================================================
