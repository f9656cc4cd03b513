----------------------- MODULE ComponentWorkerProofs ------------------------
(***************************************************************************)
(* What a worker of the component controller knows of the API server, and  *)
(* the lemmas that it keeps knowing it, for any number of managers,        *)
(* components and hypervisors: through the steps of a pass, which change   *)
(* its memory, and through the writes to the API server, its own and those *)
(* of others.  ComponentReconcileProofs has the theorems.                  *)
(*                                                                         *)
(* The invariant is about what a worker has in memory during a pass: it    *)
(* relates the memory of the worker to what is in the API server, cs and   *)
(* hs below.  No worker needs to know of another one, as whatever the      *)
(* others write makes its copy stale and leaves alone what it relies on.   *)
(***************************************************************************)
EXTENDS ComponentReconcile, TLAPS

-----------------------------------------------------------------------------
(***************************************************************************)
(* The bookkeeping of a hypervisor.                                        *)
(***************************************************************************)

\* What HypervisorPortsProofs proves of RequestPort, FreePort and HasPort.  The
\* lemmas take it for granted, so that they do without the theorems on finite sets.
PortRules ==
    /\ Sound(NewStatus)
    /\ \A st, owner : Sound(st) =>
          /\ Sound(RequestPort(st, owner))
          /\ Sound(FreePort(st, owner))
          /\ PortOf(st, owner) \in (PortRangeLow..PortRangeHigh) \cup {NoPort}
          /\ PortOf(st, owner) # NoPort =>
                [owner |-> owner, port |-> PortOf(st, owner)] \in st.allocatedPorts

\* A request takes no port away from anybody.
LEMMA RequestPortKeeps ==
  ASSUME NEW st, NEW owner
  PROVE  st.allocatedPorts \subseteq RequestPort(st, owner).allocatedPorts
BY DEF RequestPort

\* A release takes no port away from another owner.
LEMMA FreePortKeeps ==
  ASSUME NEW st, NEW owner, NEW e \in st.allocatedPorts, e.owner # owner
  PROVE  e \in FreePort(st, owner).allocatedPorts
BY DEF FreePort, EntriesOf

-----------------------------------------------------------------------------
(***************************************************************************)
(* Objects, in the API server or in the memory of a worker.                *)
(***************************************************************************)

Port == (PortRangeLow..PortRangeHigh) \cup {NoPort}
Place == Hypervisor \cup {NoHypervisor}

ComponentField == {"phase", "hypervisor", "ports", "endpoints", "certified"}

IsComponent(r) ==
    /\ r = [f \in ComponentField |-> r[f]]
    /\ r.phase \in {"absent", "live", "deleting", "gone"}
    /\ r.hypervisor \in Place
    /\ r.ports \in [PortName -> Port]

\* A component has no other ports than those of its role.
IsComponents(cs) ==
    /\ cs = [c \in Component |-> cs[c]]
    /\ \A c \in Component :
          /\ IsComponent(cs[c])
          /\ \A name \in PortName \ OwnPorts(c) : cs[c].ports[name] = NoPort

IsHypervisors(hs) ==
    /\ hs = [h \in Hypervisor |-> hs[h]]
    /\ \A h \in Hypervisor : Sound(hs[h])

MemoryField == {"hypervisors", "files", "components"}

IsMemory(mem) ==
    /\ mem = [f \in MemoryField |-> mem[f]]
    /\ IsHypervisors(mem.hypervisors)
    /\ IsComponents(mem.components)

\* Nobody has deleted component c.
Undeleted(cs, c) == cs[c].phase \in {"absent", "live"}

\* Port `name' of component c is allocated on its hypervisor as c records it.
Allotted(cs, hs, c, name) ==
    /\ cs[c].hypervisor \in Hypervisor
    /\ Entry(c, name, cs[c].ports[name]) \in hs[cs[c].hypervisor].allocatedPorts

Recorded(cs, hs) ==
    \A c \in Component : \A name \in PortName :
       Undeleted(cs, c) /\ cs[c].ports[name] # NoPort => Allotted(cs, hs, c, name)

StoreOK(cs, hs) == IsComponents(cs) /\ IsHypervisors(hs) /\ Recorded(cs, hs)

-----------------------------------------------------------------------------
(***************************************************************************)
(* What a worker knows of the API server.                                  *)
(***************************************************************************)

\* The entries of components that are not being deleted are in `to' as in `from'.
EntriesKept(cs, from, to) ==
    \A h \in Hypervisor : \A e \in from[h].allocatedPorts :
       e.owner[1] \in Component /\ Undeleted(cs, e.owner[1]) => e \in to[h].allocatedPorts

\* What the worker read of a hypervisor is still there, and what is there the worker
\* has in memory unless it is stale.
HypervisorsSeen(w, cs, hs) ==
    /\ EntriesKept(cs, w.read.hypervisors, hs)
    /\ \A h \in Hypervisor \ w.stale : \A e \in hs[h].allocatedPorts :
          e.owner[1] \in Component /\ Undeleted(cs, e.owner[1]) =>
             e \in w.mem.hypervisors[h].allocatedPorts

\* A component in memory may be behind the one in the API server, whose deletion
\* is not undone and whose hypervisor stays; unless it is stale it is the same, but
\* for ports that were allocated in memory since.
ComponentSeen(w, cs, c) ==
    /\ Undeleted(cs, c) => Undeleted(w.mem.components, c)
    /\ cs[c].phase # "gone" /\ w.mem.components[c].hypervisor \in Hypervisor =>
          cs[c].hypervisor = w.mem.components[c].hypervisor
    /\ c \notin w.stale =>
          /\ w.mem.components[c].phase = cs[c].phase
          /\ w.mem.components[c].hypervisor = cs[c].hypervisor
          /\ Undeleted(cs, c) => \A name \in PortName :
                LET port == w.mem.components[c].ports[name]
                IN  /\ cs[c].ports[name] # NoPort => port = cs[c].ports[name]
                    /\ port # NoPort =>
                          \/ port = cs[c].ports[name]
                          \/ Allotted(w.mem.components, w.mem.hypervisors, c, name)

ComponentsSeen(w, cs) == \A c \in Component : ComponentSeen(w, cs, c)

\* A port that was recorded when the worker listed the components stays, in the API
\* server and in memory, until the component is deleted.
Remembered(w, cs) ==
    \A c \in Component : \A name \in PortName :
       w.read.components[c].ports[name] # NoPort =>
          /\ Undeleted(cs, c) => cs[c].ports[name] = w.read.components[c].ports[name]
          /\ Undeleted(w.mem.components, c) =>
                w.mem.components[c].ports[name] = w.read.components[c].ports[name]

\* The component of the pass got its ports in the PreReconcile phase.
Granted(w, cs) ==
    Undeleted(cs, w.component) =>
       \A name \in OwnPorts(w.component) : cs[w.component].ports[name] # NoPort

-----------------------------------------------------------------------------
(***************************************************************************)
(* Where a worker is in its pass.                                          *)
(***************************************************************************)

WorkerField ==
    {"pc", "phase", "component", "attempt", "cluster", "mem", "read", "stale", "todo",
     "target", "pending", "rewritten"}

Tearing == {"stop", "member", "stopEtcd", "cleanup"}
Working == {"reconcile", "own", "save"} \cup Tearing
Writing == {"hypervisors", "components"}

IsWorker(w) ==
    /\ w = [f \in WorkerField |-> w[f]]
    /\ IsMemory(w.mem) /\ IsMemory(w.read)
    /\ w.todo \subseteq Component

\* Everything is listed.
Informed(w, cs, hs) ==
    /\ IsWorker(w) /\ w.component \in Component
    /\ HypervisorsSeen(w, cs, hs) /\ ComponentsSeen(w, cs)

\* In the pass itself, after the PreReconcile phase.
OnCourse(w, cs, hs) ==
    /\ Informed(w, cs, hs)
    /\ Remembered(w, cs) /\ Granted(w, cs)
    /\ w.phase = "main"
    /\ w.component \in Listed(w.mem.components)
    /\ w.component \in Live(w.mem.components) =>
          HasPorts(w.read, w.component, OwnPorts(w.component))

\* The ports a worker is about to look up are of scheduled components.
PendingOK(w) ==
    \A l \in w.pending :
       /\ l[1] \in Scheduled(w.mem.components) /\ l[2] \in OwnPorts(l[1])

\* What the steps of a pass rely on.
Positioned(w) ==
    /\ PendingOK(w)
    /\ w.pc \in {"reconcile", "own"} =>
          /\ w.target \in Component
          /\ OthersReady(w, w.target) => w.target \in Scheduled(w.mem.components)
    /\ w.pc = "own" => w.target = w.component /\ w.component \in Live(w.mem.components)
    /\ w.pc \in Tearing =>
          w.component \in Scheduled(w.mem.components) \ Live(w.mem.components)
    /\ w.pc \in {"member", "stopEtcd"} => w.component \in ControlPlane

\* The worker is about to write what UpdateResources finds dirty.
ReadyToWrite(w, cs, hs) ==
    /\ Informed(w, cs, hs)
    /\ w.pending = {}
    /\ \/ w.phase = "main" /\ Granted(w, cs)
       \/ /\ w.phase = "pre" /\ Remembered(w, cs)
          /\ HasPorts(w.mem, w.component, OwnPorts(w.component))

WorkerOK(w, cs, hs) ==
    \/ w.pc \in {"idle", "panicked"} /\ IsWorker(w) /\ w.pending = {}
    \/ /\ w.pc \in {"load", "list"} /\ IsWorker(w) /\ w.pending = {}
       /\ w.component \in Component
       /\ w.phase = "pre" \/ (w.phase = "main" /\ Granted(w, cs))
       /\ w.pc = "list" => HypervisorsSeen(w, cs, hs)
    \/ w.pc \in Working /\ OnCourse(w, cs, hs) /\ Positioned(w)
    \/ /\ w.pc \in Writing /\ ReadyToWrite(w, cs, hs)
       /\ w.pc = "components" => w.mem.hypervisors = w.read.hypervisors

PortsInv ==
    /\ StoreOK(components, hypervisors)
    /\ workers = [m \in Manager |-> workers[m]]
    /\ \A m \in Manager : WorkerOK(workers[m], components, hypervisors)

-----------------------------------------------------------------------------
(***************************************************************************)
(* What requests and releases do to the memory of a worker.                *)
(***************************************************************************)

\* Memory `new' follows `mem' in a pass: only components that are being deleted
\* lose ports, and those that are new are allocated.
Grows(mem, new) ==
    /\ IsMemory(new)
    /\ \A h \in Hypervisor : \A e \in mem.hypervisors[h].allocatedPorts :
          e.owner[1] \in Component /\ Undeleted(mem.components, e.owner[1]) =>
             e \in new.hypervisors[h].allocatedPorts
    /\ \A c \in Component :
          /\ new.components[c].phase = mem.components[c].phase
          /\ new.components[c].hypervisor = mem.components[c].hypervisor
          /\ Undeleted(mem.components, c) => \A name \in PortName :
                LET port == new.components[c].ports[name]
                IN  /\ mem.components[c].ports[name] # NoPort =>
                          port = mem.components[c].ports[name]
                    /\ port # mem.components[c].ports[name] =>
                          Allotted(new.components, new.hypervisors, c, name)

\* The ports of a role are ports.
LEMMA OwnPortsAreNames == \A c : OwnPorts(c) \subseteq PortName
BY DEF OwnPorts, PortName

\* A scheduled component has a hypervisor.
LEMMA ScheduledPlace ==
  ASSUME NEW cs, IsComponents(cs), NEW c \in Scheduled(cs)
  PROVE  c \in Component /\ cs[c].hypervisor \in Hypervisor
BY DEF Scheduled, IsComponents, IsComponent, Place

\* Components with another one.
WithComponent(cs, c, r) == [cs EXCEPT ![c] = r]

\* Replacing one component leaves the others alone.
LEMMA PutComponent ==
  ASSUME NEW cs, IsComponents(cs), NEW c \in Component, NEW r, IsComponent(r),
         \A name \in PortName \ OwnPorts(c) : r.ports[name] = NoPort,
         NEW new, new = WithComponent(cs, c, r)
  PROVE  /\ IsComponents(new)
         /\ new[c] = r
         /\ \A x \in Component \ {c} : new[x] = cs[x]
<1>1. cs = [x \in Component |-> cs[x]]
  BY DEF IsComponents
<1>2. /\ new = [x \in Component |-> new[x]]
      /\ new[c] = r
      /\ \A x \in Component \ {c} : new[x] = cs[x]
  BY <1>1 DEF WithComponent
<1>3. ASSUME NEW x \in Component
      PROVE  /\ IsComponent(new[x])
             /\ \A name \in PortName \ OwnPorts(x) : new[x].ports[name] = NoPort
  BY <1>2 DEF IsComponents
<1> QED BY <1>2, <1>3 DEF IsComponents

\* Memory with another status and another port of a component.
Put(mem, h, st, c, name, port) ==
    [mem EXCEPT !.hypervisors[h] = st, !.components[c].ports[name] = port]

\* Replacing one status and one port of a component leaves the rest alone.
LEMMA PutPort ==
  ASSUME NEW mem, IsMemory(mem), NEW c \in Component, NEW name \in OwnPorts(c),
         NEW h \in Hypervisor, NEW st, Sound(st), NEW port \in Port,
         NEW new, new = Put(mem, h, st, c, name, port)
  PROVE  /\ IsMemory(new)
         /\ new.hypervisors[h] = st
         /\ \A g \in Hypervisor \ {h} : new.hypervisors[g] = mem.hypervisors[g]
         /\ \A x \in Component :
               /\ new.components[x].phase = mem.components[x].phase
               /\ new.components[x].hypervisor = mem.components[x].hypervisor
               /\ \A n \in PortName :
                     x # c \/ n # name =>
                        new.components[x].ports[n] = mem.components[x].ports[n]
         /\ new.components[c].ports[name] = port
<1>1. PICK old : old = mem.components[c]
  OBVIOUS
<1>2. PICK r : r = [old EXCEPT !.ports[name] = port]
  BY Zenon
<1>3. IsComponent(old) /\ name \in PortName
  BY <1>1, OwnPortsAreNames DEF IsMemory, IsComponents
<1>4. /\ r = [f \in ComponentField |-> r[f]]
      /\ r.phase = old.phase /\ r.hypervisor = old.hypervisor
      /\ r.ports = [old.ports EXCEPT ![name] = port]
  BY <1>2, <1>3 DEF IsComponent, ComponentField
<1>5. IsComponent(r) /\ r.ports[name] = port
      /\ \A n \in PortName : n # name => r.ports[n] = old.ports[n]
  BY <1>3, <1>4 DEF IsComponent
<1>6. /\ new = [f \in MemoryField |-> new[f]]
      /\ new.hypervisors = [mem.hypervisors EXCEPT ![h] = st]
      /\ new.components = [mem.components EXCEPT ![c] = r]
  BY <1>1, <1>2, Zenon DEF IsMemory, MemoryField, Put
<1>7. /\ mem.hypervisors = [g \in Hypervisor |-> mem.hypervisors[g]]
      /\ mem.components = [x \in Component |-> mem.components[x]]
  BY DEF IsMemory, IsHypervisors, IsComponents
<1>8. /\ new.hypervisors = [g \in Hypervisor |-> new.hypervisors[g]]
      /\ new.components = [x \in Component |-> new.components[x]]
      /\ new.hypervisors[h] = st
      /\ \A g \in Hypervisor \ {h} : new.hypervisors[g] = mem.hypervisors[g]
      /\ new.components[c] = r
      /\ \A x \in Component \ {c} : new.components[x] = mem.components[x]
  BY <1>6, <1>7
<1>9. IsHypervisors(new.hypervisors)
  BY <1>8 DEF IsHypervisors, IsMemory
<1>10. IsComponents(new.components)
  <2>1. \A x \in Component : IsComponent(new.components[x])
    BY <1>5, <1>8 DEF IsMemory, IsComponents
  <2>2. \A x \in Component : \A n \in PortName \ OwnPorts(x) :
           new.components[x].ports[n] = NoPort
    BY <1>1, <1>5, <1>8 DEF IsMemory, IsComponents
  <2> QED BY <2>1, <2>2, <1>8 DEF IsComponents
<1>11. IsMemory(new)
  BY <1>6, <1>9, <1>10 DEF IsMemory
<1>12. ASSUME NEW x \in Component
       PROVE  /\ new.components[x].phase = mem.components[x].phase
              /\ new.components[x].hypervisor = mem.components[x].hypervisor
              /\ \A n \in PortName :
                    x # c \/ n # name =>
                       new.components[x].ports[n] = mem.components[x].ports[n]
  <2>1. CASE x = c
    BY <2>1, <1>1, <1>4, <1>5, <1>8
  <2>2. CASE x # c
    BY <2>2, <1>8
  <2> QED BY <2>1, <2>2
<1>13. new.components[c].ports[name] = port
  BY <1>5, <1>8
<1> QED BY <1>8, <1>11, <1>12, <1>13

\* Memory that stays as it is grows.
LEMMA GrowsReflexive ==
  ASSUME NEW mem, IsMemory(mem)
  PROVE  Grows(mem, mem)
BY DEF Grows

\* What grows twice grows.
LEMMA GrowsTransitive ==
  ASSUME NEW a, NEW b, NEW c, Grows(a, b), Grows(b, c)
  PROVE  Grows(a, c)
<1>1. IsMemory(c)
  BY DEF Grows
<1>2. \A x \in Component :
         /\ c.components[x].phase = a.components[x].phase
         /\ c.components[x].hypervisor = a.components[x].hypervisor
         /\ b.components[x].hypervisor = a.components[x].hypervisor
         /\ Undeleted(a.components, x) => Undeleted(b.components, x)
  BY DEF Grows, Undeleted
<1>3. \A h \in Hypervisor : \A e \in a.hypervisors[h].allocatedPorts :
         e.owner[1] \in Component /\ Undeleted(a.components, e.owner[1]) =>
            e \in c.hypervisors[h].allocatedPorts
  BY <1>2 DEF Grows
<1>4. ASSUME NEW x \in Component, Undeleted(a.components, x), NEW name \in PortName
      PROVE  /\ a.components[x].ports[name] # NoPort =>
                   c.components[x].ports[name] = a.components[x].ports[name]
             /\ c.components[x].ports[name] # a.components[x].ports[name] =>
                   Allotted(c.components, c.hypervisors, x, name)
  <2>1. Undeleted(b.components, x)
    BY <1>2, <1>4
  <2>2. /\ a.components[x].ports[name] # NoPort =>
              b.components[x].ports[name] = a.components[x].ports[name]
        /\ b.components[x].ports[name] # NoPort =>
              c.components[x].ports[name] = b.components[x].ports[name]
    BY <2>1, <1>4 DEF Grows
  <2>3. CASE c.components[x].ports[name] # b.components[x].ports[name]
    BY <2>1, <2>2, <2>3, <1>4 DEF Grows
  <2>4. CASE /\ c.components[x].ports[name] = b.components[x].ports[name]
             /\ b.components[x].ports[name] # a.components[x].ports[name]
    <3>1. Allotted(b.components, b.hypervisors, x, name)
      BY <2>4, <1>4 DEF Grows
    <3>2. PICK e : e = Entry(x, name, b.components[x].ports[name])
      OBVIOUS
    <3>3. e.owner[1] = x
      BY <3>2 DEF Entry
    <3>4. PICK h : h = b.components[x].hypervisor
      OBVIOUS
    <3>5. h \in Hypervisor /\ e \in b.hypervisors[h].allocatedPorts
      BY <3>1, <3>2, <3>4 DEF Allotted
    <3>6. e \in c.hypervisors[h].allocatedPorts
      BY <2>1, <3>3, <3>5 DEF Grows
    <3>7. c.components[x].hypervisor = h
      BY <3>4, <1>2
    <3> QED BY <2>2, <2>4, <3>2, <3>5, <3>6, <3>7 DEF Allotted
  <2> QED BY <2>2, <2>3, <2>4
<1> QED BY <1>1, <1>2, <1>3, <1>4 DEF Grows

\* component.RequestPort on a scheduled component: its new port, if it gets one, is
\* allocated to it, and nobody loses one.
LEMMA RequestGrows ==
  ASSUME PortRules, NEW mem, IsMemory(mem), NEW c \in Scheduled(mem.components),
         NEW name \in OwnPorts(c)
  PROVE  Grows(mem, RequestComponentPort(mem, c, name))
<1>1. CASE mem.components[c].ports[name] # NoPort
  BY <1>1, GrowsReflexive DEF RequestComponentPort
<1>2. CASE mem.components[c].ports[name] = NoPort
  <2>1. PICK h : h = mem.components[c].hypervisor
    OBVIOUS
  <2>2. PICK st : st = RequestPort(mem.hypervisors[h], <<c, name>>)
    OBVIOUS
  <2>3. PICK port : port = PortOf(st, <<c, name>>)
    OBVIOUS
  <2>4. PICK new : new = Put(mem, h, st, c, name, port)
    OBVIOUS
  <2>5. RequestComponentPort(mem, c, name) = new
    BY <1>2, <2>1, <2>2, <2>3, <2>4 DEF RequestComponentPort, Put
  <2>6. c \in Component /\ h \in Hypervisor /\ name \in PortName
    BY <2>1, ScheduledPlace, OwnPortsAreNames DEF IsMemory
  <2>7. Sound(mem.hypervisors[h])
    BY <2>6 DEF IsMemory, IsHypervisors
  <2>8. Sound(st)
    BY <2>2, <2>7, Zenon DEF PortRules
  <2>9. /\ port \in Port
        /\ port # NoPort => Entry(c, name, port) \in st.allocatedPorts
    BY <2>3, <2>8 DEF PortRules, Port, Entry
  <2>10. mem.hypervisors[h].allocatedPorts \subseteq st.allocatedPorts
    BY <2>2, RequestPortKeeps
  <2>11. /\ IsMemory(new)
         /\ new.hypervisors[h] = st
         /\ \A g \in Hypervisor \ {h} : new.hypervisors[g] = mem.hypervisors[g]
         /\ \A x \in Component :
               /\ new.components[x].phase = mem.components[x].phase
               /\ new.components[x].hypervisor = mem.components[x].hypervisor
               /\ \A n \in PortName :
                     x # c \/ n # name =>
                        new.components[x].ports[n] = mem.components[x].ports[n]
         /\ new.components[c].ports[name] = port
    BY <2>4, <2>6, <2>8, <2>9, PutPort
  <2>12. \A g \in Hypervisor : \A e \in mem.hypervisors[g].allocatedPorts :
            e \in new.hypervisors[g].allocatedPorts
    BY <2>10, <2>11
  <2>13. ASSUME NEW x \in Component, NEW n \in PortName
         PROVE  /\ mem.components[x].ports[n] # NoPort =>
                      new.components[x].ports[n] = mem.components[x].ports[n]
                /\ new.components[x].ports[n] # mem.components[x].ports[n] =>
                      Allotted(new.components, new.hypervisors, x, n)
    BY <1>2, <2>1, <2>6, <2>9, <2>11 DEF Allotted
  <2> QED BY <2>5, <2>11, <2>12, <2>13 DEF Grows
<1> QED BY <1>1, <1>2

\* component.FreePort on a component that is being deleted takes no other
\* component's port.
LEMMA FreeGrows ==
  ASSUME PortRules, NEW mem, IsMemory(mem), NEW c \in Scheduled(mem.components),
         ~ Undeleted(mem.components, c), NEW name \in OwnPorts(c)
  PROVE  Grows(mem, FreeComponentPort(mem, c, name))
<1>1. CASE mem.components[c].ports[name] = NoPort
  BY <1>1, GrowsReflexive DEF FreeComponentPort
<1>2. CASE mem.components[c].ports[name] # NoPort
  <2>1. PICK h : h = mem.components[c].hypervisor
    OBVIOUS
  <2>2. PICK st : st = FreePort(mem.hypervisors[h], <<c, name>>)
    OBVIOUS
  <2>3. NoPort \in Port
    BY DEF Port
  <2>4. PICK new : new = Put(mem, h, st, c, name, NoPort)
    OBVIOUS
  <2>5. FreeComponentPort(mem, c, name) = new
    BY <1>2, <2>1, <2>2, <2>4 DEF FreeComponentPort, Put
  <2>6. c \in Component /\ h \in Hypervisor /\ name \in PortName
    BY <2>1, ScheduledPlace, OwnPortsAreNames DEF IsMemory
  <2>7. Sound(mem.hypervisors[h])
    BY <2>6 DEF IsMemory, IsHypervisors
  <2>8. Sound(st)
    BY <2>2, <2>7, Zenon DEF PortRules
  <2>9. \A e \in mem.hypervisors[h].allocatedPorts :
           e.owner[1] # c => e \in st.allocatedPorts
    <3> SUFFICES ASSUME NEW e \in mem.hypervisors[h].allocatedPorts, e.owner[1] # c
                 PROVE  e \in st.allocatedPorts
      OBVIOUS
    <3>1. e.owner # <<c, name>>
      OBVIOUS
    <3> QED BY <3>1, <2>2, FreePortKeeps
  <2>10. /\ IsMemory(new)
         /\ new.hypervisors[h] = st
         /\ \A g \in Hypervisor \ {h} : new.hypervisors[g] = mem.hypervisors[g]
         /\ \A x \in Component :
               /\ new.components[x].phase = mem.components[x].phase
               /\ new.components[x].hypervisor = mem.components[x].hypervisor
               /\ \A n \in PortName :
                     x # c \/ n # name =>
                        new.components[x].ports[n] = mem.components[x].ports[n]
    BY <2>3, <2>4, <2>6, <2>8, PutPort
  <2>11. \A g \in Hypervisor : \A e \in mem.hypervisors[g].allocatedPorts :
            e.owner[1] # c => e \in new.hypervisors[g].allocatedPorts
    BY <2>9, <2>10
  <2> QED BY <2>5, <2>10, <2>11 DEF Grows
<1> QED BY <1>1, <1>2

\* A component in memory stays scheduled and is deleted by nobody.
LEMMA GrowsKeepsStates ==
  ASSUME NEW mem, NEW new, Grows(mem, new)
  PROVE  /\ Scheduled(new.components) = Scheduled(mem.components)
         /\ Live(new.components) = Live(mem.components)
         /\ Listed(new.components) = Listed(mem.components)
         /\ \A c \in Component : Undeleted(new.components, c) = Undeleted(mem.components, c)
BY DEF Grows, Scheduled, Live, Listed, Undeleted

\* PreReconcile on a scheduled component.
LEMMA PreReconcileGrows ==
  ASSUME PortRules, NEW mem, IsMemory(mem), NEW c \in Scheduled(mem.components)
  PROVE  Grows(mem, PreReconcile(mem, c))
<1>1. PICK a : a = RequestComponentPort(mem, c, "apiserver")
  OBVIOUS
<1>2. Grows(mem, a) /\ IsMemory(a) /\ c \in Scheduled(a.components)
  <2>1. "apiserver" \in OwnPorts(c)
    BY DEF OwnPorts
  <2> QED BY <1>1, <2>1, RequestGrows, GrowsKeepsStates DEF Grows
<1>3. CASE c \in ControlPlane
  <2>1. "etcd-peer" \in OwnPorts(c) /\ "etcd-client" \in OwnPorts(c)
    BY <1>3 DEF OwnPorts
  <2>2. PICK b : b = RequestComponentPort(a, c, "etcd-peer")
    OBVIOUS
  <2>3. Grows(a, b)
    BY <1>2, <2>1, <2>2, RequestGrows
  <2>4. IsMemory(b) /\ c \in Scheduled(b.components)
    BY <1>2, <2>3, GrowsKeepsStates, Zenon DEF Grows
  <2>5. Grows(b, RequestComponentPort(b, c, "etcd-client"))
    BY <2>1, <2>4, RequestGrows
  <2>6. PreReconcile(mem, c) = RequestComponentPort(b, c, "etcd-client")
    BY <1>1, <1>3, <2>2 DEF PreReconcile
  <2> QED BY <1>2, <2>3, <2>5, <2>6, GrowsTransitive
<1>4. CASE c \notin ControlPlane /\ VPNEnabled
  <2>1. "wireguard" \in OwnPorts(c)
    BY <1>4 DEF OwnPorts
  <2>2. Grows(a, RequestComponentPort(a, c, "wireguard"))
    BY <1>2, <2>1, RequestGrows
  <2>3. PreReconcile(mem, c) = RequestComponentPort(a, c, "wireguard")
    BY <1>1, <1>4 DEF PreReconcile
  <2> QED BY <1>2, <2>2, <2>3, GrowsTransitive
<1>5. CASE c \notin ControlPlane /\ ~ VPNEnabled
  BY <1>1, <1>2, <1>5 DEF PreReconcile
<1> QED BY <1>3, <1>4, <1>5

-----------------------------------------------------------------------------
(***************************************************************************)
(* The steps of a worker that leave the API server alone.                  *)
(***************************************************************************)

\* v is worker w later in the same pass.
Follows(v, w) ==
    /\ IsWorker(v)
    /\ v.phase = w.phase /\ v.component = w.component
    /\ v.read = w.read /\ v.stale = w.stale
    /\ Grows(w.mem, v.mem)

\* It is at one of pcs and has no more to do than it had.
Onward(v, w, pcs) == Follows(v, w) /\ v.todo \subseteq w.todo /\ v.pc \in pcs

\* Following is a matter of several steps.
LEMMA FollowsTransitive ==
  ASSUME NEW u, NEW v, NEW w, Follows(v, w), Follows(u, v)
  PROVE  Follows(u, w)
<1>1. Grows(w.mem, v.mem) /\ Grows(v.mem, u.mem)
  BY DEF Follows
<1>2. Grows(w.mem, u.mem)
  BY <1>1, GrowsTransitive
<1> QED BY <1>2 DEF Follows

\* What a worker knows of the API server holds until it writes.
LEMMA FollowsInformed ==
  ASSUME NEW cs, NEW hs, NEW w, NEW v, Informed(w, cs, hs), Follows(v, w)
  PROVE  Informed(v, cs, hs)
<1>1. IsWorker(v) /\ v.component \in Component
  BY DEF Follows, Informed
<1>2. Grows(w.mem, v.mem) /\ v.read = w.read /\ v.stale = w.stale
  BY DEF Follows
<1>3. \A c \in Component : Undeleted(cs, c) => Undeleted(w.mem.components, c)
  BY DEF Informed, ComponentsSeen, ComponentSeen
<1>4. HypervisorsSeen(v, cs, hs)
  <2>1. EntriesKept(cs, v.read.hypervisors, hs)
    BY <1>2 DEF Informed, HypervisorsSeen
  <2>2. ASSUME NEW h \in Hypervisor \ v.stale, NEW e \in hs[h].allocatedPorts,
               e.owner[1] \in Component, Undeleted(cs, e.owner[1])
        PROVE  e \in v.mem.hypervisors[h].allocatedPorts
    <3>1. e \in w.mem.hypervisors[h].allocatedPorts
      BY <2>2, <1>2, Zenon DEF Informed, HypervisorsSeen
    <3> QED BY <2>2, <3>1, <1>2, <1>3 DEF Grows
  <2> QED BY <2>1, <2>2 DEF HypervisorsSeen
<1>5. ComponentsSeen(v, cs)
  <2> SUFFICES ASSUME NEW c \in Component
               PROVE  /\ Undeleted(cs, c) => Undeleted(v.mem.components, c)
                      /\ cs[c].phase # "gone" /\ v.mem.components[c].hypervisor \in Hypervisor =>
                            cs[c].hypervisor = v.mem.components[c].hypervisor
                      /\ c \notin v.stale =>
                            /\ v.mem.components[c].phase = cs[c].phase
                            /\ v.mem.components[c].hypervisor = cs[c].hypervisor
                            /\ Undeleted(cs, c) => \A name \in PortName :
                                  LET port == v.mem.components[c].ports[name]
                                  IN  /\ cs[c].ports[name] # NoPort => port = cs[c].ports[name]
                                      /\ port # NoPort =>
                                            \/ port = cs[c].ports[name]
                                            \/ Allotted(v.mem.components, v.mem.hypervisors, c, name)
    BY DEF ComponentsSeen, ComponentSeen
  <2>1. /\ v.mem.components[c].phase = w.mem.components[c].phase
        /\ v.mem.components[c].hypervisor = w.mem.components[c].hypervisor
    BY <1>2 DEF Grows
  <2>2. /\ Undeleted(cs, c) => Undeleted(w.mem.components, c)
        /\ cs[c].phase # "gone" /\ w.mem.components[c].hypervisor \in Hypervisor =>
              cs[c].hypervisor = w.mem.components[c].hypervisor
        /\ c \notin w.stale => /\ w.mem.components[c].phase = cs[c].phase
                               /\ w.mem.components[c].hypervisor = cs[c].hypervisor
    BY DEF Informed, ComponentsSeen, ComponentSeen
  <2>3. ASSUME c \notin v.stale, Undeleted(cs, c), NEW name \in PortName
        PROVE  /\ cs[c].ports[name] # NoPort =>
                     v.mem.components[c].ports[name] = cs[c].ports[name]
               /\ v.mem.components[c].ports[name] # NoPort =>
                     \/ v.mem.components[c].ports[name] = cs[c].ports[name]
                     \/ Allotted(v.mem.components, v.mem.hypervisors, c, name)
    <3>1. /\ cs[c].ports[name] # NoPort =>
                w.mem.components[c].ports[name] = cs[c].ports[name]
          /\ w.mem.components[c].ports[name] # NoPort =>
                \/ w.mem.components[c].ports[name] = cs[c].ports[name]
                \/ Allotted(w.mem.components, w.mem.hypervisors, c, name)
      BY <2>3, <1>2 DEF Informed, ComponentsSeen, ComponentSeen
    <3>2. Undeleted(w.mem.components, c)
      BY <2>2, <2>3
    <3>3. /\ w.mem.components[c].ports[name] # NoPort =>
                v.mem.components[c].ports[name] = w.mem.components[c].ports[name]
          /\ v.mem.components[c].ports[name] # w.mem.components[c].ports[name] =>
                Allotted(v.mem.components, v.mem.hypervisors, c, name)
      BY <3>2, <1>2 DEF Grows
    <3>4. ASSUME v.mem.components[c].ports[name] = w.mem.components[c].ports[name],
                 Allotted(w.mem.components, w.mem.hypervisors, c, name)
          PROVE  Allotted(v.mem.components, v.mem.hypervisors, c, name)
      <4>1. PICK e : e = Entry(c, name, w.mem.components[c].ports[name])
        OBVIOUS
      <4>2. PICK h : h = w.mem.components[c].hypervisor
        OBVIOUS
      <4>3. e.owner[1] = c /\ h \in Hypervisor /\ e \in w.mem.hypervisors[h].allocatedPorts
        BY <3>4, <4>1, <4>2 DEF Entry, Allotted
      <4>4. e \in v.mem.hypervisors[h].allocatedPorts
        BY <4>3, <3>2, <1>2 DEF Grows
      <4> QED BY <3>4, <4>1, <4>2, <4>3, <4>4, <2>1, Zenon DEF Allotted
    <3> QED BY <3>1, <3>3, <3>4
  <2>4. Undeleted(v.mem.components, c) = Undeleted(w.mem.components, c)
    BY <2>1 DEF Undeleted
  <2> QED BY <2>1, <2>2, <2>3, <2>4, <1>2
<1> QED BY <1>1, <1>4, <1>5 DEF Informed

\* The same for a worker in the pass itself.
LEMMA FollowsOnCourse ==
  ASSUME NEW cs, NEW hs, NEW w, NEW v, OnCourse(w, cs, hs), Follows(v, w)
  PROVE  OnCourse(v, cs, hs)
<1>1. Informed(v, cs, hs)
  BY FollowsInformed DEF OnCourse
<1>2. /\ v.read = w.read /\ v.component = w.component /\ v.phase = w.phase
      /\ Live(v.mem.components) = Live(w.mem.components)
      /\ Listed(v.mem.components) = Listed(w.mem.components)
      /\ \A c \in Component : Undeleted(v.mem.components, c) = Undeleted(w.mem.components, c)
  BY GrowsKeepsStates DEF Follows
<1>3. \A c \in Component : \A name \in PortName :
         Undeleted(w.mem.components, c) /\ w.mem.components[c].ports[name] # NoPort =>
            v.mem.components[c].ports[name] = w.mem.components[c].ports[name]
  BY DEF Follows, Grows
<1>4. Remembered(v, cs)
  BY <1>2, <1>3 DEF OnCourse, Remembered
<1>5. Granted(v, cs)
  BY <1>2 DEF OnCourse, Granted
<1> QED BY <1>1, <1>2, <1>4, <1>5 DEF OnCourse

\* What the position of a worker is about does not change either.
LEMMA FollowsPositioned ==
  ASSUME NEW w, NEW v, Positioned(w), Follows(v, w),
         v.pc = w.pc, v.target = w.target, v.pending \subseteq w.pending
  PROVE  Positioned(v)
<1>1. /\ v.component = w.component
      /\ Scheduled(v.mem.components) = Scheduled(w.mem.components)
      /\ Live(v.mem.components) = Live(w.mem.components)
      /\ Listed(v.mem.components) = Listed(w.mem.components)
  BY GrowsKeepsStates DEF Follows
<1>2. \A c : OthersReady(v, c) = OthersReady(w, c)
  BY <1>1 DEF OthersReady
<1>3. PendingOK(v)
  BY <1>1 DEF Positioned, PendingOK
<1> QED BY <1>1, <1>2, <1>3 DEF Positioned

\* A new object, in the API server or in memory.
LEMMA NewMemoryOK ==
  ASSUME PortRules
  PROVE  IsMemory(NewMemory)
<1>1. NoPorts \in [PortName -> Port] /\ \A name \in PortName : NoPorts[name] = NoPort
  BY DEF NoPorts, Port
<1>2. IsComponent(AbsentComponent) /\ AbsentComponent.ports = NoPorts
  BY <1>1, Zenon DEF IsComponent, AbsentComponent, ComponentField, Place
<1>3. IsComponents([c \in Component |-> AbsentComponent])
  BY <1>1, <1>2 DEF IsComponents
<1>4. IsHypervisors([h \in Hypervisor |-> NewStatus])
  BY DEF PortRules, IsHypervisors
<1>5. /\ NewMemory.components = [c \in Component |-> AbsentComponent]
      /\ NewMemory.hypervisors = [h \in Hypervisor |-> NewStatus]
      /\ NewMemory = [f \in MemoryField |-> NewMemory[f]]
  BY DEF NewMemory, MemoryField
<1> QED BY <1>3, <1>4, <1>5 DEF IsMemory

\* A worker that does nothing, and one whose process panicked.
LEMMA IdleOK ==
  ASSUME PortRules, NEW cs, NEW hs
  PROVE  /\ IsWorker(IdleWorker)
         /\ WorkerOK(IdleWorker, cs, hs)
         /\ WorkerOK([IdleWorker EXCEPT !.pc = "panicked"], cs, hs)
<1>1. IsWorker(IdleWorker) /\ IdleWorker.pending = {} /\ IdleWorker.pc = "idle"
  BY NewMemoryOK DEF IsWorker, IdleWorker, WorkerField
<1>2. PICK v : v = [IdleWorker EXCEPT !.pc = "panicked"]
  BY Zenon
<1>3. IsWorker(v) /\ v.pending = {} /\ v.pc = "panicked"
  BY <1>1, <1>2 DEF IsWorker, WorkerField
<1> QED BY <1>1, <1>2, <1>3, Zenon DEF WorkerOK

\* A worker that is about to list the objects.
LEMMA LoadingOK ==
  ASSUME PortRules, NEW cs, NEW hs, NEW w, w.component \in Component, NEW phase, NEW attempt,
         phase = "pre" \/ (phase = "main" /\ Granted(w, cs))
  PROVE  WorkerOK(Loading(w, phase, attempt), cs, hs)
<1>1. PICK v : v = Loading(w, phase, attempt)
  OBVIOUS
<1>2. /\ v.pc = "load" /\ v.phase = phase /\ v.component = w.component
      /\ v.pending = {} /\ v.mem = NewMemory /\ v.read = NewMemory /\ v.todo = {}
      /\ v = [f \in WorkerField |-> v[f]]
  BY <1>1, Zenon DEF Loading, IdleWorker, WorkerField
<1>3. IsWorker(v)
  BY <1>2, NewMemoryOK DEF IsWorker
<1>4. phase = "main" => Granted(v, cs)
  BY <1>2 DEF Granted
<1> QED BY <1>1, <1>2, <1>3, <1>4 DEF WorkerOK

\* The end of a pass: it writes, lists everything anew or is over.
LEMMA UpdatingEnds ==
  ASSUME NEW w, IsWorker(w)
  PROVE  Updating(w).pc \notin Working
<1>1. \A pc : [w EXCEPT !.pc = pc].pc = pc
  BY DEF IsWorker, WorkerField
<1>2. Loading(w, "main", 0).pc = "load" /\ IdleWorker.pc = "idle"
  BY DEF Loading, IdleWorker
<1> QED BY <1>1, <1>2 DEF Updating, Working, Tearing

\* UpdateResources: it goes on to the components when the hypervisors are written,
\* and from the PreReconcile phase to the next when everything is.
LEMMA UpdatingOK ==
  ASSUME PortRules, NEW cs, NEW hs, NEW w, ReadyToWrite(w, cs, hs)
  PROVE  WorkerOK(Updating(w), cs, hs)
<1>0. IsWorker(w) /\ IsMemory(w.mem) /\ IsMemory(w.read) /\ w.component \in Component
  BY DEF ReadyToWrite, Informed, IsWorker
<1>1. ASSUME NEW pc \in Writing, pc = "components" => w.mem.hypervisors = w.read.hypervisors
      PROVE  WorkerOK([w EXCEPT !.pc = pc], cs, hs)
  <2>1. PICK v : v = [w EXCEPT !.pc = pc]
    BY Zenon
  <2>2. /\ v.pc = pc /\ v.mem = w.mem /\ v.read = w.read /\ v.stale = w.stale
        /\ v.component = w.component /\ v.phase = w.phase /\ v.pending = w.pending
        /\ v.todo = w.todo /\ v = [f \in WorkerField |-> v[f]]
    BY <2>1, <1>0 DEF IsWorker, WorkerField
  <2>3. IsWorker(v)
    BY <2>2, <1>0 DEF IsWorker
  <2>4. Follows(v, w)
    BY <2>2, <2>3, <1>0, GrowsReflexive DEF Follows
  <2>5. Informed(v, cs, hs)
    BY <2>4, FollowsInformed DEF ReadyToWrite
  <2>6. /\ Granted(w, cs) => Granted(v, cs)
        /\ Remembered(w, cs) => Remembered(v, cs)
        /\ HasPorts(v.mem, v.component, OwnPorts(v.component))
              <=> HasPorts(w.mem, w.component, OwnPorts(w.component))
    BY <2>2 DEF Granted, Remembered
  <2>7. ReadyToWrite(v, cs, hs)
    BY <2>2, <2>5, <2>6 DEF ReadyToWrite
  <2> QED BY <2>1, <2>2, <2>7, <1>1 DEF WorkerOK
<1>2. CASE DirtyHypervisors(w) # {}
  BY <1>1, <1>2 DEF Updating, Writing
<1>3. CASE DirtyHypervisors(w) = {} /\ DirtyComponents(w) # {}
  <2>1. \A h \in Hypervisor : w.mem.hypervisors[h] = w.read.hypervisors[h]
    BY <1>3 DEF DirtyHypervisors
  <2>2. w.mem.hypervisors = w.read.hypervisors
    BY <2>1, <1>0 DEF IsMemory, IsHypervisors
  <2> QED BY <2>2, <1>1, <1>3 DEF Updating, Writing
<1>4. CASE DirtyHypervisors(w) = {} /\ DirtyComponents(w) = {} /\ w.phase = "pre"
  <2>1. w.mem.components[w.component] = w.read.components[w.component]
    BY <1>0, <1>4 DEF DirtyComponents
  <2>2. Remembered(w, cs) /\ HasPorts(w.mem, w.component, OwnPorts(w.component))
    BY <1>4 DEF ReadyToWrite
  <2>3. \A name \in OwnPorts(w.component) : w.read.components[w.component].ports[name] # NoPort
    BY <2>1, <2>2 DEF HasPorts
  <2>4. Granted(w, cs)
    BY <2>2, <2>3, <1>0, OwnPortsAreNames DEF Granted, Remembered
  <2>5. WorkerOK(Loading(w, "main", 0), cs, hs)
    BY <2>4, <1>0, LoadingOK
  <2> QED BY <2>5, <1>4 DEF Updating
<1>5. CASE DirtyHypervisors(w) = {} /\ DirtyComponents(w) = {} /\ w.phase # "pre"
  BY <1>5, IdleOK DEF Updating
<1> QED BY <1>2, <1>3, <1>4, <1>5

\* UpdateResources fails: the PreReconcile phase starts anew, or the pass is over.
LEMMA UpdateFailedOK ==
  ASSUME PortRules, NEW cs, NEW hs, NEW w, w.component \in Component, NEW conflict
  PROVE  WorkerOK(UpdateFailed(w, conflict), cs, hs)
<1>1. WorkerOK(Loading(w, "pre", w.attempt + 1), cs, hs)
  BY LoadingOK
<1> QED BY <1>1, IdleOK DEF UpdateFailed

\* The pass ends with UpdateResources.  What was read of the component itself is
\* forgotten (RefreshCachedSpecs), but that of the hypervisors is not.
LEMMA FinishingOK ==
  ASSUME PortRules, NEW cs, NEW hs, NEW w, OnCourse(w, cs, hs)
  PROVE  WorkerOK(Finishing(w), cs, hs) /\ Finishing(w).pc \notin Working
<1>1. PICK v : v = [w EXCEPT !.read.components[w.component] = w.mem.components[w.component],
                             !.todo = {}, !.target = NoComponent, !.pending = {}]
  OBVIOUS
<1>2. PICK c : c = w.component
  OBVIOUS
<1>3. PICK read : read = [w.read EXCEPT !.components[c] = w.mem.components[c]]
  BY Zenon
<1>4. IsWorker(w) /\ IsMemory(w.mem) /\ IsMemory(w.read) /\ c \in Component
  BY <1>2 DEF OnCourse, Informed, IsWorker
<1>5. /\ v.mem = w.mem /\ v.read = read /\ v.stale = w.stale /\ v.component = w.component
      /\ v.phase = w.phase /\ v.pending = {} /\ v.todo = {}
      /\ v = [f \in WorkerField |-> v[f]]
  BY <1>1, <1>2, <1>3, <1>4, Zenon DEF IsWorker, WorkerField
<1>6. /\ read = [f \in MemoryField |-> read[f]]
      /\ read.hypervisors = w.read.hypervisors
      /\ read.components = WithComponent(w.read.components, c, w.mem.components[c])
  BY <1>3, <1>4 DEF IsMemory, MemoryField, WithComponent
<1>7. IsComponents(read.components)
  <2>1. PICK r : r = w.mem.components[c]
    OBVIOUS
  <2>2. IsComponent(r) /\ \A name \in PortName \ OwnPorts(c) : r.ports[name] = NoPort
    BY <2>1, <1>4, Zenon DEF IsMemory, IsComponents
  <2>3. IsComponents(w.read.components) /\ read.components = WithComponent(w.read.components, c, r)
    BY <2>1, <1>4, <1>6 DEF IsMemory
  <2> QED BY <2>2, <2>3, <1>4, PutComponent
<1>8. IsMemory(read)
  BY <1>4, <1>6, <1>7 DEF IsMemory
<1>9. IsWorker(v)
  BY <1>4, <1>5, <1>8 DEF IsWorker
<1>10. HypervisorsSeen(v, cs, hs)
  BY <1>5, <1>6 DEF OnCourse, Informed, HypervisorsSeen
<1>11. ComponentsSeen(v, cs)
  BY <1>5 DEF OnCourse, Informed, ComponentsSeen, ComponentSeen
<1>12. v.phase = "main" /\ Granted(v, cs)
  BY <1>5 DEF OnCourse, Granted
<1>13. ReadyToWrite(v, cs, hs)
  BY <1>2, <1>4, <1>5, <1>9, <1>10, <1>11, <1>12 DEF ReadyToWrite, Informed
<1> QED BY <1>1, <1>9, <1>13, UpdatingOK, UpdatingEnds DEF Finishing

\* A worker with other control state and memory.
Stepped(w, pc, target, mem, pending, todo) ==
    [w EXCEPT !.pc = pc, !.target = target, !.mem = mem, !.pending = pending, !.todo = todo]

\* It follows the one it was when its memory grew.
LEMMA ShapeOfStep ==
  ASSUME NEW w, IsWorker(w), NEW pc, NEW target, NEW mem, Grows(w.mem, mem),
         NEW pending, NEW todo, todo \subseteq Component,
         NEW v, v = Stepped(w, pc, target, mem, pending, todo)
  PROVE  /\ Follows(v, w)
         /\ v.pc = pc /\ v.target = target /\ v.mem = mem /\ v.pending = pending
         /\ v.todo = todo
<1>1. /\ v.pc = pc /\ v.target = target /\ v.mem = mem /\ v.pending = pending
      /\ v.todo = todo /\ v.phase = w.phase /\ v.component = w.component
      /\ v.read = w.read /\ v.stale = w.stale
      /\ v = [f \in WorkerField |-> v[f]]
  BY Zenon DEF IsWorker, WorkerField, Stepped
<1>2. IsWorker(v)
  BY <1>1 DEF IsWorker, Grows
<1> QED BY <1>1, <1>2 DEF Follows

\* The ports that are looked up are of scheduled components.
LEMMA LookupsOK ==
  ASSUME NEW w, NEW c \in Component, OthersReady(w, c), NEW l \in Lookups(w, c)
  PROVE  l[1] \in Scheduled(w.mem.components) /\ l[2] \in OwnPorts(l[1])
<1>1. \A x : "apiserver" \in OwnPorts(x)
  BY DEF OwnPorts
<1>2. \A x \in ControlPlane : "etcd-client" \in OwnPorts(x)
  BY DEF OwnPorts
<1>3. Peers(w) \subseteq Scheduled(w.mem.components) \cap ControlPlane
  BY DEF Peers
<1>4. CASE c \in Ingress
  BY <1>1, <1>3, <1>4 DEF Lookups
<1>5. CASE c \notin Ingress
  <2>1. Listed(w.mem.components) \cap Ingress \subseteq Scheduled(w.mem.components)
    BY <1>5 DEF OthersReady
  <2>2. CASE l \in Peers(w) \X {"etcd-client"}
    BY <2>2, <1>2, <1>3
  <2>3. CASE l \in (Listed(w.mem.components) \cap Ingress) \X {"apiserver"}
    BY <2>1, <2>3, <1>1, Zenon
  <2> QED BY <2>2, <2>3, <1>5 DEF Lookups
<1> QED BY <1>4, <1>5

\* Reconcile on component c begins.
LEMMA ReconcilingOK ==
  ASSUME PortRules, NEW cs, NEW hs, NEW w, OnCourse(w, cs, hs), w.pending = {}, NEW c \in Component,
         NEW pc \in {"reconcile", "own"},
         pc = "own" => c = w.component /\ c \in Live(w.mem.components)
  PROVE  /\ WorkerOK(Reconciling(w, c, pc), cs, hs)
         /\ \/ Reconciling(w, c, pc).pc = "panicked"
            \/ Onward(Reconciling(w, c, pc), w, {pc}) /\ Reconciling(w, c, pc).target = c
<1>1. IsWorker(w) /\ IsMemory(w.mem) /\ w.todo \subseteq Component
  BY DEF OnCourse, Informed, IsWorker
<1>2. ASSUME NEW mem, Grows(w.mem, mem), NEW pending,
             \A l \in pending : l[1] \in Scheduled(w.mem.components) /\ l[2] \in OwnPorts(l[1]),
             OthersReady(w, c) => c \in Scheduled(w.mem.components),
             NEW v, v = Stepped(w, pc, c, mem, pending, w.todo)
      PROVE  WorkerOK(v, cs, hs) /\ Onward(v, w, {pc}) /\ v.target = c
  <2>1. /\ Follows(v, w)
        /\ v.pc = pc /\ v.target = c /\ v.mem = mem /\ v.pending = pending /\ v.todo = w.todo
    BY <1>1, <1>2, ShapeOfStep
  <2>2. OnCourse(v, cs, hs)
    BY <2>1, FollowsOnCourse
  <2>3. /\ Scheduled(v.mem.components) = Scheduled(w.mem.components)
        /\ Live(v.mem.components) = Live(w.mem.components)
        /\ Listed(v.mem.components) = Listed(w.mem.components)
        /\ v.component = w.component
    BY <2>1, GrowsKeepsStates DEF Follows
  <2>4. OthersReady(v, c) = OthersReady(w, c)
    BY <2>3 DEF OthersReady
  <2>5. PendingOK(v)
    BY <1>2, <2>1, <2>3, Zenon DEF PendingOK
  <2>6. Positioned(v)
    BY <1>2, <2>1, <2>3, <2>4, <2>5 DEF Positioned, Tearing
  <2> QED BY <2>1, <2>2, <2>6 DEF WorkerOK, Working, Onward
<1>3. PICK v : v = [w EXCEPT !.pc = pc, !.target = c]
  OBVIOUS
<1>4. v = Stepped(w, pc, c, w.mem, w.pending, w.todo)
      /\ v.mem = w.mem /\ v.pending = {}
  BY <1>1, <1>3, Zenon DEF IsWorker, WorkerField, Stepped
<1>5. CASE c \in Ingress /\ ~ OthersReady(w, c)
  <2>1. WorkerOK(v, cs, hs) /\ Onward(v, w, {pc}) /\ v.target = c
    BY <1>1, <1>2, <1>4, <1>5, GrowsReflexive
  <2> QED BY <2>1, <1>3, <1>5 DEF Reconciling
<1>6. CASE ~ (c \in Ingress /\ ~ OthersReady(w, c)) /\ c \notin Scheduled(w.mem.components)
  <2>1. Reconciling(w, c, pc) = [IdleWorker EXCEPT !.pc = "panicked"]
    BY <1>6 DEF Reconciling
  <2>2. [IdleWorker EXCEPT !.pc = "panicked"].pc = "panicked"
    BY DEF IdleWorker
  <2> QED BY <2>1, <2>2, IdleOK
<1>7. CASE /\ ~ (c \in Ingress /\ ~ OthersReady(w, c)) /\ c \in Scheduled(w.mem.components)
           /\ ~ OthersReady(w, c)
  <2>1. PICK mem : mem = RequestComponentPort(w.mem, c, "apiserver")
    OBVIOUS
  <2>2. Grows(w.mem, mem)
    BY <2>1, <1>1, <1>7, RequestGrows DEF OwnPorts
  <2>3. PICK u : u = [v EXCEPT !.mem = mem]
    BY Zenon
  <2>4. u = Stepped(w, pc, c, mem, w.pending, w.todo)
    BY <2>3, <1>1, <1>3, Zenon DEF IsWorker, WorkerField, Stepped
  <2>5. WorkerOK(u, cs, hs) /\ Onward(u, w, {pc}) /\ u.target = c
    BY <2>2, <2>4, <1>2, <1>7
  <2>6. Reconciling(w, c, pc) = u
    BY <2>1, <2>3, <1>3, <1>4, <1>7 DEF Reconciling
  <2> QED BY <2>5, <2>6
<1>8. CASE c \in Scheduled(w.mem.components) /\ OthersReady(w, c)
  <2>1. PICK mem : mem = PreReconcile(w.mem, c)
    OBVIOUS
  <2>2. Grows(w.mem, mem)
    BY <2>1, <1>1, <1>8, PreReconcileGrows
  <2>3. PICK pending : pending = Missing([v EXCEPT !.mem = mem], Lookups(w, c))
    OBVIOUS
  <2>4. \A l \in pending : l[1] \in Scheduled(w.mem.components) /\ l[2] \in OwnPorts(l[1])
    BY <2>3, <1>8, LookupsOK DEF Missing
  <2>5. PICK u : u = [v EXCEPT !.mem = mem, !.pending = pending]
    OBVIOUS
  <2>6. u = Stepped(w, pc, c, mem, pending, w.todo)
    BY <2>5, <1>1, <1>3, Zenon DEF IsWorker, WorkerField, Stepped
  <2>7. WorkerOK(u, cs, hs) /\ Onward(u, w, {pc}) /\ u.target = c
    BY <2>2, <2>4, <2>6, <1>2, <1>8
  <2>8. Reconciling(w, c, pc) = u
    BY <2>1, <2>3, <2>5, <1>3, <1>8, Zenon DEF Reconciling
  <2> QED BY <2>7, <2>8
<1> QED BY <1>5, <1>6, <1>7, <1>8

\* Reconcile is past the component, or the deletion goes on.
LEMMA MoveOn ==
  ASSUME NEW cs, NEW hs, NEW w, OnCourse(w, cs, hs), NEW pc \in Tearing \cup {"save"},
         pc \in Tearing => w.component \in Scheduled(w.mem.components) \ Live(w.mem.components),
         pc \in {"member", "stopEtcd"} => w.component \in ControlPlane,
         NEW mem, Grows(w.mem, mem), NEW pending,
         \A l \in pending : l[1] \in Scheduled(w.mem.components) /\ l[2] \in OwnPorts(l[1]),
         NEW target, NEW v, v = Stepped(w, pc, target, mem, pending, w.todo)
  PROVE  WorkerOK(v, cs, hs) /\ Onward(v, w, {pc})
<1>1. IsWorker(w) /\ w.todo \subseteq Component
  BY DEF OnCourse, Informed, IsWorker
<1>2. /\ Follows(v, w) /\ v.pc = pc /\ v.mem = mem /\ v.pending = pending
      /\ v.todo = w.todo
  BY <1>1, ShapeOfStep
<1>3. OnCourse(v, cs, hs)
  BY <1>2, FollowsOnCourse, Zenon
<1>4. /\ Scheduled(v.mem.components) = Scheduled(w.mem.components)
      /\ Live(v.mem.components) = Live(w.mem.components)
      /\ v.component = w.component
  BY <1>2, GrowsKeepsStates DEF Follows
<1>5. PendingOK(v)
  BY <1>2, <1>4, Zenon DEF PendingOK
<1>6. Positioned(v)
  BY <1>2, <1>4, <1>5 DEF Positioned, Tearing
<1> QED BY <1>2, <1>3, <1>6 DEF WorkerOK, Working, Onward

\* The same when the pc alone changes.
LEMMA MovePc ==
  ASSUME NEW cs, NEW hs, NEW w, OnCourse(w, cs, hs), w.pending = {},
         NEW pc \in Tearing \cup {"save"},
         pc \in Tearing => w.component \in Scheduled(w.mem.components) \ Live(w.mem.components),
         pc \in {"member", "stopEtcd"} => w.component \in ControlPlane
  PROVE  WorkerOK([w EXCEPT !.pc = pc], cs, hs) /\ Onward([w EXCEPT !.pc = pc], w, {pc})
<1>1. IsWorker(w) /\ Grows(w.mem, w.mem)
  BY GrowsReflexive DEF OnCourse, Informed, IsWorker
<1>2. PICK v : v = [w EXCEPT !.pc = pc]
  BY Zenon
<1>3. v = Stepped(w, pc, w.target, w.mem, w.pending, w.todo)
  BY <1>1, <1>2, Zenon DEF IsWorker, WorkerField, Stepped
<1>4. WorkerOK(v, cs, hs) /\ Onward(v, w, {pc})
  BY <1>1, <1>3, MoveOn, Zenon
<1> QED BY <1>2, <1>4

\* Which components are to be reconciled first does not matter.
LEMMA WithTodo ==
  ASSUME NEW cs, NEW hs, NEW w, OnCourse(w, cs, hs), w.pending = {},
         NEW todo, todo \subseteq Component, NEW v, v = [w EXCEPT !.todo = todo]
  PROVE  OnCourse(v, cs, hs) /\ v.pending = {} /\ Follows(v, w) /\ v.todo = todo
<1>1. IsWorker(w) /\ Grows(w.mem, w.mem)
  BY GrowsReflexive DEF OnCourse, Informed, IsWorker
<1>2. v = Stepped(w, w.pc, w.target, w.mem, w.pending, todo)
  BY <1>1, Zenon DEF IsWorker, WorkerField, Stepped
<1>3. Follows(v, w) /\ v.pending = {} /\ v.todo = todo
  BY <1>1, <1>2, ShapeOfStep
<1> QED BY <1>3, FollowsOnCourse

\* Where a worker goes that takes up the next component.
TakesUp(w, v) ==
    \/ v.pc = "panicked"
    \/ Onward(v, w, {"reconcile", "own"}) /\ v.target \in w.todo \cup {w.component}
    \/ Onward(v, w, {"stop"})
    \/ Onward(v, w, {"save"}) /\ w.component \notin Scheduled(w.mem.components)

\* The next component is taken up.
LEMMA TakeNextOK ==
  ASSUME PortRules, NEW cs, NEW hs, NEW w, OnCourse(w, cs, hs), w.pending = {}
  PROVE  WorkerOK(TakeNext(w), cs, hs) /\ TakesUp(w, TakeNext(w))
<1>1. IsWorker(w) /\ IsMemory(w.mem) /\ w.todo \subseteq Component /\ w.component \in Component
  BY DEF OnCourse, Informed, IsWorker
<1>2. CASE w.todo # {}
  <2>1. PICK t : t = CHOOSE x \in w.todo : TRUE
    OBVIOUS
  <2>2. t \in w.todo /\ t \in Component
    BY <2>1, <1>1, <1>2
  <2>3. PICK v : v = [w EXCEPT !.todo = @ \ {t}]
    BY Zenon
  <2>4. OnCourse(v, cs, hs) /\ v.pending = {} /\ Follows(v, w) /\ v.todo \subseteq w.todo
    BY <2>3, <1>1, WithTodo
  <2>5. PICK u : u = Reconciling(v, t, "reconcile")
    OBVIOUS
  <2>6. /\ WorkerOK(u, cs, hs)
        /\ u.pc = "panicked" \/ (Onward(u, v, {"reconcile"}) /\ u.target = t)
    BY <2>2, <2>4, <2>5, ReconcilingOK
  <2>7. TakesUp(w, u)
    BY <2>2, <2>4, <2>6, FollowsTransitive DEF TakesUp, Onward
  <2> QED BY <2>1, <2>3, <2>5, <2>6, <2>7, <1>2 DEF TakeNext
<1>3. CASE w.todo = {} /\ w.component \in Live(w.mem.components)
  <2>1. PICK u : u = Reconciling(w, w.component, "own")
    BY Zenon
  <2>2. /\ WorkerOK(u, cs, hs)
        /\ u.pc = "panicked" \/ (Onward(u, w, {"own"}) /\ u.target = w.component)
    BY <2>1, <1>1, <1>3, ReconcilingOK
  <2>3. TakesUp(w, u)
    BY <2>2 DEF TakesUp, Onward
  <2> QED BY <2>1, <2>2, <2>3, <1>3 DEF TakeNext
<1>4. CASE /\ w.todo = {} /\ w.component \notin Live(w.mem.components)
           /\ w.component \in Scheduled(w.mem.components)
  <2>1. PICK u : u = [w EXCEPT !.pc = "stop"]
    BY Zenon
  <2>2. WorkerOK(u, cs, hs) /\ Onward(u, w, {"stop"})
    BY <2>1, <1>4, MovePc, Zenon DEF Tearing
  <2> QED BY <2>1, <2>2, <1>4 DEF TakeNext, TakesUp
<1>5. CASE /\ w.todo = {} /\ w.component \notin Live(w.mem.components)
           /\ w.component \notin Scheduled(w.mem.components)
  <2>1. PICK u : u = [w EXCEPT !.pc = "save"]
    BY Zenon
  <2>2. WorkerOK(u, cs, hs) /\ Onward(u, w, {"save"})
    BY <2>1, <1>5, MovePc, Zenon DEF Tearing
  <2> QED BY <2>1, <2>2, <1>5 DEF TakeNext, TakesUp
<1> QED BY <1>2, <1>3, <1>4, <1>5

\* What a component has besides its phase, hypervisor and ports does not matter.
LEMMA RetouchGrows ==
  ASSUME NEW mem, IsMemory(mem), NEW c \in Component, NEW r, IsComponent(r),
         r.phase = mem.components[c].phase, r.hypervisor = mem.components[c].hypervisor,
         r.ports = mem.components[c].ports,
         NEW new, new = [f \in MemoryField |-> new[f]],
         new.hypervisors = mem.hypervisors,
         new.components = WithComponent(mem.components, c, r)
  PROVE  Grows(mem, new)
<1>1. IsComponents(mem.components) /\ IsHypervisors(mem.hypervisors)
  BY DEF IsMemory
<1>2. \A name \in PortName \ OwnPorts(c) : r.ports[name] = NoPort
  BY <1>1 DEF IsComponents
<1>3. /\ IsComponents(new.components)
      /\ new.components[c] = r
      /\ \A x \in Component \ {c} : new.components[x] = mem.components[x]
  BY <1>1, <1>2, PutComponent
<1>4. IsMemory(new)
  BY <1>1, <1>3 DEF IsMemory
<1>5. \A x \in Component : /\ new.components[x].phase = mem.components[x].phase
                           /\ new.components[x].hypervisor = mem.components[x].hypervisor
                           /\ new.components[x].ports = mem.components[x].ports
  BY <1>3
<1> QED BY <1>4, <1>5 DEF Grows

\* The worker that uploaded the files of a component is where it was.
LEMMA UploadedOK ==
  ASSUME NEW cs, NEW hs, NEW w, OnCourse(w, cs, hs), Positioned(w), NEW c \in Component
  PROVE  /\ OnCourse(Uploaded(w, c), cs, hs) /\ Positioned(Uploaded(w, c))
         /\ Uploaded(w, c).pc = w.pc /\ Uploaded(w, c).pending = w.pending
         /\ Uploaded(w, c).target = w.target
         /\ Follows(Uploaded(w, c), w) /\ Uploaded(w, c).todo = w.todo
<1>1. IsWorker(w) /\ IsMemory(w.mem)
  BY DEF OnCourse, Informed, IsWorker
<1>2. PICK v : v = Uploaded(w, c)
  OBVIOUS
<1>3. PICK r : r = [w.mem.components[c] EXCEPT !.certified = @ \/ Uncertified(w, c)]
  BY Zenon
<1>4. IsComponent(w.mem.components[c])
  BY <1>1, Zenon DEF IsMemory, IsComponents
<1>5. /\ IsComponent(r)
      /\ r.phase = w.mem.components[c].phase /\ r.ports = w.mem.components[c].ports
      /\ r.hypervisor = w.mem.components[c].hypervisor
  BY <1>3, <1>4 DEF IsComponent, ComponentField
<1>6. /\ v.pc = w.pc /\ v.target = w.target /\ v.pending = w.pending /\ v.todo = w.todo
      /\ v.phase = w.phase /\ v.component = w.component /\ v.read = w.read /\ v.stale = w.stale
  BY <1>1, <1>2, Zenon DEF Uploaded, IsWorker, WorkerField
<1>7. v = [f \in WorkerField |-> v[f]]
  <2>1. PICK h : h = HypervisorOf(w, c)
    OBVIOUS
  <2>2. PICK a : a = [w EXCEPT !.mem.files[h][c] = Contents(w, c)]
    BY Zenon
  <2>3. a = [f \in WorkerField |-> a[f]]
    BY <2>2, <1>1 DEF IsWorker, WorkerField
  <2>4. PICK b : b = [a EXCEPT !.mem.components[c].certified = @ \/ Uncertified(w, c)]
    BY Zenon
  <2>5. b = [f \in WorkerField |-> b[f]]
    BY <2>3, <2>4 DEF WorkerField
  <2>6. v = [b EXCEPT !.rewritten = @ \cup (IF Uncertified(w, c) THEN {h} ELSE {})]
    BY <2>1, <2>2, <2>4, <1>2, ZenonT(30) DEF Uploaded
  <2> QED BY <2>5, <2>6 DEF WorkerField
<1>8. /\ v.mem = [f \in MemoryField |-> v.mem[f]]
      /\ v.mem.hypervisors = w.mem.hypervisors
      /\ v.mem.components = WithComponent(w.mem.components, c, r)
  BY <1>1, <1>2, <1>3, Zenon
     DEF Uploaded, IsWorker, WorkerField, IsMemory, MemoryField, WithComponent
<1>9. Grows(w.mem, v.mem)
  BY <1>1, <1>5, <1>8, RetouchGrows
<1>10. Follows(v, w)
  BY <1>1, <1>6, <1>7, <1>9, Zenon DEF Follows, IsWorker, Grows
<1> QED BY <1>2, <1>6, <1>10, FollowsOnCourse, FollowsPositioned

\* Where Reconcile leads.
AfterReconcile(w, v) ==
    \/ v.pc \notin Working
    \/ TakesUp(w, v)
    \/ Onward(v, w, {"save"}) /\ w.pc = "own"

\* Reconcile on the target returned, with or without an error.
LEMMA ReconciledOK ==
  ASSUME PortRules, NEW cs, NEW hs, NEW w, OnCourse(w, cs, hs), Positioned(w), w.pending = {},
         w.pc \in {"reconcile", "own"}, NEW ok
  PROVE  WorkerOK(Reconciled(w, ok), cs, hs) /\ AfterReconcile(w, Reconciled(w, ok))
<1>1. IsWorker(w) /\ IsMemory(w.mem)
  BY DEF OnCourse, Informed, IsWorker
<1> DEFINE c == w.target
<1> DEFINE changed == (c \in Ingress => OthersReady(w, c)) /\ HasPorts(w.mem, c, {"apiserver"})
<1>2. PICK v : v = [w EXCEPT !.target = NoComponent,
                       !.mem.components[c].endpoints = IF changed THEN Endpoints(w, c) ELSE @]
  OBVIOUS
<1>3. c \in Component
  BY DEF Positioned
<1>4. PICK r : r = [w.mem.components[c] EXCEPT !.endpoints =
                       IF changed THEN Endpoints(w, c) ELSE @]
  BY Zenon
<1>5. IsComponent(w.mem.components[c])
  BY <1>1, <1>3, Zenon DEF IsMemory, IsComponents
<1>6. /\ IsComponent(r)
      /\ r.phase = w.mem.components[c].phase /\ r.ports = w.mem.components[c].ports
      /\ r.hypervisor = w.mem.components[c].hypervisor
  BY <1>4, <1>5, Zenon DEF IsComponent, ComponentField
<1>7. /\ v.pc = w.pc /\ v.pending = {} /\ v.todo = w.todo
      /\ v.phase = w.phase /\ v.component = w.component /\ v.read = w.read /\ v.stale = w.stale
      /\ v = [f \in WorkerField |-> v[f]]
  BY <1>1, <1>2, Zenon DEF IsWorker, WorkerField
<1>8. /\ v.mem = [f \in MemoryField |-> v.mem[f]]
       /\ v.mem.hypervisors = w.mem.hypervisors
       /\ v.mem.components = WithComponent(w.mem.components, c, r)
  BY <1>1, <1>2, <1>4 DEF IsWorker, WorkerField, IsMemory, MemoryField, WithComponent
<1>9. Grows(w.mem, v.mem)
  BY <1>1, <1>3, <1>6, <1>8, RetouchGrows
<1>10. Follows(v, w)
  BY <1>1, <1>7, <1>9, Zenon DEF Follows, IsWorker, Grows
<1>11. OnCourse(v, cs, hs) /\ IsWorker(v) /\ IsMemory(v.mem)
  BY <1>10, FollowsOnCourse DEF Follows, IsWorker
<1>12. Reconciled(w, ok) = IF w.pc = "reconcile" THEN TakeNext(v)
                           ELSE IF ok THEN [v EXCEPT !.pc = "save"]
                           ELSE Finishing(v)
  BY <1>2 DEF Reconciled
<1>13. \A u, pcs : Onward(u, v, pcs) => Onward(u, w, pcs)
  BY <1>7, <1>10, FollowsTransitive DEF Onward
<1>14. ASSUME NEW u, u = TakeNext(v)
       PROVE  WorkerOK(u, cs, hs) /\ TakesUp(w, u)
  <2>1. WorkerOK(u, cs, hs) /\ TakesUp(v, u)
    BY <1>7, <1>11, <1>14, TakeNextOK
  <2>2. Scheduled(v.mem.components) = Scheduled(w.mem.components)
    BY <1>9, GrowsKeepsStates
  <2> QED BY <2>1, <2>2, <1>7, <1>13 DEF TakesUp
<1>15. ASSUME NEW u, u = [v EXCEPT !.pc = "save"]
       PROVE  WorkerOK(u, cs, hs) /\ Onward(u, w, {"save"})
  BY <1>7, <1>11, <1>13, <1>15, MovePc, Zenon DEF Tearing
<1>16. WorkerOK(Finishing(v), cs, hs) /\ Finishing(v).pc \notin Working
  BY <1>11, FinishingOK
<1> QED BY <1>12, <1>14, <1>15, <1>16 DEF AfterReconcile

\* The PreReconcile phase, when everything is listed.
LEMMA PreReconciledOK ==
  ASSUME PortRules, NEW cs, NEW hs, NEW w, Informed(w, cs, hs), Remembered(w, cs), w.phase = "pre",
         w.pending = {}, \A c \in Component : w.mem.components[c] = w.read.components[c]
  PROVE  WorkerOK(PreReconciled(w), cs, hs) /\ PreReconciled(w).pc \notin Working
<1>1. PICK c : c = w.component
  OBVIOUS
<1>2. PICK mem : mem = PreReconcile(w.mem, c)
  OBVIOUS
<1>3. IsWorker(w) /\ IsMemory(w.mem) /\ c \in Component /\ w.todo \subseteq Component
  BY <1>1 DEF Informed, IsWorker
<1>4. CASE c \in Scheduled(w.mem.components) /\ HasPorts(mem, c, OwnPorts(c))
  <2>1. PICK v : v = [w EXCEPT !.mem = mem]
    BY Zenon
  <2>2. v = Stepped(w, w.pc, w.target, mem, w.pending, w.todo)
    BY <2>1, <1>3, Zenon DEF IsWorker, WorkerField, Stepped
  <2>3. Grows(w.mem, mem)
    BY <1>2, <1>3, <1>4, PreReconcileGrows, Zenon
  <2>4. Follows(v, w) /\ v.mem = mem /\ v.pending = {}
    BY <2>2, <2>3, <1>3, ShapeOfStep
  <2>5. Informed(v, cs, hs)
    BY <2>4, FollowsInformed, Zenon
  <2>6. Remembered(v, cs)
    <3>1. \A x \in Component : \A name \in PortName :
             Undeleted(w.mem.components, x) /\ w.mem.components[x].ports[name] # NoPort =>
                v.mem.components[x].ports[name] = w.mem.components[x].ports[name]
      BY <2>3, <2>4, Zenon DEF Grows
    <3>2. /\ v.read = w.read
          /\ \A x \in Component : Undeleted(v.mem.components, x) = Undeleted(w.mem.components, x)
      BY <2>4, GrowsKeepsStates DEF Follows
    <3> QED BY <3>1, <3>2 DEF Remembered
  <2>7. v.component = c /\ v.phase = "pre"
    BY <2>4, <1>1 DEF Follows
  <2>8. ReadyToWrite(v, cs, hs)
    BY <2>4, <2>5, <2>6, <2>7, <1>4, Zenon DEF ReadyToWrite
  <2>9. WorkerOK(Updating(v), cs, hs) /\ Updating(v).pc \notin Working
    BY <2>5, <2>8, UpdatingOK, UpdatingEnds DEF Informed
  <2> QED BY <2>1, <2>9, <1>1, <1>2, <1>4 DEF PreReconciled
<1>5. CASE ~ (c \in Scheduled(w.mem.components) /\ HasPorts(mem, c, OwnPorts(c)))
  <2>1. PreReconciled(w) = IdleWorker
    BY <1>1, <1>2, <1>5 DEF PreReconciled
  <2> QED BY <2>1, IdleOK DEF IdleWorker, Working, Tearing
<1> QED BY <1>4, <1>5

\* A pass begins.
LEMMA BeginOK ==
  ASSUME PortRules, NEW cs, NEW hs, NEW c \in Listed(cs), NEW cl
  PROVE  LET w == [IdleWorker EXCEPT !.component = c, !.cluster = cl]
         IN  WorkerOK(IF c \in Live(cs) THEN Loading(w, "pre", 1)
                      ELSE Loading(w, "main", 0), cs, hs)
<1>1. PICK w : w = [IdleWorker EXCEPT !.component = c, !.cluster = cl]
  OBVIOUS
<1>2. w.component = c /\ c \in Component
  BY <1>1 DEF IdleWorker, Listed
<1>3. c \notin Live(cs) => Granted(w, cs)
  BY <1>2 DEF Granted, Listed, Live, Undeleted
<1> QED BY <1>1, <1>2, <1>3, LoadingOK, Zenon

\* The hypervisors are listed.
LEMMA ListHypervisorsOK ==
  ASSUME NEW cs, NEW hs, IsHypervisors(hs), NEW fs, NEW w, WorkerOK(w, cs, hs), w.pc = "load"
  PROVE  WorkerOK([w EXCEPT !.pc = "list", !.stale = {},
                       !.mem.hypervisors = hs, !.mem.files = fs,
                       !.read.hypervisors = hs, !.read.files = fs], cs, hs)
<1>1. PICK v : v = [w EXCEPT !.pc = "list", !.stale = {},
                       !.mem.hypervisors = hs, !.mem.files = fs,
                       !.read.hypervisors = hs, !.read.files = fs]
  OBVIOUS
<1>2. /\ IsWorker(w) /\ IsMemory(w.mem) /\ IsMemory(w.read)
      /\ w.pending = {} /\ w.component \in Component
      /\ w.phase = "pre" \/ (w.phase = "main" /\ Granted(w, cs))
  BY DEF WorkerOK, IsWorker, Working, Writing, Tearing
<1>3. /\ v.pc = "list" /\ v.stale = {} /\ v.pending = w.pending /\ v.component = w.component
      /\ v.phase = w.phase /\ v.todo = w.todo
      /\ v = [f \in WorkerField |-> v[f]]
      /\ v.mem = [w.mem EXCEPT !.hypervisors = hs, !.files = fs]
      /\ v.read = [w.read EXCEPT !.hypervisors = hs, !.files = fs]
  BY <1>1, <1>2, Zenon DEF IsWorker, WorkerField
<1>4. IsMemory(v.mem) /\ v.mem.hypervisors = hs
  BY <1>2, <1>3, Zenon DEF IsMemory, MemoryField
<1>5. IsMemory(v.read) /\ v.read.hypervisors = hs
  BY <1>2, <1>3, Zenon DEF IsMemory, MemoryField
<1>6. IsWorker(v)
  BY <1>2, <1>3, <1>4, <1>5, Zenon DEF IsWorker
<1>7. HypervisorsSeen(v, cs, hs)
  BY <1>4, <1>5 DEF HypervisorsSeen, EntriesKept
<1>8. Granted(w, cs) => Granted(v, cs)
  BY <1>3 DEF Granted
<1> QED BY <1>1, <1>2, <1>3, <1>6, <1>7, <1>8 DEF WorkerOK

\* The components are listed; these are to be reconciled first.
HavingListed(w, cs) ==
    [w EXCEPT !.mem.components = cs, !.read.components = cs, !.stale = @ \cap Hypervisor]
HavingFirst(w) == [w EXCEPT !.todo = ReconciledFirst(w)]

\* The PreReconcile phase or the pass itself goes ahead.
LEMMA ListComponentsOK ==
  ASSUME PortRules, NEW cs, NEW hs, IsComponents(cs), NEW w, WorkerOK(w, cs, hs), w.pc = "list",
         NEW v, v = HavingListed(w, cs), v.component \in Listed(cs), NEW u, u = HavingFirst(v)
  PROVE  /\ v.phase = "pre" =>
               WorkerOK(PreReconciled(v), cs, hs) /\ PreReconciled(v).pc \notin Working
         /\ v.phase # "pre" =>
               /\ WorkerOK(TakeNext(u), cs, hs) /\ TakesUp(u, TakeNext(u))
               /\ OnCourse(u, cs, hs) /\ u.pc = "list"
               /\ u.mem.components = cs /\ u.read.components = cs
               /\ u.todo \subseteq Listed(cs)
<1>1. /\ IsWorker(w) /\ IsMemory(w.mem) /\ IsMemory(w.read)
      /\ w.pending = {} /\ w.component \in Component
      /\ w.phase = "pre" \/ (w.phase = "main" /\ Granted(w, cs))
      /\ HypervisorsSeen(w, cs, hs)
  BY DEF WorkerOK, IsWorker, Working, Writing, Tearing
<1>2. /\ v.pc = "list" /\ v.stale = w.stale \cap Hypervisor
      /\ v.pending = w.pending /\ v.component = w.component
      /\ v.phase = w.phase /\ v.todo = w.todo
      /\ v = [f \in WorkerField |-> v[f]]
      /\ v.mem = [w.mem EXCEPT !.components = cs]
      /\ v.read = [w.read EXCEPT !.components = cs]
  BY <1>1, Zenon DEF HavingListed, IsWorker, WorkerField
<1>3. ASSUME NEW mem, IsMemory(mem), NEW new, new = [mem EXCEPT !.components = cs]
      PROVE  IsMemory(new) /\ new.components = cs /\ new.hypervisors = mem.hypervisors
  BY <1>3 DEF IsMemory, MemoryField
<1>4. /\ IsMemory(v.mem) /\ v.mem.components = cs /\ v.mem.hypervisors = w.mem.hypervisors
      /\ IsMemory(v.read) /\ v.read.components = cs /\ v.read.hypervisors = w.read.hypervisors
  BY <1>1, <1>2, <1>3
<1>5. IsWorker(v)
  BY <1>1, <1>2, <1>4, Zenon DEF IsWorker
<1>6. HypervisorsSeen(v, cs, hs)
  BY <1>1, <1>2, <1>4, Zenon DEF HypervisorsSeen
<1>7. ComponentsSeen(v, cs)
  BY <1>4 DEF ComponentsSeen, ComponentSeen
<1>8. Informed(v, cs, hs)
  BY <1>1, <1>2, <1>5, <1>6, <1>7, Zenon DEF Informed
<1>9. Remembered(v, cs)
  BY <1>4 DEF Remembered
<1>10. v.phase = "pre" =>
          WorkerOK(PreReconciled(v), cs, hs) /\ PreReconciled(v).pc \notin Working
  BY <1>1, <1>2, <1>4, <1>8, <1>9, PreReconciledOK, Zenon
<1>11. ASSUME v.phase # "pre"
       PROVE  /\ WorkerOK(TakeNext(u), cs, hs) /\ TakesUp(u, TakeNext(u))
              /\ OnCourse(u, cs, hs) /\ u.pc = "list"
              /\ u.mem.components = cs /\ u.read.components = cs
              /\ u.todo \subseteq Listed(cs)
  <2>1. v.phase = "main" /\ Granted(v, cs)
    BY <1>1, <1>2, <1>11, Zenon DEF Granted
  <2>2. v.component \in Live(cs) => HasPorts(v.read, v.component, OwnPorts(v.component))
    BY <2>1, <1>4, Zenon DEF Granted, HasPorts, Live, Undeleted
  <2>3. OnCourse(v, cs, hs)
    BY <2>1, <2>2, <1>4, <1>8, <1>9 DEF OnCourse
  <2>4. PICK todo : todo = ReconciledFirst(v)
    BY Zenon
  <2>5. todo \subseteq Listed(cs) /\ todo \subseteq Component /\ v.pending = {}
    BY <2>4, <1>1, <1>2, <1>4 DEF ReconciledFirst, Listed
  <2>6. \A x : x = [v EXCEPT !.todo = todo] => OnCourse(x, cs, hs) /\ x.pending = {}
    BY ONLY <2>3, <2>5, WithTodo
  <2>7. OnCourse(u, cs, hs) /\ u.pending = {}
    BY <2>4, <2>6, Zenon DEF HavingFirst
  <2>8. u.mem = v.mem /\ u.read = v.read /\ u.todo = todo /\ u.pc = v.pc
    BY <2>4, <1>5, Zenon DEF HavingFirst, IsWorker, WorkerField
  <2>9. WorkerOK(TakeNext(u), cs, hs) /\ TakesUp(u, TakeNext(u))
    BY ONLY <2>7, PortRules, TakeNextOK, Zenon
  <2> QED BY <2>5, <2>7, <2>8, <2>9, <1>2, <1>4
<1> QED BY <1>10, <1>11, Zenon

\* One port of another component is looked up.
LookedUp(w, l) ==
    [w EXCEPT !.pending = @ \ {l}, !.mem = RequestComponentPort(@, l[1], l[2])]

\* The ports of the other components are looked up, and allocated where they lack.
LEMMA LookUpOK ==
  ASSUME PortRules, NEW cs, NEW hs, NEW w, WorkerOK(w, cs, hs), NEW l \in w.pending,
         NEW v, v = LookedUp(w, l)
  PROVE  WorkerOK(v, cs, hs) /\ Onward(v, w, {w.pc}) /\ v.target = w.target
<1>1. w.pc \in Working /\ OnCourse(w, cs, hs) /\ Positioned(w)
  BY DEF WorkerOK, ReadyToWrite
<1>2. IsWorker(w) /\ IsMemory(w.mem) /\ w.todo \subseteq Component
  BY <1>1, Zenon DEF OnCourse, Informed, IsWorker
<1>3. l[1] \in Scheduled(w.mem.components) /\ l[2] \in OwnPorts(l[1])
  BY <1>1 DEF Positioned, PendingOK
<1>4. PICK mem : mem = RequestComponentPort(w.mem, l[1], l[2])
  OBVIOUS
<1>5. Grows(w.mem, mem)
  BY <1>2, <1>3, <1>4, RequestGrows
<1>6. v = Stepped(w, w.pc, w.target, mem, w.pending \ {l}, w.todo)
  BY <1>2, <1>4, Zenon DEF LookedUp, IsWorker, WorkerField, Stepped
<1>7. /\ Follows(v, w) /\ v.pc = w.pc /\ v.target = w.target /\ v.pending = w.pending \ {l}
      /\ v.todo = w.todo
  BY <1>2, <1>5, <1>6, ShapeOfStep
<1>8. OnCourse(v, cs, hs) /\ Positioned(v)
  BY <1>1, <1>7, FollowsOnCourse, FollowsPositioned
<1> QED BY <1>1, <1>7, <1>8, Zenon DEF WorkerOK, Onward
=============================================================================
