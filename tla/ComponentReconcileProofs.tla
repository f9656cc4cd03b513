---------------------- MODULE ComponentReconcileProofs ----------------------
(***************************************************************************)
(* The component controller keeps the ports straight, for any number of    *)
(* managers, components and hypervisors, and whatever fails: the status of *)
(* every hypervisor stays sound, a port that is recorded for a component is *)
(* allocated to it, and a pod has the ports it was made for.               *)
(*                                                                         *)
(* With one manager, which is what leader election is for, nothing runs of *)
(* a component that is gone, and what a pass starts for its own component  *)
(* runs on ports allocated to it.  The invariant PodsInv has what a lone   *)
(* worker may rely on: nobody else drops a finalizer, so that what it has  *)
(* listed is still there, and nobody else starts a pod, so that what       *)
(* ReconcileDeletion stopped stays stopped until the finalizer is dropped. *)
(***************************************************************************)
EXTENDS ComponentPortsProofs

-----------------------------------------------------------------------------
(***************************************************************************)
(* The pods that a step starts.                                            *)
(***************************************************************************)

\* Some pod of c that w started: on c's hypervisor, with ports c has in memory.
Started(w, c, p) ==
    /\ p.component = c /\ p.hypervisor = HypervisorOf(w, c)
    /\ p.name = "wireguard" \/
          p.name \in IF c \in Ingress THEN {"ingress"} ELSE {"etcd", "control-plane"}
    /\ \E names \in SUBSET OwnPorts(c) :
          p.ports = PortsOf(w, c, names) /\ HasPorts(w.mem, c, names)

\* What runs after a step on component c ran before or was started for c.
Adds(ps, new, w, c) == \A p \in new : p \in ps \/ Started(w, c, p)

\* EnsurePod adds one pod, which is made for ports the component has.
LEMMA EnsurePodAdds ==
  ASSUME NEW ps, NEW w, NEW c, NEW name, NEW names \in SUBSET OwnPorts(c),
         HasPorts(w.mem, c, names),
         name = "wireguard" \/
            name \in IF c \in Ingress THEN {"ingress"} ELSE {"etcd", "control-plane"}
  PROVE  Adds(ps, EnsurePod(ps, w, c, name, names), w, c)
<1>1. PICK q : q = [component |-> c, name |-> name, hypervisor |-> HypervisorOf(w, c),
                    ports |-> PortsOf(w, c, names)]
  BY Zenon
<1>2. Started(w, c, q)
  BY <1>1 DEF Started
<1>3. \A p \in EnsurePod(ps, w, c, name, names) : p \in ps \/ p = q
  BY <1>1 DEF EnsurePod
<1> QED BY <1>2, <1>3 DEF Adds

\* DeletePod adds none.
LEMMA DeletePodAdds ==
  \A ps, w, c, x, name : DeletePod(ps, w, x, name) \subseteq ps
BY DEF DeletePod

\* One call after the other.
LEMMA AddsTransitive ==
  ASSUME NEW ps, NEW mid, NEW new, NEW w, NEW c, Adds(ps, mid, w, c), Adds(mid, new, w, c)
  PROVE  Adds(ps, new, w, c)
BY DEF Adds

\* Adding an etcd member leaves the pods alone.
LEMMA AddEtcdMemberPods ==
  ASSUME NEW hs, hs = [pods |-> hs.pods, members |-> hs.members], NEW w, NEW c,
         NEW a \in AddEtcdMember(hs, w, c)
  PROVE  a = [pods |-> a.pods, members |-> a.members] /\ a.pods = hs.pods
<1>1. CASE a = hs
  BY <1>1
<1>2. CASE \E e \in EtcdClusters(w, hs) :
             a = [hs EXCEPT !.members = @ \cup
                    {[component |-> c, url |-> PeerURL(w, c), cluster |-> cl] :
                        cl \in {k \in {e} : \A mb \in hs.members :
                                  mb.cluster = k => mb.url # PeerURL(w, c)}}]
  <2>1. PICK ms : a = [hs EXCEPT !.members = ms]
    BY <1>2, Zenon
  <2> QED BY <2>1
<1> QED BY <1>1, <1>2 DEF AddEtcdMember

\* The etcd pod is added.
LEMMA RunEtcdAdds ==
  ASSUME NEW hs, hs = [pods |-> hs.pods, members |-> hs.members], NEW w,
         NEW c \in ControlPlane, HasPorts(w.mem, c, OwnPorts(c) \ {"wireguard"}),
         NEW a \in RunEtcd(hs, w, c)
  PROVE  a = [pods |-> a.pods, members |-> a.members] /\ Adds(hs.pods, a.pods, w, c)
<1>1. PICK b \in AddEtcdMember(hs, w, c) : a = RunEtcdPod(b, w, c)
  BY DEF RunEtcd
<1>2. b.pods = hs.pods
  BY AddEtcdMemberPods
<1>3. /\ a = [pods |-> a.pods, members |-> a.members]
      /\ a.pods = EnsurePod(b.pods, w, c, "etcd", {"etcd-peer", "etcd-client"})
  BY <1>1 DEF RunEtcdPod
<1>4. /\ {"etcd-peer", "etcd-client"} \in SUBSET OwnPorts(c)
      /\ HasPorts(w.mem, c, {"etcd-peer", "etcd-client"})
      /\ c \notin Ingress
  BY NamesAssumption DEF OwnPorts, HasPorts
<1> QED BY <1>2, <1>3, <1>4, EnsurePodAdds

\* The control plane pod is added.
LEMMA RunControlPlaneAdds ==
  ASSUME NEW hs, hs = [pods |-> hs.pods, members |-> hs.members], NEW w,
         NEW c \in ControlPlane, HasPorts(w.mem, c, OwnPorts(c) \ {"wireguard"})
  PROVE  Adds(hs.pods, RunControlPlane(hs, w, c).pods, w, c)
<1>1. Adds(hs.pods, hs.pods, w, c)
  BY DEF Adds
<1>2. Adds(hs.pods, EnsurePod(hs.pods, w, c, "control-plane", {"apiserver"}), w, c)
  <2>1. /\ {"apiserver"} \in SUBSET OwnPorts(c) /\ c \notin Ingress
        /\ HasPorts(w.mem, c, {"apiserver"})
    BY NamesAssumption DEF OwnPorts, HasPorts
  <2> QED BY <2>1, EnsurePodAdds
<1>3. PICK ps : ps = EnsurePod(hs.pods, w, c, "control-plane", {"apiserver"})
  OBVIOUS
<1>4. [hs EXCEPT !.pods = ps].pods = ps
  OBVIOUS
<1> QED BY <1>1, <1>2, <1>3, <1>4 DEF RunControlPlane

\* The ingress pod is added.
LEMMA IngressPodAdds ==
  ASSUME NEW ps, NEW w, NEW c \in Ingress, HasPorts(w.mem, c, OwnPorts(c) \ {"wireguard"})
  PROVE  Adds(ps, EnsurePod(ps, w, c, "ingress", {"apiserver"}), w, c)
<1>1. {"apiserver"} \in SUBSET OwnPorts(c) /\ HasPorts(w.mem, c, {"apiserver"})
  BY DEF OwnPorts, HasPorts
<1> QED BY <1>1, EnsurePodAdds

\* The ingress pod and the VPN interface are added.
LEMMA RunIngressAdds ==
  ASSUME NEW hs, hs = [pods |-> hs.pods, members |-> hs.members], NEW w,
         NEW c \in Ingress, HasPorts(w.mem, c, OwnPorts(c))
  PROVE  Adds(hs.pods, RunIngress(hs, w, c).pods, w, c)
<1>1. PICK ps : ps = EnsurePod(hs.pods, w, c, "ingress", {"apiserver"})
  OBVIOUS
<1>2. Adds(hs.pods, ps, w, c)
  BY <1>1, IngressPodAdds DEF HasPorts
<1>3. Adds(ps, EnsureWireguard(ps, w, c), w, c)
  <2>1. CASE EnsureWireguard(ps, w, c) = ps
    BY <2>1 DEF Adds
  <2>2. CASE /\ EnsureWireguard(ps, w, c) = EnsurePod(ps, w, c, "wireguard", {"wireguard"})
             /\ VPNEnabled
    <3>1. {"wireguard"} \in SUBSET OwnPorts(c) /\ HasPorts(w.mem, c, {"wireguard"})
      BY <2>2, NamesAssumption DEF OwnPorts, HasPorts
    <3> QED BY <2>2, <3>1, EnsurePodAdds
  <2> QED BY <2>1, <2>2 DEF EnsureWireguard
<1>4. RunIngress(hs, w, c).pods = EnsureWireguard(ps, w, c)
  BY <1>1 DEF RunIngress
<1> QED BY <1>2, <1>3, <1>4, AddsTransitive

\* Also when a call fails on the way.
LEMMA RunPartlyAdds ==
  ASSUME NEW hs, hs = [pods |-> hs.pods, members |-> hs.members], NEW w,
         NEW c \in Component, HasPorts(w.mem, c, OwnPorts(c) \ {"wireguard"}),
         NEW a \in RunPartly(hs, w, c)
  PROVE  Adds(hs.pods, a.pods, w, c)
<1>1. Adds(hs.pods, hs.pods, w, c)
  BY DEF Adds
<1>2. \A ps, name : Adds(ps, DeletePod(ps, w, c, name), w, c)
  BY DeletePodAdds DEF Adds
<1>3. ASSUME NEW b, b = [pods |-> b.pods, members |-> b.members], Adds(hs.pods, b.pods, w, c),
             NEW name, a = [b EXCEPT !.pods = DeletePod(@, w, c, name)]
      PROVE  Adds(hs.pods, a.pods, w, c)
  <2>1. a.pods = DeletePod(b.pods, w, c, name)
    BY <1>3
  <2> QED BY <2>1, <1>2, <1>3, AddsTransitive
<1>4. CASE a = hs
  BY <1>1, <1>4
<1>5. CASE c \in ControlPlane /\ a # hs
  <2>1. \A b \in AddEtcdMember(hs, w, c) :
           b = [pods |-> b.pods, members |-> b.members] /\ Adds(hs.pods, b.pods, w, c)
    BY <1>1, AddEtcdMemberPods
  <2>2. \A b \in RunEtcd(hs, w, c) :
           b = [pods |-> b.pods, members |-> b.members] /\ Adds(hs.pods, b.pods, w, c)
    BY <1>5, RunEtcdAdds, Zenon
  <2>3. \/ a \in AddEtcdMember(hs, w, c)
        \/ a \in RunEtcd(hs, w, c)
        \/ \E b \in {hs} \cup AddEtcdMember(hs, w, c) :
              a = [b EXCEPT !.pods = DeletePod(@, w, c, "etcd")]
        \/ \E b \in RunEtcd(hs, w, c) :
              a = [b EXCEPT !.pods = DeletePod(@, w, c, "control-plane")]
    BY <1>5 DEF RunPartly
  <2>4. CASE a \in AddEtcdMember(hs, w, c) \/ a \in RunEtcd(hs, w, c)
    BY <2>1, <2>2, <2>4
  <2>5. ASSUME NEW b \in {hs} \cup AddEtcdMember(hs, w, c),
               a = [b EXCEPT !.pods = DeletePod(@, w, c, "etcd")]
        PROVE  Adds(hs.pods, a.pods, w, c)
    BY <2>1, <2>5, <1>1, <1>3
  <2>6. ASSUME NEW b \in RunEtcd(hs, w, c),
               a = [b EXCEPT !.pods = DeletePod(@, w, c, "control-plane")]
        PROVE  Adds(hs.pods, a.pods, w, c)
    BY <2>2, <2>6, <1>3
  <2> QED BY <2>3, <2>4, <2>5, <2>6
<1>6. CASE c \notin ControlPlane /\ a # hs
  <2>1. c \in Ingress
    BY <1>6 DEF Component
  <2>2. CASE a = [hs EXCEPT !.pods = DeletePod(@, w, c, "ingress")]
    BY <2>2, <1>1, <1>3
  <2>3. CASE a = [hs EXCEPT !.pods = EnsurePod(@, w, c, "ingress", {"apiserver"})]
    <3>1. a.pods = EnsurePod(hs.pods, w, c, "ingress", {"apiserver"})
      BY <2>3
    <3> QED BY <3>1, <2>1, IngressPodAdds, Zenon
  <2> QED BY <2>2, <2>3, <1>6 DEF RunPartly
<1> QED BY <1>4, <1>5, <1>6

\* Only Reconcile starts pods: those of the component it is at.
LEMMA PodsOfStep ==
  ASSUME NEW m \in Manager, Step(m) \/ Failure(m) \/ \E c \in Component : Begin(m, c),
         InReconcile(m) => workers[m].target \in Component
  PROVE  \/ pods' \subseteq pods
         \/ /\ InReconcile(m) /\ CanRun(workers[m], workers[m].target)
            /\ Adds(pods, pods', workers[m], workers[m].target)
<1> DEFINE w == workers[m]
<1> DEFINE c == w.target
<1>1. Hosts = [pods |-> Hosts.pods, members |-> Hosts.members] /\ Hosts.pods = pods
  BY DEF Hosts
<1>2. CanRun(w, c) => HasPorts(w.mem, c, OwnPorts(c) \ {"wireguard"})
  BY DEF CanRun
<1>3. CASE ReconcileControlPlane(m)
  <2>1. InReconcile(m) /\ CanRun(w, c) /\ c \in ControlPlane
    BY <1>3 DEF ReconcileControlPlane
  <2>2. CASE UNCHANGED hosts
    BY <2>2 DEF hosts
  <2>3. ASSUME NEW hs \in RunEtcd(Hosts, w, c), HostsBecome(RunControlPlane(hs, w, c))
        PROVE  Adds(pods, pods', w, c)
    <3>1. hs = [pods |-> hs.pods, members |-> hs.members] /\ Adds(pods, hs.pods, w, c)
      BY <2>1, <1>1, <1>2, RunEtcdAdds, Zenon
    <3>2. Adds(hs.pods, pods', w, c)
      BY <2>1, <2>3, <3>1, <1>2, RunControlPlaneAdds, Zenon DEF HostsBecome
    <3> QED BY <3>1, <3>2, AddsTransitive
  <2>4. \/ UNCHANGED hosts
        \/ \E hs \in RunEtcd(Hosts, w, c) : HostsBecome(RunControlPlane(hs, w, c))
    BY <1>3 DEF ReconcileControlPlane
  <2> QED BY <2>1, <2>2, <2>3, <2>4
<1>4. CASE ReconcileIngress(m)
  <2>1. InReconcile(m) /\ CanRun(w, c) /\ c \in Ingress
    BY <1>4 DEF ReconcileIngress
  <2>2. CASE pods' = EnsurePod(pods, w, c, "ingress", {"apiserver"})
    BY <2>1, <2>2, <1>2, IngressPodAdds
  <2>3. CASE HasPorts(w.mem, c, OwnPorts(c)) /\ HostsBecome(RunIngress(Hosts, w, c))
    BY <2>1, <2>3, <1>1, RunIngressAdds DEF HostsBecome
  <2> QED BY <2>1, <2>2, <2>3, <1>4, Zenon DEF ReconcileIngress
<1>5. CASE ReconcileFails(m)
  <2>1. /\ InReconcile(m) /\ CanRun(w, c) /\ c \in Component
        /\ \E hs \in RunPartly(Hosts, w, c) : HostsBecome(hs)
    BY <1>5 DEF ReconcileFails
  <2>2. PICK hs \in RunPartly(Hosts, w, c) : pods' = hs.pods
    BY <2>1 DEF HostsBecome
  <2> QED BY <2>1, <2>2, <1>1, <1>2, RunPartlyAdds, Zenon
<1>6. CASE StopControlPlane(m) \/ StopIngress(m) \/ StopEtcd(m)
  BY <1>6, DeletePodAdds DEF StopControlPlane, StopIngress, StopEtcd
<1>7. CASE DeletionFails(m)
  BY <1>7, DeletePodAdds DEF DeletionFails
<1>8. CASE \/ ListHypervisors(m) \/ ListComponents(m) \/ LookUp(m) \/ ReconcileRefused(m)
           \/ CleanUp(m) \/ SaveConflicts(m) \/ WriteConflicts(m) \/ Restart(m)
           \/ SaveFails(m) \/ WriteFails(m) \/ Crash(m) \/ \E x \in Component : Begin(m, x)
  BY <1>8, Zenon DEF ListHypervisors, ListComponents, LookUp, ReconcileRefused,
     CleanUp, SaveConflicts, WriteConflicts, Restart, SaveFails, WriteFails, Crash, Begin, hosts
<1>9. CASE RemoveEtcdMember(m)
  BY <1>9 DEF RemoveEtcdMember
<1>10. CASE \/ Save(m) \/ (\E h \in Hypervisor : WriteHypervisor(m, h))
            \/ \E x \in Component : WriteComponent(m, x)
  BY <1>10, Zenon DEF Save, WriteHypervisor, WriteComponent, hosts
<1> QED BY <1>3, <1>4, <1>5, <1>6, <1>7, <1>8, <1>9, <1>10 DEF Step, Failure

\* A pod that is started has ports of the range.
LEMMA StartedInRange ==
  ASSUME NEW w, IsMemory(w.mem), NEW c \in Component, NEW p, Started(w, c, p)
  PROVE  \A name \in DOMAIN p.ports : p.ports[name] \in PortRangeLow..PortRangeHigh
<1>1. PICK names \in SUBSET OwnPorts(c) :
         p.ports = PortsOf(w, c, names) /\ HasPorts(w.mem, c, names)
  BY DEF Started
<1>2. IsComponent(w.mem.components[c])
  BY Zenon DEF IsMemory, IsComponents
<1>3. \A name \in PortName : w.mem.components[c].ports[name] \in Port
  BY <1>2 DEF IsComponent
<1>4. \A name \in names : w.mem.components[c].ports[name] \in PortRangeLow..PortRangeHigh
  BY <1>1, <1>3, OwnPortsAreNames DEF Port, HasPorts
<1> QED BY <1>1, <1>4 DEF PortsOf

-----------------------------------------------------------------------------
(***************************************************************************)
(* One manager.                                                            *)
(***************************************************************************)

\* What a step starts has ports of the range.
LEMMA PodsHavePortsNext ==
  ASSUME PortsInv, PodsHavePorts, [Next]_vars
  PROVE  PodsHavePorts'
<1>1. CASE pods' \subseteq pods
  BY <1>1 DEF PodsHavePorts
<1>2. ASSUME NEW m \in Manager, Step(m) \/ Failure(m) \/ \E c \in Component : Begin(m, c)
      PROVE  PodsHavePorts'
  <2> DEFINE w == workers[m]
  <2>1. InReconcile(m) => IsMemory(w.mem) /\ w.target \in Component
    BY InReconcileFacts DEF InReconcile, PortsInv
  <2>2. CASE InReconcile(m) /\ Adds(pods, pods', w, w.target)
    <3>1. \A p \in pods' : p \in pods \/ Started(w, w.target, p)
      BY <2>2 DEF Adds
    <3> QED BY <3>1, <2>1, <2>2, StartedInRange DEF PodsHavePorts
  <2> QED BY <1>1, <1>2, <2>1, <2>2, PodsOfStep
<1>3. CASE Others \/ UNCHANGED vars
  BY <1>1, <1>3 DEF Others, vars, CreateComponent, DeleteComponent, ScheduleComponent,
                    DeleteCluster, InitializeCluster, TouchHypervisor, hosts
<1> QED BY <1>2, <1>3 DEF Next

\* There is one manager at a time, as with the leader election that the manifests
\* of the manager turn on.
OneManager == \A m, n \in Manager : m = n

\* What a pod of a component that is not gone is like when there is one manager.
PodOK(p, cs) ==
    p.name # "wireguard" =>
       /\ p.component \in Component
       /\ cs[p.component].phase # "gone"
       /\ p.hypervisor \in Hypervisor
       /\ p.hypervisor = cs[p.component].hypervisor
       /\ p.name \in IF p.component \in Ingress THEN {"ingress"}
                     ELSE {"etcd", "control-plane"}

\* ReconcileDeletion has stopped these pods of its component.
StoppedAt(pc) ==
    IF pc \in {"member", "stopEtcd"} THEN {"control-plane"}
    ELSE IF pc \in {"cleanup", "save"} THEN {"control-plane", "etcd", "ingress"}
    ELSE {}

\* What a lone worker has in memory is there, but for what it writes itself.
Present(w, cs, hs) ==
    /\ \A c \in Listed(w.mem.components) : cs[c].phase # "gone"
    /\ w.todo \subseteq Listed(w.mem.components)
    /\ w.pc \in {"reconcile", "own"} => w.target \in Listed(w.mem.components)
    /\ w.component \in Live(w.mem.components) =>
          \A name \in OwnPorts(w.component) :
             Entry(w.component, name, w.read.components[w.component].ports[name])
                \in hs[HypervisorOf(w, w.component)].allocatedPorts

\* What the pass stopped does not run.
Stopped(w, ps) ==
    w.component \in Scheduled(w.mem.components) \ Live(w.mem.components) =>
       \A p \in ps : p.component = w.component => p.name \notin StoppedAt(w.pc)

Alone(w, cs, hs, ps) == w.pc \in Working => Present(w, cs, hs) /\ Stopped(w, ps)

\* The invariant of a lone manager.
PodsInv ==
    /\ \A p \in pods : PodOK(p, components)
    /\ \A m \in Manager : Alone(workers[m], components, hypervisors, pods)

\* A pod that Reconcile starts on behalf of the component of the pass has ports that
\* are allocated to it in the API server.
LEMMA OwnStartedReserved ==
  ASSUME NEW w, OnCourse(w, components, hypervisors), Positioned(w),
         Present(w, components, hypervisors), w.pc = "own", NEW p, Started(w, w.target, p)
  PROVE  Reserved(p)
<1>1. PICK c : c = w.component
  BY Zenon
<1>2. w.target = c /\ c \in Live(w.mem.components) /\ c \in Component
  BY <1>1 DEF Positioned, Live
<1>3. PICK names \in SUBSET OwnPorts(c) :
         p.ports = PortsOf(w, c, names) /\ HasPorts(w.mem, c, names)
  BY <1>2, Zenon DEF Started
<1>4. p.component = c /\ p.hypervisor = HypervisorOf(w, c)
  BY <1>2, Zenon DEF Started
<1>5. ASSUME NEW name \in names
      PROVE  /\ w.mem.components[c].ports[name] = w.read.components[c].ports[name]
             /\ Entry(c, name, w.read.components[c].ports[name])
                   \in hypervisors[HypervisorOf(w, c)].allocatedPorts
  <2>1. name \in OwnPorts(c) /\ name \in PortName
    BY OwnPortsAreNames
  <2>2. w.read.components[c].ports[name] # NoPort
    BY <2>1, <1>1, <1>2 DEF OnCourse, HasPorts
  <2>3. Undeleted(w.mem.components, c)
    BY <1>2 DEF Live, Undeleted
  <2>4. w.mem.components[c].ports[name] = w.read.components[c].ports[name]
    BY <2>1, <2>2, <2>3, <1>2 DEF OnCourse, Remembered
  <2> QED BY <2>1, <2>4, <1>1, <1>2 DEF Present
<1>6. /\ DOMAIN p.ports = names
      /\ \A name \in names : p.ports[name] = w.mem.components[c].ports[name]
  BY <1>3 DEF PortsOf
<1> QED BY <1>4, <1>5, <1>6 DEF Reserved

\* With one manager, what a step of the pass on a component starts for it is reserved.
LEMMA OwnPodsNext ==
  ASSUME OneManager, PortsInv, PodsInv, Next, NEW m \in Manager, workers[m].pc = "own",
         NEW p \in pods' \ pods
  PROVE  Reserved(p)
<1> DEFINE w == workers[m]
<1>1. pods' = pods \/ Step(m) \/ Failure(m) \/ \E c \in Component : Begin(m, c)
  <2>1. CASE Others
    BY <2>1 DEF Others, CreateComponent, DeleteComponent, ScheduleComponent, DeleteCluster,
                InitializeCluster, TouchHypervisor, hosts
  <2>2. ASSUME NEW n \in Manager, Step(n) \/ Failure(n) \/ \E c \in Component : Begin(n, c)
        PROVE  Step(m) \/ Failure(m) \/ \E c \in Component : Begin(m, c)
    BY <2>2, n = m DEF OneManager
  <2> QED BY <2>1, <2>2 DEF Next
<1>2. WorkerOK(w, components, hypervisors) /\ Alone(w, components, hypervisors, pods)
  BY DEF PortsInv, PodsInv
<1>3. /\ OnCourse(w, components, hypervisors) /\ Positioned(w) /\ w.target \in Component
      /\ Present(w, components, hypervisors)
  BY <1>2, InReconcileFacts DEF Alone, Working
<1>4. Adds(pods, pods', w, w.target)
  BY <1>1, <1>3, PodsOfStep
<1>5. Started(w, w.target, p)
  BY <1>4, Zenon DEF Adds
<1> QED BY <1>3, <1>5, OwnStartedReserved

\* What a lone worker relies on survives the steps in memory.
LEMMA OnwardPresent ==
  ASSUME NEW cs, NEW hs, NEW w, OnCourse(w, cs, hs), Present(w, cs, hs),
         NEW v, NEW pcs, Onward(v, w, pcs),
         v.pc \in {"reconcile", "own"} => v.target \in Listed(w.mem.components)
  PROVE  /\ Present(v, cs, hs)
         /\ Scheduled(v.mem.components) = Scheduled(w.mem.components)
         /\ Live(v.mem.components) = Live(w.mem.components)
         /\ v.component = w.component
<1>1. /\ Grows(w.mem, v.mem) /\ v.component = w.component /\ v.read = w.read
      /\ v.todo \subseteq w.todo
  BY DEF Onward, Follows
<1>2. /\ Scheduled(v.mem.components) = Scheduled(w.mem.components)
      /\ Live(v.mem.components) = Live(w.mem.components)
      /\ Listed(v.mem.components) = Listed(w.mem.components)
  BY <1>1, GrowsKeepsStates
<1>3. w.component \in Component
  BY Zenon DEF OnCourse, Informed
<1>4. HypervisorOf(v, v.component) = HypervisorOf(w, w.component)
  BY <1>1, <1>3 DEF Grows, HypervisorOf
<1> QED BY <1>1, <1>2, <1>4 DEF Present

\* The next component is taken up.
LEMMA TakesUpAlone ==
  ASSUME NEW cs, NEW hs, NEW w, OnCourse(w, cs, hs), Present(w, cs, hs),
         NEW v, TakesUp(w, v), NEW ps
  PROVE  Alone(v, cs, hs, ps)
<1>1. w.component \in Listed(w.mem.components) /\ w.todo \subseteq Listed(w.mem.components)
  BY DEF OnCourse, Present
<1>2. CASE v.pc = "panicked"
  BY <1>2 DEF Alone, Working, Tearing
<1>3. CASE Onward(v, w, {"reconcile", "own"}) /\ v.target \in w.todo \cup {w.component}
  <2>1. Present(v, cs, hs)
    BY <1>1, <1>3, OnwardPresent
  <2>2. Stopped(v, ps)
    BY <1>3 DEF Onward, Stopped, StoppedAt
  <2> QED BY <2>1, <2>2 DEF Alone
<1>4. CASE Onward(v, w, {"stop"})
  <2>1. v.pc = "stop"
    BY <1>4 DEF Onward
  <2>2. Present(v, cs, hs)
    BY <2>1, <1>4, OnwardPresent
  <2>3. Stopped(v, ps)
    BY <2>1 DEF Stopped, StoppedAt
  <2> QED BY <2>2, <2>3 DEF Alone
<1>5. CASE Onward(v, w, {"save"}) /\ w.component \notin Scheduled(w.mem.components)
  <2>1. v.pc = "save"
    BY <1>5 DEF Onward
  <2>2. /\ Present(v, cs, hs) /\ v.component = w.component
        /\ Scheduled(v.mem.components) = Scheduled(w.mem.components)
    BY <2>1, <1>5, OnwardPresent
  <2>3. Stopped(v, ps)
    BY <2>2, <1>5 DEF Stopped
  <2> QED BY <2>2, <2>3 DEF Alone
<1> QED BY <1>2, <1>3, <1>4, <1>5, Zenon DEF TakesUp

\* Reconcile returned.
LEMMA AfterReconcileAlone ==
  ASSUME NEW cs, NEW hs, NEW w, OnCourse(w, cs, hs), Positioned(w), Present(w, cs, hs),
         NEW v, AfterReconcile(w, v), NEW ps
  PROVE  Alone(v, cs, hs, ps)
<1>1. CASE v.pc \notin Working
  BY <1>1 DEF Alone
<1>2. CASE TakesUp(w, v)
  BY <1>2, TakesUpAlone
<1>3. CASE Onward(v, w, {"save"}) /\ w.pc = "own"
  <2>1. v.pc = "save" /\ w.component \in Live(w.mem.components)
    BY <1>3 DEF Onward, Positioned
  <2>2. /\ Present(v, cs, hs) /\ v.component = w.component
        /\ Live(v.mem.components) = Live(w.mem.components)
    BY <2>1, <1>3, OnwardPresent
  <2>3. Stopped(v, ps)
    BY <2>1, <2>2 DEF Stopped
  <2> QED BY <2>2, <2>3 DEF Alone
<1> QED BY <1>1, <1>2, <1>3 DEF AfterReconcile

\* The components are listed.
LEMMA ListedAlone ==
  ASSUME NEW cs, NEW hs, StoreOK(cs, hs), NEW w, OnCourse(w, cs, hs), w.pc = "list",
         w.mem.components = cs, w.read.components = cs, w.todo \subseteq Listed(cs)
  PROVE  Present(w, cs, hs)
<1>1. w.component \in Component /\ Granted(w, cs)
  BY DEF OnCourse, Informed
<1>2. \A c \in Listed(cs) : cs[c].phase # "gone"
  BY DEF Listed
<1>3. ASSUME w.component \in Live(cs), NEW name \in OwnPorts(w.component)
      PROVE  Entry(w.component, name, cs[w.component].ports[name])
                \in hs[cs[w.component].hypervisor].allocatedPorts
  <2>1. Undeleted(cs, w.component) /\ name \in PortName
    BY <1>3, OwnPortsAreNames DEF Live, Undeleted
  <2>2. Allotted(cs, hs, w.component, name)
    BY <2>1, <1>1, Zenon DEF Granted, StoreOK, Recorded
  <2> QED BY <2>2 DEF Allotted
<1> QED BY <1>2, <1>3 DEF Present, HypervisorOf

\* What a lone worker has of a listed component besides its ports is what is stored.
LEMMA ListedPlace ==
  ASSUME NEW cs, NEW hs, NEW w, OnCourse(w, cs, hs), Present(w, cs, hs),
         NEW c \in Listed(w.mem.components) \cap Scheduled(w.mem.components)
  PROVE  /\ c \in Component /\ cs[c].phase # "gone"
         /\ HypervisorOf(w, c) \in Hypervisor /\ HypervisorOf(w, c) = cs[c].hypervisor
<1>1. IsComponents(w.mem.components) /\ ComponentsSeen(w, cs)
  BY DEF OnCourse, Informed, IsWorker, IsMemory
<1>2. c \in Component /\ w.mem.components[c].hypervisor \in Hypervisor
  BY <1>1, ScheduledPlace
<1>3. cs[c].phase # "gone"
  BY DEF Present
<1> QED BY <1>1, <1>2, <1>3 DEF ComponentsSeen, ComponentSeen, HypervisorOf

\* A pod that is removed is the only one of its name.
LEMMA DeletePodStops ==
  ASSUME NEW cs, NEW hs, NEW w, OnCourse(w, cs, hs), Present(w, cs, hs),
         w.component \in Scheduled(w.mem.components),
         NEW ps, \A p \in ps : PodOK(p, cs), NEW name, name # "wireguard"
  PROVE  \A p \in DeletePod(ps, w, w.component, name) :
            p \in ps /\ (p.component = w.component => p.name # name)
<1>1. w.component \in Listed(w.mem.components)
  BY DEF OnCourse
<1>2. HypervisorOf(w, w.component) = cs[w.component].hypervisor
  BY <1>1, ListedPlace
<1> QED BY <1>2 DEF DeletePod, PodsNamed, PodOK

\* A pod that Reconcile starts.
LEMMA StartedOK ==
  ASSUME NEW cs, NEW hs, NEW w, OnCourse(w, cs, hs), Positioned(w), Present(w, cs, hs),
         w.pc \in {"reconcile", "own"}, CanRun(w, w.target), NEW p, Started(w, w.target, p)
  PROVE  PodOK(p, cs)
<1>1. w.target \in Listed(w.mem.components) \cap Scheduled(w.mem.components)
  BY DEF Positioned, Present, CanRun
<1>2. /\ w.target \in Component /\ cs[w.target].phase # "gone"
      /\ HypervisorOf(w, w.target) \in Hypervisor
      /\ HypervisorOf(w, w.target) = cs[w.target].hypervisor
  BY <1>1, ListedPlace
<1> QED BY <1>2 DEF Started, PodOK

\* The worker moves on and the API server stays as it is.
LEMMA LoneBecome ==
  ASSUME OneManager, PortsInv, NEW m \in Manager, NEW v, Become(m, v),
         UNCHANGED <<components, hypervisors>>, \A p \in pods' : PodOK(p, components),
         Alone(v, components, hypervisors, pods')
  PROVE  PodsInv'
<1>1. workers'[m] = v
  BY DEF Become, PortsInv
<1>2. \A n \in Manager : workers'[n] = v
  BY <1>1 DEF OneManager
<1> QED BY <1>2 DEF PodsInv

\* The steps of Reconcile.
Runs(m) ==
    \/ ReconcileControlPlane(m) \/ ReconcileIngress(m) \/ ReconcileRefused(m)
    \/ ReconcileFails(m)

\* The steps of Reconcile.
LEMMA ReconcileKeepsPods ==
  ASSUME PortRules, OneManager, PortsInv, PodsInv, NEW m \in Manager, Runs(m)
  PROVE  PodsInv'
<1> DEFINE w == workers[m]
<1>1. WorkerOK(w, components, hypervisors) /\ Alone(w, components, hypervisors, pods)
  BY DEF PortsInv, PodsInv
<1>2. /\ InReconcile(m) /\ UNCHANGED <<components, hypervisors>>
      /\ \/ Become(m, [IdleWorker EXCEPT !.pc = "panicked"])
         \/ \E ok : Become(m, Reconciled(w, ok))
         \/ \E ok : Become(m, Reconciled(Uploaded(w, w.target), ok))
  <2>1. CASE ReconcileControlPlane(m)
    BY <2>1 DEF ReconcileControlPlane, store
  <2>2. CASE ReconcileIngress(m)
    BY <2>2, Zenon DEF ReconcileIngress, store
  <2>3. CASE ReconcileRefused(m) \/ ReconcileFails(m)
    BY <2>3, Zenon DEF ReconcileRefused, ReconcileFails, store
  <2> QED BY <2>1, <2>2, <2>3 DEF Runs
<1>3. w.pc \in {"reconcile", "own"} /\ w.pending = {}
  BY <1>2, Zenon DEF InReconcile
<1>4. /\ OnCourse(w, components, hypervisors) /\ Positioned(w) /\ w.target \in Component
      /\ Present(w, components, hypervisors)
  BY <1>1, <1>3, InReconcileFacts DEF Alone, Working
<1>5. \A p \in pods' : PodOK(p, components)
  <2>1. CASE pods' \subseteq pods
    BY <2>1, Zenon DEF PodsInv
  <2>2. CASE CanRun(w, w.target) /\ Adds(pods, pods', w, w.target)
    BY <2>2, <1>3, <1>4, StartedOK DEF Adds, PodsInv
  <2> QED BY <2>1, <2>2, <1>4, PodsOfStep DEF Runs, Step, Failure
<1>6. ASSUME NEW ok, NEW v \in {Reconciled(w, ok), Reconciled(Uploaded(w, w.target), ok)}
      PROVE  Alone(v, components, hypervisors, pods')
  <2>1. AfterReconcile(w, v)
    BY <1>1, <1>3, EndOfReconcile
  <2> QED BY <2>1, <1>4, AfterReconcileAlone, Zenon
<1>7. Alone([IdleWorker EXCEPT !.pc = "panicked"], components, hypervisors, pods')
  BY DEF Alone, Working, Tearing, IdleWorker
<1> QED BY <1>2, <1>5, <1>6, <1>7, LoneBecome

\* The steps of ReconcileDeletion.
Tears(m) ==
    \/ StopControlPlane(m) \/ StopIngress(m) \/ RemoveEtcdMember(m) \/ StopEtcd(m)
    \/ CleanUp(m)

\* They stop the pods of the component of the pass.
LEMMA TearingKeepsPods ==
  ASSUME PortRules, OneManager, PortsInv, PodsInv, NEW m \in Manager, Tears(m)
  PROVE  PodsInv'
<1> DEFINE w == workers[m]
<1> DEFINE c == w.component
<1>1. /\ WorkerOK(w, components, hypervisors) /\ Alone(w, components, hypervisors, pods)
      /\ \A p \in pods : PodOK(p, components)
  BY DEF PortsInv, PodsInv
<1>2. w.pc \in Tearing /\ UNCHANGED <<components, hypervisors>>
  BY Zenon DEF Tears, StopControlPlane, StopIngress, RemoveEtcdMember, StopEtcd, CleanUp,
     At, Tearing, store
<1>3. /\ OnCourse(w, components, hypervisors) /\ Present(w, components, hypervisors)
      /\ Stopped(w, pods)
      /\ c \in Scheduled(w.mem.components) \ Live(w.mem.components)
      /\ w.pc \in {"member", "stopEtcd"} => c \in ControlPlane
  BY <1>1, <1>2, TearingFacts, Zenon DEF Alone, Working
<1>4. ASSUME NEW v, NEW pcs, pcs \subseteq Tearing \cup {"save"}, Onward(v, w, pcs), Become(m, v),
             pods' \subseteq pods,
             \A p \in pods' : p.component = c => p.name \notin StoppedAt(v.pc)
      PROVE  PodsInv'
  <2>1. v.pc \notin {"reconcile", "own"}
    BY <1>4, Zenon DEF Onward, Tearing
  <2>2. Present(v, components, hypervisors) /\ v.component = c
    BY <2>1, <1>3, <1>4, OnwardPresent
  <2>3. Alone(v, components, hypervisors, pods')
    BY <2>2, <1>4, Zenon DEF Alone, Stopped
  <2> QED BY <2>3, <1>1, <1>2, <1>4, LoneBecome
<1>5. CASE StopControlPlane(m)
  <2>1. PICK v : v = LeavingEtcd([w EXCEPT !.mem = FreeComponentPort(@, w.component, "apiserver")])
    OBVIOUS
  <2>2. /\ w.pc = "stop" /\ c \in ControlPlane /\ Become(m, v)
        /\ pods' = DeletePod(pods, w, c, "control-plane")
    BY <2>1, <1>5 DEF StopControlPlane, At
  <2>3. Onward(v, w, {"member", "stopEtcd"})
    BY <2>1, <2>2, <1>1, StopControlPlaneOK, Zenon
  <2>4. \A p \in pods' : p \in pods /\ (p.component = c => p.name # "control-plane")
    BY <2>2, <1>1, <1>3, DeletePodStops
  <2>5. StoppedAt(v.pc) = {"control-plane"}
    BY <2>3, Zenon DEF Onward, StoppedAt
  <2> QED BY <2>2, <2>3, <2>4, <2>5, <1>4 DEF Tearing
<1>6. CASE StopIngress(m)
  <2>1. PICK v : v = LET mem == FreeComponentPort(w.mem, w.component, "apiserver")
                     IN  [w EXCEPT !.pc = "cleanup", !.mem =
                            IF VPNEnabled THEN FreeComponentPort(mem, w.component, "wireguard")
                            ELSE mem]
    OBVIOUS
  <2>2. /\ w.pc = "stop" /\ c \in Ingress /\ Become(m, v)
        /\ pods' = DeletePod(pods, w, c, "ingress")
    BY <2>1, <1>6 DEF StopIngress, At
  <2>3. Onward(v, w, {"cleanup"})
    BY <2>1, <2>2, <1>1, StopIngressOK, Zenon
  <2>4. \A p \in pods' : p \in pods /\ (p.component = c => p.name # "ingress")
    BY <2>2, <1>1, <1>3, DeletePodStops
  <2>5. v.pc = "cleanup" /\ StoppedAt("cleanup") = {"control-plane", "etcd", "ingress"}
    BY <2>3, Zenon DEF Onward, StoppedAt
  <2>6. \A p \in pods' : p.component = c => p.name \notin {"control-plane", "etcd", "ingress"}
    BY <2>2, <2>4, <1>1 DEF PodOK
  <2> QED BY <2>2, <2>3, <2>4, <2>5, <2>6, <1>4 DEF Tearing
<1>7. CASE RemoveEtcdMember(m)
  <2>1. PICK u : u = [w EXCEPT !.mem = RequestComponentPort(@, w.component, "etcd-peer")]
    BY Zenon
  <2>2. w.pc = "member" /\ w.pending = {} /\ pods' = pods
    BY <1>7 DEF RemoveEtcdMember, At
  <2>3. \/ Become(m, [w EXCEPT !.pc = "stopEtcd"]) \/ Become(m, [u EXCEPT !.pc = "stopEtcd"])
        \/ Become(m, Finishing(w)) \/ Become(m, Finishing(u))
    BY <2>1, <1>7 DEF RemoveEtcdMember
  <2>4. /\ Onward([w EXCEPT !.pc = "stopEtcd"], w, {"stopEtcd"})
        /\ Onward([u EXCEPT !.pc = "stopEtcd"], w, {"stopEtcd"})
        /\ Finishing(w).pc \notin Working /\ Finishing(u).pc \notin Working
    BY <2>1, <2>2, <1>1, RemoveEtcdMemberOK, Zenon
  <2>5. ASSUME NEW v, Become(m, v), Onward(v, w, {"stopEtcd"})
        PROVE  PodsInv'
    <3>1. StoppedAt(v.pc) = StoppedAt(w.pc)
      BY <2>2, <2>5 DEF Onward, StoppedAt
    <3> QED BY <2>2, <2>5, <3>1, <1>3, <1>4 DEF Stopped, Tearing
  <2>6. ASSUME NEW v, Become(m, v), v.pc \notin Working
        PROVE  PodsInv'
    BY <2>2, <2>6, <1>1, <1>2, LoneBecome DEF Alone
  <2> QED BY <2>3, <2>4, <2>5, <2>6
<1>8. CASE StopEtcd(m)
  <2>1. PICK v : v = [w EXCEPT !.pc = "cleanup",
                         !.mem = FreeComponentPort(FreeComponentPort(@, w.component, "etcd-peer"),
                                                   w.component, "etcd-client")]
    OBVIOUS
  <2>2. w.pc = "stopEtcd" /\ Become(m, v) /\ pods' = DeletePod(pods, w, c, "etcd")
    BY <2>1, <1>8 DEF StopEtcd, At
  <2>3. Onward(v, w, {"cleanup"})
    BY <2>1, <2>2, <1>1, StopEtcdOK, Zenon
  <2>4. \A p \in pods' : p \in pods /\ (p.component = c => p.name # "etcd")
    BY <2>2, <1>1, <1>3, DeletePodStops
  <2>5. v.pc = "cleanup" /\ StoppedAt("cleanup") = {"control-plane", "etcd", "ingress"}
    BY <2>3 DEF Onward, StoppedAt
  <2>6. c \notin Ingress /\ \A p \in pods : p.component = c => p.name # "control-plane"
    BY <2>2, <1>3, NamesAssumption DEF Stopped, StoppedAt
  <2>7. \A p \in pods' : p.component = c => p.name \notin {"control-plane", "etcd", "ingress"}
    BY <2>4, <2>6, <1>1, Zenon DEF PodOK
  <2> QED BY <2>2, <2>3, <2>4, <2>5, <2>7, <1>4 DEF Tearing
<1>9. CASE CleanUp(m)
  <2>1. PICK h : h = HypervisorOf(w, w.component)
    OBVIOUS
  <2>2. PICK v : v = [w EXCEPT !.pc = "save", !.mem.files[h][w.component] = {}]
    OBVIOUS
  <2>3. Become(m, v) /\ w.pc = "cleanup" /\ pods' = pods
    BY <2>1, <2>2, <1>9 DEF CleanUp, At, hosts
  <2>4. Onward(v, w, {"save"})
    BY <2>2, <2>3, <1>1, CleanUpOK, Zenon
  <2>5. StoppedAt(v.pc) = StoppedAt(w.pc)
    BY <2>3, <2>4 DEF Onward, StoppedAt
  <2> QED BY <2>3, <2>4, <2>5, <1>3, <1>4 DEF Stopped
<1> QED BY <1>5, <1>6, <1>7, <1>8, <1>9 DEF Tears

\* The steps that end a pass, start one or list the hypervisors.
Rests(m) ==
    \/ ListHypervisors(m) \/ SaveConflicts(m) \/ WriteConflicts(m) \/ Restart(m)
    \/ DeletionFails(m) \/ SaveFails(m) \/ WriteFails(m) \/ Crash(m)
    \/ \E c \in Component : Begin(m, c)

\* None of them starts a pod or leaves the worker with something to rely on.
LEMMA RestKeepsPods ==
  ASSUME PortRules, OneManager, PortsInv, PodsInv, NEW m \in Manager, Rests(m)
  PROVE  PodsInv'
<1> DEFINE w == workers[m]
<1>1. WorkerOK(w, components, hypervisors) /\ \A p \in pods : PodOK(p, components)
  BY DEF PortsInv, PodsInv
<1>2. pods' \subseteq pods /\ UNCHANGED <<components, hypervisors>>
  BY DeletePodAdds, Zenon DEF Rests, ListHypervisors, SaveConflicts, WriteConflicts, Restart,
     DeletionFails, SaveFails, WriteFails, Crash, Begin, store, hosts
<1>3. ASSUME NEW v, Become(m, v), v.pc \notin Working
      PROVE  PodsInv'
  BY <1>1, <1>2, <1>3, LoneBecome DEF Alone
<1>4. \A x, phase, attempt : Loading(x, phase, attempt).pc \notin Working
  BY DEF Loading, IdleWorker, Working, Tearing
<1>5. IdleWorker.pc \notin Working
  BY DEF IdleWorker, Working, Tearing
<1>6. CASE ListHypervisors(m)
  <2>1. PICK v : v = [w EXCEPT !.pc = "list", !.stale = {},
                         !.mem.hypervisors = hypervisors, !.mem.files = files,
                         !.read.hypervisors = hypervisors, !.read.files = files]
    BY Zenon
  <2>2. Become(m, v) /\ w.pc = "load"
    BY <2>1, <1>6, Zenon DEF ListHypervisors, At
  <2>3. IsWorker(w)
    BY <2>2, <1>1 DEF WorkerOK, Working, Writing, Tearing
  <2>4. v.pc = "list"
    BY <2>1, <2>3 DEF IsWorker, WorkerField
  <2> QED BY <2>2, <2>4, <1>3 DEF Working, Tearing
<1>7. CASE DeletionFails(m) \/ SaveConflicts(m) \/ SaveFails(m)
  <2>1. w.pc \in Working /\ Become(m, Finishing(w))
    BY <1>7, Zenon DEF DeletionFails, SaveConflicts, SaveFails, At, Working, Tearing
  <2>2. OnCourse(w, components, hypervisors)
    BY <2>1, <1>1 DEF WorkerOK, Working, Writing, Tearing
  <2> QED BY <2>1, <2>2, <1>3, FinishingOK
<1>8. CASE WriteConflicts(m) \/ WriteFails(m)
  <2>1. \E conflict \in BOOLEAN : Become(m, UpdateFailed(w, conflict))
    BY <1>8, Zenon DEF WriteConflicts, WriteFails
  <2> QED BY <2>1, <1>3, <1>4, <1>5 DEF UpdateFailed
<1>9. CASE Crash(m) \/ Restart(m)
  BY <1>3, <1>5, <1>9 DEF Crash, Restart
<1>10. CASE \E c \in Component : Begin(m, c)
  BY <1>3, <1>4, <1>10, Zenon DEF Begin
<1> QED BY <1>6, <1>7, <1>8, <1>9, <1>10 DEF Rests

\* The components are listed, or a port is looked up.
Lists(m) == ListComponents(m) \/ LookUp(m)

\* What the worker has then read, the API server has.
LEMMA ListingKeepsPods ==
  ASSUME PortRules, OneManager, PortsInv, PodsInv, NEW m \in Manager, Lists(m)
  PROVE  PodsInv'
<1> DEFINE w == workers[m]
<1>0. WorkerOK(w, components, hypervisors) /\ IsComponents(components)
  BY DEF PortsInv, StoreOK
<1>1. /\ StoreOK(components, hypervisors) /\ Alone(w, components, hypervisors, pods)
      /\ \A p \in pods : PodOK(p, components)
  BY DEF PortsInv, PodsInv
<1>2. pods' = pods /\ UNCHANGED <<components, hypervisors>>
  BY DEF Lists, ListComponents, LookUp, store, hosts
<1>3. ASSUME NEW v, Become(m, v), Alone(v, components, hypervisors, pods)
      PROVE  PodsInv'
  BY <1>1, <1>2, <1>3, LoneBecome
<1>4. CASE ListComponents(m)
  <2>1. PICK u : u = HavingListed(w, components)
    BY Zenon
  <2>2. PICK x : x = HavingFirst(u)
    BY Zenon
  <2>3. PICK v : v = IF u.component \notin Listed(components)
                     THEN [IdleWorker EXCEPT !.pc = "panicked"]
                     ELSE IF u.phase = "pre" THEN PreReconciled(u)
                     ELSE TakeNext(x)
    BY Zenon
  <2>4. Become(m, v) /\ w.pc = "list"
    BY <2>1, <2>2, <2>3, <1>4 DEF ListComponents, HavingListed, HavingFirst, At
  <2>5. u.component \in Listed(components) =>
           /\ u.phase = "pre" => /\ WorkerOK(PreReconciled(u), components, hypervisors)
                                 /\ PreReconciled(u).pc \notin Working
           /\ u.phase # "pre" =>
                 /\ WorkerOK(TakeNext(x), components, hypervisors) /\ TakesUp(x, TakeNext(x))
                 /\ OnCourse(x, components, hypervisors) /\ x.pc = "list"
                 /\ x.mem.components = components /\ x.read.components = components
                 /\ x.todo \subseteq Listed(components)
    BY <2>1, <2>2, <2>4, <1>0, ListComponentsOK
  <2>6. CASE u.component \notin Listed(components)
    <3>1. v.pc = "panicked"
      BY <2>3, <2>6 DEF IdleWorker
    <3> QED BY <2>4, <3>1, <1>3 DEF Alone, Working, Tearing
  <2>7. CASE u.component \in Listed(components) /\ u.phase = "pre"
    BY <2>3, <2>4, <2>5, <2>7, <1>3 DEF Alone
  <2>8. CASE u.component \in Listed(components) /\ u.phase # "pre"
    <3>1. Present(x, components, hypervisors)
      BY <2>5, <2>8, <1>1, ListedAlone, Zenon
    <3>2. Alone(TakeNext(x), components, hypervisors, pods)
      BY <3>1, <2>5, <2>8, TakesUpAlone
    <3> QED BY <3>2, <2>3, <2>4, <2>8, <1>3
  <2> QED BY <2>6, <2>7, <2>8
<1>5. CASE LookUp(m)
  <2>1. PICK l : l = CHOOSE x \in w.pending : TRUE
    BY Zenon
  <2>2. PICK v : v = LookedUp(w, l)
    BY Zenon
  <2>3. Become(m, v) /\ l \in w.pending
    <3>1. w.pending # {}
      BY <1>5 DEF LookUp
    <3>2. Become(m, v)
      BY <2>1, <2>2, <1>5, Zenon DEF LookUp, LookedUp
    <3> QED BY <3>1, <3>2, <2>1
  <2>4. /\ WorkerOK(v, components, hypervisors)
        /\ Onward(v, w, {w.pc}) /\ v.target = w.target
    <3>1. WorkerOK(w, components, hypervisors) /\ l \in w.pending
      BY <2>3, <1>0, Zenon
    <3> QED BY <3>1, <2>2, LookUpOK
  <2>5. w.pc \in Working /\ OnCourse(w, components, hypervisors) /\ v.pc = w.pc
    BY <2>3, <2>4, <1>0 DEF WorkerOK, ReadyToWrite, Onward
  <2>6. Present(w, components, hypervisors) /\ Stopped(w, pods)
    BY <2>5, <1>1, Zenon DEF Alone
  <2>7. v.pc \in {"reconcile", "own"} => v.target \in Listed(w.mem.components)
    BY <2>4, <2>5, <2>6, Zenon DEF Present
  <2>8. /\ Present(v, components, hypervisors)
        /\ Scheduled(v.mem.components) = Scheduled(w.mem.components)
        /\ Live(v.mem.components) = Live(w.mem.components)
        /\ v.component = w.component
    BY <2>4, <2>5, <2>6, <2>7, OnwardPresent
  <2>9. Alone(v, components, hypervisors, pods)
    BY <2>5, <2>6, <2>8, Zenon DEF Alone, Stopped
  <2> QED BY <2>3, <2>9, <1>3
<1> QED BY <1>4, <1>5 DEF Lists

\* What a lone worker relies on survives what others write, as it is the only one
\* that drops a finalizer.
LEMMA OvertakenAlone ==
  ASSUME NEW cs, NEW hs, NEW ps, NEW w, IsWorker(w), Alone(w, cs, hs, ps), NEW o,
         NEW newCs, \A c \in Component : newCs[c].phase = "gone" => cs[c].phase = "gone"
  PROVE  Alone(w, newCs, hs, ps) /\ Alone(Overtaken(w, o), newCs, hs, ps)
<1>1. Alone(w, newCs, hs, ps)
  BY DEF Alone, Present, Listed
<1>2. PICK v : v = Overtaken(w, o)
  BY Zenon
<1>3. /\ v.pc = w.pc /\ v.component = w.component /\ v.mem = w.mem /\ v.read = w.read
      /\ v.todo = w.todo /\ v.target = w.target
  BY <1>2, Zenon DEF Overtaken, IsWorker, WorkerField
<1>4. Present(w, newCs, hs) => Present(v, newCs, hs)
  BY <1>3 DEF Present, HypervisorOf
<1>5. Stopped(w, ps) => Stopped(v, ps)
  BY <1>3 DEF Stopped
<1> QED BY <1>1, <1>2, <1>3, <1>4, <1>5 DEF Alone

\* No component becomes gone and none is moved.
NoneGoes(old, new) ==
    \A c \in Component :
       /\ new[c].phase = "gone" => old[c].phase = "gone"
       /\ old[c].hypervisor \in Hypervisor => new[c].hypervisor = old[c].hypervisor

\* Others create, schedule and delete components, and edit objects.
LEMMA OthersKeepPods ==
  ASSUME PortsInv, PodsInv, Others
  PROVE  PodsInv'
<1>1. /\ IsComponents(components) /\ \A p \in pods : PodOK(p, components)
      /\ \A m \in Manager : /\ Alone(workers[m], components, hypervisors, pods)
                            /\ IsWorker(workers[m])
  BY DEF PortsInv, StoreOK, PodsInv, WorkerOK, OnCourse, ReadyToWrite, Informed
<1>2. pods' = pods /\ hypervisors' = hypervisors
  BY DEF Others, CreateComponent, DeleteComponent, ScheduleComponent, DeleteCluster,
         InitializeCluster, TouchHypervisor, store, hosts
<1>3. (\E o : workers' = Outdated(workers, o)) \/ workers' = workers
  BY DEF Others, CreateComponent, DeleteComponent, ScheduleComponent, DeleteCluster,
         InitializeCluster, TouchHypervisor
<1>4. NoneGoes(components, components')
  <2>1. \A c \in Component : IsComponent(components[c])
    BY <1>1 DEF IsComponents
  <2>2. components = [c \in Component |-> components[c]]
    BY <1>1 DEF IsComponents
  <2>3. ASSUME NEW x \in Component, NEW r, components' = [components EXCEPT ![x] = r],
               r.phase # "gone" \/ r.phase = components[x].phase,
               r.hypervisor = components[x].hypervisor \/ components[x].hypervisor \notin Hypervisor
        PROVE  NoneGoes(components, components')
    BY <2>2, <2>3 DEF NoneGoes
  <2>4. ASSUME NEW x \in Component, CreateComponent(x)
        PROVE  NoneGoes(components, components')
    <3>1. PICK r : r = [components[x] EXCEPT !.phase = "live"]
      BY Zenon
    <3>2. r.phase = "live" /\ r.hypervisor = components[x].hypervisor
      BY <3>1, <2>1, Zenon DEF IsComponent, ComponentField
    <3>3. components' = [components EXCEPT ![x] = r]
      BY <3>1, <2>4 DEF CreateComponent
    <3> QED BY <3>2, <3>3, <2>3, Zenon
  <2>5. ASSUME NEW x \in Component, DeleteComponent(x)
        PROVE  NoneGoes(components, components')
    <3>1. PICK r : r = [components[x] EXCEPT !.phase = "deleting"]
      BY Zenon
    <3>2. r.phase = "deleting" /\ r.hypervisor = components[x].hypervisor
      BY <3>1, <2>1, Zenon DEF IsComponent, ComponentField
    <3>3. components' = [components EXCEPT ![x] = r]
      BY <3>1, <2>5 DEF DeleteComponent
    <3> QED BY <3>2, <3>3, <2>3, Zenon
  <2>6. ASSUME NEW x \in Component, NEW h \in Hypervisor, ScheduleComponent(x, h)
        PROVE  NoneGoes(components, components')
    <3>1. PICK r : r = [components[x] EXCEPT !.hypervisor = h]
      BY Zenon
    <3>2. r.phase = components[x].phase
      BY <3>1, <2>1, Zenon DEF IsComponent, ComponentField
    <3>3. components' = [components EXCEPT ![x] = r]
      BY <3>1, <2>6 DEF ScheduleComponent
    <3>4. components[x].hypervisor \notin Hypervisor
      BY <2>6, NamesAssumption DEF ScheduleComponent, Scheduled, Listed
    <3> QED BY <3>2, <3>3, <3>4, <2>3, Zenon
  <2>7. CASE components' = components
    BY <2>7, Zenon DEF NoneGoes
  <2> QED BY <2>4, <2>5, <2>6, <2>7
          DEF Others, DeleteCluster, InitializeCluster, TouchHypervisor, store
<1>5. \A p \in pods : PodOK(p, components')
  BY <1>1, <1>4, Zenon DEF PodOK, NoneGoes
<1>6. ASSUME NEW m \in Manager
      PROVE  Alone(workers'[m], components', hypervisors, pods)
  <2>1. \/ workers'[m] = workers[m]
        \/ \E o : workers'[m] = Overtaken(workers[m], o)
    BY <1>3, Zenon DEF Outdated, Overtaken
  <2>2. IsWorker(workers[m]) /\ Alone(workers[m], components, hypervisors, pods)
    BY <1>1
  <2> QED BY <2>1, <2>2, <1>4, OvertakenAlone DEF NoneGoes
<1> QED BY <1>2, <1>5, <1>6, Zenon DEF PodsInv

\* A lone worker writes and goes on to UpdateResources or ends its pass.
LEMMA LoneWrite ==
  ASSUME OneManager, PortsInv, NEW m \in Manager, NEW v, IsWorker(v), v.pc \notin Working, NEW o,
         workers' = Outdated([workers EXCEPT ![m] = v], o),
         \A p \in pods' : PodOK(p, components')
  PROVE  PodsInv'
<1>1. PICK ws : ws = [workers EXCEPT ![m] = v]
  BY Zenon
<1>2. \A n \in Manager : ws[n] = v
  BY <1>1 DEF PortsInv, OneManager
<1>3. Overtaken(v, o).pc = v.pc
  BY DEF Overtaken, IsWorker, WorkerField
<1>4. \A n \in Manager : workers'[n] = v \/ workers'[n] = Overtaken(v, o)
  BY <1>1, <1>2, SMTT(30) DEF Outdated, Overtaken
<1> QED BY <1>3, <1>4, Zenon DEF PodsInv, Alone

\* The requested component is written by itself; when its finalizer is dropped its
\* pods are stopped, or it never had a hypervisor to run on.
LEMMA SaveKeepsPods ==
  ASSUME NEW cs, NEW hs, StoreOK(cs, hs), NEW w, WorkerOK(w, cs, hs), w.pc = "save",
         w.component \notin w.stale, NEW ps, Alone(w, cs, hs, ps), \A p \in ps : PodOK(p, cs),
         NEW newCs,
         newCs = WithComponent(cs, w.component,
                     IF w.component \in Live(w.mem.components)
                     THEN w.mem.components[w.component]
                     ELSE [AbsentComponent EXCEPT !.phase = "gone"])
  PROVE  \A p \in ps : PodOK(p, newCs)
<1>1. /\ OnCourse(w, cs, hs) /\ Present(w, cs, hs) /\ Stopped(w, ps)
  BY DEF WorkerOK, Working, Writing, Tearing, Alone
<1>2. PICK c : c = w.component
  BY Zenon
<1>3. /\ c \in Component /\ IsComponents(cs) /\ IsComponents(w.mem.components)
      /\ c \in Listed(w.mem.components)
      /\ w.mem.components[c].phase = cs[c].phase
      /\ w.mem.components[c].hypervisor = cs[c].hypervisor
  BY <1>1, <1>2, Zenon DEF OnCourse, Informed, ComponentsSeen, ComponentSeen, StoreOK,
                           IsWorker, IsMemory
<1>4. \A x \in Component \ {c} : newCs[x] = cs[x]
  BY <1>2, <1>3, Zenon DEF WithComponent, IsComponents
<1>5. CASE c \in Live(w.mem.components)
  <2>1. newCs[c] = w.mem.components[c]
    BY <1>2, <1>3, <1>5, Zenon DEF WithComponent, IsComponents
  <2>2. \A x \in Component : newCs[x].phase = cs[x].phase /\ newCs[x].hypervisor = cs[x].hypervisor
    BY <2>1, <1>3, <1>4
  <2> QED BY <2>2 DEF PodOK
<1>6. CASE c \notin Live(w.mem.components)
  <2>1. ASSUME NEW p \in ps, p.name # "wireguard"
        PROVE  p.component # c
    <3>1. PodOK(p, cs)
      OBVIOUS
    <3>2. CASE c \in Scheduled(w.mem.components)
      <4>1. p.component = c => p.name \notin {"control-plane", "etcd", "ingress"}
        BY <3>2, <1>1, <1>2, <1>6 DEF Stopped, StoppedAt
      <4> QED BY <4>1, <3>1, <2>1 DEF PodOK
    <3>3. CASE c \notin Scheduled(w.mem.components)
      <4>1. cs[c].hypervisor \notin Hypervisor
        BY <3>3, <1>3, NamesAssumption, Zenon DEF Scheduled, Listed
      <4> QED BY <4>1, <3>1, <2>1 DEF PodOK
    <3> QED BY <3>2, <3>3
  <2>2. ASSUME NEW p \in ps
        PROVE  PodOK(p, newCs)
    <3>1. PodOK(p, cs)
      OBVIOUS
    <3> QED BY <3>1, <2>1, <1>4 DEF PodOK
  <2> QED BY <2>2
<1> QED BY <1>5, <1>6

\* The steps that write.
Writes(m) ==
    \/ Save(m)
    \/ \E h \in Hypervisor : WriteHypervisor(m, h)
    \/ \E c \in Component : WriteComponent(m, c)

\* Only the last write of a deletion makes a component gone, once its pods are.
LEMMA WritesKeepPods ==
  ASSUME PortRules, OneManager, PortsInv, PodsInv, NEW m \in Manager, Writes(m)
  PROVE  PodsInv'
<1> DEFINE w == workers[m]
<1>1. /\ StoreOK(components, hypervisors) /\ WorkerOK(w, components, hypervisors)
      /\ workers = [n \in Manager |-> workers[n]]
  BY DEF PortsInv
<1>2. Alone(w, components, hypervisors, pods) /\ \A p \in pods : PodOK(p, components)
  BY DEF PodsInv
<1>3. /\ Save(m) => pods' = pods
      /\ \A h \in Hypervisor : WriteHypervisor(m, h) => pods' = pods
      /\ \A c \in Component : WriteComponent(m, c) => pods' = pods
  <2>1. Save(m) => pods' = pods
    BY Zenon DEF Save, hosts
  <2>2. \A h \in Hypervisor : WriteHypervisor(m, h) => pods' = pods
    BY Zenon DEF WriteHypervisor, hosts
  <2>3. \A c \in Component : WriteComponent(m, c) => pods' = pods
    BY Zenon DEF WriteComponent, hosts
  <2> QED BY <2>1, <2>2, <2>3
<1>4. \A v, cs, hs : WorkerOK(v, cs, hs) => IsWorker(v)
  BY Zenon DEF WorkerOK, OnCourse, ReadyToWrite, Informed
<1>5. ASSUME Save(m)
      PROVE  PodsInv'
  <2>1. /\ w.pc = "save" /\ w.component \notin w.stale
        /\ components' = WithComponent(components, w.component,
                            IF w.component \in Live(w.mem.components)
                            THEN w.mem.components[w.component]
                            ELSE [AbsentComponent EXCEPT !.phase = "gone"])
        /\ workers' = Outdated([workers EXCEPT ![m] = Finishing(w)], w.component)
    BY <1>5 DEF Save, At, WithComponent
  <2>2. \A p \in pods : PodOK(p, components')
    BY <2>1, <1>1, <1>2, SaveKeepsPods
  <2>3. OnCourse(w, components, hypervisors)
    BY <2>1, <1>1 DEF WorkerOK, Working, Writing, Tearing
  <2>4. IsWorker(Finishing(w)) /\ Finishing(w).pc \notin Working
    BY <2>3, <1>4, FinishingOK, Zenon
  <2> QED BY <2>1, <2>2, <2>4, <1>3, <1>5, LoneWrite
<1>6. ASSUME NEW h \in Hypervisor, WriteHypervisor(m, h)
      PROVE  PodsInv'
  <2>1. PICK u : u = ReadHypervisor(w, h, w.mem.hypervisors[h], w.mem.files[h], w.rewritten \ {h})
    BY Zenon
  <2>2. /\ w.pc = "hypervisors" /\ h \in Hypervisor \ w.stale
        /\ hypervisors' = [hypervisors EXCEPT ![h] = w.mem.hypervisors[h]]
        /\ components' = components
    BY <1>6, Zenon DEF WriteHypervisor, At
  <2>3. workers' = Outdated([workers EXCEPT ![m] = Updating(u)], h)
    BY <2>1, <1>1, <1>6, Zenon DEF WriteHypervisor, ReadHypervisor
  <2>4. WorkerOK(Updating(u), components, hypervisors') /\ Updating(u).pc \notin Working
    BY <2>1, <2>2, <1>1, HypervisorWritten, Zenon
  <2> QED BY <2>2, <2>3, <2>4, <1>2, <1>3, <1>4, <1>6, LoneWrite
<1>7. ASSUME NEW c \in Component, WriteComponent(m, c)
      PROVE  PodsInv'
  <2>1. PICK u : u = ReadComponent(w, c, w.mem.components[c])
    BY Zenon
  <2>2. /\ w.pc = "components" /\ c \in Component \ w.stale
        /\ components' = WithComponent(components, c, w.mem.components[c])
    BY <1>7 DEF WriteComponent, At, WithComponent
  <2>3. workers' = Outdated([workers EXCEPT ![m] = Updating(u)], c)
    BY <2>1, <1>1, <1>7 DEF WriteComponent, ReadComponent
  <2>4. WorkerOK(Updating(u), components', hypervisors) /\ Updating(u).pc \notin Working
    BY <2>1, <2>2, <1>1, ComponentWritten
  <2>5. /\ w.mem.components[c].phase = components[c].phase
        /\ w.mem.components[c].hypervisor = components[c].hypervisor
    BY <2>2, <1>1, Zenon DEF WorkerOK, Working, Writing, Tearing, ReadyToWrite, Informed,
                      ComponentsSeen, ComponentSeen
  <2>6. /\ components'[c] = w.mem.components[c]
        /\ \A x \in Component \ {c} : components'[x] = components[x]
    BY <2>2, <1>1 DEF StoreOK, IsComponents, WithComponent
  <2>7. \A x \in Component : /\ components'[x].phase = components[x].phase
                             /\ components'[x].hypervisor = components[x].hypervisor
    BY <2>5, <2>6, Zenon
  <2>8. \A p \in pods : PodOK(p, components')
    BY <2>7, <1>2 DEF PodOK
  <2> QED BY <2>3, <2>4, <2>8, <1>3, <1>4, <1>7, LoneWrite
<1> QED BY <1>5, <1>6, <1>7 DEF Writes

\* Every step keeps it.
LEMMA PodsInvNext ==
  ASSUME PortRules, OneManager, PortsInv, PodsInv, [Next]_vars
  PROVE  PodsInv'
<1>1. CASE UNCHANGED vars
  BY <1>1 DEF vars, hosts, store, PodsInv
<1>2. CASE Others
  BY <1>2, OthersKeepPods
<1>3. ASSUME NEW m \in Manager, Step(m) \/ Failure(m) \/ \E c \in Component : Begin(m, c)
      PROVE  PodsInv'
  <2>1. \/ Runs(m) \/ Tears(m) \/ Rests(m) \/ Lists(m) \/ Writes(m)
    BY <1>3, Zenon DEF Runs, Tears, Rests, Lists, Writes, Step, Failure
  <2> QED BY <2>1, ReconcileKeepsPods, TearingKeepsPods, RestKeepsPods, ListingKeepsPods,
             WritesKeepPods
<1> QED BY <1>1, <1>2, <1>3 DEF Next

-----------------------------------------------------------------------------
(***************************************************************************)
(* The bookkeeping of a hypervisor keeps its rules.                        *)
(***************************************************************************)

OneHypervisor == INSTANCE HypervisorPortsProofs WITH
                    Owner <- Component \X PortName, status <- NewStatus

\* The module of one hypervisor speaks of the same finite sets.
LEMMA SameCardinality ==
  \A S : /\ OneHypervisor!IsFiniteSet(S) <=> IsFiniteSet(S)
         /\ OneHypervisor!Cardinality(S) = Cardinality(S)
<1>1. \A S : OneHypervisor!IsFiniteSet(S) <=> IsFiniteSet(S)
  BY DEF OneHypervisor!IsFiniteSet, IsFiniteSet
<1>2. \A S : OneHypervisor!Cardinality(S) = Cardinality(S)
  BY Zenon DEF OneHypervisor!Cardinality, Cardinality
<1> QED BY <1>1, <1>2, Zenon

\* A status is sound there if it is sound here.
LEMMA SameSoundness == \A st : OneHypervisor!Sound(st) <=> Sound(st)
<1>1. \A st : OneHypervisor!InUse(st) = InUse(st)
  BY SameCardinality, Zenon DEF OneHypervisor!InUse, InUse
<1> QED BY <1>1, SameCardinality, Zenon
        DEF OneHypervisor!Sound, Sound, OneHypervisor!IsStatus, IsStatus,
            OneHypervisor!Exclusive, Exclusive, OneHypervisor!OnePerOwner, OnePerOwner,
            OneHypervisor!NoGaps, NoGaps, OneHypervisor!Allocated, Allocated,
            OneHypervisor!Freed, Freed, OneHypervisor!Range, Range

\* RequestPort and FreePort keep a status sound, and HasPort finds the port of an
\* owner among its entries.
LEMMA PortRulesHold == PortRules
<1>1. Sound(NewStatus)
  BY OneHypervisor!NewStatusSound, SameSoundness, PortRangeAssumption
     DEF OneHypervisor!NewStatus, NewStatus
<1>2. ASSUME NEW st, NEW owner, Sound(st)
      PROVE  /\ Sound(RequestPort(st, owner))
             /\ Sound(FreePort(st, owner))
             /\ PortOf(st, owner) \in (PortRangeLow..PortRangeHigh) \cup {NoPort}
             /\ PortOf(st, owner) # NoPort =>
                   [owner |-> owner, port |-> PortOf(st, owner)] \in st.allocatedPorts
  <2>1. OneHypervisor!Sound(st)
    BY <1>2, SameSoundness
  <2>2. /\ OneHypervisor!EntriesOf(st, owner) = EntriesOf(st, owner)
        /\ OneHypervisor!HasPort(st, owner) <=> HasPort(st, owner)
        /\ OneHypervisor!NoPort = NoPort
    BY DEF OneHypervisor!EntriesOf, EntriesOf, OneHypervisor!HasPort, HasPort,
           OneHypervisor!NoPort, NoPort
  <2>3. OneHypervisor!PortOf(st, owner) = PortOf(st, owner)
    BY <2>2 DEF OneHypervisor!PortOf, PortOf
  <2>4. /\ OneHypervisor!RequestPort(st, owner) = RequestPort(st, owner)
        /\ OneHypervisor!FreePort(st, owner) = FreePort(st, owner)
    <3>1. OneHypervisor!NextPort(st) = NextPort(st)
      BY SameCardinality DEF OneHypervisor!NextPort, NextPort
    <3>2. OneHypervisor!CanRequest(st, owner) <=> CanRequest(st, owner)
      BY <2>2, <3>1 DEF OneHypervisor!CanRequest, CanRequest,
                        OneHypervisor!Exhausted, Exhausted
    <3>3. OneHypervisor!RequestPort(st, owner) = RequestPort(st, owner)
      BY <2>2, <3>1, <3>2 DEF OneHypervisor!RequestPort, RequestPort
    <3>4. OneHypervisor!FreePort(st, owner) = FreePort(st, owner)
      BY <2>2, <2>3 DEF OneHypervisor!FreePort, FreePort
    <3> QED BY <3>3, <3>4
  <2>5. Sound(RequestPort(st, owner))
    BY <2>1, <2>4, OneHypervisor!RequestPortSound, SameSoundness, PortRangeAssumption
  <2>6. Sound(FreePort(st, owner))
    BY <2>1, <2>4, OneHypervisor!FreePortSound, SameSoundness, PortRangeAssumption
  <2> QED BY <2>1, <2>2, <2>3, <2>5, <2>6, OneHypervisor!PortOfType, PortRangeAssumption
<1> QED BY <1>1, <1>2 DEF PortRules

-----------------------------------------------------------------------------
(***************************************************************************)
(* The theorems.                                                           *)
(***************************************************************************)

\* The invariant of the component controller.
THEOREM PortsInvariant == Spec => []PortsInv
<1>1. Init => PortsInv
  BY PortRulesHold, PortsInvInit
<1>2. PortsInv /\ [Next]_vars => PortsInv'
  BY PortRulesHold, PortsInvNext
<1> QED BY <1>1, <1>2, PTL DEF Spec

\* However many managers run and whatever writes are lost, refused or repeated, the
\* status of every hypervisor names no port twice and has no gaps.
THEOREM HypervisorsStaySound == Spec => []HypervisorsSound
<1>1. PortsInv => HypervisorsSound
  BY Zenon DEF PortsInv, StoreOK, IsHypervisors, HypervisorsSound
<1> QED BY <1>1, PortsInvariant, PTL

\* UpdateResources writes the hypervisors first, and Save and WriteComponent write a
\* component only with ports that are: a port in the status of a live component is
\* allocated to it on its hypervisor.
THEOREM RecordedPortsAllocated == Spec => []PortsRecorded
<1>1. PortsInv => PortsRecorded
  BY DEF PortsInv, StoreOK, Recorded, Allotted, PortsRecorded, Live, Undeleted
<1> QED BY <1>1, PortsInvariant, PTL

\* Reconcile stops before a pod that lacks a port: whatever runs has a port of the
\* range for each it was made for, for any number of managers, also when hypervisors
\* run out of ports.
THEOREM RunningPodsHavePorts == Spec => []PodsHavePorts
<1>1. Init => PodsHavePorts
  BY DEF Init, PodsHavePorts
<1>2. PortsInv /\ PodsHavePorts /\ [Next]_vars => PodsHavePorts'
  BY PodsHavePortsNext
<1> QED BY <1>1, <1>2, PortsInvariant, PTL DEF Spec

\* With one manager, a pod of a component runs only while the API server has the
\* component, on the hypervisor it is placed on, and what ReconcileDeletion stopped
\* stays stopped until the component is saved: no other pass runs in between.
THEOREM PodsInvariant == OneManager => (Spec => []PodsInv)
<1> SUFFICES ASSUME OneManager
             PROVE  Spec => []PodsInv
  BY Zenon
<1>1. Init => PodsInv
  BY DEF Init, PodsInv, Alone, IdleWorker, Working, Tearing
<1>2. PortsInv /\ PodsInv /\ [Next]_vars => PodsInv'
  BY PortRulesHold, PodsInvNext
<1> QED BY <1>1, <1>2, PortsInvariant, PTL DEF Spec

\* With one manager, a component loses its finalizer only after ReconcileDeletion
\* stopped its pods, and no pass on another component, which may have listed this one
\* earlier, brings them back: of a component that is gone nothing runs.
THEOREM GoneRunsNothing == OneManager => (Spec => []NothingRunsWhenGone)
<1>1. PodsInv => NothingRunsWhenGone
  BY DEF PodsInv, PodOK, NothingRunsWhenGone
<1> QED BY <1>1, PodsInvariant, PTL

\* With one manager, what the pass on a component starts for it runs on ports that
\* UpdateResources wrote in the PreReconcile phase: they are allocated to it.
THEOREM OwnPodsOnReservedPorts == OneManager => (Spec => OwnPodsReserved)
<1> SUFFICES ASSUME OneManager
             PROVE  Spec => OwnPodsReserved
  OBVIOUS
<1>1. PortsInv /\ PodsInv /\ [Next]_vars =>
         [\A m \in Manager : At(m, "own") => \A p \in pods' \ pods : Reserved(p)]_vars
  <2> SUFFICES ASSUME PortsInv, PodsInv, Next, NEW m \in Manager, workers[m].pc = "own",
                      NEW p \in pods' \ pods
               PROVE  Reserved(p)
    BY DEF At
  <2> QED BY OwnPodsNext
<1> QED BY <1>1, PortsInvariant, PodsInvariant, PTL DEF Spec, OwnPodsReserved
=============================================================================
