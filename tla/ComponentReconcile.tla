------------------------ MODULE ComponentReconcile ------------------------
(***************************************************************************)
(* The component controller (controllers/component_reconciler.go) at work  *)
(* on the components of one cluster: it reads hypervisors and components   *)
(* from the API server, changes them in memory, acts on the hosts and on   *)
(* etcd, and writes back what it changed, one object at a time.            *)
(*                                                                         *)
(* The API server refuses the write of an object that somebody else wrote  *)
(* since it was read (resourceVersion).  A worker remembers the objects    *)
(* that were written since it listed them in `stale'; this is all that the *)
(* comparison of versions can tell.  A worker's own writes count too: the  *)
(* code does not take over the version a write returns.                    *)
(*                                                                         *)
(* Each manager runs one worker for this controller.  Leader election is   *)
(* off by default and a rolling update overlaps the old and the new        *)
(* manager, so there may be two.                                           *)
(*                                                                         *)
(* Left out: the contents of containers and certificates, the conditions   *)
(* in a component's status (IsDirty disregards them), etcd's quorum and    *)
(* its learners.                                                           *)
(***************************************************************************)
EXTENDS PortAllocation

CONSTANTS
    ControlPlane,          \* names of components with the control-plane role
    Ingress,               \* names of components with the ingress role
    PrivateHypervisor,     \* where the scheduler puts control planes
    PublicHypervisor,      \* where it puts ingresses
    NoHypervisor,          \* spec.hypervisor of an unscheduled component
    NoComponent,           \* what an idle worker works on
    Manager,               \* the running managers
    Replicas,              \* spec.controlPlaneReplicas of the cluster
    VPNEnabled,            \* spec.vpn.enabled of the cluster
    MaxAttempts,           \* steps of retry.DefaultRetry (5 in the library)
    MaxFaults,             \* bound on crashes, failed calls and outside edits
    MaxDeletions           \* bound on the components that are deleted

Component == ControlPlane \cup Ingress
Hypervisor == PrivateHypervisor \cup PublicHypervisor
PortName == {"apiserver", "etcd-peer", "etcd-client", "wireguard"}

\* A component has one role, objects of different kinds are different, and no
\* object has the empty name.
ASSUME NamesAssumption ==
    /\ ControlPlane \cap Ingress = {}
    /\ Component \cap Hypervisor = {}
    /\ NoComponent \notin Component
    /\ NoHypervisor \notin Hypervisor

VARIABLES
    components,            \* the component objects in the API server
    hypervisors,           \* the ports in the status of the hypervisor objects
    files,                 \* the files that status lists, per component
    cluster,               \* the cluster object
    pods,                  \* what runs on the hosts, with the ports it binds
    members,               \* the etcd members, of each etcd cluster
    workers,               \* the component controller of each manager
    faults                 \* how many faults there were

vars == <<components, hypervisors, files, cluster, pods, members, workers, faults>>
store == <<components, hypervisors, files, cluster>>
hosts == <<pods, members>>

-----------------------------------------------------------------------------
(***************************************************************************)
(* Components and their ports.                                             *)
(***************************************************************************)

NoPorts == [name \in PortName |-> NoPort]

AbsentComponent ==
    [phase |-> "absent", hypervisor |-> NoHypervisor, ports |-> NoPorts,
     endpoints |-> {}, certified |-> FALSE]

NoFiles == [c \in Component |-> {}]

\* The objects the API server lists: "gone" is a component whose finalizer was
\* dropped, "absent" one that is still to be created.
Listed(cs) == {c \in Component : cs[c].phase \in {"live", "deleting"}}
Live(cs) == {c \in Component : cs[c].phase = "live"}
Scheduled(cs) == {c \in Component : cs[c].hypervisor # NoHypervisor}

OwnPorts(c) ==
    IF c \in ControlPlane THEN {"apiserver", "etcd-peer", "etcd-client"}
    ELSE {"apiserver"} \cup (IF VPNEnabled THEN {"wireguard"} ELSE {})

\* component.RequestPort: the component's own record first, then the hypervisor.
\* mem is the in-memory state of a worker; on an exhausted hypervisor the
\* component is left without the port.
RequestComponentPort(mem, c, name) ==
    LET h == mem.components[c].hypervisor
        st == RequestPort(mem.hypervisors[h], <<c, name>>)
    IN  IF mem.components[c].ports[name] # NoPort THEN mem
        ELSE [mem EXCEPT !.hypervisors[h] = st,
                         !.components[c].ports[name] = PortOf(st, <<c, name>>)]

\* component.FreePort: a port the component does not know of is not looked for
\* on the hypervisor.
FreeComponentPort(mem, c, name) ==
    LET h == mem.components[c].hypervisor
        st == FreePort(mem.hypervisors[h], <<c, name>>)
    IN  IF mem.components[c].ports[name] = NoPort THEN mem
        ELSE [mem EXCEPT !.hypervisors[h] = st, !.components[c].ports[name] = NoPort]

HasPorts(mem, c, names) == \A name \in names : mem.components[c].ports[name] # NoPort

\* PreReconcile of a control plane and of an ingress: reserve, in memory, every
\* port the component is going to use.  It fails when one of them is missing
\* from the result.
PreReconcile(mem, c) ==
    LET api == RequestComponentPort(mem, c, "apiserver")
    IN  IF c \in ControlPlane
        THEN RequestComponentPort(
                 RequestComponentPort(api, c, "etcd-peer"), c, "etcd-client")
        ELSE IF VPNEnabled THEN RequestComponentPort(api, c, "wireguard") ELSE api

-----------------------------------------------------------------------------
(***************************************************************************)
(* Workers.                                                                *)
(***************************************************************************)

NewMemory ==
    [hypervisors |-> [h \in Hypervisor |-> NewStatus],
     files |-> [h \in Hypervisor |-> NoFiles],
     components |-> [c \in Component |-> AbsentComponent]]

NewCluster == [deleting |-> FALSE, initialized |-> FALSE]

IdleWorker ==
    [pc |-> "idle", phase |-> "main", component |-> NoComponent,
     attempt |-> 0, cluster |-> NewCluster, mem |-> NewMemory,
     read |-> NewMemory, stale |-> {}, todo |-> {}, target |-> NoComponent,
     pending |-> {}, rewritten |-> {}]

\* A worker about to list the hypervisors, in the PreReconcile phase ("pre") or
\* for the reconciliation itself ("main").
Loading(w, phase, attempt) ==
    [IdleWorker EXCEPT !.pc = "load", !.phase = phase, !.attempt = attempt,
        !.component = w.component, !.cluster = w.cluster]

\* IsDirty: the objects that differ, but for their conditions, from what was
\* read.  New certificates are not told apart here: `rewritten' has the
\* hypervisors they were uploaded to.
DirtyHypervisors(w) ==
    w.rewritten \cup
    {h \in Hypervisor : \/ w.mem.hypervisors[h] # w.read.hypervisors[h]
                        \/ w.mem.files[h] # w.read.files[h]}
DirtyComponents(w) ==
    {c \in Component : w.mem.components[c] # w.read.components[c]}

\* UpdateResources has these left to write: first the dirty hypervisors, then
\* the dirty components, then it returns.
Updating(w) ==
    IF DirtyHypervisors(w) # {} THEN [w EXCEPT !.pc = "hypervisors"]
    ELSE IF DirtyComponents(w) # {} THEN [w EXCEPT !.pc = "components"]
    ELSE IF w.phase = "pre" THEN Loading(w, "main", 0)
    ELSE IdleWorker

\* RefreshCachedSpecs on the reconciled component, then UpdateResources.
Finishing(w) ==
    Updating([w EXCEPT !.read.components[w.component] = w.mem.components[w.component],
                       !.todo = {}, !.target = NoComponent, !.pending = {}])

\* UpdateResources returned an error: RetryOnConflict starts the PreReconcile
\* phase anew after a conflict, otherwise the request is queued again.
UpdateFailed(w, conflict) ==
    IF w.phase = "pre" /\ conflict /\ w.attempt < MaxAttempts
    THEN Loading(w, "pre", w.attempt + 1)
    ELSE IdleWorker

\* Somebody wrote object o: what the workers read of it before is stale.
Outdated(ws, o) ==
    [m \in Manager |-> IF ws[m].pc = "idle" THEN ws[m]
                       ELSE [ws[m] EXCEPT !.stale = @ \cup {o}]]

At(m, pc) == workers[m].pc = pc

Become(m, w) == workers' = [workers EXCEPT ![m] = w]

\* One more fault happens.
Fault == faults < MaxFaults /\ faults' = faults + 1

-----------------------------------------------------------------------------
(***************************************************************************)
(* The other writers: the cluster controller, the scheduler, the           *)
(* initializer and users.                                                  *)
(***************************************************************************)

\* The cluster controller creates a component when too few are undeleted.
CreateComponent(c) ==
    /\ components[c].phase = "absent"
    /\ ~ cluster.deleting
    /\ IF c \in ControlPlane
       THEN Cardinality(Live(components) \cap ControlPlane) < Replicas
       ELSE Live(components) \cap Ingress = {}
    /\ components' = [components EXCEPT ![c].phase = "live"]
    /\ workers' = Outdated(workers, c)
    /\ UNCHANGED <<hypervisors, files, cluster, hosts, faults>>

\* The scheduler assigns a hypervisor of the kind the role asks for; also to a
\* component that is being deleted.
ScheduleComponent(c, h) ==
    /\ c \in Listed(components) \ Scheduled(components)
    /\ h \in IF c \in ControlPlane THEN PrivateHypervisor ELSE PublicHypervisor
    /\ components' = [components EXCEPT ![c].hypervisor = h]
    /\ workers' = Outdated(workers, c)
    /\ UNCHANGED <<hypervisors, files, cluster, hosts, faults>>

\* One more deletion is within the bound.
MayDelete ==
    Cardinality({c \in Component : components[c].phase \in {"deleting", "gone"}}) < MaxDeletions

\* A user or the cluster controller deletes a component: the finalizer keeps it.
DeleteComponent(c) ==
    /\ MayDelete
    /\ components[c].phase = "live"
    /\ components' = [components EXCEPT ![c].phase = "deleting"]
    /\ workers' = Outdated(workers, c)
    /\ UNCHANGED <<hypervisors, files, cluster, hosts, faults>>

DeleteCluster ==
    /\ ~ cluster.deleting /\ MayDelete
    /\ cluster' = [cluster EXCEPT !.deleting = TRUE]
    /\ UNCHANGED <<components, hypervisors, files, hosts, workers, faults>>

InitializeCluster ==
    /\ ~ cluster.initialized
    /\ cluster' = [cluster EXCEPT !.initialized = TRUE]
    /\ UNCHANGED <<components, hypervisors, files, hosts, workers, faults>>

\* Somebody edits a hypervisor object, a label say.
TouchHypervisor(h) ==
    /\ Fault
    /\ workers' = Outdated(workers, h)
    /\ UNCHANGED <<store, hosts>>

-----------------------------------------------------------------------------
(***************************************************************************)
(* Hosts and etcd.  A pod stands for what listens on its ports on a host;  *)
(* the VPN interface of the cluster is one too.                            *)
(***************************************************************************)

Hosts == [pods |-> pods, members |-> members]

\* The ports c has in memory, as the pods of c bind them.
PortsOf(w, c, names) == [name \in names |-> w.mem.components[c].ports[name]]

HypervisorOf(w, c) == w.mem.components[c].hypervisor

\* What the files of c depend on: the configuration of an ingress lists all
\* control planes, also those being deleted.
Contents(w, c) ==
    IF c \in ControlPlane THEN {<<c>>}
    ELSE {<<x, HypervisorOf(w, x), w.mem.components[x].ports["apiserver"]>> :
             x \in Listed(w.mem.components) \cap ControlPlane}

\* Certificates a control plane does not have yet are generated, and kept in its
\* status.
Uncertified(w, c) == c \in ControlPlane /\ ~ w.mem.components[c].certified

\* UploadFiles notes in the hypervisor's status what it uploaded.
Uploaded(w, c) ==
    LET h == HypervisorOf(w, c)
        new == Uncertified(w, c)
    IN  [w EXCEPT !.mem.files[h][c] = Contents(w, c),
                  !.mem.components[c].certified = @ \/ new,
                  !.rewritten = @ \cup (IF new THEN {h} ELSE {})]

PodsNamed(ps, c, name, h) ==
    {p \in ps : p.component = c /\ p.name = name /\ p.hypervisor = h}

\* EnsurePod keeps a running pod that is the same as the wanted one and
\* replaces any other of its name.
EnsurePod(ps, w, c, name, names) ==
    LET h == HypervisorOf(w, c)
    IN  (ps \ PodsNamed(ps, c, name, h)) \cup
            {[component |-> c, name |-> name, hypervisor |-> h,
              ports |-> PortsOf(w, c, names)]}

DeletePod(ps, w, c, name) == ps \ PodsNamed(ps, c, name, HypervisorOf(w, c))

\* The script that brings up the VPN interface, named after the cluster, leaves
\* an interface that exists as it is.
EnsureWireguard(ps, w, c) ==
    IF ~ VPNEnabled \/ \E p \in ps : p.name = "wireguard" /\
                                     p.hypervisor = HypervisorOf(w, c)
    THEN ps
    ELSE EnsurePod(ps, w, c, "wireguard", {"wireguard"})

PeerURL(w, c) == <<HypervisorOf(w, c), w.mem.components[c].ports["etcd-peer"]>>

\* The control planes whose ports the others look up.
Peers(w) == Live(w.mem.components) \cap Scheduled(w.mem.components) \cap ControlPlane

\* The control planes whose etcd a client dials: those not being deleted that
\* have a hypervisor and a client port.
EtcdEndpoints(w) ==
    {c \in Peers(w) : w.mem.components[c].ports["etcd-client"] # NoPort}

\* The etcd pods that listen where the client dials.
Dialled(w, ps) ==
    {p \in ps : p.name = "etcd" /\ \E c \in EtcdEndpoints(w) :
        /\ p.hypervisor = HypervisorOf(w, c)
        /\ p.ports["etcd-client"] = w.mem.components[c].ports["etcd-client"]}

\* The etcd clusters that answer a client, which needs certificates to ask.  The
\* control plane that bootstrapped a cluster names it.
EtcdClusters(w, hs) ==
    IF ~ w.cluster.initialized THEN {}
    ELSE {mb.cluster : mb \in {x \in hs.members :
              \E p \in Dialled(w, hs.pods) : p.component = x.component}}

\* runEtcd up to the pod: when etcd answers and does not know the component's
\* peer URL, the component is added.
AddEtcdMember(hs, w, c) ==
    {[hs EXCEPT !.members = @ \cup
         {[component |-> c, url |-> PeerURL(w, c), cluster |-> cl] :
             cl \in {k \in {e} : \A mb \in hs.members :
                        mb.cluster = k => mb.url # PeerURL(w, c)}}] :
        e \in EtcdClusters(w, hs)}
    \cup (IF EtcdClusters(w, hs) = {} THEN {hs} ELSE {})

\* The etcd pod.  When etcd answers, the pod joins it with the members it lists;
\* otherwise a control plane that is no member yet bootstraps a cluster.
RunEtcdPod(hs, w, c) ==
    [pods |-> EnsurePod(hs.pods, w, c, "etcd", {"etcd-peer", "etcd-client"}),
     members |-> IF \/ EtcdClusters(w, hs) # {}
                    \/ \E mb \in hs.members : mb.component = c
                 THEN hs.members
                 ELSE hs.members \cup
                        {[component |-> c, url |-> PeerURL(w, c), cluster |-> c]}]

\* runEtcd: what the hosts look like once the etcd pod of c runs.
RunEtcd(hs, w, c) == {RunEtcdPod(a, w, c) : a \in AddEtcdMember(hs, w, c)}

\* The last part of Reconcile on control plane c.  runEtcd fails after all when no
\* etcd answers: the client does not dial the etcd of a component that is being
\* deleted.
RunControlPlane(hs, w, c) ==
    IF EtcdClusters(w, hs) = {} THEN hs
    ELSE [hs EXCEPT !.pods = EnsurePod(@, w, c, "control-plane", {"apiserver"})]

RunIngress(hs, w, c) ==
    [hs EXCEPT !.pods =
        EnsureWireguard(EnsurePod(@, w, c, "ingress", {"apiserver"}), w, c)]

\* What the hosts look like when a call failed on the way.
RunPartly(hs, w, c) ==
    {hs} \cup
    (IF c \in ControlPlane
     THEN IF ~ w.cluster.initialized THEN {}
          ELSE LET added == AddEtcdMember(hs, w, c)
                   running == RunEtcd(hs, w, c)
               IN  added \cup running
                   \cup {[a EXCEPT !.pods = DeletePod(@, w, c, "etcd")] :
                             a \in {hs} \cup added}
                   \cup {[a EXCEPT !.pods = DeletePod(@, w, c, "control-plane")] :
                             a \in running}
     ELSE {[hs EXCEPT !.pods = DeletePod(@, w, c, "ingress")],
           [hs EXCEPT !.pods = EnsurePod(@, w, c, "ingress", {"apiserver"})]})

HostsBecome(hs) == pods' = hs.pods /\ members' = hs.members
-----------------------------------------------------------------------------
(***************************************************************************)
(* One pass of the component controller.                                   *)
(***************************************************************************)

\* Mutant: a component that is being deleted is left alone.
BeginUndeleted(m, c) ==
    /\ At(m, "idle")
    /\ c \in Live(components)
    /\ cluster.initialized
    /\ Become(m, Loading([IdleWorker EXCEPT !.component = c, !.cluster = cluster],
                         "pre", 1))
    /\ UNCHANGED <<store, hosts, faults>>

\* Reconcile reads the component and its cluster; an initialized cluster is
\* asked for unless the component is being deleted.  The cluster object it got
\* serves for the whole pass.
Begin(m, c) ==
    /\ At(m, "idle")
    /\ c \in Listed(components)
    /\ c \in Live(components) => cluster.initialized
    /\ LET w == [IdleWorker EXCEPT !.component = c, !.cluster = cluster]
       IN  Become(m, IF c \in Live(components) THEN Loading(w, "pre", 1)
                     ELSE Loading(w, "main", 0))
    /\ UNCHANGED <<store, hosts, faults>>

\* newComponentReconciler lists the hypervisors, then the components.
ListHypervisors(m) ==
    /\ At(m, "load")
    /\ Become(m, [workers[m] EXCEPT !.pc = "list", !.stale = {},
                     !.mem.hypervisors = hypervisors, !.mem.files = files,
                     !.read.hypervisors = hypervisors, !.read.files = files])
    /\ UNCHANGED <<store, hosts, faults>>

\* Mutants: the ports are not written; each component waits for the others'.
PreReconciledInMemory(w) ==
    IF w.component \notin Scheduled(w.mem.components) THEN IdleWorker
    ELSE Loading(w, "main", 0)
PreReconciledInTurn(w) ==
    IF /\ w.component \in Scheduled(w.mem.components)
       /\ \A c \in Listed(w.mem.components) \ {w.component} :
             HasPorts(w.mem, c, OwnPorts(c))
    THEN Updating([w EXCEPT !.mem = PreReconcile(w.mem, w.component)])
    ELSE IdleWorker

\* What follows in the PreReconcile phase: reserve the ports in memory and write
\* them unless nothing changed; give up when a port cannot be had.
PreReconciled(w) ==
    IF w.component \notin Scheduled(w.mem.components) THEN IdleWorker
    ELSE LET mem == PreReconcile(w.mem, w.component)
         IN  IF HasPorts(mem, w.component, OwnPorts(w.component))
             THEN Updating([w EXCEPT !.mem = mem])
             ELSE IdleWorker

\* The components to reconcile before the requested one: the ingresses, for a
\* control plane of a cluster that stays.  Reconcile takes an empty list for
\* "all components".
ReconciledFirst(w) ==
    LET listed == Listed(w.mem.components)
    IN  IF w.cluster.deleting \/ w.component \in Ingress THEN {}
        ELSE IF listed \cap Ingress = {} THEN listed
        ELSE listed \cap Ingress

\* Whether the other components are far enough for c: an ingress waits until
\* all control planes are listed and scheduled, a control plane until all
\* ingresses are scheduled.
OthersReady(w, c) ==
    LET others == Listed(w.mem.components) \cap
                      (IF c \in Ingress THEN ControlPlane ELSE Ingress)
    IN  /\ others \subseteq Scheduled(w.mem.components)
        /\ c \in Ingress => Cardinality(others) = Replicas

Missing(w, lookups) == {l \in lookups : w.mem.components[l[1]].ports[l[2]] = NoPort}

\* The ports of other components that Reconcile on c asks for.
Lookups(w, c) ==
    IF c \in Ingress THEN Peers(w) \X {"apiserver"}
    ELSE (Peers(w) \X {"etcd-client"}) \cup
             ((Listed(w.mem.components) \cap Ingress) \X {"apiserver"})

\* Reconcile on c begins: it requests its own ports, in memory, and is about to
\* look up those of others.  The hypervisor of an unscheduled component is a nil
\* pointer, which the first log line dereferences.
Reconciling(w, c, pc) ==
    LET v == [w EXCEPT !.pc = pc, !.target = c]
        mem == PreReconcile(w.mem, c)
    IN  IF c \in Ingress /\ ~ OthersReady(w, c) THEN v
        ELSE IF c \notin Scheduled(w.mem.components)
        THEN [IdleWorker EXCEPT !.pc = "panicked"]
        ELSE IF ~ OthersReady(w, c)
        THEN [v EXCEPT !.mem = RequestComponentPort(@, c, "apiserver")]
        ELSE [v EXCEPT !.mem = mem,
                       !.pending = Missing([v EXCEPT !.mem = mem], Lookups(w, c))]

\* The next component: the ones to reconcile first, in the order they are
\* listed, then the requested one, which is reconciled or, when it is being
\* deleted, torn down.
TakeNext(w) ==
    LET c == w.component
        t == CHOOSE x \in w.todo : TRUE
    IN  IF w.todo # {} THEN Reconciling([w EXCEPT !.todo = @ \ {t}], t, "reconcile")
        ELSE IF c \in Live(w.mem.components) THEN Reconciling(w, c, "own")
        ELSE IF c \in Scheduled(w.mem.components) THEN [w EXCEPT !.pc = "stop"]
        ELSE [w EXCEPT !.pc = "save"]

\* The component may be gone by now, and is dereferenced all the same.
ListComponents(m) ==
    /\ At(m, "list")
    /\ LET w == [workers[m] EXCEPT !.mem.components = components,
                    !.read.components = components, !.stale = @ \cap Hypervisor]
       IN  Become(m, IF w.component \notin Listed(components)
                     THEN [IdleWorker EXCEPT !.pc = "panicked"]
                     ELSE IF w.phase = "pre" THEN PreReconciled(w)
                     ELSE TakeNext([w EXCEPT !.todo = ReconciledFirst(w)]))
    /\ UNCHANGED <<store, hosts, faults>>

\* One in-memory request for a port of another component, by Reconcile or by
\* removeEtcdMember, in the order the components are listed.
LookUp(m) ==
    /\ workers[m].pending # {}
    /\ LET l == CHOOSE x \in workers[m].pending : TRUE
       IN  Become(m, [workers[m] EXCEPT !.pending = @ \ {l},
                         !.mem = RequestComponentPort(@, l[1], l[2])])
    /\ UNCHANGED <<store, hosts, faults>>

\* reconcileInputAndOutputEndpoints: where c serves and, for an ingress, where
\* the control planes behind it do.
Endpoints(w, c) ==
    LET cs == w.mem.components
        served == {c} \cup (IF c \in Ingress THEN Peers(w) ELSE {})
    IN  {<<x, cs[x].hypervisor, cs[x].ports["apiserver"]>> :
            x \in {y \in served : cs[y].ports["apiserver"] # NoPort}}

\* Mutant: no look at the errors of RequestPort.
CanRunAnyway(w, c) == OthersReady(w, c)

\* Reconcile gets past its checks on c: the others are ready, c has its ports
\* and, for an ingress, so have all control planes its configuration lists.
CanRun(w, c) ==
    /\ OthersReady(w, c)
    /\ HasPorts(w.mem, c, OwnPorts(c) \ {"wireguard"})
    /\ c \in Ingress => \A x \in Listed(w.mem.components) \cap ControlPlane :
                           HasPorts(w.mem, x, {"apiserver"})

\* Reconcile on the target returned.
Reconciled(w, ok) ==
    LET c == w.target
        changed == (c \in Ingress => OthersReady(w, c)) /\ HasPorts(w.mem, c, {"apiserver"})
        r == [w EXCEPT !.target = NoComponent,
                 !.mem.components[c].endpoints = IF changed THEN Endpoints(w, c) ELSE @]
    IN  IF w.pc = "reconcile" THEN TakeNext(r)
        ELSE IF ok THEN [r EXCEPT !.pc = "save"]
        ELSE Finishing(r)

InReconcile(m) == workers[m].pc \in {"reconcile", "own"} /\ workers[m].pending = {}

\* Reconcile on a control plane runs to its end.  A missing certificate authority
\* is a nil pointer.
ReconcileControlPlane(m) ==
    /\ InReconcile(m)
    /\ LET w == workers[m]
           c == w.target
       IN  /\ c \in ControlPlane /\ CanRun(w, c)
           /\ \/ /\ w.cluster.initialized
                 /\ \E hs \in RunEtcd(Hosts, w, c) :
                       /\ HostsBecome(RunControlPlane(hs, w, c))
                       /\ Become(m, Reconciled(Uploaded(w, c), EtcdClusters(w, hs) # {}))
              \/ /\ ~ w.cluster.initialized
                 /\ Become(m, [IdleWorker EXCEPT !.pc = "panicked"])
                 /\ UNCHANGED hosts
    /\ UNCHANGED <<store, faults>>

\* Reconcile on an ingress runs to its end.  A VPN port that cannot be had ends the
\* process (klog.Fatal).
ReconcileIngress(m) ==
    /\ InReconcile(m)
    /\ LET w == workers[m]
           c == w.target
       IN  /\ c \in Ingress /\ CanRun(w, c)
           /\ \/ /\ HasPorts(w.mem, c, OwnPorts(c))
                 /\ HostsBecome(RunIngress(Hosts, w, c))
                 /\ Become(m, Reconciled(Uploaded(w, c), TRUE))
              \/ /\ ~ HasPorts(w.mem, c, OwnPorts(c))
                 /\ pods' = EnsurePod(pods, w, c, "ingress", {"apiserver"})
                 /\ Become(m, [IdleWorker EXCEPT !.pc = "panicked"])
                 /\ UNCHANGED members
    /\ UNCHANGED <<store, faults>>

ReconcileRefused(m) ==
    /\ InReconcile(m)
    /\ ~ CanRun(workers[m], workers[m].target)
    /\ Become(m, Reconciled(workers[m], FALSE))
    /\ UNCHANGED <<store, hosts, faults>>

\* A call to the host or to etcd fails after some of the work was done.
ReconcileFails(m) ==
    /\ InReconcile(m)
    /\ CanRun(workers[m], workers[m].target)
    /\ Fault
    /\ \E hs \in RunPartly(Hosts, workers[m], workers[m].target) : HostsBecome(hs)
    /\ \/ hosts' = hosts /\ Become(m, Reconciled(workers[m], FALSE))
       \/ Become(m, Reconciled(Uploaded(workers[m], workers[m].target), FALSE))
    /\ UNCHANGED store

-----------------------------------------------------------------------------
(***************************************************************************)
(* ReconcileDeletion: stop what runs, leave etcd, give the ports back,     *)
(* clean up the host.  An error ends it; what was freed in memory until    *)
(* then is written with the hypervisors, but the component's own status is *)
(* not (RefreshCachedSpecs).                                               *)
(***************************************************************************)

\* Mutant: etcd is not told.
LeavingEtcdUnasked(w) == [w EXCEPT !.pc = "stopEtcd"]

\* After stopControlPlane; the lookups are those of etcdClientEndpoints.
LeavingEtcd(w) ==
    IF w.cluster.deleting THEN [w EXCEPT !.pc = "stopEtcd"]
    ELSE [w EXCEPT !.pc = "member",
             !.pending = Missing(w, Peers(w) \X {"etcd-client"})]

StopControlPlane(m) ==
    /\ At(m, "stop")
    /\ LET w == workers[m]
           c == w.component
       IN  /\ c \in ControlPlane
           /\ pods' = DeletePod(pods, w, c, "control-plane")
           /\ Become(m, LeavingEtcd([w EXCEPT !.mem = FreeComponentPort(@, c, "apiserver")]))
    /\ UNCHANGED <<store, members, faults>>

StopIngress(m) ==
    /\ At(m, "stop")
    /\ LET w == workers[m]
           c == w.component
           mem == FreeComponentPort(w.mem, c, "apiserver")
       IN  /\ c \in Ingress
           /\ pods' = DeletePod(pods, w, c, "ingress")
           /\ Become(m, [w EXCEPT !.pc = "cleanup", !.mem =
                   IF VPNEnabled THEN FreeComponentPort(mem, c, "wireguard") ELSE mem])
    /\ UNCHANGED <<store, members, faults>>

\* etcdMemberID: the members of etcd cluster cl with the component's peer URL.
EtcdMember(w, cl) ==
    {mb \in members : mb.cluster = cl /\ mb.url = PeerURL(w, w.component)}

\* etcd does not remove its only member.
Removable(cl, mbs) == {mb \in members : mb.cluster = cl} \ mbs # {}

\* removeEtcdMember looks for a member with the component's peer URL in the etcd
\* the remaining control planes serve, and removes it; it gives up after 60
\* failures.  With no control plane left there is nothing to leave.
RemoveEtcdMember(m) ==
    /\ At(m, "member") /\ workers[m].pending = {}
    /\ LET w == workers[m]
           v == [w EXCEPT !.mem = RequestComponentPort(@, w.component, "etcd-peer")]
       IN  \/ /\ EtcdEndpoints(w) = {}
              /\ Become(m, [w EXCEPT !.pc = "stopEtcd"])
              /\ UNCHANGED members
           \/ /\ EtcdEndpoints(w) # {} /\ EtcdClusters(w, Hosts) = {}
              /\ Become(m, Finishing(w))
              /\ UNCHANGED members
           \/ \E cl \in EtcdClusters(w, Hosts) :
                 IF /\ HasPorts(v.mem, w.component, {"etcd-peer"})
                    /\ EtcdMember(v, cl) # {} => Removable(cl, EtcdMember(v, cl))
                 THEN /\ members' = members \ EtcdMember(v, cl)
                      /\ Become(m, [v EXCEPT !.pc = "stopEtcd"])
                 ELSE Become(m, Finishing(v)) /\ UNCHANGED members
    /\ UNCHANGED <<store, pods, faults>>

StopEtcd(m) ==
    /\ At(m, "stopEtcd")
    /\ LET w == workers[m]
           c == w.component
       IN  /\ pods' = DeletePod(pods, w, c, "etcd")
           /\ Become(m, [w EXCEPT !.pc = "cleanup",
                 !.mem = FreeComponentPort(FreeComponentPort(@, c, "etcd-peer"),
                                           c, "etcd-client")])
    /\ UNCHANGED <<store, members, faults>>

\* hostCleanup removes the component's files from the host and then forgets them.
CleanUp(m) ==
    /\ At(m, "cleanup")
    /\ LET w == workers[m]
       IN  Become(m, [w EXCEPT !.pc = "save",
                         !.mem.files[HypervisorOf(w, w.component)][w.component] = {}])
    /\ UNCHANGED <<store, hosts, faults>>

\* Mutant: the error is logged and the finalizer dropped.
DeletionFailsSilently(m) ==
    /\ workers[m].pc \in {"stop", "member", "stopEtcd", "cleanup"}
    /\ workers[m].pending = {}
    /\ Fault
    /\ Become(m, [workers[m] EXCEPT !.pc = "save"])
    /\ UNCHANGED <<store, hosts>>

\* A call to the host or to etcd fails; a pod may have been stopped before the
\* call that was to remove it returned an error.
DeletionFails(m) ==
    /\ workers[m].pc \in {"stop", "member", "stopEtcd", "cleanup"}
    /\ workers[m].pending = {}
    /\ Fault
    /\ \/ UNCHANGED pods
       \/ /\ workers[m].pc \in {"stop", "stopEtcd"}
          /\ pods' = DeletePod(pods, workers[m], workers[m].component,
                               IF At(m, "stopEtcd") THEN "etcd"
                               ELSE IF workers[m].component \in Ingress THEN "ingress"
                               ELSE "control-plane")
    /\ Become(m, Finishing(workers[m]))
    /\ UNCHANGED <<store, members>>
-----------------------------------------------------------------------------
(***************************************************************************)
(* Writing back.                                                           *)
(***************************************************************************)

\* The requested component is written by itself: its status, or the object
\* without the finalizer, upon which the API server removes it.  Whatever comes
\* of it, the worker goes on to UpdateResources.
Save(m) ==
    /\ At(m, "save")
    /\ LET w == workers[m]
           c == w.component
       IN  /\ c \notin w.stale
           /\ components' = [components EXCEPT ![c] =
                 IF c \in Live(w.mem.components) THEN w.mem.components[c]
                 ELSE [AbsentComponent EXCEPT !.phase = "gone"]]
           /\ workers' = Outdated([workers EXCEPT ![m] = Finishing(w)], c)
    /\ UNCHANGED <<hypervisors, files, cluster, hosts, faults>>

SaveConflicts(m) ==
    /\ At(m, "save")
    /\ workers[m].component \in workers[m].stale
    /\ Become(m, Finishing(workers[m]))
    /\ UNCHANGED <<store, hosts, faults>>

SaveFails(m) ==
    /\ At(m, "save")
    /\ Fault
    /\ Become(m, Finishing(workers[m]))
    /\ UNCHANGED <<store, hosts>>

\* Mutant: the write does not carry the version that was read.
WriteHypervisorBlindly(m, h) ==
    /\ At(m, "hypervisors")
    /\ h \in DirtyHypervisors(workers[m])
    /\ hypervisors' = [hypervisors EXCEPT ![h] = workers[m].mem.hypervisors[h]]
    /\ files' = [files EXCEPT ![h] = workers[m].mem.files[h]]
    /\ workers' = Outdated([workers EXCEPT ![m] =
          Updating([@ EXCEPT !.read.hypervisors[h] = workers[m].mem.hypervisors[h],
                             !.read.files[h] = workers[m].mem.files[h],
                             !.rewritten = workers[m].rewritten \ {h}])], h)
    /\ UNCHANGED <<components, cluster, hosts, faults>>

\* UpdateResources writes the status of a dirty hypervisor.
WriteHypervisor(m, h) ==
    /\ At(m, "hypervisors")
    /\ h \in DirtyHypervisors(workers[m]) \ workers[m].stale
    /\ hypervisors' = [hypervisors EXCEPT ![h] = workers[m].mem.hypervisors[h]]
    /\ files' = [files EXCEPT ![h] = workers[m].mem.files[h]]
    /\ workers' = Outdated([workers EXCEPT ![m] =
          Updating([@ EXCEPT !.read.hypervisors[h] = workers[m].mem.hypervisors[h],
                             !.read.files[h] = workers[m].mem.files[h],
                             !.rewritten = workers[m].rewritten \ {h}])], h)
    /\ UNCHANGED <<components, cluster, hosts, faults>>

\* It writes the status of a dirty component.
WriteComponent(m, c) ==
    /\ At(m, "components")
    /\ c \in DirtyComponents(workers[m]) \ workers[m].stale
    /\ components' = [components EXCEPT ![c] = workers[m].mem.components[c]]
    /\ workers' = Outdated([workers EXCEPT ![m] =
          Updating([@ EXCEPT !.read.components[c] = workers[m].mem.components[c]])], c)
    /\ UNCHANGED <<hypervisors, files, cluster, hosts, faults>>

\* The objects UpdateResources is about to write.
ToWrite(w) ==
    IF w.pc = "hypervisors" THEN DirtyHypervisors(w)
    ELSE IF w.pc = "components" THEN DirtyComponents(w)
    ELSE {}

\* The API server refuses a write: the object changed since it was listed.
WriteConflicts(m) ==
    /\ ToWrite(workers[m]) \cap workers[m].stale # {}
    /\ Become(m, UpdateFailed(workers[m], TRUE))
    /\ UNCHANGED <<store, hosts, faults>>

WriteFails(m) ==
    /\ ToWrite(workers[m]) # {}
    /\ Fault
    /\ Become(m, UpdateFailed(workers[m], FALSE))
    /\ UNCHANGED <<store, hosts>>

\* The manager is killed and starts again: the request is queued again when the
\* new process lists the components.  A list call that fails has the same effect.
Crash(m) ==
    /\ workers[m].pc \notin {"idle", "panicked"}
    /\ Fault
    /\ Become(m, IdleWorker)
    /\ UNCHANGED <<store, hosts>>

\* The manager is started again after a panic.
Restart(m) ==
    /\ At(m, "panicked")
    /\ Become(m, IdleWorker)
    /\ UNCHANGED <<store, hosts, faults>>

-----------------------------------------------------------------------------

Init ==
    /\ components = [c \in Component |-> AbsentComponent]
    /\ hypervisors = [h \in Hypervisor |-> NewStatus]
    /\ files = [h \in Hypervisor |-> NoFiles]
    /\ cluster = NewCluster
    /\ pods = {}
    /\ members = {}
    /\ workers = [m \in Manager |-> IdleWorker]
    /\ faults = 0

\* The steps of a worker in the middle of a pass, when nothing fails.
Step(m) ==
    \/ ListHypervisors(m) \/ ListComponents(m) \/ LookUp(m)
    \/ ReconcileControlPlane(m) \/ ReconcileIngress(m) \/ ReconcileRefused(m)
    \/ StopControlPlane(m) \/ StopIngress(m) \/ RemoveEtcdMember(m) \/ StopEtcd(m)
    \/ CleanUp(m) \/ Save(m) \/ SaveConflicts(m)
    \/ \E h \in Hypervisor : WriteHypervisor(m, h)
    \/ \E c \in Component : WriteComponent(m, c)
    \/ WriteConflicts(m) \/ Restart(m)

Failure(m) ==
    ReconcileFails(m) \/ DeletionFails(m) \/ SaveFails(m) \/ WriteFails(m) \/ Crash(m)

Others ==
    \/ \E c \in Component :
          \/ CreateComponent(c) \/ DeleteComponent(c)
          \/ \E h \in Hypervisor : ScheduleComponent(c, h)
    \/ DeleteCluster \/ InitializeCluster
    \/ \E h \in Hypervisor : TouchHypervisor(h)

Next ==
    \/ \E m \in Manager : Step(m) \/ Failure(m) \/ \E c \in Component : Begin(m, c)
    \/ Others

Spec == Init /\ [][Next]_vars

\* The scheduler and the initializer are controllers that retry until they are
\* done; the work queue is served in order, and a component stays queued until a
\* pass on it succeeds.  A worker takes its next step unless the process dies:
\* Step(m) is enabled exactly when the worker is not idle, so the disjunction is
\* its weak fairness.
Fairness ==
    /\ WF_vars(InitializeCluster)
    /\ \A c \in Component : WF_vars(\E h \in Hypervisor : ScheduleComponent(c, h))
    /\ \A m \in Manager :
          /\ []<>(At(m, "idle")) \/ []<><<Step(m)>>_vars
          /\ \A c \in Component : SF_vars(Begin(m, c))

FairSpec == Spec /\ Fairness

-----------------------------------------------------------------------------
(***************************************************************************)
(* Properties.                                                             *)
(***************************************************************************)

\* The entry a hypervisor holds for port `name' of component c, as c records it.
Entry(c, name, port) == [owner |-> <<c, name>>, port |-> port]

\* The ports of pod p are allocated to its component on its host.
Reserved(p) ==
    \A name \in DOMAIN p.ports :
       Entry(p.component, name, p.ports[name]) \in hypervisors[p.hypervisor].allocatedPorts

\* Whatever writes were lost, refused or repeated, and however many managers run,
\* the status of a hypervisor names no port twice, gives no owner two ports and
\* has no gaps that would make RequestPort invent a port that is in use.
HypervisorsSound == \A h \in Hypervisor : Sound(hypervisors[h])

\* UpdateResources writes the hypervisors before the components, and each only
\* if it is current: a port in the status of a component that is not being
\* deleted is allocated to it, with that number, on its hypervisor.
PortsRecorded ==
    \A c \in Live(components) : \A name \in PortName :
       components[c].ports[name] # NoPort =>
          Entry(c, name, components[c].ports[name])
             \in hypervisors[components[c].hypervisor].allocatedPorts

\* The finalizer is dropped only after the component's pods were removed, and
\* nothing brings them back: of a component that is gone nothing runs on any
\* host.  (The VPN interface belongs to the cluster.)
NothingRunsWhenGone ==
    \A p \in pods : p.name # "wireguard" => components[p.component].phase # "gone"

\* A hypervisor that has run out of ports makes Reconcile stop before the pod that
\* lacks one, also when an earlier pass or another component's pass gave the
\* others away: whatever runs has a port of the range for each it was made for.
PodsHavePorts ==
    \A p \in pods : \A name \in DOMAIN p.ports :
       p.ports[name] \in PortRangeLow..PortRangeHigh

\* The reconciliation of the requested component, which follows the PreReconcile
\* phase, starts pods on no other ports than those allocated to the component in
\* the API server.
OwnPodsReserved ==
    [][\A m \in Manager : At(m, "own") => \A p \in pods' \ pods : Reserved(p)]_vars

\* removeEtcdMember precedes the removal of the data: a control plane that is
\* gone is no member of an etcd that a remaining control plane serves.
GoneLeftEtcd ==
    \A a, b \in members :
       ~ cluster.deleting /\ components[a.component].phase = "gone"
                          /\ components[b.component].phase = "live" =>
          a.cluster # b.cluster

\* ReconcileDeletion is retried until it succeeds, and it does in the end: a
\* component that is being deleted goes away.
DeletionCompletes ==
    \A c \in Component :
       components[c].phase = "deleting" ~> components[c].phase = "gone"

\* PreReconcile is retried until it succeeds: a component gets its ports, unless
\* it is deleted first.
PortsGranted ==
    \A c \in Component :
       components[c].phase = "live" ~>
          \/ components[c].phase # "live"
          \/ \A name \in OwnPorts(c) : components[c].ports[name] # NoPort

-----------------------------------------------------------------------------
(***************************************************************************)
(* What the repository says of the program and the program does not do.    *)
(***************************************************************************)

\* api: "FreedPorts is a list of ports available for usage, freed when
\* components have been deleted".  When no pass is under way, no port is still
\* allocated to a component that is gone.
GonePortsFreed ==
    (\A m \in Manager : At(m, "idle")) =>
       \A h \in Hypervisor : \A e \in hypervisors[h].allocatedPorts :
          components[e.owner[1]].phase # "gone"
=============================================================================
