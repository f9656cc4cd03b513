------------------------- MODULE ClusterLifecycle -------------------------
(***************************************************************************)
(* The life of one cluster object: the web hooks that complete it, the     *)
(* initializer that generates its keys, the cluster controller that        *)
(* creates and deletes its components, and the cluster reconciler that     *)
(* publishes its endpoints and, when it is deleted, lets it go once its    *)
(* components are.                                                         *)
(*                                                                         *)
(* Each controller of each manager has a work queue and one worker.  A     *)
(* write of the cluster queues it with these controllers, a write of a     *)
(* component does not: none of them watches components.  Clients read the  *)
(* API server itself, not a cache.  A write fails when the object changed  *)
(* since it was read: `fresh' says it did not.  A worker that writes what  *)
(* is no longer fresh achieves nothing, so what it read is not remembered. *)
(*                                                                         *)
(* Of the scheduler (module ComponentScheduling) and of the component      *)
(* controller (module ComponentReconcile) this module has what the others  *)
(* see: a component gets a hypervisor and ports and, when it is deleted,   *)
(* loses its finalizer.                                                    *)
(***************************************************************************)
EXTENDS Naturals, FiniteSets

CONSTANTS
    ControlPlane,          \* names of components with the control-plane role
    Ingress,               \* names of components with the ingress role
    Manager,               \* the running managers
    NoKey,                 \* a key or certificate that is not there yet
    MaxReplicas,           \* bound on spec.controlPlaneReplicas
    MaxEdits,              \* bound on what users do to the cluster's objects
    MaxFaults              \* bound on crashes and failed calls

Component == ControlPlane \cup Ingress

\* A component has one role.
ASSUME RolesAssumption == ControlPlane \cap Ingress = {}

VARIABLES
    cluster,               \* the cluster object
    components,            \* the component objects
    queue,                 \* per manager, the requests its controllers have queued
    controller,            \* per manager, the worker of the cluster controller
    reconciler,            \* ... of the cluster reconciler
    initializer,           \* ... of the cluster initializer
    edits,                 \* how many edits users made
    faults                 \* how many faults there were

vars == <<cluster, components, queue, controller, reconciler, initializer, edits, faults>>
store == <<cluster, components>>
workers == <<controller, reconciler, initializer>>
bounds == <<edits, faults>>

-----------------------------------------------------------------------------
(***************************************************************************)
(* Objects.                                                                *)
(***************************************************************************)

NoStatus == [endpoint |-> {}, storage |-> {}]

AbsentCluster ==
    [phase |-> "absent", replicas |-> 0, ca |-> NoKey, joinKey |-> NoKey,
     labelled |-> FALSE, status |-> NoStatus]

\* Of a component: whether it has a hypervisor and ports.
NewComponent == [phase |-> "live", placed |-> FALSE, ports |-> FALSE]
AbsentComponent == [NewComponent EXCEPT !.phase = "absent"]

\* needsCertificateInitialization.
NeedsKeys(cl) == cl.ca = NoKey \/ cl.joinKey = NoKey

\* Mutant: only a cluster without any keys is labelled.
DefaultOnce(cl) ==
    [cl EXCEPT !.replicas = IF @ = 0 THEN 1 ELSE @,
               !.labelled = @ \/ (cl.ca = NoKey /\ cl.joinKey = NoKey)]

\* Mutant: when a key is missing, all of them are to be generated.
DefaultAnew(cl) ==
    [cl EXCEPT !.replicas = IF @ = 0 THEN 1 ELSE @, !.labelled = @ \/ NeedsKeys(cl),
               !.ca = IF NeedsKeys(cl) THEN NoKey ELSE @]

\* The web hook on creation and on every update of the cluster: at least one
\* replica, and a label when there are keys to generate.
Default(cl) ==
    [cl EXCEPT !.replicas = IF @ = 0 THEN 1 ELSE @, !.labelled = @ \/ NeedsKeys(cl)]

\* Mutant: a cluster that is being deleted is taken for one that is not there.
ExistsUndeleted(cl) == cl.phase = "live"

\* getCluster finds the cluster.
Exists(cl) == cl.phase \in {"live", "deleting"}

Listed(cs) == {c \in Component : cs[c].phase \in {"live", "deleting"}}
Live(cs) == {c \in Component : cs[c].phase = "live"}

-----------------------------------------------------------------------------
(***************************************************************************)
(* Queues and workers.                                                     *)
(***************************************************************************)

ClusterControllers == {"controller", "reconciler", "initializer"}

IdleController == [pc |-> "idle", replicas |-> 0, deleting |-> FALSE,
                   create |-> 0, delete |-> {}, expose |-> FALSE]
IdleReconciler == [pc |-> "idle", fresh |-> FALSE, keyless |-> FALSE, status |-> NoStatus]
IdleInitializer == [pc |-> "idle", fresh |-> FALSE]

\* Worker m of ws becomes w.
Become(ws, m, w) == [ws EXCEPT ![m] = w]

\* q after the requests rs were put into the queue of every manager.
Notify(q, rs) == [m \in Manager |-> q[m] \cup rs]

\* The request of manager m's controller k is taken from the queue; it is put back
\* when the pass asks for that.
Take(m, k) == k \in queue[m] /\ queue' = [queue EXCEPT ![m] = @ \ {k}]
Requeue(m, k) == queue' = [queue EXCEPT ![m] = @ \cup {k}]

\* The workers after a write of the cluster: what they read of it is outdated, and
\* the cluster reconciler will be refused whatever it has in hand.
OutdatedReconcilers(ws) ==
    [m \in Manager |-> IF ws[m].pc = "idle" THEN IdleReconciler
                       ELSE [IdleReconciler EXCEPT !.pc = "list", !.keyless = ws[m].keyless]]
Outdate(ws) == [m \in Manager |-> [ws[m] EXCEPT !.fresh = FALSE]]

\* The cluster object is written.  The workers of the writer itself are given.
WriteCluster(cl, rs, is) ==
    /\ cluster' = cl
    /\ reconciler' = OutdatedReconcilers(rs)
    /\ initializer' = Outdate(is)
    /\ queue' = Notify(queue, ClusterControllers)

\* Component c is written; nobody here waits for that.
WriteComponent(c, comp) == components' = [components EXCEPT ![c] = comp]

\* The requests for what there is.
Everything == IF Exists(cluster) THEN ClusterControllers ELSE {}

\* Manager m starts again: every object it watches is queued.
Restart(m) ==
    /\ controller' = Become(controller, m, IdleController)
    /\ reconciler' = Become(reconciler, m, IdleReconciler)
    /\ initializer' = Become(initializer, m, IdleInitializer)
    /\ queue' = [queue EXCEPT ![m] = Everything]

Fault == faults < MaxFaults /\ faults' = faults + 1
Edit == edits < MaxEdits /\ edits' = edits + 1

-----------------------------------------------------------------------------
(***************************************************************************)
(* Users, and the component controller.                                    *)
(***************************************************************************)

CreateCluster(n) ==
    /\ cluster.phase = "absent"
    /\ WriteCluster(Default([AbsentCluster EXCEPT !.phase = "live", !.replicas = n]),
                    reconciler, initializer)
    /\ UNCHANGED <<components, controller, bounds>>

ScaleCluster(n) ==
    /\ cluster.phase = "live" /\ n # cluster.replicas
    /\ Edit
    /\ WriteCluster(Default([cluster EXCEPT !.replicas = n]), reconciler, initializer)
    /\ UNCHANGED <<components, controller, faults>>

\* A user removes the join key for a new one to be generated.
RotateJoinKey ==
    /\ cluster.phase = "live" /\ cluster.joinKey # NoKey
    /\ Edit
    /\ WriteCluster(Default([cluster EXCEPT !.joinKey = NoKey]), reconciler, initializer)
    /\ UNCHANGED <<components, controller, faults>>

\* The web hook gave the cluster a finalizer, which keeps it for now.
DeleteCluster ==
    /\ cluster.phase = "live"
    /\ Edit
    /\ WriteCluster([cluster EXCEPT !.phase = "deleting"], reconciler, initializer)
    /\ UNCHANGED <<components, controller, faults>>

DeleteComponent(c) ==
    /\ components[c].phase = "live"
    /\ Edit
    /\ WriteComponent(c, [components[c] EXCEPT !.phase = "deleting"])
    /\ UNCHANGED <<cluster, queue, workers, faults>>

\* The scheduler found a hypervisor for a component, deleted or not.
ScheduleComponent(c) ==
    /\ c \in Listed(components) /\ ~ components[c].placed
    /\ WriteComponent(c, [components[c] EXCEPT !.placed = TRUE])
    /\ UNCHANGED <<cluster, queue, workers, bounds>>

\* PreReconcile allocated the ports of a component of an initialized cluster.
GrantPorts(c) ==
    /\ Exists(cluster) /\ ~ cluster.labelled
    /\ c \in Live(components) /\ components[c].placed /\ ~ components[c].ports
    /\ WriteComponent(c, [components[c] EXCEPT !.ports = TRUE])
    /\ UNCHANGED <<cluster, queue, workers, bounds>>

\* ReconcileDeletion of a component; the component controller asks for the cluster
\* first and waits when there is none.
FinishDeletion(c) ==
    /\ Exists(cluster)
    /\ components[c].phase = "deleting"
    /\ WriteComponent(c, [AbsentComponent EXCEPT !.phase = "gone"])
    /\ UNCHANGED <<cluster, queue, workers, bounds>>

-----------------------------------------------------------------------------
(***************************************************************************)
(* The cluster controller: read the cluster, list its components, create   *)
(* the missing ones and delete those in excess, one call at a time.        *)
(***************************************************************************)

ControllerGet(m) ==
    /\ controller[m].pc = "idle"
    /\ Take(m, "controller")
    /\ controller' = IF ~ Exists(cluster) THEN controller
                     ELSE Become(controller, m,
                            [IdleController EXCEPT !.pc = "list",
                               !.replicas = cluster.replicas,
                               !.deleting = cluster.phase = "deleting"])
    /\ UNCHANGED <<store, reconciler, initializer, bounds>>

\* The pass goes on while there is something left to do.
Going(w) ==
    IF w.create = 0 /\ w.delete = {} /\ ~ w.expose THEN IdleController ELSE w

\* Mutant: off by one.
ExcessButOne(n, max) == IF n > max THEN n - max - 1 ELSE 0

\* By how much n exceeds max, if it does.
Excess(n, max) == IF n > max THEN n - max ELSE 0

\* Mutant: an ingress counts once it is placed.
IngressesPlaced(cs) == {c \in Live(cs) \cap Ingress : cs[c].placed}

\* The undeleted components of each role.
ControlPlanes(cs) == Live(cs) \cap ControlPlane
Ingresses(cs) == Live(cs) \cap Ingress

\* What worker w sets out to do, given the components it listed.  The first ones
\* in excess are deleted, but names are random: any may be first.
Plans(w, cs) ==
    LET n == Cardinality(ControlPlanes(cs))
        k == Cardinality(Ingresses(cs))
    IN  IF w.deleting THEN {[w EXCEPT !.pc = "apply", !.delete = Listed(cs)]}
        ELSE {[w EXCEPT !.pc = "apply", !.create = Excess(w.replicas, n),
                        !.delete = s, !.expose = k = 0] :
                 s \in {x \in SUBSET (ControlPlanes(cs) \cup Ingresses(cs)) :
                          /\ Cardinality(x \cap ControlPlane) = Excess(n, w.replicas)
                          /\ Cardinality(x \cap Ingress) = Excess(k, 1)}}

ControllerList(m) ==
    /\ controller[m].pc = "list"
    /\ \E w \in Plans(controller[m], components) :
          controller' = Become(controller, m, Going(w))
    /\ UNCHANGED <<store, queue, reconciler, initializer, bounds>>

\* The control planes come first.
ControlPlanesDone(w) ==
    w.create = 0 /\ (w.deleting \/ w.delete \cap ControlPlane = {})

\* Creates one component, under a generated name.
ControllerCreate(m, c) ==
    /\ controller[m].pc = "apply"
    /\ components[c].phase = "absent"
    /\ LET w == controller[m]
       IN  controller' = Become(controller, m, Going(
               IF c \in ControlPlane THEN [w EXCEPT !.create = @ - 1]
               ELSE [w EXCEPT !.expose = FALSE]))
    /\ IF c \in ControlPlane THEN controller[m].create > 0
       ELSE controller[m].expose /\ ControlPlanesDone(controller[m])
    /\ c = CHOOSE x \in (IF c \in ControlPlane THEN ControlPlane ELSE Ingress) :
              components[x].phase = "absent"
    /\ WriteComponent(c, NewComponent)
    /\ UNCHANGED <<cluster, queue, reconciler, initializer, bounds>>

\* Deletes one component; one that is gone by now is an error, which ends the pass.
ControllerDelete(m, c) ==
    /\ controller[m].pc = "apply"
    /\ c \in controller[m].delete
    /\ c \in ControlPlane \/ ControlPlanesDone(controller[m])
    /\ \/ /\ components[c].phase = "gone"
          /\ controller' = Become(controller, m, IdleController)
          /\ Requeue(m, "controller")
          /\ UNCHANGED components
       \/ /\ c \in Listed(components)
          /\ controller' = Become(controller, m,
                              Going([controller[m] EXCEPT !.delete = @ \ {c}]))
          /\ IF c \in Live(components)
             THEN WriteComponent(c, [components[c] EXCEPT !.phase = "deleting"])
             ELSE UNCHANGED components
          /\ UNCHANGED queue
    /\ UNCHANGED <<cluster, reconciler, initializer, bounds>>

ControllerFails(m) ==
    /\ controller[m].pc # "idle"
    /\ Fault
    /\ controller' = Become(controller, m, IdleController)
    /\ Requeue(m, "controller")
    /\ UNCHANGED <<store, reconciler, initializer, edits>>

-----------------------------------------------------------------------------
(***************************************************************************)
(* The cluster reconciler: read the cluster, list hypervisors and          *)
(* components, publish the endpoints or drop the finalizer.                *)
(***************************************************************************)

ReconcilerGet(m) ==
    /\ reconciler[m].pc = "idle"
    /\ Take(m, "reconciler")
    /\ reconciler' = IF ~ Exists(cluster) THEN reconciler
                     ELSE Become(reconciler, m,
                            [IdleReconciler EXCEPT !.pc = "list", !.fresh = TRUE,
                               !.keyless = cluster.phase = "live" /\ cluster.joinKey = NoKey])
    /\ UNCHANGED <<store, controller, initializer, bounds>>

\* Mutant: storage endpoints are only ever added.
StatusExtended(st, cs) ==
    [st EXCEPT !.endpoint = Listed(cs) \cap Ingress, !.storage = @ \cup ControlPlanes(cs)]

\* The endpoints to publish: of the ingress, deleted or not, and of the control
\* planes that are not being deleted.
StatusOf(st, cs) ==
    [st EXCEPT !.endpoint = Listed(cs) \cap Ingress, !.storage = ControlPlanes(cs)]

\* IsClusterFullyScheduled and reconcileAPIServerEndpoint: all components have a
\* hypervisor, and the one ingress has its ports.
Exposed(cs) ==
    /\ Cardinality(Listed(cs) \cap Ingress) = 1
    /\ \A c \in Listed(cs) : cs[c].placed /\ (c \in Ingress => cs[c].ports)

\* All checks of Reconcile on a cluster with n replicas: there are as many control
\* planes as desired, deleted or not, with ports for those that are published.
CanPublish(cs, n) ==
    /\ Exposed(cs)
    /\ Cardinality(Listed(cs) \cap ControlPlane) = n
    /\ \A c \in ControlPlanes(cs) : cs[c].ports

\* ReconcileDeletion: all components are deleted.
AllDeleted(cs) == Listed(cs) = {}

ReconcilerList(m) ==
    /\ reconciler[m].pc = "list" /\ reconciler[m].fresh
    /\ \/ /\ cluster.phase = "live" /\ ~ reconciler[m].keyless
          /\ CanPublish(components, cluster.replicas)
          /\ reconciler' = [reconciler EXCEPT ![m].pc = "publish",
                                              ![m].status = StatusOf(cluster.status, components)]
       \/ /\ cluster.phase = "deleting"
          /\ AllDeleted(components)
          /\ reconciler' = [reconciler EXCEPT ![m].pc = "finalize"]
    /\ UNCHANGED <<store, queue, controller, initializer, bounds>>

\* Reconcile is going to publish the public part of a join key that is not there.
Doomed(m) ==
    reconciler[m].pc = "list" /\ reconciler[m].keyless /\ Exposed(components)

\* A check fails, or the API server of the cluster, which Reconcile talks to, does
\* not answer; or the cluster changed, and the write to come is refused.
ReconcilerRefuses(m) ==
    /\ reconciler[m].pc # "idle"
    /\ ~ Doomed(m)
    /\ \/ ~ reconciler[m].fresh
       \/ reconciler[m].pc = "list" /\ ~ (cluster.phase = "deleting" /\ AllDeleted(components))
    /\ reconciler' = Become(reconciler, m, IdleReconciler)
    /\ Requeue(m, "reconciler")
    /\ UNCHANGED <<store, controller, initializer, bounds>>

\* The write of the status, which is new even if the endpoints are not (the
\* conditions carry the time), or of the object without its finalizer.
ReconcilerWrite(m) ==
    /\ reconciler[m].pc \in {"publish", "finalize"} /\ reconciler[m].fresh
    /\ WriteCluster(IF reconciler[m].pc = "publish"
                    THEN [cluster EXCEPT !.status = reconciler[m].status]
                    ELSE [AbsentCluster EXCEPT !.phase = "gone"],
                    Become(reconciler, m, IdleReconciler), initializer)
    /\ UNCHANGED <<components, controller, bounds>>

\* The nil pointer ends the process.
ReconcilerPanics(m) == Doomed(m) /\ Restart(m) /\ UNCHANGED <<store, bounds>>

ReconcilerFails(m) ==
    /\ reconciler[m].pc # "idle"
    /\ Fault
    /\ reconciler' = Become(reconciler, m, IdleReconciler)
    /\ Requeue(m, "reconciler")
    /\ UNCHANGED <<store, controller, initializer, edits>>

-----------------------------------------------------------------------------
(***************************************************************************)
(* The cluster initializer.                                                *)
(***************************************************************************)

\* InitializeCertificatesAndKeys generates the keys that are missing (they are
\* told apart by the manager that did); then the label is removed.
Initialized(cl, m) ==
    [cl EXCEPT !.ca = IF @ = NoKey THEN m ELSE @,
               !.joinKey = IF @ = NoKey THEN m ELSE @, !.labelled = FALSE]

\* A cluster that is not there is asked for again and again.
InitializerGet(m) ==
    /\ initializer[m].pc = "idle"
    /\ Exists(cluster)
    /\ Take(m, "initializer")
    /\ initializer' = IF ~ cluster.labelled THEN initializer
                      ELSE Become(initializer, m, [pc |-> "write", fresh |-> TRUE])
    /\ UNCHANGED <<store, controller, reconciler, bounds>>

InitializerWrite(m) ==
    /\ initializer[m].pc = "write"
    /\ IF initializer[m].fresh
       THEN WriteCluster(Default(Initialized(cluster, m)), reconciler,
                         Become(initializer, m, IdleInitializer))
       ELSE /\ initializer' = Become(initializer, m, IdleInitializer)
            /\ Requeue(m, "initializer")
            /\ UNCHANGED <<cluster, reconciler>>
    /\ UNCHANGED <<components, controller, bounds>>

InitializerFails(m) ==
    /\ initializer[m].pc # "idle"
    /\ Fault
    /\ initializer' = Become(initializer, m, IdleInitializer)
    /\ Requeue(m, "initializer")
    /\ UNCHANGED <<store, controller, reconciler, edits>>

-----------------------------------------------------------------------------

\* The manager is killed.
Crash(m) == Fault /\ Restart(m) /\ UNCHANGED <<store, edits>>

\* The informers repeat what they know every ten hours.
Resync(m) ==
    /\ ~ Everything \subseteq queue[m]
    /\ queue' = [queue EXCEPT ![m] = @ \cup Everything]
    /\ UNCHANGED <<store, workers, bounds>>

Init ==
    /\ cluster = AbsentCluster
    /\ components = [c \in Component |-> AbsentComponent]
    /\ queue = [m \in Manager |-> {}]
    /\ controller = [m \in Manager |-> IdleController]
    /\ reconciler = [m \in Manager |-> IdleReconciler]
    /\ initializer = [m \in Manager |-> IdleInitializer]
    /\ edits = 0
    /\ faults = 0

Users ==
    \/ \E n \in 0..MaxReplicas : CreateCluster(n) \/ ScaleCluster(n)
    \/ RotateJoinKey \/ DeleteCluster
    \/ \E c \in Component : DeleteComponent(c)

ControllerStep(m) ==
    \/ ControllerGet(m) \/ ControllerList(m)
    \/ \E c \in Component : ControllerCreate(m, c) \/ ControllerDelete(m, c)

ReconcilerStep(m) ==
    \/ ReconcilerGet(m) \/ ReconcilerList(m) \/ ReconcilerRefuses(m)
    \/ ReconcilerWrite(m) \/ ReconcilerPanics(m)

InitializerStep(m) == InitializerGet(m) \/ InitializerWrite(m)

Failure(m) ==
    ControllerFails(m) \/ ReconcilerFails(m) \/ InitializerFails(m) \/ Crash(m)

Next ==
    \/ Users
    \/ \E c \in Component : ScheduleComponent(c) \/ GrantPorts(c) \/ FinishDeletion(c)
    \/ \E m \in Manager : \/ ControllerStep(m) \/ ReconcilerStep(m)
                          \/ InitializerStep(m) \/ Failure(m) \/ Resync(m)

Spec == Init /\ [][Next]_vars

\* Each worker serves its queue, the informers resync, the component controller
\* does its part, the API server of a cluster that could be published answers in
\* the end, and a manager that keeps panicking does not always do so before its
\* initializer has written.
Fairness ==
    /\ \A c \in Component : /\ WF_vars(ScheduleComponent(c)) /\ WF_vars(GrantPorts(c))
                           /\ WF_vars(FinishDeletion(c))
    /\ \A m \in Manager :
          /\ WF_vars(ControllerStep(m)) /\ WF_vars(ReconcilerStep(m))
          /\ WF_vars(InitializerStep(m)) /\ WF_vars(Resync(m))
          /\ SF_vars(ReconcilerList(m)) /\ SF_vars(InitializerWrite(m))

FairSpec == Spec /\ Fairness

-----------------------------------------------------------------------------
(***************************************************************************)
(* Properties.                                                             *)
(***************************************************************************)

\* The component controller dereferences the keys of a cluster that does not
\* carry the uninitialized-certificates label: it has them all, whatever users
\* remove and whoever writes the cluster meanwhile.
UnlabelledHasKeys == Exists(cluster) /\ ~ cluster.labelled => ~ NeedsKeys(cluster)

\* The certificate authority of a cluster is generated once: no second manager
\* and no later initialization replaces it while the cluster is there.
AuthorityKept ==
    [][cluster.ca # NoKey /\ Exists(cluster)' => cluster'.ca = cluster.ca]_vars

\* The cluster controller lists before it creates: a single manager never has two
\* undeleted ingresses of a cluster.
OneIngress == Cardinality(Live(components) \cap Ingress) <= 1

\* A deleted control plane is replaced, a missing one created, one in excess
\* deleted: when users stop, the cluster comes to rest with as many control planes
\* as desired and one ingress.
Converges ==
    <>[](cluster.phase = "live") =>
       <>[](/\ Cardinality(Live(components) \cap ControlPlane) = cluster.replicas
            /\ Cardinality(Live(components) \cap Ingress) = 1)

\* The endpoints in the status of the cluster, which etcd members and worker nodes
\* are set up from, follow the components in the end.
EndpointsFollow ==
    <>[](cluster.phase = "live") =>
       <>[](/\ cluster.status.endpoint = Live(components) \cap Ingress
            /\ cluster.status.storage = Live(components) \cap ControlPlane)

\* A cluster that is deleted goes away, also when it is deleted while the cluster
\* controller creates its components.
ClusterGoes == cluster.phase = "deleting" ~> cluster.phase = "gone"
=============================================================================
