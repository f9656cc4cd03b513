------------------------ MODULE ComponentScheduling ------------------------
(***************************************************************************)
(* The component scheduler: the controller that gives every component a    *)
(* hypervisor.  Each manager runs one.  A request for any component makes  *)
(* it list all components, then the hypervisors, and write those           *)
(* components that have no hypervisor, one by one.  A write of a component *)
(* that changed since it was listed is refused (`fresh' holds those that   *)
(* did not).                                                               *)
(***************************************************************************)
EXTENDS Naturals, FiniteSets

CONSTANTS
    ControlPlane,          \* names of components with the control-plane role
    Ingress,               \* names of components with the ingress role
    PrivateHypervisor,     \* hypervisors that run control planes
    PublicHypervisor,      \* hypervisors that run ingresses
    NoHypervisor,          \* the component is not scheduled
    Manager,               \* the running managers
    MaxEdits,              \* bound on deletions, and on hypervisors that come or go
    MaxFaults              \* bound on crashes and failed calls

Component == ControlPlane \cup Ingress
Hypervisor == PrivateHypervisor \cup PublicHypervisor

VARIABLES
    components,            \* the component objects: phase and hypervisor
    hypervisors,           \* the hypervisor objects there are
    queue,                 \* per manager, the requests of its scheduler
    scheduler,             \* per manager, the worker of its scheduler
    edits,                 \* how many edits users made
    faults                 \* how many faults there were

vars == <<components, hypervisors, queue, scheduler, edits, faults>>

-----------------------------------------------------------------------------

AbsentComponent == [phase |-> "absent", hypervisor |-> NoHypervisor]

Listed(cs) == {c \in Component : cs[c].phase \in {"live", "deleting"}}
Unscheduled(cs) == {c \in Listed(cs) : cs[c].hypervisor = NoHypervisor}

\* The components still to be placed, those of them that did not change since they
\* were listed, the component whose request is served and the hypervisors listed.
IdleScheduler ==
    [pc |-> "idle", request |-> {}, todo |-> {}, fresh |-> {}, present |-> {}]

\* The hypervisors for a component of c's role.
HypervisorsFor(c) == IF c \in ControlPlane THEN PrivateHypervisor ELSE PublicHypervisor

Fault == faults < MaxFaults /\ faults' = faults + 1
Edit == edits < MaxEdits /\ edits' = edits + 1

\* Component c is written, by a scheduler whose workers become ss or by another:
\* what anyone listed of it is outdated, and every scheduler gets a request.
WriteComponent(c, comp, ss) ==
    /\ components' = [components EXCEPT ![c] = comp]
    /\ scheduler' = [m \in Manager |-> [ss[m] EXCEPT !.fresh = @ \ {c}]]
    /\ queue' = [m \in Manager |-> queue[m] \cup {c}]

-----------------------------------------------------------------------------
(***************************************************************************)
(* The cluster controller, users and the component controller.             *)
(***************************************************************************)

CreateComponent(c) ==
    /\ components[c].phase = "absent"
    /\ WriteComponent(c, [AbsentComponent EXCEPT !.phase = "live"], scheduler)
    /\ UNCHANGED <<hypervisors, edits, faults>>

DeleteComponent(c) ==
    /\ components[c].phase = "live"
    /\ Edit
    /\ WriteComponent(c, [components[c] EXCEPT !.phase = "deleting"], scheduler)
    /\ UNCHANGED <<hypervisors, faults>>

\* The component controller finishes a deletion on the component's hypervisor.
FinishDeletion(c) ==
    /\ components[c].phase = "deleting" /\ components[c].hypervisor # NoHypervisor
    /\ WriteComponent(c, [components[c] EXCEPT !.phase = "gone"], scheduler)
    /\ UNCHANGED <<hypervisors, edits, faults>>

\* Nobody is told when a hypervisor comes or goes.
AddHypervisor(h) ==
    /\ h \notin hypervisors
    /\ Edit
    /\ hypervisors' = hypervisors \cup {h}
    /\ UNCHANGED <<components, queue, scheduler, faults>>

RemoveHypervisor(h) ==
    /\ h \in hypervisors
    /\ Edit
    /\ hypervisors' = hypervisors \ {h}
    /\ UNCHANGED <<components, queue, scheduler, faults>>

-----------------------------------------------------------------------------
(***************************************************************************)
(* The scheduler.                                                          *)
(***************************************************************************)

SchedulerList(m, c) ==
    /\ scheduler[m].pc = "idle"
    /\ c \in queue[m]
    /\ queue' = [queue EXCEPT ![m] = @ \ {c}]
    /\ LET todo == Unscheduled(components)
       IN  scheduler' = IF todo = {} THEN scheduler
                        ELSE [scheduler EXCEPT ![m] =
                                [IdleScheduler EXCEPT !.pc = "list", !.request = {c},
                                                      !.todo = todo, !.fresh = todo]]
    /\ UNCHANGED <<components, hypervisors, edits, faults>>

SchedulerListHypervisors(m) ==
    /\ scheduler[m].pc = "list"
    /\ scheduler' = [scheduler EXCEPT ![m].pc = "assign", ![m].present = hypervisors]
    /\ UNCHANGED <<components, hypervisors, queue, edits, faults>>

\* The hypervisors c may be placed on; Sample takes any of them.
Candidates(w, c) == w.present \cap HypervisorsFor(c)

\* Scheduler w is done with component c.
Assigned(w, c) ==
    IF w.todo = {c} THEN IdleScheduler ELSE [w EXCEPT !.todo = @ \ {c}]

\* Mutant: the write does not carry the version that was read.
SchedulerAssignBlindly(m, c, h) ==
    /\ scheduler[m].pc = "assign"
    /\ c \in scheduler[m].todo /\ c \in Listed(components)
    /\ h \in Candidates(scheduler[m], c)
    /\ WriteComponent(c, [components[c] EXCEPT !.hypervisor = h],
                      [scheduler EXCEPT ![m] = Assigned(@, c)])
    /\ UNCHANGED <<hypervisors, edits, faults>>

SchedulerAssign(m, c, h) ==
    /\ scheduler[m].pc = "assign"
    /\ c \in scheduler[m].todo \cap scheduler[m].fresh
    /\ h \in Candidates(scheduler[m], c)
    /\ WriteComponent(c, [components[c] EXCEPT !.hypervisor = h],
                      [scheduler EXCEPT ![m] = Assigned(@, c)])
    /\ UNCHANGED <<hypervisors, edits, faults>>

\* Mutant: a component that could not be placed is not looked at again.
ReasonsToRetryConflict(w, c) == IF Candidates(w, c) # {} THEN w.request ELSE {}

\* The request that is queued again when component c was not written: a failed
\* write is a reason in any case, the lack of a hypervisor only for c's own request.
ReasonsToRetry(w, c) == IF Candidates(w, c) # {} THEN w.request ELSE w.request \cap {c}

\* Component c stays without a hypervisor: there is none for it, or the write is
\* refused, or it fails.
SchedulerSkip(m, c) ==
    /\ scheduler[m].pc = "assign"
    /\ c \in scheduler[m].todo
    /\ IF c \in scheduler[m].fresh /\ Candidates(scheduler[m], c) # {}
       THEN Fault ELSE UNCHANGED faults
    /\ queue' = [queue EXCEPT ![m] = @ \cup ReasonsToRetry(scheduler[m], c)]
    /\ scheduler' = [scheduler EXCEPT ![m] = Assigned(@, c)]
    /\ UNCHANGED <<components, hypervisors, edits>>

\* The hypervisors cannot be listed; the request is tried again.
SchedulerFails(m) ==
    /\ scheduler[m].pc = "list"
    /\ Fault
    /\ queue' = [queue EXCEPT ![m] = @ \cup scheduler[m].request]
    /\ scheduler' = [scheduler EXCEPT ![m] = IdleScheduler]
    /\ UNCHANGED <<components, hypervisors, edits>>

\* The manager is killed and starts again: every component is queued.
Crash(m) ==
    /\ Fault
    /\ scheduler' = [scheduler EXCEPT ![m] = IdleScheduler]
    /\ queue' = [queue EXCEPT ![m] = Listed(components)]
    /\ UNCHANGED <<components, hypervisors, edits>>

-----------------------------------------------------------------------------

Init ==
    /\ components = [c \in Component |-> AbsentComponent]
    /\ hypervisors = {}
    /\ queue = [m \in Manager |-> {}]
    /\ scheduler = [m \in Manager |-> IdleScheduler]
    /\ edits = 0
    /\ faults = 0

SchedulerStep(m) ==
    \/ \E c \in Component : SchedulerList(m, c) \/ SchedulerSkip(m, c)
    \/ SchedulerListHypervisors(m)
    \/ \E c \in Component, h \in Hypervisor : SchedulerAssign(m, c, h)

Next ==
    \/ \E c \in Component : CreateComponent(c) \/ DeleteComponent(c) \/ FinishDeletion(c)
    \/ \E h \in Hypervisor : AddHypervisor(h) \/ RemoveHypervisor(h)
    \/ \E m \in Manager : SchedulerStep(m) \/ SchedulerFails(m) \/ Crash(m)

Spec == Init /\ [][Next]_vars

\* The worker goes on, and every request in its queue is served in the end: a work
\* queue is first in, first out.
FairSpec ==
    /\ Spec
    /\ \A m \in Manager :
          /\ WF_vars(SchedulerStep(m))
          /\ \A c \in Component : SF_vars(SchedulerList(m, c))

-----------------------------------------------------------------------------
(***************************************************************************)
(* Properties.                                                             *)
(***************************************************************************)

\* A component has its ports on, runs on and is torn down from the hypervisor in
\* its spec: a scheduler chooses one of its role, and once one is chosen no other
\* scheduler, working from an older list of components, chooses again.
PlacementKept ==
    [][\A c \in Listed(components) \cap Listed(components)' :
          components'[c].hypervisor # components[c].hypervisor =>
             /\ components[c].hypervisor = NoHypervisor
             /\ components'[c].hypervisor \in HypervisorsFor(c)]_vars

\* The scheduler is not told of hypervisors, and retries only the component whose
\* request it serves: still, where there is a hypervisor for a component to stay,
\* the component is placed in the end, deleted or not.
ComponentsScheduled ==
    \A c \in Component :
       <>[](hypervisors \cap HypervisorsFor(c) # {}) =>
          (c \in Unscheduled(components) ~> c \notin Unscheduled(components))
=============================================================================
