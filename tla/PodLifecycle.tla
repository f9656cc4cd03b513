--------------------------- MODULE PodLifecycle ---------------------------
(***************************************************************************)
(* Pods on a hypervisor: EnsurePod and RunAndWaitForPod against the        *)
(* container runtime, call by call.                                        *)
(*                                                                         *)
(* There is one pod name of one component.  A pod is known by the SHA-1 of *)
(* its manifest, its version: when the manifest changes, so does the       *)
(* version that is wanted.  The runtime has sandboxes with containers in   *)
(* them; a sandbox id is never used again.  Managers call EnsurePod again  *)
(* and again, or, for a pod that is a job, RunAndWaitForPod until it       *)
(* succeeds.                                                               *)
(***************************************************************************)
EXTENDS Naturals, FiniteSets

CONSTANTS
    Container,             \* the containers of the pod
    Version,               \* manifests of the pod
    NoVersion,             \* of a sandbox there is not
    Manager,               \* the running managers
    MaxSandboxes,          \* bound on sandboxes ever created
    MaxChanges,            \* bound on changes of the manifest
    MaxExits,              \* bound on containers that end unexpectedly, and reboots
    MaxFaults              \* bound on failed calls and crashes

\* A pod has containers.
ASSUME ContainerAssumption == Container # {}

VARIABLES
    sandboxes,             \* what the runtime has
    job,                   \* whether the pod is run by RunAndWaitForPod
    wanted,                \* the version of the manifest
    worker,                \* per manager, where it is in EnsurePod
    changes, exits, faults \* how often each of them happened

vars == <<sandboxes, job, wanted, worker, changes, exits, faults>>
bounds == <<changes, exits, faults>>

Id == 1..MaxSandboxes

-----------------------------------------------------------------------------
(***************************************************************************)
(* The container runtime.                                                  *)
(***************************************************************************)

NoSandbox ==
    [state |-> "none", version |-> NoVersion, containers |-> [c \in Container |-> "none"]]

\* Sandboxes that are listed, ready or not.
Listed == {i \in Id : sandboxes[i].state \in {"ready", "notready"}}
ReadyOf(v) == {i \in Listed : sandboxes[i].state = "ready" /\ sandboxes[i].version = v}

InState(i, s) == {c \in Container : sandboxes[i].containers[c] = s}

\* Sandbox i without any of its containers running.
Halted(i) ==
    [sandboxes[i] EXCEPT !.state = "notready",
       !.containers = [c \in Container |-> IF @[c] = "running" THEN "exited" ELSE @[c]]]

Fault == faults < MaxFaults /\ faults' = faults + 1

-----------------------------------------------------------------------------
(***************************************************************************)
(* The world around.                                                       *)
(***************************************************************************)

ChangeManifest(v) ==
    /\ v # wanted /\ changes < MaxChanges
    /\ changes' = changes + 1
    /\ wanted' = v
    /\ UNCHANGED <<sandboxes, job, worker, exits, faults>>

\* A container ends: a job because it is done, any other by accident.
ContainerExits(i, c) ==
    /\ i \in Listed /\ c \in InState(i, "running")
    /\ IF job THEN UNCHANGED exits ELSE exits < MaxExits /\ exits' = exits + 1
    /\ sandboxes' = [sandboxes EXCEPT ![i].containers[c] = "exited"]
    /\ UNCHANGED <<job, wanted, worker, changes, faults>>

Reboot ==
    /\ exits < MaxExits /\ Listed # {}
    /\ exits' = exits + 1
    /\ sandboxes' = [i \in Id |-> IF i \in Listed THEN Halted(i) ELSE sandboxes[i]]
    /\ UNCHANGED <<job, wanted, worker, changes, faults>>

-----------------------------------------------------------------------------
(***************************************************************************)
(* EnsurePod.                                                              *)
(***************************************************************************)

\* id: the sandbox found or created, 0 if none; running and stopped: its containers
\* when it was found; doomed: sandboxes to delete; halted: the one of them that was
\* stopped, 0 if none; start: containers to start.
IdleWorker ==
    [pc |-> "idle", version |-> NoVersion, id |-> 0, running |-> {}, stopped |-> {},
     doomed |-> {}, halted |-> 0, start |-> {}]

Become(m, w) == worker' = [worker EXCEPT ![m] = w]

\* An error is returned; the caller will call again.
GiveUp(m) == Become(m, IdleWorker)

\* Mutant: a sandbox that is ready is good enough.
AllRunningUnasked(running) == TRUE

\* Mutant: off by one.
AllRunningAndMore(running) == Cardinality(running) > Cardinality(Container)

\* Whether the containers that were found running are all containers of the pod.
AllRunning(running) == running = Container

\* The ready sandbox i was found, with the status of the containers in known.
Found(i, known) ==
    LET running == InState(i, "running") \cap known
    IN  [IdleWorker EXCEPT
           !.pc = IF AllRunning(running) THEN "ensured" ELSE "list",
           !.version = wanted, !.id = i, !.running = running,
           !.stopped = (InState(i, "created") \cup InState(i, "exited")) \cap known]

\* IsPodRunning looks for a ready sandbox of the version that is wanted.
Inspect(m) ==
    /\ worker[m].pc = "idle"
    /\ \/ /\ ReadyOf(wanted) = {}
          /\ Become(m, [IdleWorker EXCEPT !.pc = "list", !.version = wanted])
       \/ \E i \in ReadyOf(wanted) : Become(m, Found(i, Container))
    /\ UNCHANGED <<sandboxes, job, wanted, bounds>>

\* The status of a container cannot be told: it is left out.
InspectPartly(m, c) ==
    /\ worker[m].pc = "idle"
    /\ Fault
    /\ \E i \in ReadyOf(wanted) : Become(m, Found(i, Container \ {c}))
    /\ UNCHANGED <<sandboxes, job, wanted, changes, exits>>

\* Mutant: only pods of the same version are found.
PodsNamedOf(v) == {i \in Listed : sandboxes[i].version = v}

\* Mutant: sandboxes that are not ready count as gone.
PodsNamedReady(v) == {i \in Listed : sandboxes[i].state = "ready"}

\* ListPods for a pod of version v: its name is all that counts.
PodsNamed(v) == Listed

ListPods(m) ==
    /\ worker[m].pc = "list"
    /\ Become(m, [worker[m] EXCEPT !.pc = "delete", !.doomed = PodsNamed(worker[m].version)])
    /\ UNCHANGED <<sandboxes, job, wanted, bounds>>

\* DeletePodWithID stops a sandbox and then removes it; neither is an error when
\* that was done before.
StopSandbox(m, i) ==
    /\ worker[m].pc \in {"delete", "finish"}
    /\ i \in worker[m].doomed /\ worker[m].halted = 0
    /\ sandboxes' = IF i \in Listed THEN [sandboxes EXCEPT ![i] = Halted(i)] ELSE sandboxes
    /\ Become(m, [worker[m] EXCEPT !.halted = i])
    /\ UNCHANGED <<job, wanted, bounds>>

\* A job whose pod was deleted is done.
RemoveSandbox(m) ==
    /\ worker[m].halted # 0
    /\ sandboxes' = [sandboxes EXCEPT ![worker[m].halted].state = "removed"]
    /\ Become(m, IF worker[m].pc = "finish" THEN [IdleWorker EXCEPT !.pc = "done"]
                 ELSE [worker[m] EXCEPT !.doomed = @ \ {worker[m].halted}, !.halted = 0])
    /\ UNCHANGED <<job, wanted, bounds>>

\* A call of DeletePod fails, which is logged; EnsurePod goes on.
DeletePodFails(m) ==
    /\ worker[m].pc = "list" \/ (worker[m].pc = "delete" /\ worker[m].doomed # {})
    /\ Fault
    /\ Become(m, [worker[m] EXCEPT !.pc = "delete", !.doomed = {}, !.halted = 0])
    /\ UNCHANGED <<sandboxes, job, wanted, changes, exits>>

\* Worker w has created sandbox i.
Created(w, i) == [w EXCEPT !.pc = "create", !.id = i]

\* The sandbox that was found is used, deleted or not; if there was none, one is
\* created, unless its name, which has the version in it, is taken.
RunSandbox(m) ==
    /\ worker[m].pc = "delete" /\ worker[m].doomed = {}
    /\ LET w     == worker[m]
           taken == \E j \in Listed : sandboxes[j].version = w.version
       IN  \/ /\ w.id # 0
              /\ Become(m, [w EXCEPT !.pc = "create"])
              /\ UNCHANGED sandboxes
           \/ /\ w.id = 0 /\ taken
              /\ GiveUp(m)
              /\ UNCHANGED sandboxes
           \/ /\ w.id = 0 /\ ~taken
              /\ \E i \in Id :
                    /\ \A j \in Id : sandboxes[j].state = "none" <=> j >= i
                    /\ sandboxes' = [sandboxes EXCEPT ![i].state = "ready",
                                                      ![i].version = w.version]
                    /\ Become(m, Created(w, i))
    /\ UNCHANGED <<job, wanted, bounds>>

\* The runtime creates container c in the sandbox of w: the sandbox is ready, and has
\* no container of that name or one that was found not running and is removed first.
CanCreate(w, c) ==
    /\ sandboxes[w.id].state = "ready"
    /\ c \in w.stopped \/ c \in InState(w.id, "none")

\* The containers still to be created.
ToCreate(w) == Container \ (w.running \cup w.start)

CreateContainer(m, c) ==
    /\ worker[m].pc = "create" /\ c \in ToCreate(worker[m])
    /\ CanCreate(worker[m], c)
    /\ sandboxes' = [sandboxes EXCEPT ![worker[m].id].containers[c] = "created"]
    /\ Become(m, [worker[m] EXCEPT !.start = @ \cup {c},
                    !.pc = IF ToCreate(worker[m]) = {c} THEN "start" ELSE @])
    /\ UNCHANGED <<job, wanted, bounds>>

\* The sandbox is gone, or another manager has created the container meanwhile.
CreateRefused(m, c) ==
    /\ worker[m].pc = "create" /\ c \in ToCreate(worker[m])
    /\ ~CanCreate(worker[m], c) \/ c \in InState(worker[m].id, "running")
    /\ sandboxes' = IF c \in worker[m].stopped /\ c \notin InState(worker[m].id, "running")
                    THEN [sandboxes EXCEPT ![worker[m].id].containers[c] = "none"]
                    ELSE sandboxes
    /\ GiveUp(m)
    /\ UNCHANGED <<job, wanted, bounds>>

\* The containers are started when all of them have been created.
StartContainer(m, c) ==
    /\ worker[m].pc = "start" /\ c \in worker[m].start
    /\ LET w == worker[m]
       IN  IF sandboxes[w.id].state = "ready" /\ c \in InState(w.id, "created")
           THEN /\ sandboxes' = [sandboxes EXCEPT ![w.id].containers[c] = "running"]
                /\ Become(m, [w EXCEPT !.start = @ \ {c},
                                !.pc = IF w.start = {c} THEN "ensured" ELSE @])
           ELSE GiveUp(m) /\ UNCHANGED sandboxes
    /\ UNCHANGED <<job, wanted, bounds>>

\* EnsurePod returns; RunAndWaitForPod goes on to wait.
Return(m) ==
    /\ worker[m].pc = "ensured"
    /\ IF job THEN Become(m, [worker[m] EXCEPT !.pc = "wait"]) ELSE GiveUp(m)
    /\ UNCHANGED <<sandboxes, job, wanted, bounds>>

\* The containers that are listed have all exited; a sandbox that was removed has none.
AllExited(i) == i \notin Listed \/ InState(i, "created") \cup InState(i, "running") = {}

\* WaitForPod returns, and the sandbox is to be deleted.
WaitForPod(m) ==
    /\ worker[m].pc = "wait"
    /\ AllExited(worker[m].id)
    /\ Become(m, [worker[m] EXCEPT !.pc = "finish", !.doomed = {worker[m].id}])
    /\ UNCHANGED <<sandboxes, job, wanted, bounds>>

\* Any other call fails, and so does EnsurePod or RunAndWaitForPod.
CallFails(m) ==
    /\ \/ worker[m].pc \in {"create", "start", "wait", "finish"}
       \/ worker[m].pc = "delete" /\ worker[m].doomed = {} /\ worker[m].id = 0
    /\ Fault
    /\ GiveUp(m)
    /\ UNCHANGED <<sandboxes, job, wanted, changes, exits>>

Crash(m) ==
    /\ worker[m].pc \notin {"idle", "done"}
    /\ Fault
    /\ GiveUp(m)
    /\ UNCHANGED <<sandboxes, job, wanted, changes, exits>>

-----------------------------------------------------------------------------

Init ==
    /\ sandboxes = [i \in Id |-> NoSandbox]
    /\ job \in BOOLEAN
    /\ wanted \in Version
    /\ worker = [m \in Manager |-> IdleWorker]
    /\ changes = 0 /\ exits = 0 /\ faults = 0

Step(m) ==
    \/ Inspect(m) \/ ListPods(m) \/ RemoveSandbox(m) \/ RunSandbox(m)
    \/ Return(m) \/ WaitForPod(m)
    \/ \E i \in Id : StopSandbox(m, i)
    \/ \E c \in Container : CreateContainer(m, c) \/ CreateRefused(m, c) \/ StartContainer(m, c)

Next ==
    \/ \E v \in Version : ChangeManifest(v)
    \/ \E i \in Id, c \in Container : ContainerExits(i, c)
    \/ Reboot
    \/ \E m \in Manager : Step(m) \/ DeletePodFails(m) \/ CallFails(m) \/ Crash(m)
    \/ \E m \in Manager, c \in Container : InspectPartly(m, c)

Spec == Init /\ [][Next]_vars

\* Callers call again, and a job ends.
FairSpec ==
    /\ Spec
    /\ \A m \in Manager : WF_vars(Step(m))
    /\ \A i \in Id, c \in Container : WF_vars(job /\ ContainerExits(i, c))

-----------------------------------------------------------------------------

\* When EnsurePod returns without an error, the pod it was asked for exists: its
\* sandbox was not removed and each of its containers was started, even when the
\* sandbox was found half running and DeletePod was called before it was used again.
EnsuredRuns ==
    \A m \in Manager : worker[m].pc = "ensured" =>
       /\ worker[m].id \in Listed /\ sandboxes[worker[m].id].version = worker[m].version
       /\ InState(worker[m].id, "running") \cup InState(worker[m].id, "exited") = Container

\* EnsurePod leaves a pod alone that has the version it wants and runs completely,
\* unless the status of one of its containers could not be told.
RunningPodKept ==
    [][\A m \in Manager, i \in Id : faults = 0 =>
          (StopSandbox(m, i) /\ worker[m].pc = "delete" /\ InState(i, "running") = Container
             => sandboxes[i].version # worker[m].version)]_vars

\* Calling EnsurePod again and again makes the pod run, whatever failed before: calls,
\* containers, the hypervisor or the manager.
PodHeals == ~job => <>[](\E i \in ReadyOf(wanted) : InState(i, "running") = Container)

\* After a change of the manifest pods of other versions go, if no call fails.
OldVersionsGo ==
    ~job /\ [](faults = 0) => <>[](\A i \in Listed : sandboxes[i].version = wanted)

\* RunAndWaitForPod, called again after errors, succeeds in the end, whatever sandboxes
\* earlier calls, a reboot or a crash of the manager have left behind.
JobReturns == job => \A m \in Manager : <>(worker[m].pc = "done")
=============================================================================
