-------------------------- MODULE LifecycleProofs --------------------------
(***************************************************************************)
(* The lifecycle of a pod (module PodLifecycle) and that of a cluster      *)
(* (module ClusterLifecycle, here the instance CL, on variables of its     *)
(* own).                                                                   *)
(*                                                                         *)
(* Pods.  With one manager, EnsurePod returns without an error only when   *)
(* the pod it was asked for is there, and never stops a pod that runs      *)
(* completely, for any number of containers, versions and sandboxes and    *)
(* whatever exits, fails or is rebooted.  The sandbox that was found is    *)
(* used again although DeletePod was called in between.  The invariant     *)
(* PodInv says why that is sound: as long as it is ready nobody has        *)
(* touched it, so that what was found running in it still is or has        *)
(* exited, and when it is not ready anymore nothing can be created or      *)
(* started in it.                                                          *)
(*                                                                         *)
(* The keys of a cluster, for any number of managers, users and edits:     *)
(* whoever writes the cluster, a cluster without label has its keys, and   *)
(* its certificate authority is never replaced.  That follows from what    *)
(* can be written over a cluster: `Written' lists it, one disjunct per     *)
(* writer, and LEMMA ClusterStep shows that no other step touches the      *)
(* cluster.  The invariant KeysInv adds that an initializer has keys in    *)
(* hand only for a cluster that was created: otherwise it could give an    *)
(* authority to a cluster that CreateCluster then replaces.                *)
(*                                                                         *)
(* The ingress of a cluster: one manager, restarted as often as it may be, *)
(* never has two of them.  IngressInv says that what the controller has    *)
(* listed is what there is, until it writes, so that it creates an ingress *)
(* only when there is none.                                                *)
(***************************************************************************)
EXTENDS PodLifecycle, FiniteSetTheorems, TLAPS

\* There is one manager at a time, as with the leader election that the manifests
\* of the manager turn on.
OneManager == \A m, n \in Manager : m = n

ContainerState == {"none", "created", "running", "exited"}

Sandbox ==
    [state : {"none", "ready", "notready", "removed"},
     version : Version \cup {NoVersion},
     containers : [Container -> ContainerState]]

Location == {"idle", "list", "delete", "create", "start", "ensured", "wait", "finish", "done"}

Worker ==
    [pc : Location, version : Version \cup {NoVersion}, id : Id \cup {0},
     running : SUBSET Container, stopped : SUBSET Container, doomed : SUBSET Id,
     halted : Id \cup {0}, start : SUBSET Container]

\* Sandbox s is listed by the runtime.
IsListed(s) == s.state \in {"ready", "notready"}

\* Container c of sandbox s was started.
Started(s, c) == s.containers[c] \in {"running", "exited"}

RunsCompletely(s) == \A c \in Container : s.containers[c] = "running"

\* The runtime: no two sandboxes have one name, and nothing runs in one that is not ready.
RuntimeOK(sb) ==
    /\ sb \in [Id -> Sandbox]
    /\ \A i, j \in Id : IsListed(sb[i]) /\ IsListed(sb[j]) /\ sb[i].version = sb[j].version => i = j
    /\ \A i \in Id : sb[i].state # "ready" => \A c \in Container : sb[i].containers[c] # "running"

\* The containers that worker w does not start itself.
Spared(w) == IF w.pc = "start" THEN Container \ w.start ELSE w.running

\* Worker w uses its sandbox only as long as it is ready, and then finds it as it left it.
Uses(w, sb) ==
    w.pc \in {"list", "delete", "create", "start"} /\ w.id # 0 /\ sb[w.id].state = "ready" =>
       /\ sb[w.id].version = w.version
       /\ \A c \in Spared(w) : Started(sb[w.id], c)

\* EnsurePod has returned.
Ensured(w, sb) ==
    w.pc = "ensured" =>
       /\ IsListed(sb[w.id]) /\ sb[w.id].version = w.version
       /\ \A c \in Container : Started(sb[w.id], c)

\* What worker w deletes, if no call failed, is not what it wants.
Deletes(w, sb) ==
    w.pc \in {"list", "delete"} =>
       \A i \in Id : IsListed(sb[i]) /\ sb[i].version = w.version => ~ RunsCompletely(sb[i])

\* The sandbox that worker w has stopped is not ready anymore.
Stops(w, sb) == w.halted # 0 => sb[w.halted].state # "ready"

\* The fields of worker w agree with each other.
Orderly(w) ==
    /\ w.halted # 0 => w.pc \in {"delete", "finish"} /\ w.halted \in w.doomed
    /\ w.pc \in {"create", "start", "ensured", "wait"} => w.id # 0
    /\ w.id = 0 => w.running = {}

WorkerOK(w, sb, n) ==
    /\ w \in Worker
    /\ Orderly(w) /\ Uses(w, sb) /\ Ensured(w, sb) /\ Stops(w, sb)
    /\ n = 0 => Deletes(w, sb)

PodInv ==
    /\ RuntimeOK(sandboxes)
    /\ wanted \in Version
    /\ faults \in Nat
    /\ worker \in [Manager -> Worker]
    /\ \A m \in Manager : WorkerOK(worker[m], sandboxes, faults)

-----------------------------------------------------------------------------
(***************************************************************************)
(* Steps of the world around.                                              *)
(***************************************************************************)

\* A worker between two calls.
LEMMA IdleOK == \A sb, n : WorkerOK(IdleWorker, sb, n)
BY DEF WorkerOK, IdleWorker, Worker, Location, Orderly, Uses, Ensured, Stops, Deletes

\* Sandbox t is sandbox s after containers of it have exited, or after it was stopped.
Decay(s, t) ==
    /\ t \in Sandbox
    /\ t.version = s.version
    /\ t.state = s.state \/ (IsListed(s) /\ t.state = "notready")
    /\ \A c \in Container : \/ t.containers[c] = s.containers[c]
                            \/ s.containers[c] = "running" /\ t.containers[c] = "exited"

\* So sandboxes sb become new.
Decays(sb, new) ==
    /\ new = [i \in Id |-> new[i]]
    /\ \A i \in Id : Decay(sb[i], new[i])
    /\ \A i \in Id : new[i].state # "ready" =>
          \A c \in Container : new[i].containers[c] # "running"

\* It takes nothing from the runtime.
LEMMA DecayRuntime ==
    ASSUME NEW sb, NEW new, RuntimeOK(sb), Decays(sb, new)
    PROVE  RuntimeOK(new)
BY DEF RuntimeOK, Decays, Decay, IsListed

\* Nor does a worker need to know.
LEMMA DecayWorker ==
    ASSUME NEW sb, NEW new, NEW w, NEW n, RuntimeOK(sb), Decays(sb, new), WorkerOK(w, sb, n)
    PROVE  WorkerOK(w, new, n)
<1>1. w \in Worker /\ Orderly(w)
  BY DEF WorkerOK
<1>2. \A i \in Id, c \in Container : Started(sb[i], c) => Started(new[i], c)
  BY DEF Decays, Decay, Started
<1>3. \A i \in Id : /\ new[i].version = sb[i].version
                    /\ IsListed(sb[i]) <=> IsListed(new[i])
                    /\ new[i].state = "ready" => sb[i].state = "ready"
  BY DEF Decays, Decay, IsListed
<1>4. \A i \in Id : RunsCompletely(new[i]) => RunsCompletely(sb[i])
  BY DEF Decays, Decay, RunsCompletely
<1>5. Spared(w) \subseteq Container /\ w.id \in Id \cup {0}
  BY <1>1 DEF Worker, Spared
<1>6. Uses(w, new)
  BY <1>2, <1>3, <1>5 DEF Uses, WorkerOK
<1>7. Ensured(w, new)
  BY <1>1, <1>2, <1>3, <1>5 DEF Ensured, WorkerOK, Orderly
<1>8. Stops(w, new)
  BY <1>1, <1>3 DEF Stops, WorkerOK, Worker
<1>9. n = 0 => Deletes(w, new)
  BY <1>3, <1>4 DEF Deletes, WorkerOK
<1> QED BY <1>1, <1>6, <1>7, <1>8, <1>9 DEF WorkerOK

\* A container exits.
LEMMA ExitDecays ==
    ASSUME PodInv, NEW i \in Id, NEW c \in Container, ContainerExits(i, c)
    PROVE  Decays(sandboxes, sandboxes')
<1>1. sandboxes \in [Id -> Sandbox]
  BY DEF PodInv, RuntimeOK
<1>2. /\ i \in Listed /\ sandboxes[i].containers[c] = "running"
      /\ sandboxes' = [sandboxes EXCEPT ![i].containers[c] = "exited"]
  BY DEF ContainerExits, InState
<1>3. \A j \in Id : j # i => sandboxes'[j] = sandboxes[j]
  BY <1>1, <1>2
<1>4. sandboxes'[i] = [sandboxes[i] EXCEPT !.containers[c] = "exited"]
  BY <1>1, <1>2
<1>5. /\ sandboxes'[i] \in Sandbox /\ sandboxes'[i].version = sandboxes[i].version
      /\ sandboxes'[i].state = sandboxes[i].state
      /\ \A d \in Container : sandboxes'[i].containers[d] =
                                 IF d = c THEN "exited" ELSE sandboxes[i].containers[d]
  BY <1>1, <1>4 DEF Sandbox, ContainerState
<1> QED
  BY <1>1, <1>2, <1>3, <1>5, Zenon DEF Decays, Decay, PodInv, RuntimeOK

\* What is left of sandbox i when it is stopped.
LEMMA HaltedDecay ==
    ASSUME PodInv, NEW i \in Id, i \in Listed
    PROVE  /\ Decay(sandboxes[i], Halted(i)) /\ Halted(i).state = "notready"
           /\ \A c \in Container : Halted(i).containers[c] # "running"
<1>1. sandboxes[i] \in Sandbox
  BY DEF PodInv, RuntimeOK
<1>2. /\ Halted(i) \in Sandbox /\ Halted(i).version = sandboxes[i].version
      /\ Halted(i).state = "notready"
      /\ \A c \in Container : Halted(i).containers[c] =
            IF sandboxes[i].containers[c] = "running" THEN "exited" ELSE sandboxes[i].containers[c]
  BY <1>1, Zenon DEF Halted, Sandbox, ContainerState
<1> QED BY <1>2 DEF Decay, Listed, IsListed

\* The hypervisor reboots.
LEMMA RebootDecays ==
    ASSUME PodInv, Reboot
    PROVE  Decays(sandboxes, sandboxes')
<1>1. \A i \in Id : sandboxes[i] \in Sandbox
  BY DEF PodInv, RuntimeOK
<1>2. \A i \in Id : Decay(sandboxes[i], sandboxes[i])
  BY <1>1 DEF Decay
<1>3. /\ sandboxes' = [i \in Id |-> sandboxes'[i]]
      /\ \A i \in Id : sandboxes'[i] = IF i \in Listed THEN Halted(i) ELSE sandboxes[i]
  BY DEF Reboot
<1> QED
  BY <1>2, <1>3, HaltedDecay DEF Decays, PodInv, RuntimeOK

\* Steps that move no worker.
LEMMA WorldKeeps ==
    ASSUME PodInv,
           \/ \E v \in Version : ChangeManifest(v)
           \/ \E i \in Id, c \in Container : ContainerExits(i, c)
           \/ Reboot
           \/ UNCHANGED vars
    PROVE  PodInv'
<1>1. CASE sandboxes' = sandboxes /\ worker' = worker /\ faults' = faults /\ wanted' \in Version
  BY <1>1 DEF PodInv
<1>2. CASE /\ Decays(sandboxes, sandboxes') /\ worker' = worker
           /\ faults' = faults /\ wanted' = wanted
  BY <1>2, DecayRuntime, DecayWorker DEF PodInv
<1>3. CASE \E v \in Version : ChangeManifest(v)
  BY <1>1, <1>3 DEF ChangeManifest
<1>4. CASE \E i \in Id, c \in Container : ContainerExits(i, c)
  BY <1>2, <1>4, ExitDecays, Zenon DEF ContainerExits
<1>5. CASE Reboot
  BY <1>2, <1>5, RebootDecays DEF Reboot
<1>6. CASE UNCHANGED vars
  BY <1>1, <1>6 DEF vars, PodInv
<1> QED BY <1>3, <1>4, <1>5, <1>6

-----------------------------------------------------------------------------
(***************************************************************************)
(* Steps of the manager.                                                   *)
(***************************************************************************)

\* The only worker becomes w.
LEMMA Becomes ==
    ASSUME OneManager, PodInv, NEW m \in Manager, NEW w, Become(m, w),
           RuntimeOK(sandboxes'), WorkerOK(w, sandboxes', faults'),
           wanted' = wanted, faults' \in Nat
    PROVE  PodInv'
<1>1. w \in Worker
  BY DEF WorkerOK
<1>2. worker' \in [Manager -> Worker] /\ worker'[m] = w
  BY <1>1 DEF PodInv, Become
<1>3. \A n \in Manager : worker'[n] = w
  BY <1>2, Zenon DEF OneManager
<1> QED BY <1>2, <1>3 DEF PodInv

\* The call ends, with an error or because the manager dies.
LEMMA GivesUp ==
    ASSUME OneManager, PodInv, NEW m \in Manager, GiveUp(m),
           RuntimeOK(sandboxes'), wanted' = wanted, faults' \in Nat
    PROVE  PodInv'
BY Becomes, IdleOK DEF GiveUp

\* What IsPodRunning knows of the sandbox it found.
LEMMA FoundShape ==
    ASSUME PodInv, NEW i \in Id, NEW known \in SUBSET Container
    PROVE  LET w == Found(i, known)
           IN  /\ w \in Worker
               /\ w.pc = IF w.running = Container THEN "ensured" ELSE "list"
               /\ w.version = wanted /\ w.id = i /\ w.halted = 0
               /\ w.running = InState(i, "running") \cap known
BY Zenon DEF Found, IdleWorker, Worker, Location, AllRunning, InState, PodInv

\* A sandbox that is ready was found.
LEMMA FoundOK ==
    ASSUME PodInv, NEW i \in ReadyOf(wanted), NEW known \in SUBSET Container, NEW n,
           n = 0 => known = Container
    PROVE  WorkerOK(Found(i, known), sandboxes, n)
<1> DEFINE w == Found(i, known)
<1>1. /\ i \in Id /\ IsListed(sandboxes[i])
      /\ sandboxes[i].state = "ready" /\ sandboxes[i].version = wanted
  BY DEF ReadyOf, Listed, IsListed
<1>2. /\ w \in Worker
      /\ w.pc = IF w.running = Container THEN "ensured" ELSE "list"
      /\ w.version = wanted /\ w.id = i /\ w.halted = 0
      /\ w.running = InState(i, "running") \cap known
  BY <1>1, FoundShape
<1> HIDE DEF w
<1>3. i # 0
  BY <1>1 DEF Id
<1>4. Orderly(w)
  BY <1>2, <1>3 DEF Orderly
<1>5. \A c \in w.running : c \in Container /\ sandboxes[i].containers[c] = "running"
  BY <1>2 DEF InState
<1>6. Uses(w, sandboxes)
  BY <1>1, <1>2, <1>5 DEF Uses, Spared, Started
<1>7. Ensured(w, sandboxes)
  BY <1>1, <1>2, <1>5 DEF Ensured, Started
<1>8. ASSUME n = 0, w.pc \in {"list", "delete"}, NEW j \in Id,
             IsListed(sandboxes[j]), sandboxes[j].version = w.version
      PROVE  ~ RunsCompletely(sandboxes[j])
  <2>1. j = i
    BY <1>1, <1>2, <1>8 DEF PodInv, RuntimeOK
  <2>2. InState(i, "running") # Container
    BY <1>2, <1>8
  <2> QED BY <2>1, <2>2 DEF InState, RunsCompletely
<1> QED BY <1>2, <1>4, <1>6, <1>7, <1>8 DEF WorkerOK, Stops, Deletes, w

\* IsPodRunning.
LEMMA InspectKeeps ==
    ASSUME OneManager, PodInv, NEW m \in Manager, Inspect(m)
    PROVE  PodInv'
<1>1. /\ sandboxes' = sandboxes /\ wanted' = wanted /\ faults' = faults
      /\ RuntimeOK(sandboxes') /\ faults' \in Nat
  BY DEF Inspect, bounds, PodInv
<1>2. CASE /\ ReadyOf(wanted) = {}
           /\ Become(m, [IdleWorker EXCEPT !.pc = "list", !.version = wanted])
  <2> DEFINE w == [IdleWorker EXCEPT !.pc = "list", !.version = wanted]
  <2>1. w \in Worker /\ w.pc = "list" /\ w.version = wanted /\ w.id = 0 /\ w.running = {}
        /\ w.halted = 0
    BY Zenon DEF IdleWorker, Worker, Location, PodInv
  <2>2. Become(m, w)
    BY <1>2
  <2> HIDE DEF w
  <2>3. ASSUME NEW j \in Id, IsListed(sandboxes[j]), sandboxes[j].version = wanted
        PROVE  ~ RunsCompletely(sandboxes[j])
    <3>1. sandboxes[j].state # "ready"
      BY <1>2, <2>3 DEF ReadyOf, Listed, IsListed
    <3> QED BY <3>1, ContainerAssumption DEF RunsCompletely, PodInv, RuntimeOK
  <2>4. WorkerOK(w, sandboxes, faults)
    BY <2>1, <2>3 DEF WorkerOK, Orderly, Uses, Ensured, Stops, Deletes
  <2> QED BY <1>1, <2>2, <2>4, Becomes
<1>3. CASE \E i \in ReadyOf(wanted) : Become(m, Found(i, Container))
  BY <1>1, <1>3, FoundOK, Becomes
<1> QED BY <1>2, <1>3 DEF Inspect

\* IsPodRunning when the status of a container cannot be told.
LEMMA InspectPartlyKeeps ==
    ASSUME OneManager, PodInv, NEW m \in Manager, NEW c \in Container, InspectPartly(m, c)
    PROVE  PodInv'
<1>1. /\ sandboxes' = sandboxes /\ wanted' = wanted
      /\ RuntimeOK(sandboxes') /\ faults' \in Nat /\ faults' # 0
  BY DEF InspectPartly, Fault, PodInv
<1>2. PICK i \in ReadyOf(wanted) : Become(m, Found(i, Container \ {c}))
  BY DEF InspectPartly
<1> QED BY <1>1, <1>2, FoundOK, Becomes

\* DeletePod lists the sandboxes to delete.
LEMMA ListPodsKeeps ==
    ASSUME OneManager, PodInv, NEW m \in Manager, ListPods(m)
    PROVE  PodInv'
<1> DEFINE w == [worker[m] EXCEPT !.pc = "delete", !.doomed = PodsNamed(worker[m].version)]
<1>1. worker[m] \in Worker /\ WorkerOK(worker[m], sandboxes, faults) /\ worker[m].pc = "list"
  BY DEF PodInv, ListPods
<1>2. /\ w \in Worker /\ w.pc = "delete" /\ w.version = worker[m].version
      /\ w.id = worker[m].id /\ w.running = worker[m].running /\ w.halted = worker[m].halted
  BY <1>1, Zenon DEF Worker, Location, PodsNamed, Listed
<1>3. Become(m, w)
  BY DEF ListPods
<1> HIDE DEF w
<1>4. WorkerOK(w, sandboxes, faults)
  BY <1>1, <1>2 DEF WorkerOK, Orderly, Uses, Spared, Ensured, Stops, Deletes
<1>5. sandboxes' = sandboxes /\ wanted' = wanted /\ faults' = faults
  BY DEF ListPods, bounds
<1> QED BY <1>3, <1>4, <1>5, Becomes DEF PodInv

\* DeletePod fails and EnsurePod goes on.
LEMMA DeletePodFailsKeeps ==
    ASSUME OneManager, PodInv, NEW m \in Manager, DeletePodFails(m)
    PROVE  PodInv'
<1> DEFINE w == [worker[m] EXCEPT !.pc = "delete", !.doomed = {}, !.halted = 0]
<1>1. /\ worker[m] \in Worker /\ WorkerOK(worker[m], sandboxes, faults)
      /\ worker[m].pc \in {"list", "delete"}
  BY DEF PodInv, DeletePodFails
<1>2. /\ w \in Worker /\ w.pc = "delete" /\ w.version = worker[m].version
      /\ w.id = worker[m].id /\ w.running = worker[m].running /\ w.halted = 0
  BY <1>1, Zenon DEF Worker, Location
<1>3. Become(m, w)
  BY DEF DeletePodFails
<1> HIDE DEF w
<1>4. sandboxes' = sandboxes /\ wanted' = wanted /\ faults' \in Nat /\ faults' # 0
  BY DEF DeletePodFails, Fault, PodInv
<1>5. WorkerOK(w, sandboxes, faults')
  BY <1>1, <1>2, <1>4 DEF WorkerOK, Orderly, Uses, Spared, Ensured, Stops
<1> QED BY <1>3, <1>4, <1>5, Becomes DEF PodInv

\* DeletePodWithID stops a sandbox.
LEMMA StopSandboxKeeps ==
    ASSUME OneManager, PodInv, NEW m \in Manager, NEW i \in Id, StopSandbox(m, i)
    PROVE  PodInv'
<1> DEFINE w == [worker[m] EXCEPT !.halted = i]
<1>1. /\ worker[m] \in Worker /\ WorkerOK(worker[m], sandboxes, faults)
      /\ worker[m].pc \in {"delete", "finish"} /\ i \in worker[m].doomed
  BY DEF PodInv, StopSandbox
<1>2. /\ w \in Worker /\ w.pc = worker[m].pc /\ w.version = worker[m].version
      /\ w.id = worker[m].id /\ w.running = worker[m].running /\ w.halted = i
      /\ w.doomed = worker[m].doomed
  BY <1>1 DEF Worker
<1>3. Become(m, w)
  BY DEF StopSandbox
<1> HIDE DEF w
<1>4. wanted' = wanted /\ faults' = faults
  BY DEF StopSandbox, bounds
<1>5. /\ w \in Worker /\ Orderly(w) /\ Uses(w, sandboxes) /\ Ensured(w, sandboxes)
      /\ faults = 0 => Deletes(w, sandboxes)
  BY <1>1, <1>2 DEF WorkerOK, Orderly, Uses, Spared, Ensured, Deletes
<1>6. CASE i \notin Listed
  <2>1. Stops(w, sandboxes)
    BY <1>2, <1>6 DEF Stops, Listed
  <2> QED BY <1>3, <1>4, <1>5, <1>6, <2>1, Becomes DEF PodInv, StopSandbox, WorkerOK
<1>7. CASE i \in Listed
  <2>1. sandboxes \in [Id -> Sandbox] /\ sandboxes' = [sandboxes EXCEPT ![i] = Halted(i)]
    BY <1>7 DEF StopSandbox, PodInv, RuntimeOK
  <2>2. \A j \in Id : sandboxes'[j] = IF j = i THEN Halted(i) ELSE sandboxes[j]
    BY <2>1
  <2>3. \A j \in Id : Decay(sandboxes[j], sandboxes[j])
    BY <2>1 DEF Decay
  <2>4. Decays(sandboxes, sandboxes')
    BY <1>7, <2>1, <2>2, <2>3, HaltedDecay, Zenon DEF Decays, PodInv, RuntimeOK
  <2>5. RuntimeOK(sandboxes') /\ WorkerOK(worker[m], sandboxes', faults)
    BY <1>1, <2>4, DecayRuntime, DecayWorker DEF PodInv
  <2>6. Stops(w, sandboxes')
    BY <1>2, <1>7, <2>2, HaltedDecay, Zenon DEF Stops
  <2>7. WorkerOK(w, sandboxes', faults)
    BY <1>1, <1>2, <1>5, <2>5, <2>6 DEF WorkerOK, Uses, Spared, Ensured, Deletes
  <2> QED BY <1>3, <1>4, <2>5, <2>7, Becomes DEF PodInv
<1> QED BY <1>6, <1>7

\* DeletePodWithID removes the sandbox it stopped.
LEMMA RemoveSandboxKeeps ==
    ASSUME OneManager, PodInv, NEW m \in Manager, RemoveSandbox(m)
    PROVE  PodInv'
<1> DEFINE h == worker[m].halted
           w == [worker[m] EXCEPT !.doomed = @ \ {worker[m].halted}, !.halted = 0]
           d == [IdleWorker EXCEPT !.pc = "done"]
<1>1. /\ worker[m] \in Worker /\ WorkerOK(worker[m], sandboxes, faults)
      /\ h \in Id /\ sandboxes[h].state # "ready" /\ worker[m].pc \in {"delete", "finish"}
  BY DEF PodInv, RemoveSandbox, WorkerOK, Orderly, Stops, Worker
<1>2. sandboxes \in [Id -> Sandbox] /\ sandboxes' = [sandboxes EXCEPT ![h].state = "removed"]
  BY DEF RemoveSandbox, PodInv, RuntimeOK
<1>3. wanted' = wanted /\ faults' = faults
  BY DEF RemoveSandbox, bounds
<1>4. /\ w \in Worker /\ w.pc = worker[m].pc /\ w.version = worker[m].version
      /\ w.id = worker[m].id /\ w.running = worker[m].running /\ w.halted = 0
  BY <1>1, Zenon DEF Worker
<1>5. WorkerOK(d, sandboxes', faults)
  BY DEF WorkerOK, IdleWorker, Worker, Location, Orderly, Uses, Ensured, Stops, Deletes
<1>6. Become(m, IF worker[m].pc = "finish" THEN d ELSE w)
  BY DEF RemoveSandbox
<1> HIDE DEF h, w, d
<1>7. /\ sandboxes' \in [Id -> Sandbox]
      /\ \A j \in Id : j # h => sandboxes'[j] = sandboxes[j]
      /\ sandboxes'[h].state = "removed" /\ sandboxes'[h].containers = sandboxes[h].containers
  BY <1>1, <1>2, Zenon DEF Sandbox
<1>8. RuntimeOK(sandboxes')
  BY <1>1, <1>7 DEF RuntimeOK, IsListed, PodInv
<1>9. \A j \in Id : IsListed(sandboxes'[j]) => sandboxes'[j] = sandboxes[j]
  BY <1>7 DEF IsListed
<1>10. CASE worker[m].pc = "finish"
  BY <1>3, <1>5, <1>6, <1>8, <1>10, Becomes DEF PodInv
<1>11. CASE worker[m].pc = "delete"
  <2>1. w.id \in Id \cup {0}
    BY <1>4 DEF Worker
  <2>2. Orderly(w) /\ Ensured(w, sandboxes') /\ Stops(w, sandboxes')
    BY <1>1, <1>4, <1>11 DEF WorkerOK, Orderly, Ensured, Stops
  <2>3. Uses(w, sandboxes')
    BY <1>1, <1>4, <1>9, <1>11, <2>1 DEF WorkerOK, Uses, Spared, IsListed
  <2>4. faults = 0 => Deletes(w, sandboxes')
    BY <1>1, <1>4, <1>9, <1>11 DEF WorkerOK, Deletes
  <2>5. WorkerOK(w, sandboxes', faults)
    BY <1>4, <2>2, <2>3, <2>4 DEF WorkerOK
  <2> QED BY <1>3, <1>6, <1>8, <1>11, <2>5, Becomes DEF PodInv
<1> QED BY <1>1, <1>10, <1>11

\* RunPodSandbox, or the sandbox that was found.
LEMMA RunSandboxKeeps ==
    ASSUME OneManager, PodInv, NEW m \in Manager, RunSandbox(m)
    PROVE  PodInv'
<1>1. /\ worker[m] \in Worker /\ WorkerOK(worker[m], sandboxes, faults)
      /\ worker[m].pc = "delete" /\ worker[m].halted = 0
      /\ wanted' = wanted /\ faults' = faults /\ faults \in Nat
      /\ sandboxes \in [Id -> Sandbox] /\ RuntimeOK(sandboxes)
  BY DEF PodInv, RunSandbox, WorkerOK, Orderly, bounds, RuntimeOK
<1>2. CASE worker[m].id # 0 /\ Become(m, [worker[m] EXCEPT !.pc = "create"])
           /\ sandboxes' = sandboxes
  <2> DEFINE w == [worker[m] EXCEPT !.pc = "create"]
  <2>1. /\ w \in Worker /\ w.pc = "create" /\ w.version = worker[m].version
        /\ w.id = worker[m].id /\ w.running = worker[m].running /\ w.halted = 0
    BY <1>1 DEF Worker, Location
  <2>2. Become(m, w)
    BY <1>2
  <2> HIDE DEF w
  <2>3. WorkerOK(w, sandboxes, faults)
    BY <1>1, <1>2, <2>1 DEF WorkerOK, Orderly, Uses, Spared, Ensured, Stops, Deletes
  <2> QED BY <1>1, <1>2, <2>2, <2>3, Becomes
<1>3. CASE GiveUp(m) /\ sandboxes' = sandboxes
  BY <1>1, <1>3, GivesUp
<1>4. ASSUME worker[m].id = 0, ~ \E j \in Listed : sandboxes[j].version = worker[m].version,
             NEW i \in Id, \A j \in Id : sandboxes[j].state = "none" <=> j >= i,
             sandboxes' = [sandboxes EXCEPT ![i].state = "ready",
                                            ![i].version = worker[m].version],
             Become(m, Created(worker[m], i))
      PROVE  PodInv'
  <2> DEFINE w == Created(worker[m], i)
  <2>1. /\ w \in Worker /\ w.pc = "create" /\ w.version = worker[m].version
        /\ w.id = i /\ w.running = {} /\ w.halted = 0
    BY <1>1, <1>4, Zenon DEF Worker, Location, Created, WorkerOK, Orderly
  <2>2. Become(m, w)
    BY <1>4
  <2> HIDE DEF w
  <2>3. i # 0
    BY DEF Id
  <2>4. worker[m].version \in Version \cup {NoVersion}
    BY <1>1 DEF Worker
  <2>5. /\ sandboxes' \in [Id -> Sandbox]
        /\ \A j \in Id : j # i => sandboxes'[j] = sandboxes[j]
        /\ sandboxes'[i].state = "ready" /\ sandboxes'[i].version = worker[m].version
    BY <1>1, <1>4, <2>4, Zenon DEF Sandbox
  <2>6. \A j \in Id : IsListed(sandboxes[j]) => sandboxes[j].version # worker[m].version
    BY <1>4 DEF Listed, IsListed
  <2>7. RuntimeOK(sandboxes')
    BY <1>1, <2>5, <2>6 DEF RuntimeOK
  <2>8. WorkerOK(w, sandboxes', faults)
    BY <2>1, <2>3, <2>5 DEF WorkerOK, Orderly, Uses, Spared, Ensured, Stops, Deletes
  <2> QED BY <1>1, <2>2, <2>7, <2>8, Becomes
<1> QED BY <1>2, <1>3, <1>4, Zenon DEF RunSandbox

\* Container c of sandbox i comes to be in state st.
Put(sb, i, c, st) == [sb EXCEPT ![i].containers[c] = st]

\* Then sandbox s has become t.
Changed(s, t, c, st) ==
    /\ t \in Sandbox
    /\ t.state = s.state /\ t.version = s.version
    /\ \A d \in Container : t.containers[d] = IF d = c THEN st ELSE s.containers[d]

\* The runtime takes it, if nothing comes to run in a sandbox that is not ready.
LEMMA PutContainer ==
    ASSUME NEW sb, RuntimeOK(sb), NEW i \in Id, NEW c \in Container, NEW st \in ContainerState,
           st # "running" \/ sb[i].state = "ready",
           NEW new, new = Put(sb, i, c, st)
    PROVE  RuntimeOK(new) /\ Changed(sb[i], new[i], c, st)
<1>1. sb \in [Id -> Sandbox]
  BY DEF RuntimeOK
<1>2. /\ \A j \in Id : j # i => new[j] = sb[j]
      /\ new = [j \in Id |-> new[j]]
  BY <1>1, Zenon DEF Put
<1>3. Changed(sb[i], new[i], c, st)
  <2>1. new[i] = [sb[i] EXCEPT !.containers[c] = st]
    BY <1>1 DEF Put
  <2> QED BY <1>1, <2>1 DEF Sandbox, Changed
<1>4. new \in [Id -> Sandbox]
  BY <1>1, <1>2, <1>3 DEF Changed
<1>5. \A j \in Id : /\ IsListed(new[j]) <=> IsListed(sb[j])
                    /\ new[j].version = sb[j].version
  BY <1>2, <1>3 DEF IsListed, Changed
<1>6. ASSUME NEW j \in Id, new[j].state # "ready", NEW d \in Container
      PROVE  new[j].containers[d] # "running"
  <2>1. CASE j = i
    BY <1>3, <1>6, <2>1 DEF Changed, RuntimeOK
  <2>2. CASE j # i
    BY <1>2, <1>6, <2>2 DEF RuntimeOK
  <2> QED BY <2>1, <2>2
<1> QED BY <1>3, <1>4, <1>5, <1>6 DEF RuntimeOK

\* CreateContainer in the sandbox, when it is ready.
LEMMA CreateContainerKeeps ==
    ASSUME OneManager, PodInv, NEW m \in Manager, NEW c \in Container, CreateContainer(m, c)
    PROVE  PodInv'
<1> DEFINE v == worker[m]
           w == [worker[m] EXCEPT !.start = @ \cup {c},
                   !.pc = IF ToCreate(worker[m]) = {c} THEN "start" ELSE @]
<1>1. /\ v \in Worker /\ WorkerOK(v, sandboxes, faults) /\ v.pc = "create" /\ v.id \in Id
      /\ wanted' = wanted /\ faults' = faults /\ faults \in Nat /\ RuntimeOK(sandboxes)
      /\ c \in ToCreate(v) /\ sandboxes[v.id].state = "ready"
  BY DEF PodInv, CreateContainer, WorkerOK, Orderly, Worker, bounds, CanCreate
<1>2. sandboxes' = Put(sandboxes, v.id, c, "created")
  BY DEF CreateContainer, Put
<1>3. Become(m, w)
  BY SMTT(30) DEF CreateContainer
<1>4. /\ w \in Worker /\ w.version = v.version /\ w.id = v.id
      /\ w.running = v.running /\ w.halted = v.halted /\ w.start = v.start \cup {c}
      /\ w.pc = IF ToCreate(v) = {c} THEN "start" ELSE "create"
  BY <1>1, Zenon DEF Worker, Location
<1> HIDE DEF v, w
<1>5. RuntimeOK(sandboxes') /\ Changed(sandboxes[v.id], sandboxes'[v.id], c, "created")
  BY <1>1, <1>2, PutContainer DEF ContainerState
<1>6. Spared(w) \subseteq v.running
  BY <1>1, <1>4 DEF Spared, ToCreate
<1>7. \A d \in v.running : d \in Container /\ d # c /\ Started(sandboxes[v.id], d)
  BY <1>1 DEF ToCreate, WorkerOK, Uses, Spared, Orderly, Worker
<1>8. Uses(w, sandboxes')
  BY <1>1, <1>4, <1>5, <1>6, <1>7 DEF Uses, Started, WorkerOK, Orderly, Changed
<1>9. WorkerOK(w, sandboxes', faults)
  BY <1>1, <1>4, <1>8 DEF WorkerOK, Orderly, Ensured, Stops, Deletes
<1> QED BY <1>1, <1>3, <1>5, <1>9, Becomes

\* CreateContainer in a sandbox that is gone, or has the container.
LEMMA CreateRefusedKeeps ==
    ASSUME OneManager, PodInv, NEW m \in Manager, NEW c \in Container, CreateRefused(m, c)
    PROVE  PodInv'
<1>1. /\ worker[m].id \in Id /\ wanted' = wanted /\ faults' = faults
      /\ faults \in Nat /\ RuntimeOK(sandboxes) /\ GiveUp(m)
  BY DEF PodInv, CreateRefused, WorkerOK, Orderly, Worker, bounds
<1>2. \/ sandboxes' = sandboxes
      \/ sandboxes' = Put(sandboxes, worker[m].id, c, "none")
  BY DEF CreateRefused, Put
<1>3. RuntimeOK(sandboxes')
  BY <1>1, <1>2, PutContainer DEF ContainerState
<1> QED BY <1>1, <1>3, GivesUp

\* StartContainer.
LEMMA StartContainerKeeps ==
    ASSUME OneManager, PodInv, NEW m \in Manager, NEW c \in Container, StartContainer(m, c)
    PROVE  PodInv'
<1> DEFINE v == worker[m]
           w == [worker[m] EXCEPT !.start = @ \ {c},
                   !.pc = IF worker[m].start = {c} THEN "ensured" ELSE @]
<1>1. /\ v \in Worker /\ WorkerOK(v, sandboxes, faults) /\ v.pc = "start" /\ v.id \in Id
      /\ wanted' = wanted /\ faults' = faults /\ faults \in Nat /\ RuntimeOK(sandboxes)
  BY DEF PodInv, StartContainer, WorkerOK, Orderly, Worker, bounds
<1>2. CASE GiveUp(m) /\ sandboxes' = sandboxes
  BY <1>1, <1>2, GivesUp
<1>3. CASE /\ sandboxes[v.id].state = "ready"
           /\ sandboxes' = Put(sandboxes, v.id, c, "running") /\ Become(m, w)
  <2>1. /\ w \in Worker /\ w.version = v.version /\ w.id = v.id
        /\ w.running = v.running /\ w.halted = v.halted /\ w.start = v.start \ {c}
        /\ w.pc = IF v.start = {c} THEN "ensured" ELSE "start"
    BY <1>1, Zenon DEF Worker, Location
  <2> HIDE DEF v, w
  <2>2. RuntimeOK(sandboxes') /\ Changed(sandboxes[v.id], sandboxes'[v.id], c, "running")
    BY <1>1, <1>3, PutContainer DEF ContainerState
  <2>3. /\ sandboxes[v.id].version = v.version
        /\ \A d \in Container \ v.start : Started(sandboxes[v.id], d)
    BY <1>1, <1>3 DEF WorkerOK, Uses, Spared, Orderly
  <2>4. \A d \in Container \ w.start : Started(sandboxes'[v.id], d)
    BY <2>1, <2>2, <2>3 DEF Started, Changed
  <2>5. Uses(w, sandboxes')
    BY <2>1, <2>2, <2>3, <2>4 DEF Uses, Spared, Changed
  <2>6. Ensured(w, sandboxes')
    BY <1>3, <2>1, <2>2, <2>3, <2>4 DEF Ensured, IsListed, Changed
  <2>7. WorkerOK(w, sandboxes', faults)
    BY <1>1, <2>1, <2>5, <2>6 DEF WorkerOK, Orderly, Stops, Deletes
  <2> QED BY <1>1, <1>3, <2>2, <2>7, Becomes, SMTT(30)
<1> QED BY <1>2, <1>3 DEF StartContainer, Put

\* EnsurePod returns, and RunAndWaitForPod waits and then deletes the pod.
LEMMA WaitKeeps ==
    ASSUME OneManager, PodInv, NEW m \in Manager, Return(m) \/ WaitForPod(m)
    PROVE  PodInv'
<1> DEFINE v == worker[m]
           w == [worker[m] EXCEPT !.pc = "wait"]
           u == [worker[m] EXCEPT !.pc = "finish", !.doomed = {worker[m].id}]
<1>1. /\ v \in Worker /\ WorkerOK(v, sandboxes, faults) /\ v.pc \in {"ensured", "wait"}
      /\ wanted' = wanted /\ faults' = faults /\ faults \in Nat
      /\ sandboxes' = sandboxes /\ RuntimeOK(sandboxes)
  BY DEF PodInv, Return, WaitForPod, bounds
<1>2. CASE GiveUp(m)
  BY <1>1, <1>2, GivesUp
<1>3. CASE Become(m, w)
  <2>1. w \in Worker /\ w.pc = "wait" /\ w.id = v.id /\ w.running = v.running /\ w.halted = v.halted
    BY <1>1 DEF Worker, Location
  <2> HIDE DEF v, w
  <2>2. WorkerOK(w, sandboxes, faults)
    BY <1>1, <2>1 DEF WorkerOK, Orderly, Uses, Ensured, Stops, Deletes
  <2> QED BY <1>1, <1>3, <2>2, Becomes
<1>4. CASE v.pc = "wait" /\ v.id # 0 /\ Become(m, u)
  <2>1. /\ u \in Worker /\ u.pc = "finish" /\ u.id = v.id
        /\ u.running = v.running /\ u.halted = v.halted
    BY <1>1, <1>4, Zenon DEF Worker, Location
  <2> HIDE DEF v, u
  <2>2. WorkerOK(u, sandboxes, faults)
    BY <1>1, <2>1 DEF WorkerOK, Orderly, Uses, Ensured, Stops, Deletes
  <2> QED BY <1>1, <1>4, <2>2, Becomes
<1>5. v.pc = "wait" => v.id # 0
  BY <1>1 DEF WorkerOK, Orderly
<1> QED BY <1>2, <1>3, <1>4, <1>5 DEF Return, WaitForPod

\* A call fails, or the manager dies.
LEMMA FailureKeeps ==
    ASSUME OneManager, PodInv, NEW m \in Manager, CallFails(m) \/ Crash(m)
    PROVE  PodInv'
<1>1. /\ GiveUp(m) /\ sandboxes' = sandboxes /\ wanted' = wanted /\ faults' \in Nat
  BY DEF CallFails, Crash, Fault, PodInv
<1> QED BY <1>1, GivesUp DEF PodInv

-----------------------------------------------------------------------------

\* Every step keeps the invariant.
LEMMA PodNext == OneManager /\ PodInv /\ [Next]_vars => PodInv'
<1> SUFFICES ASSUME OneManager, PodInv, [Next]_vars
             PROVE  PodInv'
  OBVIOUS
<1>1. CASE \/ \E v \in Version : ChangeManifest(v)
           \/ \E i \in Id, c \in Container : ContainerExits(i, c)
           \/ Reboot
           \/ UNCHANGED vars
  BY <1>1, WorldKeeps
<1>2. ASSUME NEW m \in Manager, Step(m)
      PROVE  PodInv'
  BY <1>2, InspectKeeps, ListPodsKeeps, RemoveSandboxKeeps, RunSandboxKeeps, WaitKeeps,
     StopSandboxKeeps, CreateContainerKeeps, CreateRefusedKeeps, StartContainerKeeps, Zenon
     DEF Step
<1>3. ASSUME NEW m \in Manager, DeletePodFails(m) \/ CallFails(m) \/ Crash(m)
      PROVE  PodInv'
  BY <1>3, DeletePodFailsKeeps, FailureKeeps
<1>4. ASSUME NEW m \in Manager, NEW c \in Container, InspectPartly(m, c)
      PROVE  PodInv'
  BY <1>4, InspectPartlyKeeps
<1> QED BY <1>1, <1>2, <1>3, <1>4 DEF Next

\* With one manager, the sandbox that EnsurePod works on is as it found or left it as
\* long as it is ready, and no other sandbox has its name.
THEOREM PodInvariant == OneManager => (Spec => []PodInv)
<1> SUFFICES ASSUME OneManager
             PROVE  Spec => []PodInv
  OBVIOUS
<1>1. ASSUME Init
      PROVE  PodInv
  <2>1. sandboxes = [i \in Id |-> NoSandbox] /\ NoSandbox \in Sandbox
    BY <1>1 DEF Init, NoSandbox, Sandbox, ContainerState
  <2>2. \A i \in Id : /\ sandboxes[i].state = "none"
                      /\ \A c \in Container : sandboxes[i].containers[c] = "none"
    BY <2>1 DEF NoSandbox
  <2>3. RuntimeOK(sandboxes)
    BY <2>1, <2>2 DEF RuntimeOK, IsListed
  <2>4. IdleWorker \in Worker
    BY IdleOK DEF WorkerOK
  <2> QED BY <1>1, <2>3, <2>4, IdleOK DEF Init, PodInv
<1>2. PodInv /\ [Next]_vars => PodInv'
  BY PodNext
<1> QED BY <1>1, <1>2, PTL DEF Spec

\* With one manager, EnsurePod returns without an error only if the sandbox of the
\* version it was asked for is there and each of its containers was started, although
\* DeletePod may have been called on the sandbox it goes on to use.
THEOREM EnsuredPodRuns == OneManager => (Spec => []EnsuredRuns)
<1>1. ASSUME PodInv
      PROVE  EnsuredRuns
  <2> SUFFICES ASSUME NEW m \in Manager, worker[m].pc = "ensured"
               PROVE  /\ worker[m].id \in Listed
                      /\ sandboxes[worker[m].id].version = worker[m].version
                      /\ InState(worker[m].id, "running") \cup InState(worker[m].id, "exited")
                           = Container
    BY DEF EnsuredRuns
  <2>1. worker[m].id \in Id
    BY <1>1 DEF PodInv, WorkerOK, Orderly, Worker
  <2>2. /\ IsListed(sandboxes[worker[m].id])
        /\ sandboxes[worker[m].id].version = worker[m].version
        /\ \A c \in Container : Started(sandboxes[worker[m].id], c)
    BY <1>1 DEF PodInv, WorkerOK, Ensured
  <2> QED BY <2>1, <2>2 DEF Listed, IsListed, InState, Started
<1> QED BY <1>1, PodInvariant, PTL

\* With one manager and no failed call, EnsurePod stops no pod that has the version it
\* wants and runs completely: IsPodRunning has looked before DeletePod is called.
THEOREM RunningPodStays == OneManager => (Spec => RunningPodKept)
<1> SUFFICES ASSUME OneManager
             PROVE  Spec => RunningPodKept
  OBVIOUS
<1>1. ASSUME PodInv, NEW m \in Manager, NEW i \in Id, faults = 0, StopSandbox(m, i),
             worker[m].pc = "delete", InState(i, "running") = Container
      PROVE  sandboxes[i].version # worker[m].version
  <2>1. RunsCompletely(sandboxes[i])
    BY <1>1 DEF InState, RunsCompletely
  <2>2. Deletes(worker[m], sandboxes)
    BY <1>1 DEF PodInv, WorkerOK
  <2>3. ~ (IsListed(sandboxes[i]) /\ sandboxes[i].version = worker[m].version)
    BY <1>1, <2>1, <2>2 DEF Deletes
  <2>4. IsListed(sandboxes[i])
    BY <1>1, <2>1, ContainerAssumption DEF PodInv, RuntimeOK, RunsCompletely, IsListed
  <2> QED BY <2>3, <2>4
<1>2. PodInv => [\A m \in Manager, i \in Id : faults = 0 =>
          (StopSandbox(m, i) /\ worker[m].pc = "delete" /\ InState(i, "running") = Container
             => sandboxes[i].version # worker[m].version)]_vars
  BY <1>1
<1> QED BY <1>2, PodInvariant, PTL DEF RunningPodKept

-----------------------------------------------------------------------------
(***************************************************************************)
(* Clusters: module ClusterLifecycle, on variables of its own.             *)
(***************************************************************************)

CONSTANTS ControlPlane, Ingress, NoKey, MaxReplicas, MaxEdits
VARIABLES cluster, components, queue, controller, reconciler, initializer, edits, failures

CL == INSTANCE ClusterLifecycle WITH faults <- failures

\* What ClusterLifecycle assumes of its constants: a component has one role.
Roles == ControlPlane \cap Ingress = {}

Field == {"phase", "replicas", "ca", "joinKey", "labelled", "status"}

\* The cluster has its fields, and is labelled or not.
Shaped(cl) ==
    /\ cl = [f \in Field |-> cl[f]]
    /\ cl.labelled \in BOOLEAN

\* Nothing but a label can stand for missing keys.
HasKeys(cl) == ~ cl.labelled => ~ CL!NeedsKeys(cl)

\* A cluster before its creation.
Unborn(cl) == cl.phase = "absent" /\ cl.ca = NoKey

InitializersOK ==
    /\ initializer \in [Manager -> [pc : {"idle", "write"}, fresh : BOOLEAN]]
    /\ \A m \in Manager : initializer[m].pc = "write" => cluster.phase # "absent"

KeysInv ==
    /\ Shaped(cluster)
    /\ cluster.phase = "absent" => cluster.ca = NoKey
    /\ CL!UnlabelledHasKeys
    /\ InitializersOK

\* What users and controllers make of a cluster.
CreatedCluster(n) == [CL!AbsentCluster EXCEPT !.phase = "live", !.replicas = n]
Scaled(cl, n) == [cl EXCEPT !.replicas = n]
Rotated(cl) == [cl EXCEPT !.joinKey = NoKey]
Deleted(cl) == [cl EXCEPT !.phase = "deleting"]
Published(cl, s) == [cl EXCEPT !.status = s]
Released == [CL!AbsentCluster EXCEPT !.phase = "gone"]

\* What is written over cluster cl.
Written(cl, new) ==
    \/ \E n : cl.phase = "absent" /\ new = CL!Default(CreatedCluster(n))
    \/ \E n : cl.phase = "live" /\ new = CL!Default(Scaled(cl, n))
    \/ cl.phase = "live" /\ new = CL!Default(Rotated(cl))
    \/ cl.phase = "live" /\ new = Deleted(cl)
    \/ \E s : new = Published(cl, s)
    \/ new = Released
    \/ \E m : cl.phase # "absent" /\ new = CL!Default(CL!Initialized(cl, m))

-----------------------------------------------------------------------------

\* The cluster before anybody creates it.
LEMMA AbsentShaped == Shaped(CL!AbsentCluster) /\ Unborn(CL!AbsentCluster)
BY DEF Shaped, Field, Unborn, CL!AbsentCluster

\* The cluster that CreateCluster writes, defaulted by the web hook.
LEMMA CreatedShaped ==
    ASSUME NEW n
    PROVE  Shaped(CreatedCluster(n)) /\ CreatedCluster(n).phase = "live"
<1>1. Shaped(CreatedCluster(n))
  BY AbsentShaped, Zenon DEF Shaped, Field, CreatedCluster
<1>2. CreatedCluster(n).phase = "live"
  BY AbsentShaped DEF Shaped, Field, CreatedCluster
<1> QED
  BY <1>1, <1>2

\* What is left of the cluster when its finalizer is removed.
LEMMA ReleasedShaped == Shaped(Released) /\ Released.phase = "gone"
BY AbsentShaped DEF Shaped, Field, Released

\* What an edit keeps.
LEMMA EditedShaped ==
    ASSUME NEW cl, Shaped(cl)
    PROVE  /\ \A n : /\ Shaped(Scaled(cl, n)) /\ Scaled(cl, n).phase = cl.phase
                    /\ Scaled(cl, n).ca = cl.ca
           /\ Shaped(Rotated(cl)) /\ Rotated(cl).phase = cl.phase /\ Rotated(cl).ca = cl.ca
           /\ Shaped(Deleted(cl)) /\ Deleted(cl).phase = "deleting"
           /\ \A f \in Field \ {"phase"} : Deleted(cl)[f] = cl[f]
           /\ \A s : /\ Shaped(Published(cl, s))
                    /\ \A f \in Field \ {"status"} : Published(cl, s)[f] = cl[f]
BY DEF Shaped, Field, Scaled, Rotated, Deleted, Published

\* What the initializer keeps.
LEMMA InitializedShaped ==
    ASSUME NEW cl, Shaped(cl), NEW m
    PROVE  /\ Shaped(CL!Initialized(cl, m)) /\ CL!Initialized(cl, m).phase = cl.phase
           /\ cl.ca # NoKey => CL!Initialized(cl, m).ca = cl.ca
BY Zenon DEF Shaped, Field, CL!Initialized

\* The web hook leaves a cluster labelled when it lacks a key, and touches neither
\* its phase nor its keys.
LEMMA Defaulted ==
    ASSUME NEW cl, Shaped(cl)
    PROVE  /\ Shaped(CL!Default(cl)) /\ HasKeys(CL!Default(cl))
           /\ CL!Default(cl).phase = cl.phase /\ CL!Default(cl).ca = cl.ca
<1>1. /\ CL!Default(cl) = [f \in Field |-> CL!Default(cl)[f]]
      /\ CL!Default(cl).phase = cl.phase
      /\ CL!Default(cl).ca = cl.ca /\ CL!Default(cl).joinKey = cl.joinKey
  BY Zenon DEF Shaped, Field, CL!Default
<1>2. CL!Default(cl).labelled = (cl.labelled \/ CL!NeedsKeys(cl))
  BY Zenon DEF Shaped, Field, CL!Default
<1>3. CL!NeedsKeys(CL!Default(cl)) = CL!NeedsKeys(cl)
  BY <1>1 DEF CL!NeedsKeys
<1> QED
  BY <1>1, <1>2, <1>3, Zenon DEF Shaped, HasKeys

\* Each write keeps the shape and the label, and an authority that is there.
LEMMA WrittenOK ==
    ASSUME NEW cl, NEW new, Shaped(cl), Written(cl, new),
           cl.phase = "absent" => cl.ca = NoKey,
           CL!Exists(cl) => HasKeys(cl)
    PROVE  /\ Shaped(new)
           /\ new.phase = "absent" => new.ca = NoKey
           /\ new.phase = "absent" => cl.phase = "absent"
           /\ CL!Exists(new) => HasKeys(new)
           /\ cl.ca # NoKey /\ CL!Exists(new) => new.ca = cl.ca
<1>1. CASE \E n : cl.phase = "absent" /\ new = CL!Default(CreatedCluster(n))
  BY <1>1, CreatedShaped, Defaulted
<1>2. CASE \E n : cl.phase = "live" /\ new = CL!Default(Scaled(cl, n))
  <2>1. PICK n : cl.phase = "live" /\ new = CL!Default(Scaled(cl, n))
    BY <1>2
  <2>2. Shaped(Scaled(cl, n)) /\ Scaled(cl, n).phase = cl.phase /\ Scaled(cl, n).ca = cl.ca
    BY EditedShaped, Zenon
  <2>3. QED
    BY <2>1, <2>2, Defaulted
<1>3. CASE cl.phase = "live" /\ new = CL!Default(Rotated(cl))
  BY <1>3, EditedShaped, Defaulted
<1>4. CASE cl.phase = "live" /\ new = Deleted(cl)
  BY <1>4, EditedShaped DEF Field, CL!Exists, HasKeys, CL!NeedsKeys
<1>5. CASE \E s : new = Published(cl, s)
  BY <1>5, EditedShaped DEF Field, CL!Exists, HasKeys, CL!NeedsKeys
<1>6. CASE new = Released
  BY <1>6, ReleasedShaped DEF CL!Exists
<1>7. CASE \E m : cl.phase # "absent" /\ new = CL!Default(CL!Initialized(cl, m))
  <2>1. PICK m : cl.phase # "absent" /\ new = CL!Default(CL!Initialized(cl, m))
    BY <1>7
  <2>2. /\ Shaped(CL!Initialized(cl, m)) /\ CL!Initialized(cl, m).phase = cl.phase
        /\ cl.ca # NoKey => CL!Initialized(cl, m).ca = cl.ca
    BY InitializedShaped
  <2>3. QED
    BY <2>1, <2>2, Defaulted
<1> QED
  BY <1>1, <1>2, <1>3, <1>4, <1>5, <1>6, <1>7 DEF Written

-----------------------------------------------------------------------------

\* The invariant holds of a cluster that was never created.
LEMMA InitKeys == CL!Init => KeysInv
BY AbsentShaped DEF CL!Init, KeysInv, InitializersOK, CL!IdleInitializer,
                    CL!UnlabelledHasKeys, CL!Exists, Unborn, CL!AbsentCluster

\* No step writes anything else over the cluster.
LEMMA ClusterStep ==
    ASSUME KeysInv, [CL!Next]_(CL!vars)
    PROVE  cluster' = cluster \/ Written(cluster, cluster')
<1>1. CASE CL!Users
  <2>1. ASSUME NEW n, CL!CreateCluster(n)
        PROVE  cluster.phase = "absent" /\ cluster' = CL!Default(CreatedCluster(n))
    BY <2>1, Zenon DEF CL!CreateCluster, CL!WriteCluster, CreatedCluster
  <2>2. ASSUME NEW n, CL!ScaleCluster(n)
        PROVE  cluster.phase = "live" /\ cluster' = CL!Default(Scaled(cluster, n))
    BY <2>2, Zenon DEF CL!ScaleCluster, CL!WriteCluster, Scaled
  <2>3. CL!RotateJoinKey => cluster.phase = "live" /\ cluster' = CL!Default(Rotated(cluster))
    BY Zenon DEF CL!RotateJoinKey, CL!WriteCluster, Rotated
  <2>4. CL!DeleteCluster => cluster.phase = "live" /\ cluster' = Deleted(cluster)
    BY Zenon DEF CL!DeleteCluster, CL!WriteCluster, Deleted
  <2>5. ASSUME NEW c, CL!DeleteComponent(c)
        PROVE  cluster' = cluster
    BY <2>5, Zenon DEF CL!DeleteComponent
  <2>6. QED
    BY <1>1, <2>1, <2>2, <2>3, <2>4, <2>5 DEF CL!Users, Written
<1>2. CASE \E c \in CL!Component :
              CL!ScheduleComponent(c) \/ CL!GrantPorts(c) \/ CL!FinishDeletion(c)
  BY <1>2 DEF CL!ScheduleComponent, CL!GrantPorts, CL!FinishDeletion
<1>3. ASSUME NEW m \in Manager,
             CL!ControllerStep(m) \/ CL!InitializerGet(m) \/ CL!Failure(m) \/ CL!Resync(m)
      PROVE  cluster' = cluster
  BY <1>3, Zenon DEF CL!ControllerStep, CL!ControllerGet, CL!ControllerList,
                     CL!ControllerCreate, CL!ControllerDelete, CL!InitializerGet, CL!Failure,
                     CL!ControllerFails, CL!ReconcilerFails, CL!InitializerFails, CL!Crash,
                     CL!Resync, CL!store
<1>4. ASSUME NEW m \in Manager, CL!ReconcilerStep(m)
      PROVE  cluster' = cluster \/ Written(cluster, cluster')
  <2>1. CASE \/ CL!ReconcilerGet(m) \/ CL!ReconcilerList(m)
             \/ CL!ReconcilerRefuses(m) \/ CL!ReconcilerPanics(m)
    BY <2>1 DEF CL!ReconcilerGet, CL!ReconcilerList, CL!ReconcilerRefuses,
                CL!ReconcilerPanics, CL!store
  <2>2. CASE CL!ReconcilerWrite(m)
    <3>1. cluster' = IF reconciler[m].pc = "publish"
                     THEN Published(cluster, reconciler[m].status) ELSE Released
      BY <2>2, Zenon DEF CL!ReconcilerWrite, CL!WriteCluster, Published, Released
    <3>2. QED
      BY <3>1 DEF Written
  <2>3. QED
    BY <1>4, <2>1, <2>2 DEF CL!ReconcilerStep
<1>5. ASSUME NEW m \in Manager, CL!InitializerWrite(m)
      PROVE  cluster' = cluster \/ Written(cluster, cluster')
  BY <1>5 DEF CL!InitializerWrite, CL!WriteCluster, Written, KeysInv, InitializersOK
<1>6. CASE UNCHANGED CL!vars
  BY <1>6 DEF CL!vars
<1> QED
  BY <1>1, <1>2, <1>3, <1>4, <1>5, <1>6 DEF CL!Next, CL!InitializerStep

\* An initializer sets out only for a cluster that exists.
LEMMA InitializersStep ==
    ASSUME KeysInv, [CL!Next]_(CL!vars),
           cluster'.phase = "absent" => cluster.phase = "absent"
    PROVE  InitializersOK'
<1> USE DEF KeysInv
<1> DEFINE Workers == [Manager -> [pc : {"idle", "write"}, fresh : BOOLEAN]]
<1>1. initializer \in Workers /\ CL!IdleInitializer \in [pc : {"idle", "write"}, fresh : BOOLEAN]
  BY DEF InitializersOK, CL!IdleInitializer
<1>2. ASSUME NEW is \in Workers, initializer' = CL!Outdate(is),
             \A m \in Manager : is[m].pc = "write" => cluster'.phase # "absent"
      PROVE  InitializersOK'
  <2>1. \A m \in Manager : /\ initializer'[m] \in [pc : {"idle", "write"}, fresh : BOOLEAN]
                           /\ initializer'[m].pc = is[m].pc
    <3>1. ASSUME NEW w \in [pc : {"idle", "write"}, fresh : BOOLEAN]
          PROVE  /\ [w EXCEPT !.fresh = FALSE] \in [pc : {"idle", "write"}, fresh : BOOLEAN]
                 /\ [w EXCEPT !.fresh = FALSE].pc = w.pc
      BY Zenon
    <3>2. \A m \in Manager : initializer'[m] = [is[m] EXCEPT !.fresh = FALSE]
      BY <1>2, Zenon DEF CL!Outdate
    <3>3. QED
      BY <1>2, <3>1, <3>2, ZenonT(30)
  <2>2. initializer' \in Workers
    BY <1>2, <2>1 DEF CL!Outdate
  <2>3. QED
    BY <1>2, <2>1, <2>2 DEF InitializersOK
<1>3. ASSUME NEW m \in Manager, initializer' = CL!Become(initializer, m, CL!IdleInitializer)
      PROVE  InitializersOK'
  BY <1>3 DEF InitializersOK, CL!Become, CL!IdleInitializer
<1>4. CASE UNCHANGED initializer
  BY <1>4 DEF InitializersOK
<1>5. CASE CL!Users
  <2>1. ASSUME NEW c, CL!DeleteComponent(c)
        PROVE  UNCHANGED initializer
    BY <2>1, Zenon DEF CL!DeleteComponent, CL!workers
  <2>2. ASSUME NEW n, \/ CL!CreateCluster(n) \/ CL!ScaleCluster(n)
                      \/ CL!RotateJoinKey \/ CL!DeleteCluster
        PROVE  initializer' = CL!Outdate(initializer)
    BY <2>2, Zenon DEF CL!CreateCluster, CL!ScaleCluster, CL!RotateJoinKey, CL!DeleteCluster,
                       CL!WriteCluster
  <2>3. QED
    BY <1>1, <1>2, <1>4, <1>5, <2>1, <2>2 DEF CL!Users, InitializersOK
<1>6. CASE \E c \in CL!Component :
              CL!ScheduleComponent(c) \/ CL!GrantPorts(c) \/ CL!FinishDeletion(c)
  BY <1>6, <1>4 DEF CL!ScheduleComponent, CL!GrantPorts, CL!FinishDeletion, CL!workers
<1>7. ASSUME NEW m \in Manager, CL!ControllerStep(m) \/ CL!Resync(m)
      PROVE  InitializersOK'
  <2>1. UNCHANGED initializer
    BY <1>7, Zenon DEF CL!ControllerStep, CL!ControllerGet, CL!ControllerList,
                       CL!ControllerCreate, CL!ControllerDelete, CL!Resync, CL!workers
  <2>2. QED
    BY <2>1, <1>4
<1>8. ASSUME NEW m \in Manager, CL!Failure(m)
      PROVE  InitializersOK'
  BY <1>8, <1>3, <1>4 DEF CL!Failure, CL!ControllerFails, CL!ReconcilerFails,
                          CL!InitializerFails, CL!Crash, CL!Restart
<1>9. ASSUME NEW m \in Manager, CL!ReconcilerStep(m)
      PROVE  InitializersOK'
  <2>1. CASE CL!ReconcilerGet(m) \/ CL!ReconcilerList(m) \/ CL!ReconcilerRefuses(m)
    BY <2>1, <1>4 DEF CL!ReconcilerGet, CL!ReconcilerList, CL!ReconcilerRefuses
  <2>2. CASE CL!ReconcilerPanics(m)
    BY <2>2, <1>3 DEF CL!ReconcilerPanics, CL!Restart
  <2>3. CASE CL!ReconcilerWrite(m)
    <3>1. initializer' = CL!Outdate(initializer)
      BY <2>3 DEF CL!ReconcilerWrite, CL!WriteCluster
    <3>2. QED
      BY <1>1, <1>2, <3>1 DEF InitializersOK
  <2>4. QED
    BY <1>9, <2>1, <2>2, <2>3 DEF CL!ReconcilerStep
<1>10. ASSUME NEW m \in Manager, CL!InitializerStep(m)
       PROVE  InitializersOK'
  <2>1. CASE CL!InitializerGet(m)
    BY <2>1 DEF CL!InitializerGet, InitializersOK, CL!Become, CL!Exists, CL!store
  <2>2. CASE CL!InitializerWrite(m) /\ initializer[m].fresh
    <3>1. /\ CL!Become(initializer, m, CL!IdleInitializer) \in Workers
          /\ initializer' = CL!Outdate(CL!Become(initializer, m, CL!IdleInitializer))
      BY <2>2, <1>1 DEF CL!InitializerWrite, CL!WriteCluster, CL!Become
    <3>2. QED
      <4>1. \A k \in Manager : CL!Become(initializer, m, CL!IdleInitializer)[k].pc = "write" =>
                                  initializer[k].pc = "write"
        BY <1>1 DEF CL!Become, CL!IdleInitializer
      <4>2. QED
        BY <1>2, <3>1, <4>1 DEF InitializersOK
  <2>3. CASE CL!InitializerWrite(m) /\ ~ initializer[m].fresh
    BY <2>3, <1>3 DEF CL!InitializerWrite
  <2>4. QED
    BY <1>10, <2>1, <2>2, <2>3 DEF CL!InitializerStep
<1>11. CASE UNCHANGED CL!vars
  BY <1>11, <1>4 DEF CL!vars
<1> QED
  BY <1>5, <1>6, <1>7, <1>8, <1>9, <1>10, <1>11 DEF CL!Next

\* Every writer of the cluster and every step of an initializer keeps the invariant.
LEMMA KeysStep == KeysInv /\ [CL!Next]_(CL!vars) => KeysInv'
<1> SUFFICES ASSUME KeysInv, [CL!Next]_(CL!vars) PROVE KeysInv'
  OBVIOUS
<1>1. cluster' = cluster \/ Written(cluster, cluster')
  BY ClusterStep
<1>2. CASE cluster' = cluster
  BY <1>2, InitializersStep DEF KeysInv, CL!UnlabelledHasKeys, CL!Exists, CL!NeedsKeys, Shaped
<1>3. CASE Written(cluster, cluster')
  <2>1. /\ Shaped(cluster')
        /\ cluster'.phase = "absent" => cluster'.ca = NoKey
        /\ cluster'.phase = "absent" => cluster.phase = "absent"
        /\ CL!Exists(cluster') => HasKeys(cluster')
    BY <1>3, WrittenOK DEF KeysInv, CL!UnlabelledHasKeys, HasKeys
  <2>2. QED
    BY <2>1, InitializersStep, Zenon DEF KeysInv, CL!UnlabelledHasKeys, HasKeys
<1> QED
  BY <1>1, <1>2, <1>3

\* Whatever users remove and however many managers initialize, write and die: the
\* keys the component controller dereferences are there once the label is gone.
THEOREM KeysUnlabelled == CL!Spec => []CL!UnlabelledHasKeys
<1>1. KeysInv => CL!UnlabelledHasKeys
  BY DEF KeysInv
<1> QED
  BY InitKeys, KeysStep, <1>1, PTL DEF CL!Spec

\* No initializer and no web hook of any manager replaces the certificate authority
\* of a cluster that is there.
THEOREM AuthorityStands == CL!Spec => CL!AuthorityKept
<1>1. KeysInv /\ [CL!Next]_(CL!vars) =>
        [cluster.ca # NoKey /\ CL!Exists(cluster)' => cluster'.ca = cluster.ca]_(CL!vars)
  <2> SUFFICES ASSUME KeysInv, [CL!Next]_(CL!vars), cluster.ca # NoKey, CL!Exists(cluster')
               PROVE  cluster'.ca = cluster.ca
    OBVIOUS
  <2>1. CASE cluster' = cluster
    BY <2>1
  <2>2. CASE Written(cluster, cluster')
    BY <2>2, WrittenOK DEF KeysInv, CL!UnlabelledHasKeys, HasKeys
  <2>3. QED
    BY <2>1, <2>2, ClusterStep
<1> QED
  BY InitKeys, KeysStep, <1>1, PTL DEF CL!Spec, CL!AuthorityKept

-----------------------------------------------------------------------------
(***************************************************************************)
(* The ingress.  A worker of the cluster controller that is to create one  *)
(* has found none when it listed, and as long as there is no other worker  *)
(* nobody creates one before it does.                                      *)
(***************************************************************************)

ComponentShaped(comp) == comp = [f \in {"phase", "placed", "ports"} |-> comp[f]]

ControllerField == {"pc", "replicas", "deleting", "create", "delete", "expose"}
ControllerShaped(w) == w = [f \in ControllerField |-> w[f]]

Components(cs) ==
    /\ cs = [c \in CL!Component |-> cs[c]]
    /\ \A c \in CL!Component : ComponentShaped(cs[c])

\* Worker w is to create an ingress only if there is none among components cs.
ControllerOK(w, cs) ==
    /\ ControllerShaped(w)
    /\ w.pc # "apply" => w.expose = FALSE
    /\ w.expose => CL!Ingresses(cs) = {}

IngressInv ==
    /\ Components(components)
    /\ \A a, b \in CL!Ingresses(components) : a = b
    /\ controller = [m \in Manager |-> controller[m]]
    /\ \A m \in Manager : ControllerOK(controller[m], components)

\* A worker between two passes.
LEMMA IdleControllerOK == \A cs : ControllerOK(CL!IdleController, cs)
BY DEF ControllerOK, ControllerShaped, ControllerField, CL!IdleController

\* No ingress comes to life between components cs and new.
NoMore(cs, new) == Components(new) /\ CL!Ingresses(new) \subseteq CL!Ingresses(cs)

\* A step in which no ingress comes to life, and perhaps one worker moves on.
LEMMA NoMoreOK ==
    ASSUME IngressInv, NoMore(components, components'),
           \/ controller' = controller
           \/ \E m \in Manager : \E w : /\ controller' = CL!Become(controller, m, w)
                                       /\ ControllerOK(w, components')
    PROVE  IngressInv'
<1>1. \A w : ControllerOK(w, components) => ControllerOK(w, components')
  BY DEF ControllerOK, NoMore
<1>2. CASE controller' = controller
  BY <1>1, <1>2 DEF IngressInv, NoMore
<1>3. ASSUME NEW m \in Manager, NEW w, controller' = CL!Become(controller, m, w),
             ControllerOK(w, components')
      PROVE  IngressInv'
  <2>1. /\ controller' = [k \in Manager |-> controller'[k]]
        /\ \A k \in Manager : controller'[k] = IF k = m THEN w ELSE controller[k]
    BY <1>3 DEF IngressInv, CL!Become
  <2> QED
    BY <1>1, <1>3, <2>1 DEF IngressInv, NoMore
<1> QED
  BY <1>2, <1>3

\* What is written over a component that is there.
LEMMA WrittenComponent ==
    ASSUME IngressInv, NEW c \in CL!Component, NEW comp, ComponentShaped(comp),
           c \in Ingress /\ comp.phase = "live" => components[c].phase = "live",
           CL!WriteComponent(c, comp)
    PROVE  NoMore(components, components')
<1>1. /\ components' = [x \in CL!Component |-> components'[x]]
      /\ \A x \in CL!Component : components'[x] = IF x = c THEN comp ELSE components[x]
  BY DEF CL!WriteComponent, IngressInv, Components
<1> QED
  BY <1>1 DEF NoMore, Components, CL!Ingresses, CL!Live, IngressInv

\* The writes of a component.
LEMMA EditedComponent ==
    ASSUME IngressInv, NEW c \in CL!Component
    PROVE  /\ ComponentShaped([components[c] EXCEPT !.phase = "deleting"])
           /\ [components[c] EXCEPT !.phase = "deleting"].phase = "deleting"
           /\ ComponentShaped([components[c] EXCEPT !.placed = TRUE])
           /\ [components[c] EXCEPT !.placed = TRUE].phase = components[c].phase
           /\ ComponentShaped([components[c] EXCEPT !.ports = TRUE])
           /\ [components[c] EXCEPT !.ports = TRUE].phase = components[c].phase
           /\ ComponentShaped([CL!AbsentComponent EXCEPT !.phase = "gone"])
           /\ [CL!AbsentComponent EXCEPT !.phase = "gone"].phase = "gone"
BY Zenon DEF IngressInv, Components, ComponentShaped, CL!AbsentComponent, CL!NewComponent

\* No write.
LEMMA SameComponents ==
    ASSUME IngressInv, components' = components
    PROVE  NoMore(components, components')
BY DEF IngressInv, NoMore

\* The instance has a Cardinality of its own.
LEMMA SameCardinality == \A S : CL!Cardinality(S) = Cardinality(S)
BY DEF CL!Cardinality, Cardinality

\* A set with no two elements has at most one.
LEMMA AtMostOne ==
    ASSUME NEW S, \A a, b \in S : a = b
    PROVE  CL!Cardinality(S) <= 1 /\ (CL!Cardinality(S) = 0 => S = {})
<1>1. CASE S = {}
  BY <1>1, SameCardinality, FS_EmptySet
<1>2. CASE S # {}
  <2>1. PICK x : S = {x}
    BY <1>2
  <2>2. CL!Cardinality(S) = 1
    BY <2>1, SameCardinality, FS_Singleton, Zenon
  <2> QED
    BY <2>2
<1> QED
  BY <1>1, <1>2

\* What a worker does next.
LEMMA GoingOK ==
    ASSUME NEW cs, NEW w, ControllerOK(w, cs)
    PROVE  ControllerOK(CL!Going(w), cs)
BY IdleControllerOK DEF CL!Going

\* A worker that has listed the components is to create an ingress if it found none.
LEMMA PlansOK ==
    ASSUME IngressInv, NEW m \in Manager, controller[m].pc = "list",
           NEW w \in CL!Plans(controller[m], components)
    PROVE  ControllerOK(w, components)
<1> DEFINE v == controller[m]
<1>1. ControllerShaped(v) /\ v.expose = FALSE
  BY DEF IngressInv, ControllerOK
<1>2. CASE v.deleting
  <2>1. w = [v EXCEPT !.pc = "apply", !.delete = CL!Listed(components)]
    BY <1>2 DEF CL!Plans
  <2> QED
    BY <1>1, <2>1, Zenon DEF ControllerOK, ControllerShaped, ControllerField
<1>3. CASE ~ v.deleting
  <2>1. PICK n, s : w = [v EXCEPT !.pc = "apply", !.create = n, !.delete = s,
                                  !.expose = CL!Cardinality(CL!Ingresses(components)) = 0]
    BY <1>3, Zenon DEF CL!Plans
  <2>2. /\ ControllerShaped(w) /\ w.pc = "apply"
        /\ w.expose = (CL!Cardinality(CL!Ingresses(components)) = 0)
    BY <1>1, <2>1, Zenon DEF ControllerShaped, ControllerField
  <2>3. CL!Cardinality(CL!Ingresses(components)) = 0 => CL!Ingresses(components) = {}
    BY AtMostOne DEF IngressInv
  <2> QED
    BY <2>2, <2>3, Zenon DEF ControllerOK
<1> QED
  BY <1>2, <1>3

\* The steps of the cluster controller.
LEMMA ControllerKeepsIngress ==
    ASSUME OneManager, Roles, IngressInv, NEW m \in Manager, CL!ControllerStep(m)
    PROVE  IngressInv'
<1> DEFINE v == controller[m]
<1>1. ControllerOK(v, components) /\ ControllerShaped(v)
  BY DEF IngressInv, ControllerOK
<1>2. CASE CL!ControllerGet(m)
  <2>1. components' = components
    BY <1>2 DEF CL!ControllerGet, CL!store
  <2>2. CASE controller' = controller
    BY <2>1, <2>2, SameComponents, NoMoreOK
  <2>3. CASE controller' # controller
    <3> DEFINE w == [CL!IdleController EXCEPT !.pc = "list", !.replicas = cluster.replicas,
                                           !.deleting = cluster.phase = "deleting"]
    <3>1. controller' = CL!Become(controller, m, w)
      BY <1>2, <2>3 DEF CL!ControllerGet
    <3>2. ControllerOK(w, components')
      BY Zenon DEF ControllerOK, ControllerShaped, ControllerField, CL!IdleController
    <3> HIDE DEF w
    <3> QED
      BY <2>1, <3>1, <3>2, SameComponents, NoMoreOK
  <2> QED
    BY <2>2, <2>3
<1>3. CASE CL!ControllerList(m)
  <2>1. components' = components /\ v.pc = "list"
    BY <1>3 DEF CL!ControllerList, CL!store
  <2>2. PICK w \in CL!Plans(v, components) : controller' = CL!Become(controller, m, CL!Going(w))
    BY <1>3 DEF CL!ControllerList
  <2>3. ControllerOK(CL!Going(w), components)
    BY <2>1, PlansOK, GoingOK
  <2> QED
    BY <2>1, <2>2, <2>3, SameComponents, NoMoreOK
<1>4. ASSUME NEW c \in CL!Component, CL!ControllerCreate(m, c)
      PROVE  IngressInv'
  <2>1. /\ v.pc = "apply" /\ CL!WriteComponent(c, CL!NewComponent)
        /\ ComponentShaped(CL!NewComponent)
    BY <1>4 DEF CL!ControllerCreate, ComponentShaped, CL!NewComponent
  <2>2. CASE c \in ControlPlane
    <3> DEFINE w == [v EXCEPT !.create = @ - 1]
    <3>1. controller' = CL!Become(controller, m, CL!Going(w))
      BY <1>4, <2>2, Zenon DEF CL!ControllerCreate
    <3>2. ControllerShaped(w) /\ w.pc = v.pc /\ w.expose = v.expose
      BY <1>1 DEF ControllerShaped, ControllerField
    <3> HIDE DEF w
    <3>3. NoMore(components, components')
      BY <2>1, <2>2, WrittenComponent DEF Roles
    <3>4. ControllerOK(w, components')
      BY <1>1, <3>2, <3>3 DEF ControllerOK, NoMore
    <3>5. ControllerOK(CL!Going(w), components')
      BY <3>4, GoingOK
    <3> QED
      BY <3>1, <3>3, <3>5, NoMoreOK
  <2>3. CASE c \notin ControlPlane
    <3> DEFINE w == [v EXCEPT !.expose = FALSE]
    <3>1. controller' = CL!Become(controller, m, CL!Going(w)) /\ v.expose
      BY <1>4, <2>3, Zenon DEF CL!ControllerCreate
    <3>2. ControllerShaped(w) /\ w.expose = FALSE
      BY <1>1, Zenon DEF ControllerShaped, ControllerField
    <3> HIDE DEF w
    <3>3. CL!Ingresses(components) = {}
      BY <1>1, <3>1 DEF ControllerOK
    <3>4. /\ components' = [x \in CL!Component |-> components'[x]]
          /\ \A x \in CL!Component :
                components'[x] = IF x = c THEN CL!NewComponent ELSE components[x]
      BY <2>1 DEF CL!WriteComponent, IngressInv, Components
    <3>5. CL!Ingresses(components') \subseteq {c}
      BY <3>3, <3>4 DEF CL!Ingresses, CL!Live
    <3>6. Components(components')
      BY <2>1, <3>4 DEF Components, IngressInv
    <3>7. ControllerOK(CL!Going(w), components')
      BY <3>2, GoingOK, Zenon DEF ControllerOK
    <3>8. /\ controller' = [k \in Manager |-> controller'[k]]
          /\ \A k \in Manager : controller'[k] = CL!Going(w)
      BY <3>1 DEF OneManager, IngressInv, CL!Become
    <3> QED
      BY <3>5, <3>6, <3>7, <3>8 DEF IngressInv
  <2> QED
    BY <2>2, <2>3
<1>5. ASSUME NEW c \in CL!Component, CL!ControllerDelete(m, c)
      PROVE  IngressInv'
  <2>1. NoMore(components, components')
    <3>1. CASE components' = components
      BY <3>1, SameComponents
    <3>2. CASE components' # components
      <4>1. CL!WriteComponent(c, [components[c] EXCEPT !.phase = "deleting"])
        BY <1>5, <3>2 DEF CL!ControllerDelete
      <4> QED
        BY <4>1, EditedComponent, WrittenComponent, Zenon
    <3> QED
      BY <3>1, <3>2
  <2> DEFINE w == [v EXCEPT !.delete = @ \ {c}]
  <2>2. \/ controller' = CL!Become(controller, m, CL!IdleController)
        \/ controller' = CL!Become(controller, m, CL!Going(w))
    BY <1>5, Zenon DEF CL!ControllerDelete
  <2>3. ControllerShaped(w) /\ w.pc = v.pc /\ w.expose = v.expose
    BY <1>1 DEF ControllerShaped, ControllerField
  <2> HIDE DEF w
  <2>4. ControllerOK(w, components')
    BY <1>1, <2>1, <2>3 DEF ControllerOK, NoMore
  <2>5. ControllerOK(CL!Going(w), components') /\ ControllerOK(CL!IdleController, components')
    BY <2>4, GoingOK, IdleControllerOK
  <2> QED
    BY <2>1, <2>2, <2>5, NoMoreOK
<1> QED
  BY <1>2, <1>3, <1>4, <1>5 DEF CL!ControllerStep

\* Nobody else creates a component.
LEMMA IngressNext ==
    ASSUME OneManager, Roles, IngressInv, [CL!Next]_(CL!vars)
    PROVE  IngressInv'
<1>1. CASE UNCHANGED <<components, controller>>
  BY <1>1, SameComponents, NoMoreOK
<1>2. ASSUME NEW m \in Manager, controller' = CL!Become(controller, m, CL!IdleController),
             UNCHANGED components
      PROVE  IngressInv'
  BY <1>2, IdleControllerOK, SameComponents, NoMoreOK
<1>3. CASE CL!Users
  <2>1. ASSUME NEW c \in CL!Component, CL!DeleteComponent(c)
        PROVE  IngressInv'
    <3>1. /\ CL!WriteComponent(c, [components[c] EXCEPT !.phase = "deleting"])
          /\ controller' = controller
      BY <2>1 DEF CL!DeleteComponent, CL!workers
    <3> QED
      BY <3>1, EditedComponent, WrittenComponent, NoMoreOK, Zenon
  <2>2. ASSUME NEW n, \/ CL!CreateCluster(n) \/ CL!ScaleCluster(n)
                      \/ CL!RotateJoinKey \/ CL!DeleteCluster
        PROVE  IngressInv'
    BY <1>1, <2>2 DEF CL!CreateCluster, CL!ScaleCluster, CL!RotateJoinKey, CL!DeleteCluster
  <2> QED
    BY <1>3, <2>1, <2>2 DEF CL!Users
<1>4. ASSUME NEW c \in CL!Component,
             CL!ScheduleComponent(c) \/ CL!GrantPorts(c) \/ CL!FinishDeletion(c)
      PROVE  IngressInv'
  <2>1. /\ \/ CL!WriteComponent(c, [components[c] EXCEPT !.placed = TRUE])
           \/ CL!WriteComponent(c, [components[c] EXCEPT !.ports = TRUE])
           \/ CL!WriteComponent(c, [CL!AbsentComponent EXCEPT !.phase = "gone"])
        /\ controller' = controller
    BY <1>4 DEF CL!ScheduleComponent, CL!GrantPorts, CL!FinishDeletion, CL!workers
  <2>2. NoMore(components, components')
    BY <2>1, EditedComponent, WrittenComponent, Zenon
  <2> QED
    BY <2>1, <2>2, NoMoreOK
<1>5. ASSUME NEW m \in Manager, CL!InitializerStep(m) \/ CL!Resync(m)
      PROVE  IngressInv'
  BY <1>1, <1>5 DEF CL!InitializerStep, CL!InitializerGet, CL!InitializerWrite, CL!Resync,
                    CL!store, CL!workers
<1>6. ASSUME NEW m \in Manager, CL!ReconcilerStep(m) \/ CL!Failure(m)
      PROVE  IngressInv'
  BY <1>1, <1>2, <1>6
     DEF CL!ReconcilerStep, CL!ReconcilerGet, CL!ReconcilerList, CL!ReconcilerRefuses,
         CL!ReconcilerWrite, CL!ReconcilerPanics, CL!Failure, CL!ControllerFails,
         CL!ReconcilerFails, CL!InitializerFails, CL!Crash, CL!Restart, CL!store
<1>7. CASE UNCHANGED CL!vars
  BY <1>1, <1>7 DEF CL!vars
<1> QED
  BY <1>3, <1>4, <1>5, <1>6, <1>7, ControllerKeepsIngress DEF CL!Next

\* Reconcile of the cluster controller lists before it creates, so that one manager
\* never has two undeleted ingresses of a cluster, whatever is deleted, whatever fails
\* and however often it starts again.
THEOREM IngressIsOne == OneManager /\ Roles => (CL!Spec => []CL!OneIngress)
<1> SUFFICES ASSUME OneManager, Roles PROVE CL!Spec => []CL!OneIngress
  OBVIOUS
<1>1. CL!Init => IngressInv
  <2> SUFFICES ASSUME CL!Init PROVE IngressInv
    OBVIOUS
  <2>1. /\ components = [c \in CL!Component |-> CL!AbsentComponent]
        /\ controller = [m \in Manager |-> CL!IdleController]
    BY DEF CL!Init
  <2>2. ComponentShaped(CL!AbsentComponent) /\ CL!AbsentComponent.phase = "absent"
    BY DEF ComponentShaped, CL!AbsentComponent, CL!NewComponent
  <2>3. Components(components) /\ CL!Ingresses(components) = {}
    BY <2>1, <2>2 DEF Components, CL!Ingresses, CL!Live
  <2> QED
    BY <2>1, <2>3, IdleControllerOK DEF IngressInv
<1>2. IngressInv /\ [CL!Next]_(CL!vars) => IngressInv'
  BY IngressNext
<1>3. IngressInv => CL!OneIngress
  BY AtMostOne DEF IngressInv, CL!OneIngress, CL!Ingresses
<1> QED
  BY <1>1, <1>2, <1>3, PTL DEF CL!Spec
=============================================================================
