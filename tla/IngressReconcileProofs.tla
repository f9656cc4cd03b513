----------------------- MODULE IngressReconcileProofs -----------------------
(***************************************************************************)
(* FileUpToDate is right about the host, for any number of ingresses,      *)
(* configurations and ports, and for any number of changes and faults.     *)
(*                                                                         *)
(* The property is about an idle worker; the invariant says what holds     *)
(* during a pass.  It has three parts, as the record errs in different     *)
(* ways.  The script of the VPN never changes, so only a failed job can    *)
(* make its record wrong.  A configuration that is wanted for the first    *)
(* time is on record nowhere yet: a pass that has it on record uploaded    *)
(* it itself or read that from a pass that did.  A configuration that is   *)
(* wanted again may be on record from the first time, and then only the    *)
(* absence of faults tells that what is on record is what is on the host.  *)
(*                                                                         *)
(* An ingress, like every component, gets its hypervisor from the          *)
(* scheduler, module ComponentScheduling, here the instance Sched on       *)
(* variables of its own.  Each component gets one once, however many       *)
(* managers schedule.                                                      *)
(***************************************************************************)
EXTENDS IngressReconcile, TLAPS

-----------------------------------------------------------------------------
(***************************************************************************)
(* The invariant.                                                          *)
(***************************************************************************)

\* The configurations that were wanted at some time, and no configuration.
Seen == past \cup {wanted, 0}

\* The pass on ingress i waits for the job that uploads f.
Waiting(i, f) == At("wait") /\ worker.ingress = {i} /\ worker.file = {f}

\* The worker is in ReconcileDeletion.
InDeletion == worker.pc \in {"stop", "clean", "finalizer"}

\* What a worker may be.
WorkerType ==
    [pc : {"idle", "upload", "wait", "pod", "start", "write", "stop", "clean",
           "finalizer"},
     ingress : SUBSET Ingress, file : SUBSET File, config : Seen,
     files : [File -> Seen \cup Port], fresh : BOOLEAN]

\* The values of the variables: what is on record of haproxy was wanted some time.
Shape ==
    /\ wanted \in Config
    /\ ingresses \in [Ingress -> [phase : {"absent", "live", "deleting", "gone"},
                                  port : Port \cup {0}]]
    /\ record \in [Ingress -> [File -> Seen \cup Port]]
    /\ host \in [Ingress -> [File -> Seen \cup Port]]
    /\ jobs \in [Ingress -> SUBSET [file : File, contents : Seen \cup Port]]
    /\ worker \in WorkerType
    /\ \A i \in Ingress : record[i]["haproxy.cfg"] \in Seen
    /\ worker.files["haproxy.cfg"] \in Seen

\* Where the worker is, and what there is of an ingress that was not created yet.
Located ==
    /\ At("idle") => worker = IdleWorker
    /\ ~ At("idle") => \E i \in Ingress : worker.ingress = {i}
    /\ worker.pc \in {"upload", "wait"} => \E f \in File : worker.file = {f}
    /\ \A i \in worker.ingress :
          /\ ingresses[i].phase # "absent"
          /\ InDeletion => ingresses[i].phase = "deleting"
    /\ \A i \in InPhase("absent") :
          record[i] = NoFiles /\ host[i] = NoFiles /\ jobs[i] = {}
    /\ \A i \in InPhase("live") : ingresses[i].port \in Port

\* The script that is on the host sets up the port of the ingress.
ScriptThere(i) == host[i]["wg.sh"] = ingresses[i].port

\* As long as no job failed: the script is there once it is on record, in the API
\* server or in the memory of the worker, and once the job that uploads it is over.
ScriptOK(i) ==
    /\ record[i]["wg.sh"] # 0 => ScriptThere(i)
    /\ i \in worker.ingress /\ worker.files["wg.sh"] # 0 => ScriptThere(i)
    /\ Waiting(i, "wg.sh") =>
          /\ jobs[i] = {} => ScriptThere(i)
          /\ \A j \in jobs[i] : j.file = "wg.sh"
    /\ \A j \in jobs[i] : j.file = "wg.sh" => j.contents = ingresses[i].port

\* The configuration that is wanted is on the host, and no job is about to replace it.
ConfigThere(i) ==
    /\ host[i]["haproxy.cfg"] = wanted
    /\ \A j \in jobs[i] : j.file = "haproxy.cfg" => j.contents = wanted

\* The same for a configuration that is wanted for the first time.  A worker that may
\* rely on the record works on the configuration that is wanted now, so that it does
\* not upload an older one.
ConfigOK(i) ==
    /\ record[i]["haproxy.cfg"] = wanted => ConfigThere(i)
    /\ i \in worker.ingress /\ record[i]["haproxy.cfg"] = wanted => worker.config = wanted
    /\ i \in worker.ingress /\ worker.files["haproxy.cfg"] = wanted =>
          ConfigThere(i) /\ worker.config = wanted
    /\ Waiting(i, "haproxy.cfg") /\ worker.config = wanted =>
          /\ jobs[i] = {} => ConfigThere(i)
          /\ \A j \in jobs[i] : j.file = "haproxy.cfg" /\ j.contents = wanted

\* Before the first fault: the record of the last pass, or the memory of the one that
\* runs, is what is on the host, and the only job is the one the worker waits for.
Exact(i) ==
    /\ i \notin worker.ingress =>
          jobs[i] = {} /\ record[i]["haproxy.cfg"] = host[i]["haproxy.cfg"]
    /\ i \in worker.ingress =>
          /\ worker.fresh
          /\ ~ At("wait") => jobs[i] = {}
          /\ ~ Waiting(i, "haproxy.cfg") =>
                /\ worker.files["haproxy.cfg"] = host[i]["haproxy.cfg"]
                /\ \A j \in jobs[i] : j.file = "wg.sh"
          /\ Waiting(i, "haproxy.cfg") =>
                /\ jobs[i] \subseteq {[file |-> "haproxy.cfg", contents |-> worker.config]}
                /\ jobs[i] = {} => host[i]["haproxy.cfg"] = worker.config

\* The inductive invariant.
IngressInv ==
    /\ Shape /\ Located
    /\ \A i \in InPhase("live") :
          /\ "job" \notin faults => ScriptOK(i)
          /\ "job" \notin faults /\ wanted \notin past => ConfigOK(i)
          /\ faults = {} => Exact(i)

-----------------------------------------------------------------------------
(***************************************************************************)
(* The worker.                                                             *)
(***************************************************************************)

\* The worker of a pass works on one ingress, and on one file at a time.
LEMMA OwnFacts ==
  ASSUME Located
  PROVE  /\ ~ At("idle") => Own \in Ingress /\ worker.ingress = {Own}
         /\ worker.pc \in {"upload", "wait"} => OwnFile \in File /\ worker.file = {OwnFile}
<1>1. ASSUME ~ At("idle")
      PROVE  Own \in Ingress /\ worker.ingress = {Own}
  <2>1. PICK i \in Ingress : worker.ingress = {i}
    BY <1>1 DEF Located
  <2> QED BY <2>1 DEF Own
<1>2. ASSUME worker.pc \in {"upload", "wait"}
      PROVE  OwnFile \in File /\ worker.file = {OwnFile}
  <2>1. PICK f \in File : worker.file = {f}
    BY <1>2 DEF Located
  <2> QED BY <2>1 DEF OwnFile
<1> QED BY <1>1, <1>2

\* What a pass uploads is a configuration that was wanted when it began, or a port.
LEMMA ContentsFacts ==
  ASSUME Shape, Located, ~ At("idle")
  PROVE  /\ Contents("haproxy.cfg") = worker.config /\ worker.config \in Seen
         /\ Contents("wg.sh") = ingresses[Own].port /\ ingresses[Own].port \in Port \cup {0}
BY OwnFacts DEF Contents, Shape, WorkerType

\* A fault that happened has happened.
LEMMA FaultsStay ==
  ASSUME Next
  PROVE  faults \subseteq faults'
<1>1. CASE \E i \in Ingress : \/ \E p \in Port : CreateIngress(i, p)
                              \/ DeleteIngress(i) \/ Begin(i) \/ BeginDeletion(i)
                              \/ JobWrites(i)
  BY <1>1 DEF CreateIngress, DeleteIngress, Begin, BeginDeletion, JobWrites
<1>2. CASE Step
  BY <1>2 DEF Step, SkipUpload, StartUpload, FinishUpload, EnsureIngressPod, StartWireguard,
              WriteHypervisor, StopIngress, HostCleanup, RemoveFinalizer
<1>3. CASE Failure
  BY <1>3 DEF Failure, CallFails, TouchHypervisor, Crash, Reboot, JobFails, Fault
<1> QED BY <1>1, <1>2, <1>3 DEF Next, ChangeControlPlanes

\* Only ChangeControlPlanes changes what is wanted.
LEMMA WantedOrNot ==
  ASSUME Next
  PROVE  (\E c \in Config : ChangeControlPlanes(c)) \/ UNCHANGED <<wanted, past>>
BY Zenon DEF Next, Step, Failure, CreateIngress, DeleteIngress, Begin, BeginDeletion, JobWrites,
       SkipUpload, StartUpload, FinishUpload, EnsureIngressPod, StartWireguard,
       WriteHypervisor, StopIngress, HostCleanup, RemoveFinalizer, CallFails,
       TouchHypervisor, Crash, Reboot, JobFails, objects

\* An idle worker is a worker.
LEMMA IdleWorkerFacts ==
  /\ IdleWorker \in WorkerType /\ IdleWorker.files["haproxy.cfg"] = 0
  /\ NoFiles \in [File -> Seen \cup Port] /\ NoFiles["haproxy.cfg"] = 0
BY DEF IdleWorker, NoFiles, WorkerType, Seen, File

\* Every step keeps the shape of the state.
LEMMA ShapeNext ==
  ASSUME Shape, Located, Next
  PROVE  Shape'
<1> USE DEF Shape, WorkerType, At, InPhase, objects, files
<1>1. CASE \E c \in Config : ChangeControlPlanes(c)
  BY <1>1 DEF ChangeControlPlanes, Seen
<1>2. CASE UNCHANGED <<wanted, past>>
  <2>1. Seen' = Seen
    BY <1>2 DEF Seen
  <2>2. CASE \E i \in Ingress, p \in Port : CreateIngress(i, p)
    BY <2>1, <2>2, <1>2 DEF CreateIngress
  <2>3. CASE \E i \in Ingress : DeleteIngress(i)
    <3>1. /\ ingresses' \in [Ingress -> [phase : {"absent", "live", "deleting", "gone"},
                                        port : Port \cup {0}]]
          /\ UNCHANGED <<record, host, jobs, worker>>
      BY <2>3, SMTT(20) DEF DeleteIngress
    <3> QED BY <2>1, <3>1, <1>2
  <2>4. CASE \E i \in Ingress : Begin(i)
    BY <2>1, <2>4, <1>2 DEF Begin, Seen, File
  <2>5. CASE \E i \in Ingress : BeginDeletion(i)
    <3>1. PICK i \in Ingress : BeginDeletion(i)
      BY <2>5
    <3>2. worker' = [pc |-> "stop", ingress |-> {i}, file |-> {}, config |-> 0,
                     files |-> record[i], fresh |-> TRUE]
      BY <3>1, Zenon DEF BeginDeletion, IdleWorker
    <3>3. worker' \in WorkerType /\ worker'.files["haproxy.cfg"] \in Seen
      BY <3>2 DEF Seen
    <3> QED BY <2>1, <3>1, <3>3, <1>2 DEF BeginDeletion
  <2>6. CASE \E i \in Ingress : JobWrites(i)
    BY <2>1, <2>6, <1>2 DEF JobWrites
  <2>7. CASE SkipUpload
    BY <2>1, <2>7, <1>2, Zenon DEF SkipUpload, Uploaded
  <2>8. CASE StartUpload
    <3>1. Contents(OwnFile) \in Seen \cup Port /\ OwnFile \in File /\ Own \in Ingress
      BY <2>8, OwnFacts, ContentsFacts DEF StartUpload, Seen, File
    <3>2. /\ jobs' \in [Ingress -> SUBSET [file : File, contents : Seen \cup Port]]
          /\ UNCHANGED <<ingresses, record, host>>
      BY <2>8, <3>1 DEF StartUpload
    <3>3. worker' \in WorkerType /\ worker'.files = worker.files
      BY <2>8, Zenon DEF StartUpload, Goto
    <3> QED BY <2>1, <1>2, <3>2, <3>3
  <2>9. CASE FinishUpload
    <3>1. /\ Contents(OwnFile) \in Seen \cup Port /\ OwnFile \in File
          /\ OwnFile = "haproxy.cfg" => Contents(OwnFile) \in Seen
      BY <2>9, OwnFacts, ContentsFacts DEF FinishUpload, Seen, File
    <3>2. worker' = [worker EXCEPT !.pc = IF OwnFile = "haproxy.cfg" THEN "pod" ELSE "start",
                                   !.files = [worker.files EXCEPT ![OwnFile] = Contents(OwnFile)]]
      BY <2>9 DEF FinishUpload, Uploaded
    <3>3. worker' \in WorkerType /\ worker'.files["haproxy.cfg"] \in Seen
      BY <3>1, <3>2, Zenon DEF File
    <3>4. UNCHANGED <<ingresses, record, host, jobs>>
      BY <2>9 DEF FinishUpload
    <3> QED BY <2>1, <1>2, <3>3, <3>4
  <2>10. CASE EnsureIngressPod
    BY <2>1, <2>10, <1>2, Zenon DEF EnsureIngressPod, File
  <2>11. CASE StartWireguard \/ StopIngress
    BY <2>1, <2>11, <1>2, Zenon DEF StartWireguard, StopIngress, Goto
  <2>12. CASE WriteHypervisor
    BY <2>1, <2>12, <1>2, OwnFacts, IdleWorkerFacts DEF WriteHypervisor, Seen
  <2>13. CASE HostCleanup
    BY <2>1, <2>13, <1>2, OwnFacts, IdleWorkerFacts, Zenon DEF HostCleanup, Seen
  <2>14. CASE RemoveFinalizer
    BY <2>1, <2>14, <1>2, OwnFacts, Zenon DEF RemoveFinalizer, Goto
  <2>15. CASE CallFails \/ TouchHypervisor
    BY <2>1, <2>15, <1>2, Zenon DEF CallFails, TouchHypervisor, Goto
  <2>16. CASE Crash
    BY <2>1, <2>16, <1>2, IdleWorkerFacts DEF Crash, Seen
  <2>17. CASE Reboot \/ \E i \in Ingress : JobFails(i)
    BY <2>1, <2>17, <1>2, Zenon DEF Reboot, JobFails
  <2> QED BY <2>2, <2>3, <2>4, <2>5, <2>6, <2>7, <2>8, <2>9, <2>10, <2>11, <2>12, <2>13,
             <2>14, <2>15, <2>16, <2>17, <1>1 DEF Next, Step, Failure
<1> QED BY <1>1, <1>2, WantedOrNot

\* Every step leaves the worker in its place.
LEMMA LocatedNext ==
  ASSUME Shape, Located, Next
  PROVE  Located'
<1> USE OwnFacts DEF Shape, WorkerType, Located, At, InPhase, InDeletion, objects, files
<1>1. CASE \E c \in Config : ChangeControlPlanes(c)
  BY <1>1 DEF ChangeControlPlanes
<1>2. CASE \E i \in Ingress, p \in Port : CreateIngress(i, p)
  BY <1>2 DEF CreateIngress
<1>3. CASE \E i \in Ingress : DeleteIngress(i)
  BY <1>3 DEF DeleteIngress
<1>4. CASE \E i \in Ingress : Begin(i)
  <2>1. PICK i \in Ingress : Begin(i)
    BY <1>4
  <2>2. /\ worker' = [pc |-> "upload", ingress |-> {i}, file |-> {"haproxy.cfg"},
                      config |-> wanted, files |-> record[i], fresh |-> TRUE]
        /\ ingresses[i].phase \in {"live", "deleting"}
        /\ UNCHANGED <<ingresses, record, host, jobs>>
    BY <2>1 DEF Begin
  <2> QED BY <2>2 DEF File
<1>5. CASE \E i \in Ingress : BeginDeletion(i)
  BY <1>5 DEF BeginDeletion, IdleWorker
<1>6. CASE \E i \in Ingress : JobWrites(i)
  BY <1>6 DEF JobWrites
<1>7. CASE SkipUpload
  BY <1>7 DEF SkipUpload, Uploaded
<1>8. CASE StartUpload
  BY <1>8 DEF StartUpload, Goto
<1>9. CASE FinishUpload
  BY <1>9 DEF FinishUpload, Uploaded
<1>10. CASE EnsureIngressPod
  BY <1>10 DEF EnsureIngressPod, File
<1>11. CASE StartWireguard \/ StopIngress \/ CallFails
  BY <1>11, Zenon DEF StartWireguard, StopIngress, CallFails, Goto
<1>12. CASE TouchHypervisor
  BY <1>12 DEF TouchHypervisor, IdleWorker
<1>13. CASE WriteHypervisor
  BY <1>13 DEF WriteHypervisor, IdleWorker
<1>14. CASE HostCleanup
  BY <1>14 DEF HostCleanup
<1>15. CASE RemoveFinalizer
  BY <1>15 DEF RemoveFinalizer, Goto
<1>16. CASE Crash
  BY <1>16 DEF Crash, IdleWorker
<1>17. CASE Reboot \/ \E i \in Ingress : JobFails(i)
  BY <1>17, Zenon DEF Reboot, JobFails
<1> QED BY <1>1, <1>2, <1>3, <1>4, <1>5, <1>6, <1>7, <1>8, <1>9, <1>10, <1>11, <1>12,
           <1>13, <1>14, <1>15, <1>16, <1>17, Zenon DEF Next, Step, Failure

\* What a deletion leaves of an ingress that stays.
LEMMA DeleteIngressEffect ==
  ASSUME Shape, NEW k \in Ingress, DeleteIngress(k), NEW i \in InPhase("live")'
  PROVE  i \in InPhase("live") /\ ingresses'[i] = ingresses[i]
BY DEF Shape, DeleteIngress, InPhase

\* What a job that ends does to the files and to the jobs.
LEMMA JobWritesEffect ==
  ASSUME Shape, NEW k \in Ingress, JobWrites(k)
  PROVE  /\ \E j \in jobs[k] : \A i \in Ingress, f \in File :
               host'[i][f] = IF i = k /\ f = j.file THEN j.contents ELSE host[i][f]
         /\ \A i \in Ingress : jobs'[i] = IF i = k THEN {} ELSE jobs[i]
         /\ UNCHANGED <<wanted, past, ingresses, record, worker, faults>>
<1>1. PICK j \in jobs[k] : host' = [host EXCEPT ![k][j.file] = j.contents]
  BY Zenon DEF JobWrites
<1>2. j.file \in File
  BY DEF Shape
<1>3. \A i \in Ingress, f \in File :
         host'[i][f] = IF i = k /\ f = j.file THEN j.contents ELSE host[i][f]
  BY <1>1, <1>2 DEF Shape
<1>4. /\ \A i \in Ingress : jobs'[i] = IF i = k THEN {} ELSE jobs[i]
      /\ UNCHANGED <<wanted, past, ingresses, record, worker, faults>>
  BY DEF JobWrites, Shape, objects
<1> QED BY <1>3, <1>4

\* What the start of a job does to the jobs and to the worker.
LEMMA StartUploadEffect ==
  ASSUME Shape, Located, StartUpload
  PROVE  /\ Own \in Ingress /\ worker.ingress = {Own}
         /\ OwnFile \in File /\ worker.file = {OwnFile}
         /\ \A i \in Ingress :
               jobs'[i] = IF i = Own THEN {[file |-> OwnFile, contents |-> Contents(OwnFile)]}
                          ELSE jobs[i]
         /\ worker'.pc = "wait" /\ worker'.ingress = worker.ingress
         /\ worker'.file = worker.file /\ worker'.config = worker.config
         /\ worker'.files = worker.files /\ worker'.fresh = worker.fresh
         /\ UNCHANGED <<wanted, past, ingresses, record, host, faults>>
BY OwnFacts DEF StartUpload, Goto, Shape, WorkerType, At, objects, files

\* The steps that leave the worker what it has read and do not wait for a job.
LEMMA PassesOn ==
  ASSUME Shape, SkipUpload \/ EnsureIngressPod \/ StartWireguard \/ StopIngress \/ CallFails
  PROVE  /\ worker'.pc # "wait" /\ worker'.ingress = worker.ingress
         /\ worker'.config = worker.config /\ worker'.files = worker.files
         /\ worker'.fresh = worker.fresh
         /\ UNCHANGED <<wanted, past, ingresses, record, host, jobs>>
<1> USE DEF Shape, WorkerType, objects, files
<1>1. CASE SkipUpload
  BY <1>1 DEF SkipUpload, Uploaded
<1>2. CASE EnsureIngressPod
  BY <1>2 DEF EnsureIngressPod
<1>3. CASE StartWireguard \/ StopIngress \/ CallFails
  BY <1>3 DEF StartWireguard, StopIngress, CallFails, Goto
<1> QED BY <1>1, <1>2, <1>3

\* What the write of the hypervisor leaves: at most the record changes, to what the
\* worker has.
LEMMA WriteHypervisorEffect ==
  ASSUME Shape, Located, WriteHypervisor
  PROVE  /\ Own \in Ingress /\ worker.ingress = {Own}
         /\ \A i \in Ingress :
               record'[i] = IF i = Own /\ worker.fresh THEN worker.files ELSE record[i]
         /\ worker'.pc = "idle" /\ worker'.ingress = {}
         /\ UNCHANGED <<wanted, past, ingresses, host, jobs>>
BY OwnFacts DEF WriteHypervisor, Shape, At, IdleWorker, objects, files

\* HostCleanup changes the files of an ingress that is being deleted.
LEMMA HostCleanupEffect ==
  ASSUME Shape, Located, HostCleanup, NEW i \in InPhase("live")'
  PROVE  /\ i \in InPhase("live") /\ i \notin worker.ingress
         /\ worker'.ingress = worker.ingress
         /\ host'[i] = host[i] /\ jobs'[i] = jobs[i]
         /\ UNCHANGED <<wanted, past, ingresses, record>>
<1>1. Own \in Ingress /\ worker.ingress = {Own} /\ ingresses[Own].phase = "deleting"
  BY OwnFacts DEF HostCleanup, Located, InDeletion, At
<1>2. i \in InPhase("live") /\ i # Own
  BY <1>1 DEF HostCleanup, InPhase, objects
<1>3. worker'.ingress = worker.ingress
  BY DEF HostCleanup, Shape, WorkerType
<1> QED BY <1>1, <1>2, <1>3 DEF HostCleanup, InPhase, Shape, objects

\* RemoveFinalizer lets go of an ingress that is being deleted.
LEMMA RemoveFinalizerEffect ==
  ASSUME Shape, Located, RemoveFinalizer, NEW i \in InPhase("live")'
  PROVE  /\ i \in InPhase("live") /\ i \notin worker.ingress
         /\ worker'.ingress = worker.ingress /\ ingresses'[i] = ingresses[i]
         /\ UNCHANGED <<wanted, past, record, host, jobs>>
<1>1. Own \in Ingress /\ worker.ingress = {Own}
  BY OwnFacts DEF RemoveFinalizer, At
<1>2. i \in Ingress /\ i # Own /\ ingresses'[i] = ingresses[i]
  BY <1>1 DEF RemoveFinalizer, Shape, InPhase
<1>3. worker'.ingress = worker.ingress
  BY DEF RemoveFinalizer, Goto, Shape, WorkerType
<1> QED BY <1>1, <1>2, <1>3 DEF RemoveFinalizer, InPhase, files

\* TouchHypervisor makes the worker's copy stale and nothing else.
LEMMA TouchHypervisorEffect ==
  ASSUME Shape, TouchHypervisor
  PROVE  /\ worker'.pc = worker.pc /\ worker'.ingress = worker.ingress
         /\ worker'.file = worker.file /\ worker'.config = worker.config
         /\ worker'.files = worker.files
         /\ UNCHANGED <<wanted, past, ingresses, record, host, jobs>>
BY DEF TouchHypervisor, Shape, WorkerType, objects, files

\* What the end of an upload does to the worker.
LEMMA FinishUploadEffect ==
  ASSUME Shape, Located, FinishUpload
  PROVE  /\ Own \in Ingress /\ worker.ingress = {Own}
         /\ OwnFile \in File /\ worker.file = {OwnFile} /\ jobs[Own] = {}
         /\ \A f \in File :
               worker'.files[f] = IF f = OwnFile THEN Contents(f) ELSE worker.files[f]
         /\ worker'.pc \in {"pod", "start"} /\ worker'.ingress = worker.ingress
         /\ worker'.config = worker.config /\ worker'.fresh = worker.fresh
         /\ UNCHANGED <<wanted, past, ingresses, record, host, jobs, faults>>
BY OwnFacts DEF FinishUpload, Uploaded, Shape, WorkerType, At, objects, files

\* The script of the VPN is on the host once it is on record, unless a job failed.
LEMMA ScriptNext ==
  ASSUME Shape, Located, Next, "job" \notin faults',
         \A i \in InPhase("live") : ScriptOK(i),
         NEW i \in InPhase("live")'
  PROVE  ScriptOK(i)'
<1> USE OwnFacts DEF At, InPhase, Waiting, objects, files, ScriptOK, ScriptThere
<1>0. "job" \notin faults
  BY FaultsStay
<1>1. CASE \E c \in Config : ChangeControlPlanes(c)
  BY <1>1 DEF ChangeControlPlanes
<1>2. CASE \E k \in Ingress, p \in Port : CreateIngress(k, p)
  <2>1. PICK k \in Ingress, p \in Port : CreateIngress(k, p)
    BY <1>2
  <2>2. CASE i = k
    BY <2>1, <2>2 DEF CreateIngress, Located, NoFiles, File
  <2>3. CASE i # k
    BY <2>1, <2>3 DEF CreateIngress, Shape
  <2> QED BY <2>2, <2>3
<1>3. CASE \E k \in Ingress : DeleteIngress(k)
  BY <1>3, DeleteIngressEffect DEF DeleteIngress
<1>4. CASE \E k \in Ingress : Begin(k)
  BY <1>4 DEF Begin
<1>5. CASE \E k \in Ingress : BeginDeletion(k)
  BY <1>5 DEF BeginDeletion, IdleWorker
<1>6. CASE \E k \in Ingress : JobWrites(k)
  <2>1. PICK k \in Ingress : JobWrites(k)
    BY <1>6
  <2>2. PICK j \in jobs[k] : \A n \in Ingress, f \in File :
           host'[n][f] = IF n = k /\ f = j.file THEN j.contents ELSE host[n][f]
    BY <2>1, JobWritesEffect
  <2>3. host'[i]["wg.sh"] =
           IF i = k /\ j.file = "wg.sh" THEN j.contents ELSE host[i]["wg.sh"]
    BY <2>2 DEF File
  <2> QED BY <2>1, <2>3, JobWritesEffect
<1>7. CASE SkipUpload \/ EnsureIngressPod \/ StartWireguard \/ StopIngress \/ CallFails
  BY <1>7, PassesOn
<1>8. CASE StartUpload
  <2>1. CASE i = Own
    <3>1. /\ jobs'[i] = {[file |-> OwnFile, contents |-> Contents(OwnFile)]}
          /\ OwnFile = "wg.sh" => Contents(OwnFile) = ingresses[i].port
      BY <1>8, <2>1, StartUploadEffect, ContentsFacts DEF StartUpload
    <3>2. ScriptOK(i)
      BY <1>8, StartUploadEffect
    <3>3. jobs'[i] # {} /\ \A j \in jobs'[i] : j.file = OwnFile /\ j.contents = Contents(OwnFile)
      BY <3>1
    <3>4. worker'.file = {"wg.sh"} => OwnFile = "wg.sh"
      BY <1>8, StartUploadEffect
    <3> QED BY <1>8, <3>1, <3>2, <3>3, <3>4, StartUploadEffect, Zenon
  <2>2. CASE i # Own
    BY <1>8, <2>2, StartUploadEffect
  <2> QED BY <2>1, <2>2
<1>9. CASE FinishUpload
  BY <1>9, FinishUploadEffect, ContentsFacts DEF FinishUpload, File
<1>10. CASE WriteHypervisor
  BY <1>10, WriteHypervisorEffect
<1>11. CASE HostCleanup
  BY <1>11, HostCleanupEffect
<1>12. CASE RemoveFinalizer
  BY <1>12, RemoveFinalizerEffect
<1>13. CASE TouchHypervisor
  BY <1>13, TouchHypervisorEffect
<1>14. CASE Crash
  BY <1>14 DEF Crash, IdleWorker
<1>15. CASE Reboot
  BY <1>15, <1>0 DEF Reboot, Fault, Waiting
<1>16. CASE \E k \in Ingress : JobFails(k)
  BY <1>16, <1>0 DEF JobFails, Fault
<1> QED BY <1>1, <1>2, <1>3, <1>4, <1>5, <1>6, <1>7, <1>8, <1>9, <1>10, <1>11, <1>12,
           <1>13, <1>14, <1>15, <1>16, Zenon DEF Next, Step, Failure

\* A configuration that is wanted for the first time is on the host once it is on record.
LEMMA ConfigNext ==
  ASSUME Shape, Located, Next, "job" \notin faults', wanted' \notin past',
         wanted \notin past => \A i \in InPhase("live") : ConfigOK(i),
         NEW i \in InPhase("live")'
  PROVE  ConfigOK(i)'
<1> USE OwnFacts DEF At, InPhase, Waiting, objects, files, ConfigOK, ConfigThere
<1>0. "job" \notin faults
  BY FaultsStay
<1>1. CASE \E c \in Config : ChangeControlPlanes(c)
  <2>1. wanted' \notin Seen
    BY <1>1, ConfigAssumption DEF ChangeControlPlanes, Seen
  <2>2. /\ record[i]["haproxy.cfg"] # wanted'
        /\ worker.files["haproxy.cfg"] # wanted' /\ worker.config # wanted'
    BY <2>1 DEF Shape, WorkerType
  <2> QED BY <1>1, <2>2 DEF ChangeControlPlanes
<1>2. CASE UNCHANGED <<wanted, past>>
  <2>1. CASE \E k \in Ingress, p \in Port : CreateIngress(k, p)
    <3>1. PICK k \in Ingress, p \in Port : CreateIngress(k, p)
      BY <2>1
    <3>2. CASE i = k
      <4>1. record[i]["haproxy.cfg"] = 0 /\ i \notin worker.ingress /\ wanted # 0
        BY <3>1, <3>2, ConfigAssumption DEF CreateIngress, Located, NoFiles, File, Shape
      <4> QED BY <3>1, <4>1 DEF CreateIngress
    <3>3. CASE i # k
      BY <1>2, <3>1, <3>3 DEF CreateIngress, Shape
    <3> QED BY <3>2, <3>3
  <2>2. CASE \E k \in Ingress : DeleteIngress(k)
    BY <1>2, <2>2, DeleteIngressEffect DEF DeleteIngress
  <2>3. CASE \E k \in Ingress : Begin(k)
    BY <1>2, <2>3 DEF Begin
  <2>4. CASE \E k \in Ingress : BeginDeletion(k)
    BY <1>2, <2>4 DEF BeginDeletion, IdleWorker
  <2>5. CASE \E k \in Ingress : JobWrites(k)
    <3>1. PICK k \in Ingress : JobWrites(k)
      BY <2>5
    <3>2. PICK j \in jobs[k] : \A n \in Ingress, f \in File :
             host'[n][f] = IF n = k /\ f = j.file THEN j.contents ELSE host[n][f]
      BY <3>1, JobWritesEffect
    <3>3. host'[i]["haproxy.cfg"] =
             IF i = k /\ j.file = "haproxy.cfg" THEN j.contents ELSE host[i]["haproxy.cfg"]
      BY <3>2 DEF File
    <3> QED BY <1>2, <3>1, <3>3, JobWritesEffect
  <2>6. CASE SkipUpload \/ EnsureIngressPod \/ StartWireguard \/ StopIngress \/ CallFails
    BY <1>2, <2>6, PassesOn
  <2>7. CASE StartUpload
    <3>1. CASE i = Own
      <4>1. /\ jobs'[i] = {[file |-> OwnFile, contents |-> Contents(OwnFile)]}
            /\ OwnFile = "haproxy.cfg" =>
                  Contents(OwnFile) = worker.config /\ worker.files["haproxy.cfg"] # worker.config
        BY <2>7, <3>1, StartUploadEffect, ContentsFacts DEF StartUpload, FileUpToDate
      <4>2. ConfigOK(i)
        BY <1>2, <2>7, StartUploadEffect
      <4>3. jobs'[i] # {} /\ \A j \in jobs'[i] : j.file = OwnFile /\ j.contents = Contents(OwnFile)
        BY <4>1
      <4>4. worker'.file = {"haproxy.cfg"} => OwnFile = "haproxy.cfg"
        BY <2>7, StartUploadEffect
      <4> QED BY <4>1, <4>2, <4>3, <4>4, <3>1, <2>7, <1>2, StartUploadEffect, ZenonT(30)
    <3>2. CASE i # Own
      BY <1>2, <2>7, <3>2, StartUploadEffect, SMTT(20)
    <3> QED BY <3>1, <3>2
  <2>8. CASE FinishUpload
    BY <1>2, <2>8, FinishUploadEffect, ContentsFacts DEF FinishUpload, File
  <2>9. CASE WriteHypervisor
    BY <1>2, <2>9, WriteHypervisorEffect
  <2>10. CASE HostCleanup
    BY <1>2, <2>10, HostCleanupEffect
  <2>11. CASE RemoveFinalizer
    BY <1>2, <2>11, RemoveFinalizerEffect
  <2>12. CASE TouchHypervisor
    BY <1>2, <2>12, TouchHypervisorEffect
  <2>13. CASE Crash
    BY <1>2, <2>13, SMTT(20) DEF Crash, IdleWorker
  <2>14. CASE Reboot
    BY <1>2, <1>0, <2>14 DEF Reboot, Fault
  <2>15. CASE \E k \in Ingress : JobFails(k)
    BY <1>0, <2>15 DEF JobFails, Fault
  <2> QED BY <2>1, <2>2, <2>3, <2>4, <2>5, <2>6, <2>7, <2>8, <2>9, <2>10, <2>11, <2>12,
             <2>13, <2>14, <2>15, <1>1, Zenon DEF Next, Step, Failure
<1> QED BY <1>1, <1>2, WantedOrNot

\* As long as nothing has failed, the record is the host's.
LEMMA ExactNext ==
  ASSUME Shape, Located, Next, faults' = {},
         \A i \in InPhase("live") : Exact(i),
         NEW i \in InPhase("live")'
  PROVE  Exact(i)'
<1> USE OwnFacts DEF At, InPhase, Waiting, objects, files, Exact
<1>1. CASE \E c \in Config : ChangeControlPlanes(c)
  BY <1>1 DEF ChangeControlPlanes
<1>2. CASE \E k \in Ingress, p \in Port : CreateIngress(k, p)
  <2>1. PICK k \in Ingress, p \in Port : CreateIngress(k, p)
    BY <1>2
  <2>2. CASE i = k
    BY <2>1, <2>2, SMTT(20) DEF CreateIngress, Located, NoFiles, File
  <2>3. CASE i # k
    BY <2>1, <2>3 DEF CreateIngress, Shape
  <2> QED BY <2>2, <2>3
<1>3. CASE \E k \in Ingress : DeleteIngress(k)
  BY <1>3, DeleteIngressEffect DEF DeleteIngress
<1>4. CASE \E k \in Ingress : Begin(k)
  <2>1. PICK k \in Ingress : Begin(k)
    BY <1>4
  <2>2. worker.ingress = {}
    BY <2>1, SMTT(20) DEF Begin, Located, IdleWorker
  <2> QED BY <2>1, <2>2 DEF Begin
<1>5. CASE \E k \in Ingress : BeginDeletion(k)
  <2>1. worker.ingress = {}
    BY <1>5 DEF BeginDeletion, Located, IdleWorker
  <2>2. PICK k \in Ingress : BeginDeletion(k)
    BY <1>5
  <2>3. i # k /\ worker'.ingress = {k} /\ UNCHANGED <<ingresses, record, host, jobs>>
    BY <2>2 DEF BeginDeletion, IdleWorker
  <2> QED BY <2>1, <2>3
<1>6. CASE \E k \in Ingress : JobWrites(k)
  <2>1. PICK k \in Ingress : JobWrites(k)
    BY <1>6
  <2>2. PICK j \in jobs[k] : \A n \in Ingress, f \in File :
           host'[n][f] = IF n = k /\ f = j.file THEN j.contents ELSE host[n][f]
    BY <2>1, JobWritesEffect
  <2>3. host'[i]["haproxy.cfg"] =
           IF i = k /\ j.file = "haproxy.cfg" THEN j.contents ELSE host[i]["haproxy.cfg"]
    BY <2>2 DEF File
  <2>4. CASE i = k
    <3>1. At("wait") /\ worker.ingress = {i} /\ j \in jobs[i]
      BY <2>1, <2>4, JobWritesEffect
    <3> QED BY <2>1, <2>3, <2>4, <3>1, JobWritesEffect
  <2>5. CASE i # k
    BY <2>1, <2>3, <2>5, JobWritesEffect
  <2> QED BY <2>4, <2>5
<1>7. CASE SkipUpload \/ EnsureIngressPod \/ StartWireguard \/ StopIngress
  BY <1>7, PassesOn DEF SkipUpload, EnsureIngressPod, StartWireguard, StopIngress
<1>8. CASE StartUpload
  <2>1. CASE i = Own
    <3>1. /\ jobs'[i] = {[file |-> OwnFile, contents |-> Contents(OwnFile)]}
          /\ OwnFile = "haproxy.cfg" => Contents(OwnFile) = worker.config
          /\ OwnFile \in {"haproxy.cfg", "wg.sh"} /\ worker.pc = "upload"
      BY <1>8, <2>1, StartUploadEffect, ContentsFacts DEF StartUpload, File
    <3> QED BY <1>8, <2>1, <3>1, StartUploadEffect
  <2>2. CASE i # Own
    BY <1>8, <2>2, StartUploadEffect
  <2> QED BY <2>1, <2>2
<1>9. CASE FinishUpload
  BY <1>9, FinishUploadEffect, ContentsFacts DEF FinishUpload, File
<1>10. CASE WriteHypervisor
  BY <1>10, WriteHypervisorEffect DEF WriteHypervisor
<1>11. CASE HostCleanup
  BY <1>11, HostCleanupEffect
<1>12. CASE RemoveFinalizer
  BY <1>12, RemoveFinalizerEffect
<1>13. CASE Failure
  BY <1>13 DEF Failure, CallFails, TouchHypervisor, Crash, Reboot, JobFails, Fault
<1> QED BY <1>1, <1>2, <1>3, <1>4, <1>5, <1>6, <1>7, <1>8, <1>9, <1>10, <1>11, <1>12,
           <1>13, Zenon DEF Next, Step

-----------------------------------------------------------------------------
(***************************************************************************)
(* The theorems.                                                           *)
(***************************************************************************)

\* The invariant of the reconciliation of ingresses.
THEOREM IngressInvariant == Spec => []IngressInv
<1>1. Init => IngressInv
  <2> SUFFICES ASSUME Init
               PROVE  IngressInv
    OBVIOUS
  <2>1. wanted \in Config
    BY ConfigAssumption DEF Init
  <2>2. Shape
    BY <2>1, IdleWorkerFacts DEF Init, Shape, AbsentIngress, Seen
  <2>3. Located /\ InPhase("live") = {}
    BY DEF Init, Located, AbsentIngress, IdleWorker, InPhase, At, InDeletion
  <2> QED BY <2>2, <2>3 DEF IngressInv
<1>2. IngressInv /\ [Next]_vars => IngressInv'
  <2> SUFFICES ASSUME IngressInv, [Next]_vars
               PROVE  IngressInv'
    OBVIOUS
  <2>1. CASE Next
    <3>1. Shape' /\ Located'
      BY <2>1, ShapeNext, LocatedNext DEF IngressInv
    <3>2. ASSUME NEW i \in InPhase("live")', "job" \notin faults'
          PROVE  ScriptOK(i)'
      BY <2>1, <3>2, FaultsStay, ScriptNext DEF IngressInv
    <3>3. ASSUME NEW i \in InPhase("live")', "job" \notin faults', wanted' \notin past'
          PROVE  ConfigOK(i)'
      BY <2>1, <3>3, FaultsStay, ConfigNext DEF IngressInv
    <3>4. ASSUME NEW i \in InPhase("live")', faults' = {}
          PROVE  Exact(i)'
      BY <2>1, <3>4, FaultsStay, ExactNext DEF IngressInv
    <3> QED BY <3>1, <3>2, <3>3, <3>4 DEF IngressInv
  <2>2. CASE UNCHANGED vars
    <3>1. Shape' /\ Located' /\ InPhase("live")' = InPhase("live")
      BY <2>2 DEF vars, IngressInv, Shape, WorkerType, Seen, Located, InPhase, At, InDeletion
    <3>2. ASSUME NEW i
          PROVE  /\ ScriptOK(i) => ScriptOK(i)'
                 /\ ConfigOK(i) => ConfigOK(i)'
                 /\ Exact(i) => Exact(i)'
      BY <2>2 DEF vars, ScriptOK, ScriptThere, ConfigOK, ConfigThere, Exact, Waiting, At
    <3> QED BY <2>2, <3>1, <3>2 DEF vars, IngressInv
  <2> QED BY <2>1, <2>2
<1> QED BY <1>1, <1>2, PTL DEF Spec

\* FileUpToDate is right about the host, however often the worker crashes, loses its
\* write to a conflict or has a call fail, and however the configurations change.
THEOREM RecordTellsTheHost == Spec => []UpToDate
<1>1. IngressInv => UpToDate
  <2> SUFFICES ASSUME IngressInv, At("idle"), ~ Deceived, NEW i \in InPhase("live")
               PROVE  /\ record[i]["haproxy.cfg"] = wanted => host[i]["haproxy.cfg"] = wanted
                      /\ record[i]["wg.sh"] # 0 => host[i]["wg.sh"] = ingresses[i].port
    BY DEF UpToDate
  <2>1. i \notin worker.ingress
    BY DEF IngressInv, Located, IdleWorker
  <2>2. CASE faults = {}
    BY <2>1, <2>2 DEF IngressInv, Exact, ScriptOK, ScriptThere
  <2>3. CASE faults # {}
    BY <2>3 DEF IngressInv, Deceived, ConfigOK, ConfigThere, ScriptOK, ScriptThere
  <2> QED BY <2>2, <2>3
<1> QED BY <1>1, IngressInvariant, PTL

-----------------------------------------------------------------------------
(***************************************************************************)
(* The scheduler: module ComponentScheduling, on variables of its own.     *)
(***************************************************************************)

CONSTANTS ControlPlane, PrivateHypervisor, PublicHypervisor, NoHypervisor, Manager, MaxEdits
VARIABLES components, hypervisors, queue, scheduler, edits, failures

Sched == INSTANCE ComponentScheduling WITH faults <- failures

\* A worker of the scheduler.
SchedulerType ==
    [pc : {"idle", "list", "assign"},
     request : SUBSET Sched!Component, todo : SUBSET Sched!Component,
     fresh : SUBSET Sched!Component, present : SUBSET Sched!Hypervisor]

\* A component object.
ObjectType ==
    [phase : {"absent", "live", "deleting", "gone"},
     hypervisor : Sched!Hypervisor \cup {NoHypervisor}]

\* What a scheduler still has to place and holds to be as it was listed.
Unplaced(w) == w.todo \cap w.fresh

\* What a scheduler still has to place, and holds to be as it was listed, has no
\* hypervisor: a hypervisor is given to a component by a write, and a write outdates
\* what every scheduler has listed of the component.
PlacementInv ==
    /\ components \in [Sched!Component -> ObjectType]
    /\ hypervisors \subseteq Sched!Hypervisor
    /\ scheduler \in [Manager -> SchedulerType]
    /\ \A m \in Manager : Unplaced(scheduler[m]) \subseteq Sched!Unscheduled(components)

\* Others write component c: the cluster controller, users, the component controller.
Elsewhere(c) == Sched!CreateComponent(c) \/ Sched!DeleteComponent(c) \/ Sched!FinishDeletion(c)

\* A write of a component, by a scheduler or by anyone else.
LEMMA WriteKeeps ==
  ASSUME PlacementInv, NEW c \in Sched!Component, NEW comp \in ObjectType,
         NEW ss \in [Manager -> SchedulerType],
         hypervisors' = hypervisors,
         \A m \in Manager : Unplaced(ss[m]) \subseteq Sched!Unscheduled(components),
         Sched!WriteComponent(c, comp, ss)
  PROVE  PlacementInv'
<1>1. /\ components' = [components EXCEPT ![c] = comp]
      /\ scheduler' = [m \in Manager |-> [ss[m] EXCEPT !.fresh = @ \ {c}]]
  BY DEF Sched!WriteComponent
<1>2. components' \in [Sched!Component -> ObjectType]
  BY <1>1 DEF PlacementInv
<1>3. scheduler' \in [Manager -> SchedulerType]
  BY <1>1 DEF SchedulerType
<1>4. ASSUME NEW m \in Manager, NEW d \in Unplaced(scheduler'[m])
      PROVE  d \in Sched!Unscheduled(components')
  <2>1. d \in Unplaced(ss[m]) /\ d # c
    BY <1>1, <1>4 DEF SchedulerType, Unplaced
  <2>2. d \in Sched!Unscheduled(components) /\ components'[d] = components[d]
    BY <1>1, <2>1 DEF Sched!Unscheduled, Sched!Listed, PlacementInv
  <2> QED BY <2>2 DEF Sched!Unscheduled, Sched!Listed
<1> QED BY <1>2, <1>3, <1>4 DEF PlacementInv, Sched!Unscheduled, Sched!Listed

\* A scheduler that is done with a component has no more to place than before.
LEMMA AssignedOK ==
  ASSUME NEW w \in SchedulerType, NEW c \in Sched!Component
  PROVE  /\ Sched!Assigned(w, c) \in SchedulerType
         /\ Unplaced(Sched!Assigned(w, c)) \subseteq Unplaced(w)
BY DEF Sched!Assigned, Sched!IdleScheduler, SchedulerType, Unplaced

\* Every step keeps it.
LEMMA PlacementNext ==
  ASSUME PlacementInv, Sched!Next
  PROVE  PlacementInv'
<1>1. CASE \E c \in Sched!Component : Elsewhere(c)
  <2>1. PICK c \in Sched!Component : Elsewhere(c)
    BY <1>1
  <2>2. PICK comp \in ObjectType : Sched!WriteComponent(c, comp, scheduler)
    <3>1. CASE Sched!CreateComponent(c)
      BY <3>1 DEF Sched!CreateComponent, Sched!AbsentComponent, ObjectType
    <3>2. CASE Sched!DeleteComponent(c)
      BY <3>2 DEF Sched!DeleteComponent, PlacementInv, ObjectType
    <3>3. CASE Sched!FinishDeletion(c)
      BY <3>3 DEF Sched!FinishDeletion, PlacementInv, ObjectType
    <3> QED BY <2>1, <3>1, <3>2, <3>3 DEF Elsewhere
  <2>3. hypervisors' = hypervisors
    BY <2>1 DEF Elsewhere, Sched!CreateComponent, Sched!DeleteComponent, Sched!FinishDeletion
  <2> QED BY <2>2, <2>3, WriteKeeps DEF PlacementInv
<1>2. CASE \E h \in Sched!Hypervisor : Sched!AddHypervisor(h) \/ Sched!RemoveHypervisor(h)
  BY <1>2 DEF Sched!AddHypervisor, Sched!RemoveHypervisor, PlacementInv, Sched!Unscheduled,
              Sched!Listed
<1>3. ASSUME NEW m \in Manager, NEW c \in Sched!Component, NEW h \in Sched!Hypervisor,
             Sched!SchedulerAssign(m, c, h)
      PROVE  PlacementInv'
  <2> DEFINE ss == [scheduler EXCEPT ![m] = Sched!Assigned(@, c)]
             comp == [components[c] EXCEPT !.hypervisor = h]
  <2>1. Sched!WriteComponent(c, comp, ss) /\ hypervisors' = hypervisors
    BY <1>3 DEF Sched!SchedulerAssign
  <2>2. comp \in ObjectType
    BY DEF PlacementInv, ObjectType
  <2>3. ss \in [Manager -> SchedulerType]
    BY AssignedOK DEF PlacementInv
  <2>4. \A n \in Manager : Unplaced(ss[n]) \subseteq Sched!Unscheduled(components)
    BY AssignedOK DEF PlacementInv
  <2> HIDE DEF ss, comp
  <2> QED BY <2>1, <2>2, <2>3, <2>4, WriteKeeps
<1>4. ASSUME NEW m \in Manager, components' = components, hypervisors' = hypervisors,
             NEW w \in SchedulerType, scheduler' = [scheduler EXCEPT ![m] = w],
             Unplaced(w) \subseteq Sched!Unscheduled(components)
      PROVE  PlacementInv'
  BY <1>4 DEF PlacementInv, Sched!Unscheduled, Sched!Listed
<1>5. Sched!IdleScheduler \in SchedulerType /\ Sched!IdleScheduler.todo = {}
  BY DEF Sched!IdleScheduler, SchedulerType
<1>6. ASSUME NEW m \in Manager, NEW c \in Sched!Component, Sched!SchedulerList(m, c)
      PROVE  PlacementInv'
  <2> DEFINE todo == Sched!Unscheduled(components)
  <2>1. CASE scheduler' = scheduler
    BY <1>6, <2>1, Zenon DEF Sched!SchedulerList, PlacementInv, Sched!Unscheduled, Sched!Listed
  <2>2. CASE scheduler' # scheduler
    <3> DEFINE w == [Sched!IdleScheduler EXCEPT !.pc = "list", !.request = {c},
                                          !.todo = todo, !.fresh = todo]
    <3>1. w \in SchedulerType /\ Unplaced(w) \subseteq Sched!Unscheduled(components)
      BY Zenon DEF SchedulerType, Sched!IdleScheduler, Sched!Unscheduled, Sched!Listed, Unplaced
    <3>2. /\ scheduler' = [scheduler EXCEPT ![m] = w]
          /\ components' = components /\ hypervisors' = hypervisors
      BY <1>6, <2>2 DEF Sched!SchedulerList
    <3> QED BY <1>4, <3>1, <3>2, Zenon
  <2> QED BY <2>1, <2>2
<1>7. ASSUME NEW m \in Manager, Sched!SchedulerListHypervisors(m)
      PROVE  PlacementInv'
  <2> DEFINE w == [scheduler[m] EXCEPT !.pc = "assign", !.present = hypervisors]
  <2>1. w \in SchedulerType /\ Unplaced(w) \subseteq Sched!Unscheduled(components)
    BY Zenon DEF SchedulerType, PlacementInv, Unplaced
  <2>2. /\ scheduler' = [scheduler EXCEPT ![m] = w]
        /\ components' = components /\ hypervisors' = hypervisors
    BY <1>7, Zenon DEF Sched!SchedulerListHypervisors, PlacementInv, SchedulerType
  <2> QED BY <1>4, <2>1, <2>2, Zenon
<1>8. ASSUME NEW m \in Manager, NEW c \in Sched!Component, Sched!SchedulerSkip(m, c)
      PROVE  PlacementInv'
  <2>1. /\ scheduler' = [scheduler EXCEPT ![m] = Sched!Assigned(scheduler[m], c)]
        /\ components' = components /\ hypervisors' = hypervisors
    BY <1>8 DEF Sched!SchedulerSkip
  <2>2. /\ Sched!Assigned(scheduler[m], c) \in SchedulerType
        /\ Unplaced(Sched!Assigned(scheduler[m], c)) \subseteq Sched!Unscheduled(components)
    BY AssignedOK DEF PlacementInv
  <2> QED BY <1>4, <2>1, <2>2, Zenon
<1>9. ASSUME NEW m \in Manager, Sched!SchedulerFails(m) \/ Sched!Crash(m)
      PROVE  PlacementInv'
  BY <1>4, <1>5, <1>9 DEF Sched!SchedulerFails, Sched!Crash, Unplaced
<1> QED BY <1>1, <1>2, <1>3, <1>6, <1>7, <1>8, <1>9 DEF Sched!Next, Sched!SchedulerStep,
                                                        Elsewhere

\* However many managers run a scheduler, and whatever fails: a component gets a
\* hypervisor of its role, once.  So the hypervisor that ComponentReconcile and
\* IngressReconcile find in the spec of a component stays the one it has.
THEOREM PlacementStands == Sched!Spec => Sched!PlacementKept
<1>1. Sched!Init => PlacementInv
  BY DEF Sched!Init, PlacementInv, Sched!AbsentComponent, Sched!IdleScheduler, SchedulerType,
         ObjectType, Unplaced
<1>2. PlacementInv /\ [Sched!Next]_(Sched!vars) => PlacementInv'
  <2>1. CASE UNCHANGED Sched!vars
    BY <2>1 DEF Sched!vars, PlacementInv, Sched!Unscheduled, Sched!Listed
  <2> QED BY <2>1, PlacementNext
<1>3. ASSUME PlacementInv, Sched!Next,
             NEW c \in Sched!Listed(components) \cap Sched!Listed(components'),
             components'[c].hypervisor # components[c].hypervisor
      PROVE  /\ components[c].hypervisor = NoHypervisor
             /\ components'[c].hypervisor \in Sched!HypervisorsFor(c)
  <2>1. ASSUME NEW d \in Sched!Component, Elsewhere(d)
        PROVE  FALSE
    BY <1>3, <2>1 DEF Elsewhere, Sched!CreateComponent, Sched!DeleteComponent,
                      Sched!FinishDeletion, Sched!WriteComponent, PlacementInv, ObjectType,
                      Sched!Listed
  <2>2. ASSUME NEW m \in Manager, NEW d \in Sched!Component, NEW h \in Sched!Hypervisor,
               Sched!SchedulerAssign(m, d, h)
        PROVE  /\ components[c].hypervisor = NoHypervisor
               /\ components'[c].hypervisor \in Sched!HypervisorsFor(c)
    <3>1. components' = [components EXCEPT ![d] = [components[d] EXCEPT !.hypervisor = h]]
      BY <2>2 DEF Sched!SchedulerAssign, Sched!WriteComponent
    <3>2. c = d
      BY <1>3, <3>1 DEF PlacementInv, Sched!Listed
    <3>3. c \in Sched!Unscheduled(components) /\ h \in Sched!HypervisorsFor(c)
      BY <1>3, <2>2, <3>2 DEF Sched!SchedulerAssign, PlacementInv, Unplaced, Sched!Candidates
    <3> QED BY <1>3, <3>1, <3>2, <3>3 DEF Sched!Unscheduled, Sched!Listed, PlacementInv,
                                          ObjectType
  <2>3. CASE components' = components
    BY <1>3, <2>3
  <2> QED BY <1>3, <2>1, <2>2, <2>3, Zenon DEF Sched!Next, Elsewhere, Sched!SchedulerStep,
                                        Sched!AddHypervisor, Sched!RemoveHypervisor,
                                        Sched!SchedulerList, Sched!SchedulerSkip,
                                        Sched!SchedulerListHypervisors, Sched!SchedulerFails,
                                        Sched!Crash
<1>4. PlacementInv /\ [Sched!Next]_(Sched!vars) =>
         [\A c \in Sched!Listed(components) \cap Sched!Listed(components)' :
             components'[c].hypervisor # components[c].hypervisor =>
                /\ components[c].hypervisor = NoHypervisor
                /\ components'[c].hypervisor \in Sched!HypervisorsFor(c)]_(Sched!vars)
  BY <1>3
<1> QED BY <1>1, <1>2, <1>4, PTL DEF Sched!Spec, Sched!PlacementKept
=============================================================================
