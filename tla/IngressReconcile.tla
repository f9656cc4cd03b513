-------------------------- MODULE IngressReconcile --------------------------
(***************************************************************************)
(* What the reconciliation of a control plane ingress leaves on its        *)
(* hypervisor: the configuration of haproxy and the files of the VPN,      *)
(* which jobs upload, the record of them in the status of the hypervisor,  *)
(* the pod of haproxy and the interface of the VPN.  A file is uploaded    *)
(* unless the record has the hash of what is wanted; the record is written *)
(* at the end of the pass and may be refused, and nobody looks at the host *)
(* again.                                                                  *)
(*                                                                         *)
(* A configuration and a port are numbers, and so is the contents of a     *)
(* file: that configuration or port, 0 if there is none.  The other        *)
(* components, their ports and the API server are in ComponentReconcile;   *)
(* how a pod comes to run is in PodLifecycle.                              *)
(***************************************************************************)
EXTENDS Naturals, FiniteSets

CONSTANTS
    Ingress,               \* components with the role of an ingress, all on one hypervisor
    Config,                \* configurations of haproxy, one per set of control planes
    Port,                  \* host ports
    Faults,                \* the faults that may happen, each once
    MaxFaults,             \* bound on faults
    MaxChanges,            \* bound on changes of the set of control planes
    MaxDeletions           \* bound on deletions of ingresses

\* 0 stands for a file that is not there.
ASSUME ConfigAssumption == Config # {} /\ 0 \notin Config \cup Port

VARIABLES
    wanted,                \* the configuration that lists the control planes
    past,                  \* the configurations that were wanted before
    ingresses,             \* the ingress objects
    record,                \* status.files of the hypervisor, in the API server
    host,                  \* the files on the hypervisor
    unit,                  \* the ingress whose script the systemd unit names
    vpn,                   \* the port the VPN interface listens on
    pods,                  \* the pods of haproxy
    jobs,                  \* the pods "upload-files"
    worker,                \* the worker of the component controller
    changes,               \* how many changes and deletions there were
    faults                 \* the faults that happened

vars == <<wanted, past, ingresses, record, host, unit, vpn, pods, jobs, worker,
          changes, faults>>
objects == <<wanted, past, ingresses, changes>>
files == <<host, unit>>

-----------------------------------------------------------------------------

\* The script of the VPN stands for its key and its systemd unit too, which the
\* same job uploads.
File == {"haproxy.cfg", "wg.sh"}
NoFiles == [f \in File |-> 0]

AbsentIngress == [phase |-> "absent", port |-> 0]

\* The configuration in the annotation of the pod, and the one haproxy has read.
NoPod == [config |-> 0, loaded |-> 0]

IdleWorker ==
    [pc |-> "idle", ingress |-> {}, file |-> {}, config |-> 0, files |-> NoFiles,
     fresh |-> FALSE]

InPhase(p) == {i \in Ingress : ingresses[i].phase = p}

Fault(kind) ==
    /\ kind \in Faults \ faults /\ Cardinality(faults) < MaxFaults
    /\ faults' = faults \cup {kind}

At(pc) == worker.pc = pc
Own == CHOOSE i \in Ingress : i \in worker.ingress
OwnFile == CHOOSE f \in File : f \in worker.file
Goto(pc) == worker' = [worker EXCEPT !.pc = pc]

-----------------------------------------------------------------------------
(***************************************************************************)
(* What happens to the cluster.                                            *)
(***************************************************************************)

\* A control plane comes or goes.
ChangeControlPlanes(c) ==
    /\ c # wanted /\ changes.configs < MaxChanges
    /\ wanted' = c
    /\ past' = past \cup {wanted}
    /\ changes' = [changes EXCEPT !.configs = @ + 1]
    /\ UNCHANGED <<ingresses, record, files, vpn, pods, jobs, worker, faults>>

\* The cluster controller creates an ingress if there is none that stays; its port
\* is one that no ingress has.
CreateIngress(i, p) ==
    /\ ingresses[i].phase = "absent" /\ InPhase("live") = {}
    /\ \A j \in InPhase("deleting") : ingresses[j].port # p
    /\ ingresses' = [ingresses EXCEPT ![i] = [phase |-> "live", port |-> p]]
    /\ UNCHANGED <<wanted, past, record, files, vpn, pods, jobs, worker, changes, faults>>

DeleteIngress(i) ==
    /\ i \in InPhase("live") /\ changes.deletions < MaxDeletions
    /\ ingresses' = [ingresses EXCEPT ![i].phase = "deleting"]
    /\ changes' = [changes EXCEPT !.deletions = @ + 1]
    /\ UNCHANGED <<wanted, past, record, files, vpn, pods, jobs, worker, faults>>

-----------------------------------------------------------------------------
(***************************************************************************)
(* Reconcile.                                                              *)
(***************************************************************************)

\* The pass of an ingress, or of a control plane, which reconciles the ingresses
\* first, those that are being deleted included.
Begin(i) ==
    /\ At("idle") /\ i \in InPhase("live") \cup InPhase("deleting")
    /\ worker' = [pc |-> "upload", ingress |-> {i}, file |-> {"haproxy.cfg"},
                  config |-> wanted, files |-> record[i], fresh |-> TRUE]
    /\ UNCHANGED <<objects, record, files, vpn, pods, jobs, faults>>

Contents(f) ==
    IF f = "haproxy.cfg" THEN worker.config ELSE ingresses[Own].port

FileUpToDate(f) == worker.files[f] = Contents(f)

\* The worker once file f is taken care of.
Uploaded(f, fs) ==
    [worker EXCEPT !.pc = IF f = "haproxy.cfg" THEN "pod" ELSE "start", !.files = fs]

\* Mutant: nothing is done about a VPN whose files are up to date.
SkipUploadAndStart ==
    /\ At("upload") /\ FileUpToDate(OwnFile)
    /\ worker' = IF OwnFile = "wg.sh" THEN [worker EXCEPT !.pc = "write"]
                 ELSE Uploaded(OwnFile, worker.files)
    /\ UNCHANGED <<objects, record, files, vpn, pods, jobs, faults>>

SkipUpload ==
    /\ At("upload") /\ FileUpToDate(OwnFile)
    /\ worker' = Uploaded(OwnFile, worker.files)
    /\ UNCHANGED <<objects, record, files, vpn, pods, jobs, faults>>

\* EnsurePod replaces a job that a pass before left running.
StartUpload ==
    /\ At("upload") /\ ~ FileUpToDate(OwnFile)
    /\ jobs' = [jobs EXCEPT ![Own] = {[file |-> OwnFile, contents |-> Contents(OwnFile)]}]
    /\ Goto("wait")
    /\ UNCHANGED <<objects, record, files, vpn, pods, faults>>

\* Mutant: the job is not waited for.
FinishUploadAtOnce ==
    /\ At("wait")
    /\ worker' = Uploaded(OwnFile, [worker.files EXCEPT ![OwnFile] = Contents(OwnFile)])
    /\ UNCHANGED <<objects, record, files, vpn, pods, jobs, faults>>

\* WaitForPod sees that the job has ended, whatever its exit status, and the file
\* is put on record.
FinishUpload ==
    /\ At("wait") /\ jobs[Own] = {}
    /\ worker' = Uploaded(OwnFile, [worker.files EXCEPT ![OwnFile] = Contents(OwnFile)])
    /\ UNCHANGED <<objects, record, files, vpn, pods, jobs, faults>>

\* Mutant: the annotation does not tell one configuration from another.
EnsureIngressPodAnyConfig ==
    /\ At("pod")
    /\ pods' = IF pods[Own] # NoPod THEN pods
               ELSE [pods EXCEPT ![Own] = [config |-> worker.config,
                                           loaded |-> host[Own]["haproxy.cfg"]]]
    /\ worker' = [worker EXCEPT !.pc = "upload", !.file = {"wg.sh"}]
    /\ UNCHANGED <<objects, record, files, vpn, jobs, faults>>

\* haproxy reads its configuration when it starts; it is started anew if the hash
\* of the configuration that is wanted is not the one in the annotation of the pod.
EnsureIngressPod ==
    /\ At("pod")
    /\ pods' = IF pods[Own].config = worker.config THEN pods
               ELSE [pods EXCEPT ![Own] = [config |-> worker.config,
                                           loaded |-> host[Own]["haproxy.cfg"]]]
    /\ worker' = [worker EXCEPT !.pc = "upload", !.file = {"wg.sh"}]
    /\ UNCHANGED <<objects, record, files, vpn, jobs, faults>>

\* The port in the script that the systemd unit names.
ScriptPort == IF unit = {} THEN 0 ELSE host[CHOOSE i \in Ingress : i \in unit]["wg.sh"]

\* The unit is started; its script leaves an interface that is there as it is.
StartWireguard ==
    /\ At("start")
    /\ vpn' = IF vpn = 0 THEN ScriptPort ELSE vpn
    /\ Goto("write")
    /\ UNCHANGED <<objects, record, files, pods, jobs, faults>>

\* UpdateResources, at the end of every pass.
WriteHypervisor ==
    /\ At("write")
    /\ record' = IF worker.fresh THEN [record EXCEPT ![Own] = worker.files] ELSE record
    /\ worker' = IdleWorker
    /\ UNCHANGED <<objects, files, vpn, pods, jobs, faults>>

-----------------------------------------------------------------------------
(***************************************************************************)
(* ReconcileDeletion.                                                      *)
(***************************************************************************)

BeginDeletion(i) ==
    /\ At("idle") /\ i \in InPhase("deleting")
    /\ worker' = [IdleWorker EXCEPT !.pc = "stop", !.ingress = {i}, !.files = record[i],
                                    !.fresh = TRUE]
    /\ UNCHANGED <<objects, record, files, vpn, pods, jobs, faults>>

StopIngress ==
    /\ At("stop")
    /\ pods' = [pods EXCEPT ![Own] = NoPod]
    /\ Goto("clean")
    /\ UNCHANGED <<objects, record, files, vpn, jobs, faults>>

\* The directory of the component goes, and with it what a job would still write
\* there; the systemd unit and the interface stay.
HostCleanup ==
    /\ At("clean")
    /\ host' = [host EXCEPT ![Own] = NoFiles]
    /\ jobs' = [jobs EXCEPT ![Own] = {}]
    /\ worker' = [worker EXCEPT !.pc = "finalizer", !.files = NoFiles]
    /\ UNCHANGED <<objects, record, unit, vpn, pods, faults>>

RemoveFinalizer ==
    /\ At("finalizer")
    /\ ingresses' = [ingresses EXCEPT ![Own].phase = "gone"]
    /\ Goto("write")
    /\ UNCHANGED <<wanted, past, changes, record, files, vpn, pods, jobs, faults>>

-----------------------------------------------------------------------------
(***************************************************************************)
(* The hypervisor.                                                         *)
(***************************************************************************)

JobWrites(i) ==
    /\ \E j \in jobs[i] :
          /\ host' = [host EXCEPT ![i][j.file] = j.contents]
          /\ unit' = IF j.file = "wg.sh" THEN {i} ELSE unit
    /\ jobs' = [jobs EXCEPT ![i] = {}]
    /\ UNCHANGED <<objects, record, vpn, pods, worker, faults>>

\* The job ends without having written the file.
JobFails(i) ==
    /\ jobs[i] # {}
    /\ Fault("job")
    /\ jobs' = [jobs EXCEPT ![i] = {}]
    /\ UNCHANGED <<objects, record, files, vpn, pods, worker>>

\* Nothing runs afterwards; the unit, which is enabled, sets up the interface.  A
\* job that was running has failed.
Reboot ==
    /\ Fault(IF \E i \in Ingress : jobs[i] # {} THEN "job" ELSE "reboot")
    /\ pods' = [i \in Ingress |-> NoPod]
    /\ jobs' = [i \in Ingress |-> {}]
    /\ vpn' = ScriptPort
    /\ UNCHANGED <<objects, record, files, worker>>

\* A call to the hypervisor or to the API server fails: what was done until then is
\* put on record all the same.
CallFails ==
    /\ worker.pc \notin {"idle", "write"}
    /\ Fault("call")
    /\ Goto("write")
    /\ UNCHANGED <<objects, record, files, vpn, pods, jobs>>

\* Somebody else writes the hypervisor, so that the worker's write will be refused.
TouchHypervisor ==
    /\ worker.fresh
    /\ Fault("conflict")
    /\ worker' = [worker EXCEPT !.fresh = FALSE]
    /\ UNCHANGED <<objects, record, files, vpn, pods, jobs>>

Crash ==
    /\ ~ At("idle")
    /\ Fault("crash")
    /\ worker' = IdleWorker
    /\ UNCHANGED <<objects, record, files, vpn, pods, jobs>>

-----------------------------------------------------------------------------

Init ==
    /\ wanted = (CHOOSE c \in Config : TRUE) /\ past = {}
    /\ ingresses = [i \in Ingress |-> AbsentIngress]
    /\ record = [i \in Ingress |-> NoFiles]
    /\ host = [i \in Ingress |-> NoFiles]
    /\ unit = {} /\ vpn = 0
    /\ pods = [i \in Ingress |-> NoPod]
    /\ jobs = [i \in Ingress |-> {}]
    /\ worker = IdleWorker
    /\ changes = [configs |-> 0, deletions |-> 0]
    /\ faults = {}

Step ==
    \/ SkipUpload \/ StartUpload \/ FinishUpload \/ EnsureIngressPod \/ StartWireguard
    \/ WriteHypervisor
    \/ StopIngress \/ HostCleanup \/ RemoveFinalizer

Failure == CallFails \/ TouchHypervisor \/ Crash \/ Reboot \/ \E i \in Ingress : JobFails(i)

Next ==
    \/ \E c \in Config : ChangeControlPlanes(c)
    \/ \E i \in Ingress : \/ \E p \in Port : CreateIngress(i, p)
                          \/ DeleteIngress(i) \/ Begin(i) \/ BeginDeletion(i)
                          \/ JobWrites(i)
    \/ Step \/ Failure

Spec == Init /\ [][Next]_vars

\* The controller goes on, its queue gets round to every ingress, and jobs end.
FairSpec ==
    /\ Spec /\ WF_vars(Step)
    /\ \A i \in Ingress : /\ SF_vars(Begin(i)) /\ SF_vars(BeginDeletion(i))
                          /\ WF_vars(JobWrites(i))

-----------------------------------------------------------------------------
(***************************************************************************)
(* Properties.                                                             *)
(***************************************************************************)

\* What the record cannot tell: a job that failed, and a configuration that is
\* wanted again after the record of the one in between may have been lost.
Deceived == "job" \in faults \/ (wanted \in past /\ faults # {})

\* FileUpToDate is right about the host: when a pass would find a file of an
\* ingress on record as it is wanted now, it is on the host, although uploading it,
\* recording it and writing the record are separate steps.
UpToDate ==
    At("idle") /\ ~ Deceived =>
       \A i \in InPhase("live") :
          /\ record[i]["haproxy.cfg"] = wanted => host[i]["haproxy.cfg"] = wanted
          /\ record[i]["wg.sh"] # 0 => host[i]["wg.sh"] = ingresses[i].port

\* The ingress comes to balance over the control planes there are: haproxy runs and
\* has read the configuration that lists them, also after a reboot.
IngressServes ==
    \A i \in Ingress :
       <>[](i \in InPhase("live")) => <>[](pods[i].loaded = wanted \/ Deceived)

\* The VPN comes to listen on the port of the ingress, also after a reboot, as long
\* as no other ingress of the cluster has been on the hypervisor.
VPNListens ==
    \A i \in Ingress :
       <>[](InPhase("live") = {i} /\ InPhase("absent") = Ingress \ {i}) =>
          <>[](vpn = ingresses[i].port \/ Deceived)

=============================================================================
