-------------------------- MODULE ClusterAddons --------------------------
(***************************************************************************)
(* What the cluster reconciler installs in a managed cluster: the custom   *)
(* resource definition of node join requests, the oneinfra-system          *)
(* namespace, permissions, kube-proxy, CoreDNS and the ConfigMap with the  *)
(* join key.  A pass creates the objects one by one; one that is there is  *)
(* left as it is, an error ends the add-on it happens in and not the pass. *)
(*                                                                         *)
(* An object is its name: what is in it (rules, images, ports, the address *)
(* of the API server) is what a create call sends and nothing here depends *)
(* on it, but for the address of the Service of CoreDNS, which has to be   *)
(* one of the service network (module ServiceNetwork).  Passes follow each *)
(* other: every status write, failure and resync queues another request.   *)
(***************************************************************************)
EXTENDS Naturals, Sequences, ServiceNetwork

CONSTANTS
    Manager,               \* the running managers
    Legacy,                \* whether its version is below Kubernetes 1.16
    ServiceCIDR,           \* the service networks the cluster may have
    Refusable,             \* objects a managed cluster may refuse for good
    MaxDeletions,          \* bound on objects deleted in the managed cluster
    MaxFaults              \* bound on failed calls and crashes

VARIABLES
    objects,               \* the names of the objects in the managed cluster
    refused,               \* the objects it refuses for good
    terminating,           \* whether its oneinfra-system namespace is being deleted
    conditions,            \* the conditions in the status of the cluster object
    pass,                  \* per manager, the pass of the cluster reconciler
    deletions,             \* how many objects were deleted
    faults                 \* how many faults there were

vars == <<objects, refused, terminating, conditions, pass, deletions, faults>>
bounds == <<deletions, faults>>

-----------------------------------------------------------------------------
(***************************************************************************)
(* The add-ons and the objects of each, in the order of the code.          *)
(***************************************************************************)

NodeJoinRequestsCRD == <<"nodejoinrequests">>

\* Before Kubernetes 1.16, the same definition through the API of that time.
NodeJoinRequestsCRDLegacy == <<"nodejoinrequests">>

CustomResourceDefinitions ==
    IF Legacy THEN NodeJoinRequestsCRDLegacy ELSE NodeJoinRequestsCRD

Namespaces == <<"oneinfra-system">>

NodeJoinRequestsPermissions == <<"requester-clusterrole", "requester-clusterrolebinding">>

NodeJoinConfigMapPermissions == <<"requester-role", "requester-rolebinding">>

KubeletProxierPermissions == <<"kubelet-proxier-binding">>

Permissions ==
    NodeJoinRequestsPermissions \o NodeJoinConfigMapPermissions \o KubeletProxierPermissions

KubeProxyPermissions == <<"kube-proxy-account", "kube-proxy-binding">>

KubeProxy == KubeProxyPermissions \o <<"kube-proxy-daemonset">>

CoreDNSPermissions == <<"coredns-account", "coredns-role", "coredns-binding">>

CoreDNSConfigMap == <<"coredns-configmap">>

CoreDNSDeployment == <<"coredns-deployment">>

CoreDNSService == <<"kube-dns">>

CoreDNS == CoreDNSPermissions \o CoreDNSConfigMap \o CoreDNSDeployment \o CoreDNSService

JoinPublicKeyConfigMap == <<"oneinfra-join">>

Addons ==
    <<CustomResourceDefinitions, Namespaces, Permissions, KubeProxy, CoreDNS,
      JoinPublicKeyConfigMap>>

Object == UNION {{Addons[a][i] : i \in DOMAIN Addons[a]} : a \in DOMAIN Addons}

\* The objects in the oneinfra-system namespace; CoreDNS and kube-proxy are in
\* kube-system, which cannot be deleted.
InNamespace == {"requester-role", "requester-rolebinding", "oneinfra-join"}

ASSUME RefusableAssumption == Refusable \subseteq Object \ {"oneinfra-system"}

-----------------------------------------------------------------------------

\* A pass is at object `step' of add-on `addon', or has none left.
Idle == [running |-> FALSE, addon |-> 1, step |-> 1, succeeded |-> TRUE, fresh |-> FALSE]

Done(w) == w.addon > Len(Addons)
At(w) == Addons[w.addon][w.step]
Busy(m) == pass[m].running /\ ~ Done(pass[m])

NextAddon(w) == [w EXCEPT !.addon = @ + 1, !.step = 1]

Advance(w) ==
    IF w.step < Len(Addons[w.addon]) THEN [w EXCEPT !.step = @ + 1] ELSE NextAddon(w)

\* Mutant: an error ends the pass.
AbandonPass(w) == [w EXCEPT !.addon = Len(Addons) + 1, !.succeeded = FALSE]

\* Mutant: the rest of the add-on is tried nevertheless.
AbandonObject(w) == [Advance(w) EXCEPT !.succeeded = FALSE]

\* Mutant: the error is logged and not counted.
AbandonSilently(w) == NextAddon(w)

\* An error: the rest of the add-on is not tried, and is counted.
Abandon(w) == [NextAddon(w) EXCEPT !.succeeded = FALSE]

\* After a failed creation; nobody looks at the error of the Service of CoreDNS.
AfterError(w) == IF At(w) = "kube-dns" THEN Advance(w) ELSE Abandon(w)

\* The managed cluster never accepts a Service with an address out of its network.
OutOfNetwork(net) == IF Contains(net, CoreDNSServiceIP(net)) THEN {} ELSE {"kube-dns"}

\* The managed cluster accepts the creation of o: not in a namespace that is not
\* there, or about to go.
Accepts(o) ==
    /\ o \notin refused
    /\ o \in InNamespace => "oneinfra-system" \in objects /\ ~ terminating

Fault == faults < MaxFaults /\ faults' = faults + 1

SetCondition(cs, type, status) == [cs EXCEPT ![type] = status]

\* The conditions after pass w.
Reported(w) ==
    SetCondition(SetCondition(conditions, "ReconcileStarted", "True"),
                 "ReconcileSucceeded", IF w.succeeded THEN "True" ELSE "False")

-----------------------------------------------------------------------------
(***************************************************************************)
(* The cluster reconciler.                                                 *)
(***************************************************************************)

\* A pass that gets to the add-ons: the ingress has its port.
Begin(m) ==
    /\ ~ pass[m].running
    /\ pass' = [pass EXCEPT ![m] = [Idle EXCEPT !.running = TRUE, !.fresh = TRUE]]
    /\ UNCHANGED <<objects, refused, terminating, conditions, bounds>>

\* The object is created, or was there already.
Create(m) ==
    /\ Busy(m)
    /\ Accepts(At(pass[m]))
    /\ objects' = objects \cup {At(pass[m])}
    /\ pass' = [pass EXCEPT ![m] = Advance(@)]
    /\ UNCHANGED <<refused, terminating, conditions, bounds>>

\* The creation is refused.
Refuse(m) ==
    /\ Busy(m)
    /\ ~ Accepts(At(pass[m]))
    /\ pass' = [pass EXCEPT ![m] = AfterError(@)]
    /\ UNCHANGED <<objects, refused, terminating, conditions, bounds>>

\* The call fails, before or after the object was created.
CreateFails(m) ==
    /\ Busy(m)
    /\ Fault
    /\ \/ UNCHANGED objects
       \/ Accepts(At(pass[m])) /\ objects' = objects \cup {At(pass[m])}
    /\ pass' = [pass EXCEPT ![m] = AfterError(@)]
    /\ UNCHANGED <<refused, terminating, conditions, deletions>>

\* The join tokens or the storage endpoints, which the pass sees to between the
\* permissions and kube-proxy, are in error.
FailElsewhere(m) ==
    /\ Busy(m)
    /\ pass[m].addon = 4 /\ pass[m].step = 1
    /\ Fault
    /\ pass' = [pass EXCEPT ![m].succeeded = FALSE]
    /\ UNCHANGED <<objects, refused, terminating, conditions, deletions>>

\* The status is written if there was no error and the cluster object is as it was
\* read; otherwise the conditions of this pass are lost with it.
End(m) ==
    /\ pass[m].running /\ Done(pass[m])
    /\ IF pass[m].succeeded /\ pass[m].fresh
       THEN /\ conditions' = Reported(pass[m])
            /\ pass' = [n \in Manager |-> IF n = m THEN Idle
                                          ELSE [pass[n] EXCEPT !.fresh = FALSE]]
       ELSE pass' = [pass EXCEPT ![m] = Idle] /\ UNCHANGED conditions
    /\ UNCHANGED <<objects, refused, terminating, bounds>>

Crash(m) ==
    /\ pass[m].running
    /\ Fault
    /\ pass' = [pass EXCEPT ![m] = Idle]
    /\ UNCHANGED <<objects, refused, terminating, conditions, deletions>>

-----------------------------------------------------------------------------
(***************************************************************************)
(* The managed cluster.                                                    *)
(***************************************************************************)

\* Somebody deletes an object; a namespace goes after what is in it.
Delete(o) ==
    /\ o \in objects
    /\ deletions < MaxDeletions /\ deletions' = deletions + 1
    /\ IF o = "oneinfra-system" THEN terminating' = TRUE /\ UNCHANGED objects
       ELSE objects' = objects \ {o} /\ UNCHANGED terminating
    /\ UNCHANGED <<refused, conditions, pass, faults>>

EmptyNamespace(o) ==
    /\ terminating
    /\ o \in objects \cap InNamespace
    /\ objects' = objects \ {o}
    /\ UNCHANGED <<refused, terminating, conditions, pass, bounds>>

RemoveNamespace ==
    /\ terminating
    /\ objects \cap InNamespace = {}
    /\ objects' = objects \ {"oneinfra-system"}
    /\ terminating' = FALSE
    /\ UNCHANGED <<refused, conditions, pass, bounds>>

TerminateNamespace == RemoveNamespace \/ \E o \in InNamespace : EmptyNamespace(o)

-----------------------------------------------------------------------------

Init ==
    /\ objects = {}
    /\ \E net \in ServiceCIDR :
          refused \in {OutOfNetwork(net) \cup s : s \in {{}} \cup {{o} : o \in Refusable}}
    /\ terminating = FALSE
    /\ conditions = [type \in {"ReconcileStarted", "ReconcileSucceeded"} |-> "Unknown"]
    /\ pass = [m \in Manager |-> Idle]
    /\ deletions = 0
    /\ faults = 0

PassStep(m) == Begin(m) \/ Create(m) \/ Refuse(m) \/ End(m)

Next ==
    \/ \E m \in Manager :
          PassStep(m) \/ CreateFails(m) \/ FailElsewhere(m) \/ Crash(m)
    \/ \E o \in Object : Delete(o)
    \/ TerminateNamespace

Spec == Init /\ [][Next]_vars

\* The requests are seen to, and a namespace that is deleted goes.
FairSpec ==
    /\ Spec
    /\ \A m \in Manager : WF_vars(PassStep(m))
    /\ WF_vars(TerminateNamespace)

-----------------------------------------------------------------------------
(***************************************************************************)
(* Properties.                                                             *)
(***************************************************************************)

\* The objects that o is of no use without: the roles and accounts a binding names,
\* the account, permissions and configuration of what kube-proxy and CoreDNS run.
Needs(o) ==
    CASE o = "requester-clusterrolebinding" -> {"requester-clusterrole"}
      [] o = "requester-rolebinding" -> {"requester-role"}
      [] o = "kube-proxy-daemonset" -> {"kube-proxy-account", "kube-proxy-binding"}
      [] o = "coredns-deployment" -> {"coredns-account", "coredns-role", "coredns-binding",
                                      "coredns-configmap"}
      [] OTHER -> {}

\* While nobody deletes anything, no object is created before the ones it needs,
\* whatever calls fail and however the passes of two managers interleave: the error
\* of a creation keeps ReconcileKubeProxy and ReconcileCoreDNS from going on.
NeedsFirst ==
    deletions = 0 => \A o \in objects : Needs(o) \subseteq objects

\* What `kubectl wait --for=condition=ReconcileSucceeded' waits for: as long as
\* nobody deletes anything, a cluster that says so has all of its add-ons, except
\* that the Service of CoreDNS may be missing (reconcileCoreDNSService drops the
\* error).
SuccessIsComplete ==
    conditions["ReconcileSucceeded"] = "True" /\ deletions = 0 =>
       Object \ {"kube-dns"} \subseteq objects

\* The objects that a pass gets to: those before which nothing of their add-on is
\* refused for good.
Installable(o) ==
    \A a \in DOMAIN Addons : \A i \in DOMAIN Addons[a] :
       Addons[a][i] = o => \A j \in 1..i : Addons[a][j] \notin refused

\* Whatever was deleted in the managed cluster, the namespace included, comes back,
\* and one add-on that can never be completed (an unknown version of CoreDNS, say)
\* does not keep the cluster from having the others.
AddonsInstalled == <>[]({o \in Object : Installable(o)} \subseteq objects)
=============================================================================
