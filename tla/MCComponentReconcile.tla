----------------------- MODULE MCComponentReconcile -----------------------
(***************************************************************************)
(* Instances of ComponentReconcile.  Some of them start with components    *)
(* that an earlier part of the behaviour created, scheduled and            *)
(* reconciled one after the other, so that what happens to a working       *)
(* cluster is within reach.                                                *)
(***************************************************************************)
EXTENDS ComponentReconcile, SequencesExt

CONSTANT Settled       \* the components that run already

Managers == Permutations(Manager)

\* One hypervisor of each kind.
HostOf(c) ==
    CHOOSE h \in Hypervisor : h \in PublicHypervisor <=> c \in Ingress

SettledWorker ==
    LET scheduled == [NewMemory EXCEPT !.components = [c \in Component |->
            IF c \in Settled
            THEN [AbsentComponent EXCEPT !.phase = "live", !.hypervisor = HostOf(c)]
            ELSE AbsentComponent]]
    IN  [IdleWorker EXCEPT !.mem = FoldLeft(PreReconcile, scheduled, SetToSeq(Settled))]

SettledPods(w, c) ==
    IF c \in Ingress THEN EnsurePod({}, w, c, "ingress", {"apiserver"})
    ELSE EnsurePod({}, w, c, "etcd", {"etcd-peer", "etcd-client"}) \cup
         EnsurePod({}, w, c, "control-plane", {"apiserver"})

\* The control plane whose etcd the others joined.
Bootstrapped == CHOOSE c \in Settled \cap ControlPlane : TRUE

SettledInit ==
    LET w == SettledWorker
    IN  /\ components = [c \in Component |->
               IF c \in Settled
               THEN [w.mem.components[c] EXCEPT !.endpoints = Endpoints(w, c),
                                                !.certified = c \in ControlPlane]
               ELSE w.mem.components[c]]
        /\ hypervisors = w.mem.hypervisors
        /\ files = [h \in Hypervisor |-> [c \in Component |->
               IF c \in Settled /\ HostOf(c) = h THEN Contents(w, c) ELSE {}]]
        /\ cluster = [NewCluster EXCEPT !.initialized = TRUE]
        /\ pods = UNION {SettledPods(w, c) : c \in Settled}
        /\ members = {[component |-> c, url |-> PeerURL(w, c), cluster |-> Bootstrapped] :
                         c \in Settled \cap ControlPlane}
        /\ workers = [m \in Manager |-> IdleWorker]
        /\ faults = 0

SettledSpec == SettledInit /\ [][Next]_vars

\* From nothing, or from the components that run already.
MixedSpec == (Init \/ SettledInit) /\ [][Next]_vars
=============================================================================
