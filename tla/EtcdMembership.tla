--------------------------- MODULE EtcdMembership ---------------------------
(***************************************************************************)
(* The etcd of a managed cluster: every control plane runs a member of it, *)
(* and the component controller adds it as a learner, starts its server,   *)
(* promotes it and, when the control plane is deleted, removes it.  The    *)
(* passes are those of module ComponentReconcile, where etcd is a single   *)
(* step; here they go from one call to etcd to the next.                   *)
(*                                                                         *)
(* How etcd itself behaves is external: who answers, what needs a quorum,  *)
(* and what a server does when it is started with or without a data        *)
(* directory.  A server that is started as a member of no etcd bootstraps  *)
(* one, which is then named after its control plane.                       *)
(*                                                                         *)
(* The cluster has an ingress, every control plane has a hypervisor, and a *)
(* host and port are one URL.                                              *)
(***************************************************************************)
EXTENDS Naturals, FiniteSets

CONSTANTS
    ControlPlane,          \* names of components with the control-plane role
    URL,                   \* peer URLs the hypervisors have ports for
    NoURL,                 \* a control plane that has no port yet
    Manager,               \* the running managers
    Replicas,              \* how many control planes the cluster asks for
    Patient,               \* whether a server starts within the timeouts of a call
    Faults,                \* the kinds of faults there may be, each of them once
    MaxFaults,             \* bound on the faults
    MaxDeletions           \* bound on the control planes that are deleted

ASSUME URLAssumption == NoURL \notin URL

VARIABLES
    components,            \* the component objects: phase and recorded peer URL
    leases,                \* the peer URLs the hypervisors have given to components
    members,               \* the members of each etcd
    issued,                \* how many member IDs were issued
    servers,               \* per control plane, its etcd pod and its data directory
    workers,               \* per manager, the worker of the component controller
    faults                 \* the faults there were

vars == <<components, leases, members, issued, servers, workers, faults>>
objects == <<components, leases>>
etcd == <<members, issued>>

-----------------------------------------------------------------------------

NewComponent == [phase |-> "absent", url |-> NoURL]
NoServer == [state |-> "none", data |-> {}, join |-> {}]
IdleWorker == [pc |-> "idle", component |-> {}, endpoints |-> {}, join |-> {}]

Live == {c \in ControlPlane : components[c].phase = "live"}

Fault(kind) ==
    /\ kind \in Faults \ faults /\ Cardinality(faults) < MaxFaults
    /\ faults' = faults \cup {kind}

At(m, pc) == workers[m].pc = pc
Own(m) == CHOOSE c \in ControlPlane : c \in workers[m].component
Become(m, w) == workers' = [workers EXCEPT ![m] = w]
Goto(m, pc) == Become(m, [workers[m] EXCEPT !.pc = pc])
Return(m) == Become(m, IdleWorker)

-----------------------------------------------------------------------------
(***************************************************************************)
(* etcd.                                                                   *)
(***************************************************************************)

Members(e) == {mb \in members : mb.etcd = e}
Voters(e) == {mb \in Members(e) : ~ mb.learner}
Identity(mb) == [etcd |-> mb.etcd, id |-> mb.id]

\* Control plane c has the data of member mb.
Holds(c, mb) == Identity(mb) \in servers[c].data
Serves(c, mb) == servers[c].state = "up" /\ Holds(c, mb)
Running(mb) == \E c \in ControlPlane : Serves(c, mb)

Majority(some, all) == 2 * Cardinality(some) > Cardinality(all)
Quorum(e) == Majority({mb \in Voters(e) : Running(mb)}, Voters(e))

\* A server answers for its etcd unless it is a learner; the list of members does
\* not need a quorum.  A worker's client dials the control planes it knew as live.
Answering(m) ==
    {mb.etcd : mb \in {v \in members : /\ ~ v.learner
                                       /\ \E c \in workers[m].endpoints : Serves(c, v)}}

\* Calls wait for a server that is being started, if it is up in time.
Waited == Patient => \A c \in ControlPlane : servers[c].state # "starting"

\* One learner at a time, all voters connected, and no URL twice.
CanAdd(e, url) ==
    /\ \A mb \in Members(e) : ~ mb.learner /\ Running(mb) /\ mb.url # url

CanPromote(e, mb) == mb.learner /\ Running(mb) /\ Quorum(e)

\* Not the only voter, and not one whose removal leaves no quorum.
CanRemove(e, mb) ==
    /\ Quorum(e)
    /\ LET rest == Voters(e) \ {mb}
       IN  Majority({v \in rest : Running(v)}, rest)

\* The peer URL is what a member is recognized by.
WithURL(e, url) == {mb \in Members(e) : mb.url = url}

-----------------------------------------------------------------------------
(***************************************************************************)
(* etcd servers.                                                           *)
(***************************************************************************)

\* The member a server without data takes itself for: the list it was started with
\* is that of an etcd with a member that runs, and has its own URL.
Joined(c) ==
    {mb \in members : /\ mb.url = components[c].url
                      /\ servers[c].join = {x.url : x \in Members(mb.etcd)}
                      /\ \E x \in Members(mb.etcd) : Running(x)}

\* With a data directory the server is the member it was, if that is still there;
\* else it joins the members it was started with, or bootstraps an etcd.
ServerStarts(c) ==
    /\ servers[c].state = "starting"
    /\ \/ /\ servers[c].data # {} \/ servers[c].join # {}
          /\ LET mbs == IF servers[c].data # {} THEN {mb \in members : Holds(c, mb)}
                        ELSE Joined(c)
             IN  servers' = [servers EXCEPT
                    ![c].state = IF mbs = {} THEN "exited" ELSE "up",
                    ![c].data = @ \cup {Identity(mb) : mb \in mbs}]
          /\ UNCHANGED etcd
       \/ /\ servers[c].data = {} /\ servers[c].join = {}
          /\ LET mb == [etcd |-> c, id |-> issued + 1, url |-> components[c].url,
                        learner |-> FALSE]
             IN  /\ members' = members \cup {mb}
                 /\ servers' = [servers EXCEPT ![c].state = "up",
                                               ![c].data = {Identity(mb)}]
          /\ issued' = issued + 1
    /\ UNCHANGED <<objects, workers, faults>>

ServerExits(c) ==
    /\ servers[c].state = "up"
    /\ Fault("server")
    /\ servers' = [servers EXCEPT ![c].state = "exited"]
    /\ UNCHANGED <<objects, etcd, workers>>

\* The server of a member that was removed stops.
WithoutServerOf(mb) ==
    [c \in ControlPlane |->
        IF Serves(c, mb) THEN [servers[c] EXCEPT !.state = "exited"] ELSE servers[c]]

-----------------------------------------------------------------------------
(***************************************************************************)
(* The cluster controller and users.                                       *)
(***************************************************************************)

CreateComponent(c) ==
    /\ components[c].phase = "absent"
    /\ Cardinality(Live) < Replicas
    /\ components' = [components EXCEPT ![c].phase = "live"]
    /\ UNCHANGED <<leases, etcd, servers, workers, faults>>

IsVoter(c) == \E mb \in members : ~ mb.learner /\ Serves(c, mb)

\* Control planes are deleted with care: not the last one that is a voter.
DeleteComponent(c) ==
    /\ c \in Live
    /\ Cardinality({d \in ControlPlane : components[d].phase \in {"deleting", "gone"}})
          < MaxDeletions
    /\ \E d \in Live \ {c} : IsVoter(d)
    /\ components' = [components EXCEPT ![c].phase = "deleting"]
    /\ UNCHANGED <<leases, etcd, servers, workers, faults>>

-----------------------------------------------------------------------------
(***************************************************************************)
(* One pass of the component controller over a control plane.              *)
(***************************************************************************)

Leased == {l.url : l \in leases}

\* RequestPort chooses by the state of the hypervisor alone.
NextURL == CHOOSE url \in URL : url \notin Leased

\* Mutant: the client dials the control plane's own etcd.
BeginAlone(m, c) ==
    /\ At(m, "idle") /\ c \in Live
    /\ \/ components[c].url # NoURL /\ UNCHANGED objects
       \/ /\ components[c].url = NoURL /\ URL \ Leased # {}
          /\ leases' = leases \cup {[owner |-> c, url |-> NextURL]}
          /\ components' = [components EXCEPT ![c].url = NextURL]
    /\ Become(m, [IdleWorker EXCEPT !.pc = "member", !.component = {c}, !.endpoints = {c}])
    /\ UNCHANGED <<etcd, servers, faults>>

\* The component gets its peer port, and the live control planes are listed.
Begin(m, c) ==
    /\ At(m, "idle") /\ c \in Live
    /\ \/ components[c].url # NoURL /\ UNCHANGED objects
       \/ /\ components[c].url = NoURL /\ URL \ Leased # {}
          /\ leases' = leases \cup {[owner |-> c, url |-> NextURL]}
          /\ components' = [components EXCEPT ![c].url = NextURL]
    /\ Become(m, [IdleWorker EXCEPT !.pc = "member", !.component = {c}, !.endpoints = Live])
    /\ UNCHANGED <<etcd, servers, faults>>

\* Mutant: a member needs nothing more.
HasEtcdMemberAlready(m) ==
    /\ At(m, "member") /\ Waited
    /\ \/ Answering(m) = {} /\ Goto(m, "list")
       \/ \E e \in Answering(m) :
             IF WithURL(e, components[Own(m)].url) = {} THEN Goto(m, "learner") ELSE Return(m)
    /\ UNCHANGED <<objects, etcd, servers, faults>>

\* hasEtcdMember; when no etcd answers, nothing is added.
HasEtcdMember(m) ==
    /\ At(m, "member") /\ Waited
    /\ \/ Answering(m) = {} /\ Goto(m, "list")
       \/ \E e \in Answering(m) :
             Goto(m, IF WithURL(e, components[Own(m)].url) = {} THEN "learner" ELSE "list")
    /\ UNCHANGED <<objects, etcd, servers, faults>>

\* Mutant: a voter from the start.
SetupEtcdVoter(m) ==
    /\ At(m, "learner") /\ Waited
    /\ LET url == components[Own(m)].url
       IN  \E e \in {x \in Answering(m) : CanAdd(x, url)} :
              members' = members \cup {[etcd |-> e, id |-> issued + 1, url |-> url,
                                        learner |-> FALSE]}
    /\ issued' = issued + 1
    /\ Goto(m, "list")
    /\ UNCHANGED <<objects, servers, faults>>

SetupEtcdLearner(m) ==
    /\ At(m, "learner") /\ Waited
    /\ LET url == components[Own(m)].url
       IN  \E e \in {x \in Answering(m) : CanAdd(x, url)} :
              members' = members \cup {[etcd |-> e, id |-> issued + 1, url |-> url,
                                        learner |-> TRUE]}
    /\ issued' = issued + 1
    /\ Goto(m, "list")
    /\ UNCHANGED <<objects, servers, faults>>

\* The learner cannot be added for now, which is only logged.
SetupEtcdLearnerFails(m) ==
    /\ At(m, "learner") /\ Waited
    /\ \A e \in Answering(m) : ~ CanAdd(e, components[Own(m)].url)
    /\ Goto(m, "list")
    /\ UNCHANGED <<objects, etcd, servers, faults>>

\* etcdContainer: the members for a server that is to join; when no etcd answers it
\* is given none, with the state "new" or without, and will bootstrap one.
ListEtcdMembers(m) ==
    /\ At(m, "list") /\ Waited
    /\ LET w == [workers[m] EXCEPT !.pc = "pod"]
       IN  \/ Answering(m) = {} /\ Become(m, w)
           \/ \E e \in Answering(m) :
                 Become(m, [w EXCEPT !.join = {mb.url : mb \in Members(e)}])
    /\ UNCHANGED <<objects, etcd, servers, faults>>

\* EnsurePod: a running pod of another manifest is replaced; also one of the same,
\* when the arguments happen to be listed in another order.
EnsureEtcdPod(m) ==
    /\ At(m, "pod")
    /\ \/ servers[Own(m)].state = "up" /\ UNCHANGED servers
       \/ servers' = [servers EXCEPT ![Own(m)].state = "starting",
                                     ![Own(m)].join = workers[m].join]
    /\ Goto(m, "check")
    /\ UNCHANGED <<objects, etcd, faults>>

\* hasEtcdLearner: the pass is over unless there is a learner to promote; it has
\* failed if no etcd answers.
HasEtcdLearner(m) ==
    /\ At(m, "check") /\ Waited
    /\ \/ Answering(m) = {} /\ Return(m)
       \/ \E e \in Answering(m) :
             IF \E mb \in WithURL(e, components[Own(m)].url) : mb.learner
             THEN Goto(m, "promote")
             ELSE Return(m)
    /\ UNCHANGED <<objects, etcd, servers, faults>>

PromoteEtcdLearner(m) ==
    /\ At(m, "promote") /\ Waited
    /\ \E e \in Answering(m) : \E mb \in WithURL(e, components[Own(m)].url) :
          /\ CanPromote(e, mb)
          /\ members' = (members \ {mb}) \cup {[mb EXCEPT !.learner = FALSE]}
    /\ Return(m)
    /\ UNCHANGED <<objects, issued, servers, faults>>

\* 300 attempts were in vain, or somebody else promoted the member.
PromoteEtcdLearnerFails(m) ==
    /\ At(m, "promote") /\ Waited
    /\ \A e \in Answering(m) : \A mb \in WithURL(e, components[Own(m)].url) :
          ~ CanPromote(e, mb)
    /\ Return(m)
    /\ UNCHANGED <<objects, etcd, servers, faults>>

-----------------------------------------------------------------------------
(***************************************************************************)
(* One pass of the component controller over a control plane that is being *)
(* deleted.                                                                *)
(***************************************************************************)

BeginDeletion(m, c) ==
    /\ At(m, "idle") /\ components[c].phase = "deleting"
    /\ Become(m, [IdleWorker EXCEPT !.pc = "remove", !.component = {c}, !.endpoints = Live])
    /\ UNCHANGED <<objects, etcd, servers, faults>>

\* Mutant: a member that is not there is an error.
RemoveEtcdMemberNotFound(m) ==
    /\ At(m, "remove") /\ Waited
    /\ workers[m].endpoints = {}
    /\ Goto(m, "stop")
    /\ UNCHANGED <<objects, etcd, servers, faults>>

\* removeEtcdMember, when there is nothing to remove: no live control plane, or no
\* member with the peer URL.
RemoveEtcdMemberSkipped(m) ==
    /\ At(m, "remove") /\ Waited
    /\ \/ workers[m].endpoints = {}
       \/ \E e \in Answering(m) : WithURL(e, components[Own(m)].url) = {}
    /\ Goto(m, "stop")
    /\ UNCHANGED <<objects, etcd, servers, faults>>

RemoveEtcdMember(m) ==
    /\ At(m, "remove") /\ Waited
    /\ \E e \in Answering(m) : \E mb \in WithURL(e, components[Own(m)].url) :
          /\ CanRemove(e, mb)
          /\ members' = members \ {mb}
          /\ servers' = WithoutServerOf(mb)
    /\ Goto(m, "stop")
    /\ UNCHANGED <<objects, issued, faults>>

\* 60 attempts were in vain: the deletion is tried again later.
RemoveEtcdMemberFails(m) ==
    /\ At(m, "remove") /\ Waited
    /\ workers[m].endpoints # {}
    /\ \A e \in Answering(m) : \E mb \in WithURL(e, components[Own(m)].url) :
          ~ CanRemove(e, mb)
    /\ Return(m)
    /\ UNCHANGED <<objects, etcd, servers, faults>>

StopEtcd(m) ==
    /\ At(m, "stop")
    /\ servers' = [servers EXCEPT ![Own(m)].state = "none"]
    /\ Goto(m, "clean")
    /\ UNCHANGED <<objects, etcd, faults>>

\* The ports freed by stopEtcd are written with the hypervisor when the pass ends.
Freed(c) == {l \in leases : l.owner # c}

HostCleanup(m) ==
    /\ At(m, "clean")
    /\ servers' = [servers EXCEPT ![Own(m)] = NoServer]
    /\ components' = [components EXCEPT ![Own(m)] = [NewComponent EXCEPT !.phase = "gone"]]
    /\ leases' = Freed(Own(m))
    /\ Return(m)
    /\ UNCHANGED <<etcd, faults>>

\* The component, and with it the peer URL in its status, stays.
HostCleanupFails(m) ==
    /\ At(m, "clean")
    /\ Fault("cleanup")
    /\ leases' = Freed(Own(m))
    /\ Return(m)
    /\ UNCHANGED <<components, etcd, servers>>

-----------------------------------------------------------------------------

\* A call to etcd or to the hypervisor fails or times out.  Up to the pod this is
\* only logged, afterwards the pass is over.
CallFails(m) ==
    /\ Fault("call")
    /\ \/ workers[m].pc \in {"member", "learner"} /\ Goto(m, "list")
       \/ At(m, "list") /\ Goto(m, "pod")
       \/ workers[m].pc \in {"pod", "check", "promote", "remove", "stop"} /\ Return(m)
    /\ UNCHANGED <<objects, etcd, servers>>

Crash(m) ==
    /\ ~ At(m, "idle")
    /\ Fault("crash")
    /\ Return(m)
    /\ UNCHANGED <<objects, etcd, servers>>

Init ==
    /\ components = [c \in ControlPlane |-> NewComponent]
    /\ leases = {}
    /\ members = {}
    /\ issued = 0
    /\ servers = [c \in ControlPlane |-> NoServer]
    /\ workers = [m \in Manager |-> IdleWorker]
    /\ faults = {}

Step(m) ==
    \/ HasEtcdMember(m) \/ SetupEtcdLearner(m) \/ SetupEtcdLearnerFails(m)
    \/ ListEtcdMembers(m) \/ EnsureEtcdPod(m) \/ HasEtcdLearner(m)
    \/ PromoteEtcdLearner(m) \/ PromoteEtcdLearnerFails(m)
    \/ RemoveEtcdMemberSkipped(m) \/ RemoveEtcdMember(m) \/ RemoveEtcdMemberFails(m)
    \/ StopEtcd(m) \/ HostCleanup(m)

Pass(m, c) == Begin(m, c) \/ BeginDeletion(m, c)

Failure(m) == HostCleanupFails(m) \/ CallFails(m) \/ Crash(m)

Next ==
    \/ \E c \in ControlPlane :
          CreateComponent(c) \/ DeleteComponent(c) \/ ServerStarts(c) \/ ServerExits(c)
    \/ \E m \in Manager : \/ Step(m) \/ Failure(m)
                          \/ \E c \in ControlPlane : Pass(m, c)

Spec == Init /\ [][Next]_vars

\* The controller goes on, its queue gets round to every control plane, and what is
\* started starts.
FairSpec ==
    /\ Spec
    /\ \A m \in Manager : WF_vars(Step(m)) /\ \A c \in ControlPlane : SF_vars(Pass(m, c))
    /\ \A c \in ControlPlane : WF_vars(CreateComponent(c)) /\ WF_vars(ServerStarts(c))

-----------------------------------------------------------------------------
(***************************************************************************)
(* Properties.                                                             *)
(***************************************************************************)

\* A control plane that starts while another one's etcd answers joins that one
\* instead of bootstrapping its own, also when a manager died on the way.  All the
\* live control planes are members of one etcd, unless a call failed or a server
\* ended, which cannot be told from an etcd that is not there yet, or a failed
\* hostCleanup left a component a peer URL that another one was given.
OneEtcd ==
    faults \cap {"call", "server", "cleanup"} = {} =>
       \A c, d \in Live : \A x \in servers[c].data : \A y \in servers[d].data :
          x.etcd = y.etcd

\* Members are added as learners and promoted once they run, and leave before they
\* are stopped: an etcd that live control planes serve never loses its quorum to a
\* control plane that comes or goes, however often a pass is broken off.
QuorumKept ==
    faults \cap {"call", "server"} = {} =>
       \A e \in ControlPlane :
          (\E c \in Live : \E mb \in Voters(e) : Holds(c, mb)) =>
             Majority({mb \in Voters(e) : \E c \in ControlPlane :
                          Holds(c, mb) /\ servers[c].state \in {"up", "starting"}},
                      Voters(e))

\* Every control plane that is not deleted becomes a voter of etcd in the end,
\* wherever a dying manager broke off an earlier pass over it or over another one.
\* After a failed hostCleanup its member may be taken for that of its predecessor.
BecomesVoter ==
    \A c \in ControlPlane :
       components[c].phase = "live" ~>
          \/ components[c].phase # "live" \/ IsVoter(c)
          \/ faults \cap {"call", "server", "cleanup"} # {}

\* removeEtcdMember gives up after 60 attempts and deletion starts over: in the end
\* etcd lets the member go and the control plane goes.  A server that ended is not
\* started again once its control plane is being deleted.
LeavesEtcd ==
    \A c \in ControlPlane :
       components[c].phase = "deleting" ~>
          components[c].phase = "gone" \/ faults \cap {"call", "server"} # {}

=============================================================================
