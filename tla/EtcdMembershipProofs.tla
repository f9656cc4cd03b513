----------------------- MODULE EtcdMembershipProofs -----------------------
(***************************************************************************)
(* The control planes of a cluster form one etcd, for any number of them,  *)
(* of peer URLs and of etcd servers that come and go, as long as one       *)
(* manager runs at a time and a call is repeated until the server it is    *)
(* for has started (Patient).                                              *)
(*                                                                         *)
(* Neither property is inductive.  A second etcd comes from a server that  *)
(* is started with no members to join while there is an etcd already, so   *)
(* the invariant says when that may happen (BootstrapsAlone): nobody has   *)
(* etcd data, and whoever goes through a pass asks the one that            *)
(* bootstraps.  The list of members is only empty because there are none,  *)
(* as a pass asks a control plane that runs a voter (WorkerOK); such a     *)
(* control plane exists (LiveVoter) and serves (VotersServed).  That its   *)
(* answer is about the right member comes from the peer URLs: each         *)
(* control plane has one of its own (URLsApart), so has each member        *)
(* (MembersApart), and what a server was is the member with the URL of its *)
(* control plane (DataOK).                                                 *)
(*                                                                         *)
(* All this holds in calm.  A call that fails, a server that exits and a   *)
(* host that is not cleaned up cannot be told from an etcd that is not     *)
(* there; the remaining faults, a crash of the manager and the refusals of *)
(* etcd, are among the steps.                                              *)
(***************************************************************************)
EXTENDS EtcdMembership, FiniteSetTheorems, TLAPS

-----------------------------------------------------------------------------
(***************************************************************************)
(* The invariant.                                                          *)
(***************************************************************************)

\* There is one manager at a time, as with the leader election that the manifests
\* of the manager turn on.
OneManager == \A m, n \in Manager : m = n

\* Nothing failed that cannot be told from an etcd that is not there.
Calm == faults \cap {"call", "server", "cleanup"} = {}

\* A pod and its data directory: what it was in which etcd, and whom it is to join.
ServerType ==
    [state : {"none", "starting", "up", "exited"},
     data : SUBSET [etcd : ControlPlane, id : Nat], join : SUBSET URL]

\* A member of an etcd, which is named after the control plane that bootstrapped it.
MemberType == [etcd : ControlPlane, id : Nat, url : URL, learner : BOOLEAN]

\* The component object of a control plane.
ComponentType == [phase : {"absent", "live", "deleting", "gone"}, url : URL \cup {NoURL}]

\* A pass over a control plane that is to run, and one over a control plane that is
\* being deleted.
Joining == {"member", "learner", "list", "pod", "check", "promote"}
Leaving == {"remove", "stop", "clean"}

\* The worker of a manager.
WorkerType ==
    [pc : {"idle"} \cup Joining \cup Leaving, component : SUBSET ControlPlane,
     endpoints : SUBSET ControlPlane, join : SUBSET URL]

\* A pass is over one control plane.
OverOne(w) == w.pc # "idle" => \E c \in ControlPlane : w.component = {c}

\* The values of the variables.
Types ==
    /\ components \in [ControlPlane -> ComponentType]
    /\ servers \in [ControlPlane -> ServerType]
    /\ members \subseteq MemberType /\ IsFiniteSet(members)
    /\ issued \in Nat
    /\ workers \in [Manager -> WorkerType]
    /\ \A m \in Manager : OverOne(workers[m])

\* A control plane with a peer URL has it leased, and no other one has it.
URLsApart ==
    /\ \A c \in ControlPlane : components[c].url # NoURL =>
          [owner |-> c, url |-> components[c].url] \in leases
    /\ \A c, d \in ControlPlane :
          components[c].url = components[d].url /\ components[c].url # NoURL => c = d

\* The members are of one etcd, and each has an identity and a URL of its own.
MembersApart ==
    \A x, y \in members : /\ x.etcd = y.etcd /\ x.id <= issued
                          /\ x.url = y.url \/ x.id = y.id => x = y

\* What a server was in the etcd of its data is a member no more, or the one with the
\* URL of its control plane.
DataOK ==
    \A c \in ControlPlane : \A x \in servers[c].data :
       /\ x.id <= issued /\ members # {}
       /\ \A mb \in members : /\ x.etcd = mb.etcd
                              /\ x.id = mb.id => mb.url = components[c].url

\* Every voter has a server that runs or starts.
VotersServed ==
    \A mb \in members : ~ mb.learner =>
       \E c \in ControlPlane : Holds(c, mb) /\ servers[c].state \in {"up", "starting"}

\* The server of c is a voter.
HasVoter(c) == \E mb \in members : ~ mb.learner /\ Holds(c, mb)

\* The etcd, once there is one, has a voter that is not being deleted.
LiveVoter == members # {} => \E c \in Live : HasVoter(c)

\* The server of c, once it has started, is the first of an etcd.
Bootstraps(c) == servers[c].state = "starting" /\ servers[c].data = {} /\ servers[c].join = {}

\* That is one server at most, when there is no etcd, and every pass waits for it.
BootstrapsAlone ==
    \A c \in ControlPlane : Bootstraps(c) =>
       /\ members = {} /\ c \in Live /\ components[c].url # NoURL
       /\ \A d \in ControlPlane : Bootstraps(d) => d = c
       /\ \A m \in Manager : workers[m].pc # "idle" => c \in workers[m].endpoints

\* What a pass relies on: whom it asks, the control plane it is over and, when it is
\* about to start a server, that it knows whether there is an etcd to join.
WorkerOK(w) ==
    /\ w.pc # "idle" /\ members # {} => \E c \in w.endpoints : HasVoter(c)
    /\ w.pc \in Joining =>
          \A c \in w.component : /\ components[c].phase \in {"live", "deleting"}
                                 /\ components[c].url # NoURL
                                 /\ c \in w.endpoints
    /\ w.pc \in {"member", "learner", "list"} => w.join = {}
    /\ w.pc \in Leaving =>
          \A c \in w.component : components[c].phase = "deleting" /\ c \notin w.endpoints
    /\ w.pc \in {"stop", "clean"} =>
          \A c \in w.component : \A mb \in members : mb.url # components[c].url
    /\ w.pc = "pod" => /\ w.join = {} <=> members = {}
                       /\ members = {} => \A c \in ControlPlane : ~ Bootstraps(c)

\* A control plane is only deleted from an etcd there is.
DeletesFromEtcd == \A c \in ControlPlane : components[c].phase = "deleting" => members # {}

\* What holds in calm.
Core ==
    /\ Types /\ URLsApart /\ MembersApart /\ DataOK
    /\ VotersServed /\ LiveVoter /\ BootstrapsAlone /\ DeletesFromEtcd
    /\ \A m \in Manager : WorkerOK(workers[m])

\* The inductive invariant.
EtcdInv == Calm => Core

-----------------------------------------------------------------------------
(***************************************************************************)
(* Facts of a state.                                                       *)
(***************************************************************************)

\* What goes on in a pass: the worker and its component.
LEMMA OwnFacts ==
  ASSUME Types, NEW m \in Manager, workers[m].pc # "idle"
  PROVE  Own(m) \in ControlPlane /\ workers[m].component = {Own(m)}
<1>1. PICK c \in ControlPlane : workers[m].component = {c}
  BY DEF Types, OverOne
<1> QED BY <1>1 DEF Own

\* With one manager, the worker that moves is the only one.
LEMMA OnlyWorker ==
  ASSUME Core, OneManager, NEW m \in Manager, NEW w, Become(m, w)
  PROVE  workers' = [n \in Manager |-> w]
<1>1. workers \in [Manager -> WorkerType]
  BY DEF Core, Types
<1> QED BY <1>1, Zenon DEF Become, OneManager

\* What has to be shown of the types of the next state.
LEMMA TypesNext ==
  ASSUME NEW w \in WorkerType, OverOne(w), workers' = [n \in Manager |-> w],
         components' \in [ControlPlane -> ComponentType],
         servers' \in [ControlPlane -> ServerType],
         members' \subseteq MemberType, IsFiniteSet(members'), issued' \in Nat
  PROVE  Types'
BY DEF Types

\* An etcd with one member more or less is finite.
LEMMA FiniteMembers ==
  ASSUME Core, NEW mb
  PROVE  /\ IsFiniteSet(members \cup {mb}) /\ IsFiniteSet(members \ {mb})
         /\ \A v : IsFiniteSet((members \ {mb}) \cup {v})
<1>1. IsFiniteSet(members) /\ IsFiniteSet({mb})
  BY FS_Singleton, Zenon DEF Core, Types
<1>2. IsFiniteSet(members \cup {mb}) /\ IsFiniteSet(members \ {mb})
  BY <1>1, FS_AddElement, FS_Difference, Zenon
<1> QED BY <1>2, FS_AddElement, Zenon

\* A member is held by the control plane that has its URL, and by no other.
LEMMA HolderFacts ==
  ASSUME Core, NEW c \in ControlPlane, NEW mb \in members, Holds(c, mb)
  PROVE  /\ mb.url = components[c].url /\ mb.url # NoURL
         /\ \A d \in ControlPlane : Holds(d, mb) => d = c
<1>1. mb.url \in URL
  BY DEF Core, Types, MemberType
<1>2. \A d \in ControlPlane : Holds(d, mb) => mb.url = components[d].url
  BY DEF Core, DataOK, Holds, Identity
<1>3. mb.url # NoURL
  BY <1>1, URLAssumption
<1> QED BY <1>2, <1>3 DEF Core, URLsApart

\* A call that is waited for finds the one etcd there is.
LEMMA EtcdAnswers ==
  ASSUME Core, Patient, NEW m \in Manager, workers[m].pc # "idle", Waited, members # {}
  PROVE  Answering(m) # {}
<1>1. WorkerOK(workers[m])
  BY DEF Core
<1>2. PICK c \in workers[m].endpoints : HasVoter(c)
  BY <1>1 DEF WorkerOK
<1>3. c \in ControlPlane
  BY <1>2 DEF Core, Types, WorkerType
<1>4. PICK mb \in members : ~ mb.learner /\ Holds(c, mb)
  BY <1>2 DEF HasVoter
<1>5. servers[c].state \in {"up", "starting"}
  BY <1>3, <1>4, HolderFacts DEF Core, VotersServed
<1>6. servers[c].state = "up"
  BY <1>3, <1>5 DEF Waited
<1> QED BY <1>2, <1>4, <1>6 DEF Answering, Serves

\* All members are those of the etcd that answers.
LEMMA AnsweringFacts ==
  ASSUME Core, NEW m \in Manager, NEW e \in Answering(m)
  PROVE  e \in ControlPlane /\ members # {} /\ Members(e) = members
<1>1. PICK v \in members : e = v.etcd
  BY DEF Answering
<1> QED BY <1>1 DEF Members, Core, MembersApart, Types, MemberType

-----------------------------------------------------------------------------
(***************************************************************************)
(* The steps of a pass that only ask, and its beginning.                   *)
(***************************************************************************)

\* A step that leaves everything but the worker alone.
LEMMA WorkerMoves ==
  ASSUME Core, OneManager, NEW m \in Manager, NEW w \in WorkerType, Become(m, w),
         UNCHANGED <<components, leases, members, issued, servers>>,
         OverOne(w), WorkerOK(w),
         w.pc # "idle" => \A c \in ControlPlane : Bootstraps(c) => c \in w.endpoints
  PROVE  Core'
<1>1. workers' = [n \in Manager |-> w]
  BY OnlyWorker
<1>2. Types'
  BY <1>1, TypesNext DEF Core, Types
<1>3. /\ URLsApart' /\ MembersApart'
  BY DEF Core, URLsApart, MembersApart
<1>4. /\ DataOK' /\ VotersServed' /\ LiveVoter'
  BY DEF Core, DataOK, VotersServed, LiveVoter, HasVoter, Holds, Identity, Live
<1>5. BootstrapsAlone'
  BY <1>1 DEF Core, BootstrapsAlone, Bootstraps, Live
<1>6. \A n \in Manager : WorkerOK(workers[n])'
  BY <1>1 DEF WorkerOK, HasVoter, Holds, Identity, Bootstraps
<1>7. DeletesFromEtcd'
  BY DEF Core, DeletesFromEtcd
<1> QED BY <1>2, <1>3, <1>4, <1>5, <1>6, <1>7 DEF Core

\* ... which goes on to another place in its pass.
LEMMA WorkerGoesOn ==
  ASSUME Core, OneManager, NEW m \in Manager, NEW w \in WorkerType, Become(m, w),
         UNCHANGED <<components, leases, members, issued, servers>>,
         workers[m].pc # "idle", w.pc # "idle",
         w.component = workers[m].component, w.endpoints = workers[m].endpoints,
         WorkerOK(w)
  PROVE  Core'
<1>1. OverOne(w)
  BY DEF Core, Types, OverOne
<1>2. \A c \in ControlPlane : Bootstraps(c) => c \in w.endpoints
  BY DEF Core, BootstrapsAlone
<1> QED BY <1>1, <1>2, WorkerMoves

\* ... which is over.
LEMMA WorkerReturns ==
  ASSUME Core, OneManager, NEW m \in Manager, Return(m),
         UNCHANGED <<components, leases, members, issued, servers>>
  PROVE  Core'
<1>1. IdleWorker \in WorkerType /\ IdleWorker.pc = "idle"
  BY DEF IdleWorker, WorkerType
<1>2. WorkerOK(IdleWorker) /\ OverOne(IdleWorker)
  BY <1>1 DEF WorkerOK, Joining, Leaving, OverOne
<1> QED BY <1>1, <1>2, WorkerMoves DEF Return

\* The steps that only ask, and the end of a pass.
Asks(m) ==
    \/ HasEtcdMember(m) \/ SetupEtcdLearnerFails(m) \/ ListEtcdMembers(m)
    \/ HasEtcdLearner(m) \/ PromoteEtcdLearnerFails(m)
    \/ RemoveEtcdMemberSkipped(m) \/ RemoveEtcdMemberFails(m) \/ Crash(m)

\* The list of members that a server is started with is empty only when there is no
\* etcd and no server about to bootstrap one: the call has waited for it.
LEMMA Calls ==
  ASSUME Core, OneManager, Patient, NEW m \in Manager, Asks(m)
  PROVE  Core'
<1> DEFINE w == workers[m]
<1>0. w \in WorkerType /\ WorkerOK(w)
  BY DEF Core, Types
<1>1. UNCHANGED <<components, leases, members, issued, servers>>
  BY Zenon DEF Asks, HasEtcdMember, SetupEtcdLearnerFails, ListEtcdMembers, HasEtcdLearner,
         PromoteEtcdLearnerFails, RemoveEtcdMemberSkipped, RemoveEtcdMemberFails, Crash,
         objects, etcd
<1>2. CASE Return(m)
  BY <1>1, <1>2, WorkerReturns
<1>3. ASSUME NEW pc \in {"learner", "list", "check", "promote"}, w.pc \in Joining, Goto(m, pc),
             pc \in {"learner", "list"} => w.pc \in {"member", "learner"}
      PROVE  Core'
  <2>1. PICK v : v = [w EXCEPT !.pc = pc]
    BY Zenon
  <2>2. /\ v \in WorkerType /\ v.pc = pc /\ v.component = w.component
        /\ v.endpoints = w.endpoints /\ v.join = w.join
    BY <2>1, <1>0, <1>3 DEF WorkerType, Joining
  <2>3. WorkerOK(v)
    BY <2>2, <1>0, <1>3 DEF WorkerOK, Joining, Leaving
  <2>4. Become(m, v) /\ w.pc # "idle" /\ v.pc # "idle"
    BY <2>1, <2>2, <1>3 DEF Goto, Joining
  <2> QED BY <2>2, <2>3, <2>4, <1>1, WorkerGoesOn
<1>4. CASE HasEtcdMember(m) \/ SetupEtcdLearnerFails(m) \/ HasEtcdLearner(m)
           \/ PromoteEtcdLearnerFails(m) \/ Crash(m) \/ RemoveEtcdMemberFails(m)
  BY <1>2, <1>3, <1>4 DEF HasEtcdMember, SetupEtcdLearnerFails, HasEtcdLearner,
       PromoteEtcdLearnerFails, Crash, RemoveEtcdMemberFails, At, Joining
<1>5. CASE ListEtcdMembers(m)
  <2>1. PICK v, urls : /\ v = [w EXCEPT !.pc = "pod", !.join = urls] /\ Become(m, v)
                       /\ \/ Answering(m) = {} /\ urls = w.join
                          \/ \E e \in Answering(m) : urls = {mb.url : mb \in Members(e)}
    <3>1. PICK urls :
             \/ /\ Answering(m) = {} /\ urls = w.join
                /\ Become(m, [w EXCEPT !.pc = "pod"])
             \/ /\ \E e \in Answering(m) : urls = {mb.url : mb \in Members(e)}
                /\ Become(m, [[w EXCEPT !.pc = "pod"] EXCEPT !.join = urls])
      BY <1>5, Zenon DEF ListEtcdMembers
    <3>2. /\ [w EXCEPT !.pc = "pod"] = [w EXCEPT !.pc = "pod", !.join = w.join]
          /\ [[w EXCEPT !.pc = "pod"] EXCEPT !.join = urls]
                = [w EXCEPT !.pc = "pod", !.join = urls]
      BY <1>0, Zenon DEF WorkerType
    <3>3. Become(m, [w EXCEPT !.pc = "pod", !.join = urls])
      BY <3>1, <3>2, Zenon
    <3> QED BY <3>1, <3>3, Zenon
  <2>2. w.pc = "list" /\ w.join = {}
    BY <1>0, <1>5, Zenon DEF ListEtcdMembers, At, WorkerOK
  <2>3. urls \subseteq URL /\ (urls = {} <=> members = {})
    <3>1. CASE Answering(m) = {} /\ urls = w.join
      BY <3>1, <2>2, <1>5, EtcdAnswers DEF ListEtcdMembers
    <3>2. CASE \E e \in Answering(m) : urls = {mb.url : mb \in Members(e)}
      <4>1. PICK e \in Answering(m) : urls = {mb.url : mb \in Members(e)}
        BY <3>2
      <4>2. members # {} /\ Members(e) = members
        BY <4>1, AnsweringFacts
      <4>3. \A mb \in members : mb.url \in URL
        BY DEF Core, Types, MemberType
      <4> QED BY <4>1, <4>2, <4>3, Zenon
    <3> QED BY <2>1, <3>1, <3>2
  <2>4. /\ v \in WorkerType /\ v.pc = "pod" /\ v.join = urls
        /\ v.component = w.component /\ v.endpoints = w.endpoints
    BY <2>1, <2>3, <1>0, Zenon DEF WorkerType, Joining
  <2>5. \A c \in ControlPlane : ~ Bootstraps(c)
    BY <1>5, Zenon DEF ListEtcdMembers, Waited, Bootstraps
  <2>6. WorkerOK(v)
    BY <2>2, <2>3, <2>4, <2>5, <1>0 DEF WorkerOK, Joining, Leaving
  <2>7. w.pc # "idle" /\ v.pc # "idle"
    BY <2>2, <2>4
  <2> QED BY <2>1, <2>4, <2>6, <2>7, <1>1, WorkerGoesOn, Zenon
<1>6. CASE RemoveEtcdMemberSkipped(m)
  <2>1. w.pc = "remove" /\ Waited /\ Goto(m, "stop")
    BY <1>6 DEF RemoveEtcdMemberSkipped, At
  <2>2. \A mb \in members : mb.url # components[Own(m)].url
    <3>1. CASE w.endpoints = {}
      BY <3>1, <2>1, <1>0 DEF WorkerOK
    <3>2. CASE \E e \in Answering(m) : WithURL(e, components[Own(m)].url) = {}
      BY <3>2, AnsweringFacts DEF WithURL
    <3> QED BY <1>6, <3>1, <3>2 DEF RemoveEtcdMemberSkipped
  <2>3. w.component = {Own(m)}
    BY <2>1, OwnFacts DEF Core
  <2>4. PICK v : v = [w EXCEPT !.pc = "stop"]
    BY Zenon
  <2>5. /\ v \in WorkerType /\ v.pc = "stop"
        /\ v.component = w.component /\ v.endpoints = w.endpoints
    BY <2>4, <1>0 DEF WorkerType, Leaving
  <2>6. WorkerOK(v)
    BY <2>1, <2>2, <2>3, <2>5, <1>0 DEF WorkerOK, Joining, Leaving
  <2> QED BY <2>1, <2>4, <2>5, <2>6, <1>1, WorkerGoesOn, Zenon DEF Goto
<1> QED BY <1>4, <1>5, <1>6 DEF Asks

\* The beginning of a pass.
LEMMA Passes ==
  ASSUME Core, OneManager, NEW m \in Manager, NEW c \in ControlPlane, Pass(m, c)
  PROVE  Core'
<1>1. IdleWorker = [pc |-> "idle", component |-> {}, endpoints |-> {}, join |-> {}]
  BY DEF IdleWorker
<1>2. Live \subseteq ControlPlane
  BY DEF Live
<1>3. members # {} => \E d \in Live : HasVoter(d)
  BY DEF Core, LiveVoter
<1>4. \A d \in ControlPlane : Bootstraps(d) => d \in Live
  BY DEF Core, BootstrapsAlone
<1>5. CASE BeginDeletion(m, c)
  <2>1. PICK w : w = [IdleWorker EXCEPT !.pc = "remove", !.component = {c}, !.endpoints = Live]
    OBVIOUS
  <2>2. /\ w \in WorkerType /\ w.pc = "remove" /\ w.component = {c} /\ w.endpoints = Live
    BY <2>1, <1>1, <1>2, Zenon DEF WorkerType, Leaving
  <2>3. /\ components[c].phase = "deleting" /\ Become(m, w)
        /\ UNCHANGED <<components, leases, members, issued, servers>>
    BY <2>1, <1>5 DEF BeginDeletion, objects, etcd
  <2>4. WorkerOK(w)
    BY <2>2, <2>3, <1>3 DEF WorkerOK, Joining, Leaving, Live
  <2>5. OverOne(w)
    BY <2>2 DEF OverOne
  <2> QED BY <2>2, <2>3, <2>4, <2>5, <1>4, WorkerMoves
<1>6. CASE Begin(m, c)
  <2>1. PICK w : w = [IdleWorker EXCEPT !.pc = "member", !.component = {c}, !.endpoints = Live]
    OBVIOUS
  <2>2. /\ w \in WorkerType /\ w.pc = "member" /\ w.component = {c} /\ w.endpoints = Live
        /\ w.join = {}
    BY <2>1, <1>1, <1>2, Zenon DEF WorkerType, Joining
  <2>3. c \in Live /\ Become(m, w) /\ UNCHANGED <<members, issued, servers>>
    BY <2>1, <1>6 DEF Begin, etcd
  <2>6. OverOne(w)
    BY <2>2 DEF OverOne
  <2>4. CASE components[c].url # NoURL /\ UNCHANGED objects
    <3>1. WorkerOK(w)
      BY <2>2, <2>3, <2>4, <1>3, Zenon DEF WorkerOK, Joining, Leaving, Live
    <3> QED BY <2>2, <2>3, <2>4, <2>6, <3>1, <1>4, WorkerMoves, Zenon DEF objects
  <2>5. CASE /\ components[c].url = NoURL /\ URL \ Leased # {}
             /\ leases' = leases \cup {[owner |-> c, url |-> NextURL]}
             /\ components' = [components EXCEPT ![c].url = NextURL]
    <3>1. NextURL \in URL /\ NextURL \notin Leased
      BY <2>5 DEF NextURL
    <3>2. /\ components' \in [ControlPlane -> ComponentType]
          /\ components'[c].url = NextURL
          /\ \A d \in ControlPlane \ {c} : components'[d] = components[d]
          /\ \A d \in ControlPlane : components'[d].phase = components[d].phase
      BY <2>5, <3>1 DEF Core, Types, ComponentType
    <3>3. workers' = [n \in Manager |-> w]
      BY <2>3, OnlyWorker
    <3>4. Types'
      BY <2>2, <2>3, <2>6, <3>2, <3>3, TypesNext DEF Core, Types
    <3>5. URLsApart'
      <4>1. \A d \in ControlPlane : components[d].url # NextURL
        <5> SUFFICES ASSUME NEW d \in ControlPlane, components[d].url # NoURL
                     PROVE  components[d].url \in Leased
          BY <3>1, URLAssumption
        <5>1. [owner |-> d, url |-> components[d].url] \in leases
          BY DEF Core, URLsApart
        <5> QED BY <5>1 DEF Leased
      <4> QED BY <2>5, <3>1, <3>2, <4>1 DEF Core, URLsApart
    <3>7. DataOK'
      <4>1. \A mb \in members : mb.url # components[c].url
        BY <2>5, URLAssumption DEF Core, Types, MemberType
      <4>2. \A x \in servers[c].data : \A mb \in members : x.id # mb.id
        BY <4>1 DEF Core, DataOK
      <4> QED BY <2>3, <3>2, <4>2 DEF Core, DataOK
    <3>8. MembersApart' /\ VotersServed'
      BY <2>3 DEF Core, MembersApart, VotersServed, Holds, Identity
    <3>9. Live' = Live
      BY <3>2, Zenon DEF Live
    <3>10. LiveVoter' /\ DeletesFromEtcd'
      BY <2>3, <3>2, <3>9, Zenon DEF Core, LiveVoter, HasVoter, Holds, Identity, DeletesFromEtcd
    <3>11. BootstrapsAlone'
      BY <2>2, <2>3, <3>1, <3>2, <3>3, <3>9, <1>4, URLAssumption
         DEF Core, BootstrapsAlone, Bootstraps
    <3>12. WorkerOK(w)'
      <4>1. members' # {} => \E d \in w.endpoints : HasVoter(d)'
        BY <2>2, <2>3, <1>3 DEF HasVoter, Holds, Identity
      <4>2. components'[c].phase \in {"live", "deleting"} /\ components'[c].url # NoURL
        BY <2>3, <3>1, <3>2, URLAssumption, Zenon DEF Live
      <4> QED BY <2>2, <2>3, <4>1, <4>2 DEF WorkerOK, Joining, Leaving
    <3>13. \A n \in Manager : WorkerOK(workers[n])'
      BY <3>3, <3>12 DEF WorkerOK
    <3> QED BY <3>4, <3>5, <3>7, <3>8, <3>10, <3>11, <3>13 DEF Core
  <2> QED BY <2>4, <2>5, <1>6 DEF Begin
<1> QED BY <1>5, <1>6 DEF Pass

-----------------------------------------------------------------------------
(***************************************************************************)
(* Users, the cluster controller and the etcd servers.                     *)
(***************************************************************************)

\* The phase of a component does not matter to the data of its server.
LEMMA PhaseOnly ==
  ASSUME Core, NEW c \in ControlPlane, NEW phase \in {"live", "deleting"},
         components' = [components EXCEPT ![c].phase = phase],
         UNCHANGED <<leases, members, issued, servers, workers>>
  PROVE  /\ Types' /\ URLsApart' /\ MembersApart' /\ DataOK' /\ VotersServed'
         /\ components'[c].phase = phase
         /\ \A d \in ControlPlane \ {c} : components'[d] = components[d]
         /\ \A d \in ControlPlane : components'[d].url = components[d].url
         /\ \A d : HasVoter(d)' <=> HasVoter(d)
         /\ \A d \in ControlPlane : Bootstraps(d)' <=> Bootstraps(d)
<1>1. /\ components' \in [ControlPlane -> ComponentType]
      /\ components'[c].phase = phase
      /\ \A d \in ControlPlane \ {c} : components'[d] = components[d]
      /\ \A d \in ControlPlane : components'[d].url = components[d].url
  BY DEF Core, Types, ComponentType
<1>2. Types'
  BY <1>1 DEF Core, Types
<1>3. URLsApart'
  BY <1>1 DEF Core, URLsApart
<1>4. MembersApart' /\ VotersServed'
  BY DEF Core, MembersApart, VotersServed, Holds, Identity
<1>5. DataOK'
  BY <1>1 DEF Core, DataOK
<1>6. /\ \A d : HasVoter(d)' <=> HasVoter(d)
      /\ \A d \in ControlPlane : Bootstraps(d)' <=> Bootstraps(d)
  BY DEF HasVoter, Holds, Identity, Bootstraps
<1> QED BY <1>1, <1>2, <1>3, <1>4, <1>5, <1>6

\* A new component has no URL and no server, and asks nobody.
LEMMA Creates ==
  ASSUME Core, NEW c \in ControlPlane, CreateComponent(c)
  PROVE  Core'
<1>1. /\ components[c].phase = "absent"
      /\ components' = [components EXCEPT ![c].phase = "live"]
      /\ UNCHANGED <<leases, members, issued, servers, workers>>
  BY DEF CreateComponent, etcd
<1>2. /\ Types' /\ URLsApart' /\ MembersApart' /\ DataOK' /\ VotersServed'
      /\ components'[c].phase = "live"
      /\ \A d \in ControlPlane \ {c} : components'[d] = components[d]
      /\ \A d \in ControlPlane : components'[d].url = components[d].url
      /\ \A d : HasVoter(d)' <=> HasVoter(d)
      /\ \A d \in ControlPlane : Bootstraps(d)' <=> Bootstraps(d)
  BY <1>1, PhaseOnly, Zenon
<1>3. Live' = Live \cup {c}
  BY <1>2 DEF Live
<1>4. LiveVoter'
  BY <1>1, <1>2, <1>3 DEF Core, LiveVoter
<1>5. BootstrapsAlone'
  BY <1>1, <1>2, <1>3 DEF Core, BootstrapsAlone, At
<1>6. ASSUME NEW m \in Manager PROVE WorkerOK(workers[m])'
  <2>1. WorkerOK(workers[m]) /\ workers'[m] = workers[m]
    BY <1>1 DEF Core
  <2>2. workers[m].component \subseteq ControlPlane
    BY DEF Core, Types, WorkerType
  <2> QED BY <2>1, <2>2, <1>1, <1>2 DEF WorkerOK
<1>7. DeletesFromEtcd'
  BY <1>1, <1>2 DEF Core, DeletesFromEtcd
<1> QED BY <1>2, <1>4, <1>5, <1>6, <1>7 DEF Core

\* Another live control plane is a voter.
LEMMA Deletes ==
  ASSUME Core, NEW c \in ControlPlane, DeleteComponent(c)
  PROVE  Core'
<1>1. /\ components[c].phase = "live"
      /\ components' = [components EXCEPT ![c].phase = "deleting"]
      /\ UNCHANGED <<leases, members, issued, servers, workers>>
  BY DEF DeleteComponent, etcd, Live
<1>2. /\ Types' /\ URLsApart' /\ MembersApart' /\ DataOK' /\ VotersServed'
      /\ components'[c].phase = "deleting"
      /\ \A d \in ControlPlane \ {c} : components'[d] = components[d]
      /\ \A d \in ControlPlane : components'[d].url = components[d].url
      /\ \A d : HasVoter(d)' <=> HasVoter(d)
      /\ \A d \in ControlPlane : Bootstraps(d)' <=> Bootstraps(d)
  BY <1>1, PhaseOnly, Zenon
<1>3. Live' = Live \ {c}
  BY <1>2 DEF Live
<1>4. PICK d \in Live \ {c} : IsVoter(d)
  BY DEF DeleteComponent
<1>5. HasVoter(d) /\ members # {}
  BY <1>4 DEF IsVoter, Serves, HasVoter
<1>6. LiveVoter'
  BY <1>2, <1>3, <1>4, <1>5 DEF LiveVoter
<1>7. BootstrapsAlone'
  BY <1>2, <1>5 DEF Core, BootstrapsAlone
<1>8. ASSUME NEW m \in Manager PROVE WorkerOK(workers[m])'
  <2>1. WorkerOK(workers[m]) /\ workers'[m] = workers[m]
    BY <1>1 DEF Core
  <2>2. workers[m].component \subseteq ControlPlane
    BY DEF Core, Types, WorkerType
  <2> QED BY <2>1, <2>2, <1>1, <1>2 DEF WorkerOK
<1>9. DeletesFromEtcd'
  BY <1>1, <1>5 DEF DeletesFromEtcd
<1> QED BY <1>2, <1>6, <1>7, <1>8, <1>9 DEF Core

\* A server that was a member, or is to join one, starts or exits.
LEMMA ServerJoins ==
  ASSUME Core, NEW c \in ControlPlane, NEW s \in ServerType,
         s.state \in {"up", "exited"}, servers[c].data \subseteq s.data,
         \A x \in s.data \ servers[c].data :
            \E mb \in members : x = Identity(mb) /\ mb.url = components[c].url,
         \A mb \in members : Holds(c, mb) => s.state = "up",
         servers' = [servers EXCEPT ![c] = s],
         UNCHANGED <<components, leases, members, issued, workers>>
  PROVE  Core'
<1>1. /\ servers' \in [ControlPlane -> ServerType] /\ servers'[c] = s
      /\ \A d \in ControlPlane \ {c} : servers'[d] = servers[d]
  BY Zenon DEF Core, Types
<1>2. Types' /\ URLsApart' /\ MembersApart'
  BY <1>1 DEF Core, Types, URLsApart, MembersApart, At
<1>3. \A d \in ControlPlane : \A mb \in members : Holds(d, mb) => Holds(d, mb)'
  BY <1>1 DEF Holds, Identity
<1>4. DataOK'
  <2>1. ASSUME NEW x \in s.data \ servers[c].data
        PROVE  /\ x.id <= issued /\ members # {}
               /\ \A mb \in members : /\ x.etcd = mb.etcd
                                      /\ x.id = mb.id => mb.url = components[c].url
    BY DEF Identity, Core, MembersApart
  <2> QED BY <2>1, <1>1 DEF Core, DataOK
<1>5. VotersServed'
  <2> SUFFICES ASSUME NEW mb \in members, ~ mb.learner
               PROVE  \E d \in ControlPlane :
                         Holds(d, mb)' /\ servers'[d].state \in {"up", "starting"}
    BY DEF VotersServed
  <2>1. PICK d \in ControlPlane : Holds(d, mb) /\ servers[d].state \in {"up", "starting"}
    BY DEF Core, VotersServed
  <2>2. servers'[d].state \in {"up", "starting"}
    BY <2>1, <1>1
  <2> QED BY <2>1, <2>2, <1>3
<1>6. \A d \in ControlPlane : HasVoter(d) => HasVoter(d)'
  BY <1>3 DEF HasVoter
<1>7. \A d \in ControlPlane : Bootstraps(d)' => Bootstraps(d)
  BY <1>1 DEF Bootstraps
<1>8. Live' = Live
  BY Zenon DEF Live
<1>9. LiveVoter' /\ BootstrapsAlone'
  BY <1>6, <1>7, <1>8, Zenon DEF Core, LiveVoter, BootstrapsAlone, Live, At
<1>10. ASSUME NEW m \in Manager PROVE WorkerOK(workers[m])'
  <2>1. WorkerOK(workers[m]) /\ workers'[m] = workers[m]
    BY DEF Core
  <2>2. workers[m].endpoints \subseteq ControlPlane
    BY DEF Core, Types, WorkerType
  <2> QED BY <2>1, <2>2, <1>6, <1>7 DEF WorkerOK
<1>11. DeletesFromEtcd'
  BY DEF Core, DeletesFromEtcd
<1> QED BY <1>2, <1>4, <1>5, <1>9, <1>10, <1>11, Zenon DEF Core

\* The first server bootstraps the etcd that all the others will join.
LEMMA ServerBootstraps ==
  ASSUME Core, NEW c \in ControlPlane, Bootstraps(c), NEW mb, NEW s,
         mb = [etcd |-> c, id |-> issued + 1, url |-> components[c].url, learner |-> FALSE],
         s = [servers[c] EXCEPT !.state = "up", !.data = {Identity(mb)}],
         members' = members \cup {mb}, issued' = issued + 1,
         servers' = [servers EXCEPT ![c] = s],
         UNCHANGED <<components, leases, workers>>
  PROVE  Core'
<1>1. /\ members = {} /\ c \in Live /\ components[c].url \in URL
      /\ \A d \in ControlPlane : Bootstraps(d) => d = c
      /\ \A m \in Manager : workers[m].pc # "idle" => c \in workers[m].endpoints
  BY DEF Core, BootstrapsAlone, Types, ComponentType
<1>2. members' = {mb}
  BY <1>1
<1>3. /\ mb \in MemberType
      /\ mb.etcd = c /\ mb.id = issued + 1 /\ mb.url = components[c].url /\ ~ mb.learner
  BY <1>1 DEF Core, Types, MemberType
<1>4. s \in ServerType /\ s.state = "up" /\ s.data = {Identity(mb)}
  <2>1. Identity(mb) \in [etcd : ControlPlane, id : Nat]
    BY <1>3 DEF Identity, MemberType
  <2>2. servers[c] \in ServerType
    BY DEF Core, Types
  <2> QED BY <2>1, <2>2, Zenon DEF ServerType
<1>5. /\ servers' \in [ControlPlane -> ServerType] /\ servers'[c] = s
      /\ \A d \in ControlPlane \ {c} : servers'[d] = servers[d]
  BY <1>4 DEF Core, Types
<1>6. \A d \in ControlPlane : servers[d].data = {}
  BY <1>1 DEF Core, DataOK
<1>7. IsFiniteSet(members')
  <2>1. IsFiniteSet({mb})
    BY FS_Singleton, Zenon
  <2> QED BY <2>1, <1>2, Zenon
<1>8. Types'
  <2>0. issued \in Nat
    BY DEF Core, Types
  <2>1. members' \subseteq MemberType /\ issued' \in Nat
    <3>1. members' \subseteq MemberType
      BY <1>2, <1>3, Zenon
    <3>2. issued' \in Nat
      BY <2>0
    <3> QED BY <3>1, <3>2
  <2>2. workers' \in [Manager -> WorkerType] /\ \A m \in Manager : OverOne(workers'[m])
    BY Zenon DEF Core, Types
  <2>3. components' \in [ControlPlane -> ComponentType]
    BY Zenon DEF Core, Types
  <2> QED BY <2>1, <2>2, <2>3, <1>5, <1>7, Zenon DEF Types
<1>9. URLsApart' /\ MembersApart'
  BY <1>2, <1>3, <1>8 DEF Core, URLsApart, MembersApart, Types, MemberType
<1>10. DataOK'
  <2>1. \A d \in ControlPlane : \A x \in servers'[d].data : d = c /\ x = Identity(mb)
    BY <1>4, <1>5, <1>6
  <2> QED BY <2>1, <1>2, <1>3, <1>8 DEF DataOK, Identity, Types, MemberType
<1>11. Holds(c, mb)' /\ HasVoter(c)' /\ VotersServed'
  BY <1>2, <1>3, <1>4, <1>5 DEF Holds, HasVoter, VotersServed, Identity
<1>12. LiveVoter'
  BY <1>1, <1>11 DEF LiveVoter, Live
<1>13. \A d \in ControlPlane : ~ Bootstraps(d)'
  BY <1>1, <1>4, <1>5 DEF Bootstraps
<1>14. ASSUME NEW m \in Manager PROVE WorkerOK(workers[m])'
  <2>1. WorkerOK(workers[m]) /\ workers'[m] = workers[m]
    BY DEF Core
  <2>2. workers[m].pc # "idle" => \E d \in ControlPlane : workers[m].component = {d}
    BY DEF Core, Types, OverOne
  <2>3. workers[m].pc \notin Leaving
    BY <2>1, <2>2, <1>1 DEF WorkerOK, Core, DeletesFromEtcd, Leaving
  <2>4. workers[m].pc # "pod"
    BY <2>1, <1>1 DEF WorkerOK
  <2> QED BY <2>1, <2>3, <2>4, <1>1, <1>11 DEF WorkerOK, Leaving
<1>15. BootstrapsAlone' /\ DeletesFromEtcd'
  BY <1>2, <1>13 DEF BootstrapsAlone, DeletesFromEtcd
<1> QED BY <1>8, <1>9, <1>10, <1>11, <1>12, <1>14, <1>15 DEF Core

\* A server starts as the member it was, as one it joins, or as the first one.
LEMMA Starts ==
  ASSUME Core, NEW c \in ControlPlane, ServerStarts(c)
  PROVE  Core'
<1>1. servers[c] \in ServerType /\ servers[c].state = "starting"
  BY DEF ServerStarts, Core, Types
<1>2. UNCHANGED <<components, leases, workers>>
  BY Zenon DEF ServerStarts, objects
<1>3. CASE servers[c].data # {} \/ servers[c].join # {}
  <2>0. PICK mbs :
          /\ mbs = IF servers[c].data # {} THEN {mb \in members : Holds(c, mb)} ELSE Joined(c)
          /\ servers' = [servers EXCEPT ![c].state = IF mbs = {} THEN "exited" ELSE "up",
                                        ![c].data = @ \cup {Identity(mb) : mb \in mbs}]
    BY <1>3, Zenon DEF ServerStarts
  <2>1. PICK s :
          /\ s = [servers[c] EXCEPT !.state = IF mbs = {} THEN "exited" ELSE "up",
                                    !.data = @ \cup {Identity(mb) : mb \in mbs}]
          /\ servers' = [servers EXCEPT ![c] = s]
    <3>1. servers \in [ControlPlane -> ServerType]
      BY DEF Core, Types
    <3> QED BY <3>1, <2>0, Zenon DEF ServerType
  <2>2. UNCHANGED <<members, issued>>
    BY <1>3 DEF ServerStarts, etcd
  <2>3. \A mb \in mbs : mb \in members /\ mb.url = components[c].url
    BY <2>0, HolderFacts DEF Joined
  <2>4. {Identity(mb) : mb \in mbs} \subseteq [etcd : ControlPlane, id : Nat]
    BY <2>3 DEF Identity, Core, Types, MemberType
  <2>5. /\ s \in ServerType /\ s.state = IF mbs = {} THEN "exited" ELSE "up"
        /\ s.data = servers[c].data \cup {Identity(mb) : mb \in mbs}
    BY <2>1, <2>4, <1>1, Zenon DEF ServerType
  <2>6. \A mb \in members : Holds(c, mb) => mb \in mbs
    BY <2>0 DEF Holds
  <2>7. \A mb \in members : Holds(c, mb) => s.state = "up"
    BY <2>5, <2>6
  <2>8. \A x \in s.data \ servers[c].data :
           \E mb \in members : x = Identity(mb) /\ mb.url = components[c].url
    BY <2>3, <2>5
  <2>9. s.state \in {"up", "exited"} /\ servers[c].data \subseteq s.data
    BY <2>5, Zenon
  <2> QED BY <2>1, <2>2, <2>5, <2>7, <2>8, <2>9, <1>2, ServerJoins, Zenon
<1>4. CASE servers[c].data = {} /\ servers[c].join = {}
  <2>1. PICK mb, s :
          /\ mb = [etcd |-> c, id |-> issued + 1, url |-> components[c].url, learner |-> FALSE]
          /\ s = [servers[c] EXCEPT !.state = "up", !.data = {Identity(mb)}]
          /\ members' = members \cup {mb} /\ issued' = issued + 1
          /\ servers' = [servers EXCEPT ![c] = s]
    BY <1>4, Zenon DEF ServerStarts, Core, Types, ServerType
  <2> QED BY <2>1, <1>1, <1>2, <1>4, ServerBootstraps, Zenon DEF Bootstraps
<1> QED BY <1>3, <1>4

-----------------------------------------------------------------------------
(***************************************************************************)
(* The steps of a pass that change the etcd or its servers.                *)
(***************************************************************************)

\* A server is started, or runs already.
LEMMA PodEnsured ==
  ASSUME Core, OneManager, NEW m \in Manager, EnsureEtcdPod(m)
  PROVE  Core'
<1> DEFINE w == workers[m]
           c == Own(m)
<1>1. w \in WorkerType /\ WorkerOK(w) /\ w.pc = "pod"
  BY DEF Core, Types, EnsureEtcdPod, At
<1>2. c \in ControlPlane /\ w.component = {c}
  BY <1>1, OwnFacts DEF Core
<1>3. PICK v : v = [w EXCEPT !.pc = "check"]
  BY Zenon
<1>4. /\ v \in WorkerType /\ v.pc = "check" /\ v.component = w.component
      /\ v.endpoints = w.endpoints
  BY <1>1, <1>3 DEF WorkerType, Joining
<1>5. Become(m, v) /\ UNCHANGED <<components, leases, members, issued>>
  BY <1>3 DEF EnsureEtcdPod, Goto, objects, etcd
<1>6. WorkerOK(v)
  BY <1>1, <1>4 DEF WorkerOK, Joining, Leaving
<1>7. CASE UNCHANGED servers
  BY <1>1, <1>4, <1>5, <1>6, <1>7, WorkerGoesOn
<1>8. CASE servers' = [servers EXCEPT ![c].state = "starting", ![c].join = w.join]
  <2>1. /\ servers' \in [ControlPlane -> ServerType]
        /\ servers'[c].state = "starting" /\ servers'[c].join = w.join
        /\ \A d \in ControlPlane \ {c} : servers'[d] = servers[d]
        /\ \A d \in ControlPlane : servers'[d].data = servers[d].data
    <3>1. PICK s : s = [servers[c] EXCEPT !.state = "starting", !.join = w.join]
      OBVIOUS
    <3>2. servers[c] \in ServerType /\ w.join \subseteq URL
      BY <1>1, <1>2 DEF Core, Types, WorkerType
    <3>3. /\ s \in ServerType /\ s.state = "starting" /\ s.join = w.join
          /\ s.data = servers[c].data
      BY <3>1, <3>2, Zenon DEF ServerType
    <3>4. servers' = [servers EXCEPT ![c] = s] /\ servers \in [ControlPlane -> ServerType]
      BY <3>1, <3>2, <1>8, Zenon DEF Core, Types, ServerType
    <3> QED BY <3>3, <3>4, <1>2
  <2>2. workers' = [n \in Manager |-> v]
    BY <1>5, OnlyWorker
  <2>3. Types' /\ URLsApart' /\ MembersApart'
    <3>1. OverOne(v)
      BY <1>2, <1>4, Zenon DEF OverOne
    <3>2. Types'
      BY <3>1, <2>1, <2>2, <1>4, <1>5, TypesNext, Zenon DEF Core, Types
    <3> QED BY <3>2, <1>5 DEF Core, URLsApart, MembersApart
  <2>4. \A d \in ControlPlane : \A mb : Holds(d, mb)' <=> Holds(d, mb)
    BY <2>1 DEF Holds, Identity
  <2>5. DataOK'
    BY <2>1, <1>5 DEF Core, DataOK
  <2>6. VotersServed'
    BY <2>1, <2>4, <1>5 DEF Core, VotersServed
  <2>7. \A d \in ControlPlane : HasVoter(d)' <=> HasVoter(d)
    BY <2>4, <1>5 DEF HasVoter
  <2>8. Live' = Live
    BY <1>5 DEF Live
  <2>9. LiveVoter' /\ DeletesFromEtcd'
    BY <2>7, <2>8, <1>5, Zenon DEF Core, LiveVoter, Live, DeletesFromEtcd
  <2>10. WorkerOK(v)'
    <3>1. v.endpoints \subseteq ControlPlane
      BY <1>4 DEF WorkerType
    <3> QED BY <3>1, <2>7, <1>4, <1>5, <1>6 DEF WorkerOK, Leaving
  <2>11. BootstrapsAlone'
    <3>1. CASE members # {}
      <4>1. \A d \in ControlPlane : ~ Bootstraps(d)
        BY <3>1 DEF Core, BootstrapsAlone
      <4>2. w.join # {}
        BY <3>1, <1>1 DEF WorkerOK
      <4>3. \A d \in ControlPlane : ~ Bootstraps(d)'
        BY <4>1, <4>2, <2>1 DEF Bootstraps
      <4> QED BY <4>3 DEF BootstrapsAlone
    <3>2. CASE members = {}
      <4>1. \A d \in ControlPlane : Bootstraps(d)' => d = c
        BY <3>2, <2>1, <1>1, Zenon DEF Bootstraps, WorkerOK
      <4>2. c \in Live /\ components[c].url # NoURL /\ c \in v.endpoints
        BY <3>2, <1>1, <1>2, <1>4, Zenon DEF WorkerOK, Joining, Core, DeletesFromEtcd, Live
      <4> QED BY <4>1, <4>2, <3>2, <2>2, <2>8, <1>5, Zenon DEF BootstrapsAlone
    <3> QED BY <3>1, <3>2
  <2>12. \A n \in Manager : WorkerOK(workers[n])'
    BY <2>2, <2>10, Zenon DEF WorkerOK
  <2> QED BY <2>3, <2>5, <2>6, <2>9, <2>11, <2>12 DEF Core
<1> QED BY <1>7, <1>8 DEF EnsureEtcdPod

\* A learner has an identity and a URL of its own.
LEMMA LearnerAdded ==
  ASSUME Core, OneManager, NEW m \in Manager, SetupEtcdLearner(m)
  PROVE  Core'
<1> DEFINE w == workers[m]
           c == Own(m)
<1>1. w \in WorkerType /\ WorkerOK(w) /\ w.pc = "learner"
  BY Zenon DEF Core, Types, SetupEtcdLearner, At
<1>2. c \in ControlPlane /\ w.component = {c} /\ components[c].url # NoURL
  BY <1>1, OwnFacts DEF Core, WorkerOK, Joining
<1>3. PICK v : v = [w EXCEPT !.pc = "list"]
  BY Zenon
<1>4. /\ v \in WorkerType /\ v.pc = "list" /\ v.component = w.component
      /\ v.endpoints = w.endpoints /\ v.join = {}
  BY <1>1, <1>3 DEF WorkerType, Joining, WorkerOK
<1>5. Become(m, v) /\ UNCHANGED <<components, leases, servers>> /\ issued' = issued + 1
  BY <1>3 DEF SetupEtcdLearner, Goto, objects
<1>0. PICK e \in Answering(m) :
         /\ CanAdd(e, components[c].url)
         /\ members' = members \cup {[etcd |-> e, id |-> issued + 1, url |-> components[c].url,
                                      learner |-> TRUE]}
  BY DEF SetupEtcdLearner
<1>6. PICK mb :
         /\ mb = [etcd |-> e, id |-> issued + 1, url |-> components[c].url, learner |-> TRUE]
         /\ members' = members \cup {mb}
  BY <1>0, Zenon
<1>7. e \in ControlPlane /\ members # {} /\ Members(e) = members
  BY AnsweringFacts
<1>8. \A x \in members : x.etcd = e /\ x.url # components[c].url
  BY <1>0, <1>7 DEF CanAdd, Members
<1>9. mb.etcd = e /\ mb.id = issued + 1 /\ mb.url = components[c].url
  BY <1>6
<1>22. mb \in MemberType /\ mb.learner
  <2>1. components[c].url \in URL /\ issued + 1 \in Nat
    BY <1>2 DEF Core, Types, ComponentType
  <2> QED BY <2>1, <1>6, <1>7 DEF MemberType
<1>23. members' = members \cup {mb}
  BY <1>6
<1>10. workers' = [n \in Manager |-> v]
  BY <1>5, OnlyWorker
<1>11. IsFiniteSet(members')
  BY <1>6, FiniteMembers, Zenon
<1>12. Types'
  <2>1. OverOne(v)
    BY <1>2, <1>4 DEF OverOne
  <2> QED BY <2>1, <1>4, <1>5, <1>10, <1>11, <1>22, <1>23, TypesNext DEF Core, Types
<1>13. URLsApart'
  BY <1>5 DEF Core, URLsApart
<1>14. MembersApart'
  <2>1. issued \in Nat /\ \A x \in members : x.id \in Nat /\ x.id <= issued
    BY Zenon DEF Core, Types, MemberType, MembersApart
  <2>2. /\ mb.id <= issued'
        /\ \A x \in members : x.id <= issued' /\ x.id # mb.id
    BY <2>1, <1>5, <1>9
  <2>3. \A x, y \in members : x.url = y.url \/ x.id = y.id => x = y
    BY DEF Core, MembersApart
  <2> QED BY <2>2, <2>3, <1>8, <1>9, <1>23 DEF MembersApart
<1>15. DataOK'
  <2> SUFFICES ASSUME NEW d \in ControlPlane, NEW x \in servers[d].data
               PROVE  /\ x.id <= issued' /\ members' # {}
                      /\ \A y \in members' : /\ x.etcd = y.etcd
                                             /\ x.id = y.id => y.url = components[d].url
    BY <1>5, Zenon DEF DataOK
  <2>1. /\ x.id <= issued
        /\ \A y \in members : /\ x.etcd = y.etcd
                              /\ x.id = y.id => y.url = components[d].url
    BY DEF Core, DataOK
  <2>2. x.id \in Nat /\ issued \in Nat
    BY DEF Core, Types, ServerType
  <2>3. x.id <= issued' /\ x.id # mb.id
    BY <2>1, <2>2, <1>5, <1>9
  <2>4. x.etcd = mb.etcd
    BY <2>1, <1>7, <1>8, <1>9
  <2> QED BY <2>1, <2>3, <2>4, <1>23
<1>16. VotersServed'
  BY <1>5, <1>22, <1>23, Zenon DEF Core, VotersServed, Holds, Identity
<1>17. \A d : HasVoter(d) => HasVoter(d)'
  BY <1>5, <1>23 DEF HasVoter, Holds, Identity
<1>18. LiveVoter'
  BY <1>5, <1>7, <1>17, Zenon DEF Core, LiveVoter, Live
<1>19. BootstrapsAlone'
  BY <1>5, <1>7, Zenon DEF Core, BootstrapsAlone, Bootstraps
<1>20. WorkerOK(v)'
  BY <1>1, <1>4, <1>5, <1>7, <1>17 DEF WorkerOK, Joining, Leaving
<1>21. /\ \A n \in Manager : WorkerOK(workers[n])'
       /\ DeletesFromEtcd'
  BY <1>6, <1>10, <1>20, Zenon DEF WorkerOK, DeletesFromEtcd
<1> QED BY <1>12, <1>13, <1>14, <1>15, <1>16, <1>18, <1>19, <1>21, Zenon DEF Core

\* A promoted learner runs, and is the member it was.
LEMMA LearnerPromoted ==
  ASSUME Core, OneManager, NEW m \in Manager, PromoteEtcdLearner(m)
  PROVE  Core'
<1>1. /\ UNCHANGED <<components, leases, servers, issued>>
      /\ workers' = [n \in Manager |-> IdleWorker]
  BY OnlyWorker, Zenon DEF PromoteEtcdLearner, Return, objects
<1>2. PICK e \in Answering(m) : \E mb \in WithURL(e, components[Own(m)].url) :
         /\ CanPromote(e, mb)
         /\ members' = (members \ {mb}) \cup {[mb EXCEPT !.learner = FALSE]}
  BY DEF PromoteEtcdLearner
<1>3. PICK mb \in members :
         /\ CanPromote(e, mb)
         /\ members' = (members \ {mb}) \cup {[mb EXCEPT !.learner = FALSE]}
  BY <1>2 DEF WithURL, Members
<1>4. mb.learner /\ Running(mb)
  BY <1>3 DEF CanPromote
<1>5. PICK v : v = [mb EXCEPT !.learner = FALSE]
  BY Zenon
<1>6. mb \in MemberType
  BY DEF Core, Types
<1>7. /\ v \in MemberType
      /\ v.etcd = mb.etcd /\ v.id = mb.id /\ v.url = mb.url /\ ~ v.learner
  BY <1>5, <1>6, Zenon DEF MemberType
<1>8. members' = (members \ {mb}) \cup {v}
  BY <1>3, <1>5
<1>9. IsFiniteSet(members')
  BY <1>8, FiniteMembers, Zenon
<1>10. IdleWorker \in WorkerType /\ IdleWorker.pc = "idle" /\ OverOne(IdleWorker)
  BY DEF IdleWorker, WorkerType, OverOne
<1>11. Types'
  BY <1>1, <1>7, <1>8, <1>9, <1>10, TypesNext DEF Core, Types
<1>12. URLsApart' /\ MembersApart'
  <2>1. \A x, y \in members : /\ x.etcd = y.etcd /\ x.id <= issued
                              /\ x.url = y.url \/ x.id = y.id => x = y
    BY DEF Core, MembersApart
  <2>2. \A x, y \in members' : /\ x.etcd = y.etcd /\ x.id <= issued
                               /\ x.url = y.url \/ x.id = y.id => x = y
    BY <2>1, <1>7, <1>8
  <2> QED BY <2>2, <1>1 DEF Core, URLsApart, MembersApart
<1>13. DataOK'
  BY <1>1, <1>7, <1>8 DEF Core, DataOK
<1>14. \A d : \A x \in members \ {mb} : Holds(d, x)' <=> Holds(d, x)
  BY <1>1 DEF Holds, Identity
<1>15. \A d : Holds(d, v)' <=> Holds(d, mb)
  BY <1>1, <1>7 DEF Holds, Identity
<1>16. VotersServed'
  <2>1. PICK d \in ControlPlane : servers[d].state = "up" /\ Holds(d, mb)
    BY <1>4, Zenon DEF Running, Serves
  <2>2. ASSUME NEW x \in members \ {mb}, ~ x.learner
        PROVE  \E b \in ControlPlane : Holds(b, x)' /\ servers'[b].state \in {"up", "starting"}
    <3>1. PICK b \in ControlPlane : Holds(b, x) /\ servers[b].state \in {"up", "starting"}
      BY <2>2 DEF Core, VotersServed
    <3> QED BY <3>1, <1>1, <1>14, Zenon
  <2> QED BY <2>1, <2>2, <1>1, <1>8, <1>15 DEF VotersServed
<1>17. \A d : HasVoter(d) => HasVoter(d)'
  BY <1>4, <1>8, <1>14 DEF HasVoter
<1>18. LiveVoter'
  BY <1>1, <1>17, Zenon DEF Core, LiveVoter, Live
<1>19. BootstrapsAlone'
  BY <1>1 DEF Core, BootstrapsAlone, Bootstraps
<1>20. \A n \in Manager : WorkerOK(workers[n])'
  BY <1>1, <1>10 DEF WorkerOK, Joining, Leaving
<1>21. DeletesFromEtcd'
  BY <1>8, Zenon DEF DeletesFromEtcd
<1> QED BY <1>11, <1>12, <1>13, <1>16, <1>18, <1>19, <1>20, <1>21 DEF Core

\* The member that is removed is that of the control plane that goes, and another one
\* that stays is a voter.
LEMMA MemberRemoved ==
  ASSUME Core, OneManager, NEW m \in Manager, RemoveEtcdMember(m)
  PROVE  Core'
<1> DEFINE w == workers[m]
           c == Own(m)
<1>1. w \in WorkerType /\ WorkerOK(w) /\ w.pc = "remove"
  BY DEF Core, Types, RemoveEtcdMember, At
<1>2. c \in ControlPlane /\ w.component = {c}
  BY <1>1, OwnFacts, Zenon DEF Core
<1>3. /\ components[c].phase = "deleting"
      /\ c \notin w.endpoints /\ w.endpoints \subseteq ControlPlane
  BY <1>1, <1>2 DEF WorkerOK, Leaving, WorkerType
<1>4. PICK v : v = [w EXCEPT !.pc = "stop"]
  BY Zenon
<1>5. /\ v \in WorkerType /\ v.pc = "stop" /\ v.component = {c} /\ v.endpoints = w.endpoints
  BY <1>1, <1>2, <1>4 DEF WorkerType, Leaving
<1>6. UNCHANGED <<components, leases, issued>> /\ workers' = [n \in Manager |-> v]
  BY <1>4, OnlyWorker, Zenon DEF RemoveEtcdMember, Goto, objects
<1>7. PICK mb \in members : /\ mb.url = components[c].url /\ members' = members \ {mb}
                            /\ servers' = WithoutServerOf(mb)
  BY Zenon DEF RemoveEtcdMember, WithURL, Members
<1>8. \A d \in ControlPlane : Holds(d, mb) => d = c
  <2>1. mb.url # NoURL
    BY URLAssumption, Zenon DEF Core, Types, MemberType
  <2> QED BY <2>1, <1>2, <1>7, HolderFacts DEF Core, URLsApart
<1>9. /\ servers' \in [ControlPlane -> ServerType]
      /\ \A d \in ControlPlane \ {c} : servers'[d] = servers[d]
      /\ \A d \in ControlPlane : servers'[d].data = servers[d].data
      /\ \A d \in ControlPlane : servers'[d].state = "starting" => servers'[d] = servers[d]
  <2>1. \A d \in ControlPlane :
           servers'[d] = IF Serves(d, mb) THEN [servers[d] EXCEPT !.state = "exited"]
                         ELSE servers[d]
    BY <1>7 DEF WithoutServerOf
  <2>2. \A d \in ControlPlane : servers[d] \in ServerType
    BY DEF Core, Types
  <2>3. \A d \in ControlPlane : servers'[d] \in ServerType
    BY <2>1, <2>2, Zenon DEF ServerType
  <2>4. /\ servers' \in [ControlPlane -> ServerType]
        /\ \A d \in ControlPlane \ {c} : servers'[d] = servers[d]
    BY <2>1, <2>3, <1>7, <1>8 DEF WithoutServerOf, Serves
  <2>5. \A d \in ControlPlane : servers'[d].data = servers[d].data
    BY <2>1, <2>2, Zenon DEF ServerType
  <2>6. \A d \in ControlPlane : servers'[d].state = "starting" => servers'[d] = servers[d]
    BY <2>1, <2>2, Zenon DEF ServerType
  <2> QED BY <2>4, <2>5, <2>6
<1>10. \A x \in members : x.url = components[c].url => x = mb
  BY <1>7 DEF Core, MembersApart
<1>11. ASSUME NEW d \in ControlPlane, d # c, NEW x \in members, Holds(d, x)
       PROVE  x \in members' /\ Holds(d, x)'
  <2>1. x.url = components[d].url /\ x.url # NoURL
    BY <1>11, HolderFacts
  <2>2. x # mb
    BY <2>1, <1>2, <1>7, <1>11 DEF Core, URLsApart
  <2> QED BY <2>2, <1>7, <1>9, <1>11 DEF Holds, Identity
<1>12. \A d \in ControlPlane \ {c} : HasVoter(d) => HasVoter(d)'
  BY <1>11, Zenon DEF HasVoter
<1>13. PICK d \in w.endpoints : HasVoter(d) /\ HasVoter(d)'
  BY <1>1, <1>3, <1>7, <1>12, Zenon DEF WorkerOK
<1>14. members' # {}
  BY <1>13, Zenon DEF HasVoter
<1>15. Types'
  <2>1. IsFiniteSet(members')
    BY <1>7, FiniteMembers, Zenon
  <2>2. OverOne(v)
    BY <1>2, <1>5, Zenon DEF OverOne
  <2> QED BY <2>1, <2>2, <1>5, <1>6, <1>7, <1>9, TypesNext, Zenon DEF Core, Types
<1>16. URLsApart' /\ MembersApart'
  BY <1>6, <1>7, Zenon DEF Core, URLsApart, MembersApart
<1>17. DataOK'
  BY <1>6, <1>7, <1>9, <1>14 DEF Core, DataOK
<1>18. VotersServed'
  <2> SUFFICES ASSUME NEW x \in members', ~ x.learner
               PROVE  \E b \in ControlPlane :
                         Holds(b, x)' /\ servers'[b].state \in {"up", "starting"}
    BY DEF VotersServed
  <2>1. PICK b \in ControlPlane : Holds(b, x) /\ servers[b].state \in {"up", "starting"}
    BY <1>7, Zenon DEF Core, VotersServed
  <2>2. b # c
    BY <2>1, <1>7, <1>10, HolderFacts, Zenon
  <2> QED BY <2>1, <2>2, <1>7, <1>9, <1>11, Zenon
<1>19. LiveVoter'
  <2>1. PICK b \in Live : HasVoter(b)
    BY <1>7, Zenon DEF Core, LiveVoter
  <2>2. b # c /\ b \in ControlPlane /\ b \in Live'
    BY <2>1, <1>3, <1>6, Zenon DEF Live
  <2> QED BY <2>1, <2>2, <1>12, Zenon DEF LiveVoter
<1>20. \A b \in ControlPlane : ~ Bootstraps(b)'
  BY <1>7, <1>9, Zenon DEF Core, BootstrapsAlone, Bootstraps
<1>21. WorkerOK(v)'
  BY <1>3, <1>5, <1>6, <1>7, <1>10, <1>13, <1>14, Zenon DEF WorkerOK, Joining, Leaving
<1>22. /\ \A n \in Manager : WorkerOK(workers[n])'
       /\ DeletesFromEtcd'
  BY <1>6, <1>14, <1>21, Zenon DEF WorkerOK, DeletesFromEtcd
<1> QED BY <1>15, <1>16, <1>17, <1>18, <1>19, <1>20, <1>22 DEF Core, BootstrapsAlone

\* A server that is stopped was no member any more.
LEMMA EtcdStopped ==
  ASSUME Core, OneManager, NEW m \in Manager, StopEtcd(m)
  PROVE  Core'
<1> DEFINE w == workers[m]
           c == Own(m)
<1>1. w \in WorkerType /\ WorkerOK(w) /\ w.pc = "stop"
  BY DEF Core, Types, StopEtcd, At
<1>2. c \in ControlPlane /\ w.component = {c}
  BY <1>1, OwnFacts DEF Core
<1>3. PICK v : v = [w EXCEPT !.pc = "clean"]
  BY Zenon
<1>4. /\ v \in WorkerType /\ v.pc = "clean" /\ v.component = {c} /\ v.endpoints = w.endpoints
  BY <1>1, <1>2, <1>3 DEF WorkerType, Leaving
<1>5. /\ UNCHANGED <<components, leases, members, issued>>
      /\ workers' = [n \in Manager |-> v]
  BY <1>3, OnlyWorker, Zenon DEF StopEtcd, Goto, objects, etcd
<1>6. /\ servers' \in [ControlPlane -> ServerType]
      /\ \A d \in ControlPlane \ {c} : servers'[d] = servers[d]
      /\ \A d \in ControlPlane : servers'[d].data = servers[d].data
      /\ servers'[c].state = "none"
  <2>1. PICK s : s = [servers[c] EXCEPT !.state = "none"]
    BY Zenon
  <2>2. servers \in [ControlPlane -> ServerType] /\ servers' = [servers EXCEPT ![c] = s]
    BY <2>1, <1>2 DEF StopEtcd, Core, Types
  <2>3. s \in ServerType /\ s.data = servers[c].data /\ s.state = "none"
    BY <2>1, <2>2, <1>2, Zenon DEF ServerType
  <2> QED BY <2>2, <2>3, <1>2
<1>7. \A x \in members : x.url # components[c].url
  BY <1>1, <1>2, Zenon DEF WorkerOK
<1>8. \A d \in ControlPlane : \A x : Holds(d, x)' <=> Holds(d, x)
  BY <1>6 DEF Holds, Identity
<1>9. \A d \in ControlPlane : HasVoter(d)' <=> HasVoter(d)
  BY <1>5, <1>8 DEF HasVoter
<1>10. \A d \in ControlPlane : Bootstraps(d)' => Bootstraps(d)
  BY <1>6 DEF Bootstraps
<1>11. Types' /\ URLsApart' /\ MembersApart'
  <2>1. OverOne(v)
    BY <1>2, <1>4, Zenon DEF OverOne
  <2>2. Types'
    BY <2>1, <1>4, <1>5, <1>6, TypesNext, Zenon DEF Core, Types
  <2> QED BY <2>2, <1>5 DEF Core, URLsApart, MembersApart
<1>12. DataOK'
  BY <1>5, <1>6 DEF Core, DataOK
<1>13. VotersServed'
  <2> SUFFICES ASSUME NEW x \in members, ~ x.learner
               PROVE  \E b \in ControlPlane :
                         Holds(b, x)' /\ servers'[b].state \in {"up", "starting"}
    BY <1>5, Zenon DEF VotersServed
  <2>1. PICK b \in ControlPlane : Holds(b, x) /\ servers[b].state \in {"up", "starting"}
    BY DEF Core, VotersServed
  <2>2. b # c
    BY <2>1, <1>7, HolderFacts
  <2> QED BY <2>1, <2>2, <1>6, <1>8
<1>14. LiveVoter'
  BY <1>5, <1>9, Zenon DEF Core, LiveVoter, Live
<1>15. BootstrapsAlone'
  <2>1. \A d \in ControlPlane : Bootstraps(d) => d \in v.endpoints
    BY <1>1, <1>4 DEF Core, BootstrapsAlone
  <2> QED BY <2>1, <1>5, <1>10 DEF Core, BootstrapsAlone, Live
<1>16. WorkerOK(v)'
  <2>1. v.endpoints \subseteq ControlPlane
    BY <1>4, Zenon DEF WorkerType
  <2> QED BY <2>1, <1>1, <1>2, <1>4, <1>5, <1>9, Zenon DEF WorkerOK, Joining, Leaving
<1>17. /\ \A n \in Manager : WorkerOK(workers[n])'
       /\ DeletesFromEtcd'
  BY <1>5, <1>16 DEF WorkerOK, Core, DeletesFromEtcd
<1> QED BY <1>11, <1>12, <1>13, <1>14, <1>15, <1>17 DEF Core

\* A control plane that goes leaves nothing that another one would be taken for.
LEMMA HostCleanedUp ==
  ASSUME Core, OneManager, NEW m \in Manager, HostCleanup(m)
  PROVE  Core'
<1> DEFINE w == workers[m]
           c == Own(m)
<1>1. WorkerOK(w) /\ w.pc = "clean"
  BY DEF Core, Types, HostCleanup, At
<1>2. c \in ControlPlane /\ w.component = {c}
  BY <1>1, OwnFacts, Zenon DEF Core
<1>3. components[c].phase = "deleting" /\ \A x \in members : x.url # components[c].url
  BY <1>1, <1>2 DEF WorkerOK, Leaving
<1>4. /\ UNCHANGED <<members, issued>> /\ leases' = Freed(c)
      /\ workers' = [n \in Manager |-> IdleWorker]
  BY OnlyWorker, Zenon DEF HostCleanup, Return, etcd
<1>5. IdleWorker \in WorkerType /\ IdleWorker.pc = "idle" /\ OverOne(IdleWorker)
  BY Zenon DEF IdleWorker, WorkerType, OverOne
<1>6. /\ servers' \in [ControlPlane -> ServerType]
      /\ \A d \in ControlPlane \ {c} : servers'[d] = servers[d]
      /\ servers'[c].data = {} /\ servers'[c].state = "none"
  <2>1. NoServer \in ServerType /\ NoServer.data = {} /\ NoServer.state = "none"
    BY DEF NoServer, ServerType
  <2>2. servers' = [servers EXCEPT ![c] = NoServer] /\ servers \in [ControlPlane -> ServerType]
    BY DEF HostCleanup, Core, Types
  <2> QED BY <2>1, <2>2, <1>2
<1>7. /\ components' \in [ControlPlane -> ComponentType]
      /\ \A d \in ControlPlane \ {c} : components'[d] = components[d]
      /\ components'[c].url = NoURL /\ components'[c].phase = "gone"
  <2>1. PICK g : g = [NewComponent EXCEPT !.phase = "gone"]
    BY Zenon
  <2>2. g.url = NoURL /\ g.phase = "gone" /\ g \in ComponentType
    BY <2>1 DEF NewComponent, ComponentType
  <2> QED BY <2>1, <2>2, <1>2, Zenon DEF HostCleanup, Core, Types
<1>8. \A d \in ControlPlane : \A x \in members : Holds(d, x) => d # c /\ Holds(d, x)'
  BY <1>3, <1>6, HolderFacts, Zenon DEF Holds, Identity
<1>9. \A d \in ControlPlane : HasVoter(d) => HasVoter(d)'
  BY <1>4, <1>8 DEF HasVoter
<1>10. Live' = Live
  BY <1>3, <1>7 DEF Live
<1>11. Types' /\ MembersApart'
  <2>1. Types'
    BY <1>4, <1>5, <1>6, <1>7, TypesNext, Zenon DEF Core, Types
  <2> QED BY <2>1, <1>4, Zenon DEF Core, MembersApart
<1>12. URLsApart'
  <2>1. \A d \in ControlPlane : components'[d].url # NoURL =>
            d # c /\ components'[d].url = components[d].url
    BY <1>7
  <2>2. \A d \in ControlPlane \ {c} : components[d].url # NoURL =>
            [owner |-> d, url |-> components[d].url] \in leases'
    BY <1>4, Zenon DEF Core, URLsApart, Freed
  <2> QED BY <2>1, <2>2, Zenon DEF Core, URLsApart
<1>13. DataOK'
  BY <1>4, <1>6, <1>7 DEF Core, DataOK
<1>14. VotersServed'
  BY <1>4, <1>6, <1>8 DEF Core, VotersServed
<1>15. LiveVoter'
  BY <1>4, <1>9, <1>10, Zenon DEF Core, LiveVoter, Live
<1>16. BootstrapsAlone'
  <2>1. \A d \in ControlPlane : Bootstraps(d)' => d # c /\ Bootstraps(d)
    BY <1>6, Zenon DEF Bootstraps
  <2> QED BY <2>1, <1>4, <1>5, <1>7, <1>10 DEF Core, BootstrapsAlone
<1>17. \A n \in Manager : WorkerOK(workers[n])'
  BY <1>4, <1>5 DEF WorkerOK, Joining, Leaving
<1>18. DeletesFromEtcd'
  BY <1>4, <1>7 DEF Core, DeletesFromEtcd
<1> QED BY <1>11, <1>12, <1>13, <1>14, <1>15, <1>16, <1>17, <1>18, Zenon DEF Core

-----------------------------------------------------------------------------
(***************************************************************************)
(* The theorems.                                                           *)
(***************************************************************************)

\* Faults are remembered, and those that cannot be told from an etcd that is not there
\* end the calm.
LEMMA CalmSteps ==
  ASSUME Calm', [Next]_vars
  PROVE  /\ Calm
         /\ \A m : ~ HostCleanupFails(m) /\ ~ CallFails(m)
         /\ \A c : ~ ServerExits(c)
<1>1. faults \subseteq faults'
  BY Zenon DEF Next, vars, Step, Failure, Pass, Fault, CreateComponent, DeleteComponent,
         ServerStarts, ServerExits, HasEtcdMember, SetupEtcdLearner, SetupEtcdLearnerFails,
         ListEtcdMembers, EnsureEtcdPod, HasEtcdLearner, PromoteEtcdLearner,
         PromoteEtcdLearnerFails, RemoveEtcdMemberSkipped, RemoveEtcdMember,
         RemoveEtcdMemberFails, StopEtcd, HostCleanup, HostCleanupFails, CallFails, Crash,
         Begin, BeginDeletion
<1> QED BY <1>1 DEF Calm, HostCleanupFails, CallFails, ServerExits, Fault

\* There is neither a component nor an etcd.
LEMMA EtcdInit ==
  ASSUME Init
  PROVE  Core
<1>1. NewComponent \in ComponentType
      /\ NewComponent.url = NoURL /\ NewComponent.phase = "absent"
  BY Zenon DEF NewComponent, ComponentType
<1>2. NoServer \in ServerType /\ NoServer.data = {} /\ NoServer.state = "none"
  BY Zenon DEF NoServer, ServerType
<1>3. IdleWorker \in WorkerType /\ IdleWorker.pc = "idle" /\ OverOne(IdleWorker)
  BY Zenon DEF IdleWorker, WorkerType, OverOne
<1>4. Types
  BY <1>1, <1>2, <1>3, FS_EmptySet, Zenon DEF Init, Types
<1>5. URLsApart /\ MembersApart /\ DataOK /\ VotersServed /\ LiveVoter
  BY <1>1, <1>2, Zenon DEF Init, URLsApart, MembersApart, DataOK, VotersServed, LiveVoter
<1>6. BootstrapsAlone
  BY <1>2, Zenon DEF Init, BootstrapsAlone, Bootstraps
<1>7. \A m \in Manager : WorkerOK(workers[m])
  BY <1>3 DEF Init, WorkerOK, Joining, Leaving
<1>8. DeletesFromEtcd
  BY <1>1 DEF Init, DeletesFromEtcd
<1> QED BY <1>4, <1>5, <1>6, <1>7, <1>8 DEF Core

\* The steps of a calm system.
LEMMA EtcdNext ==
  ASSUME EtcdInv, OneManager, Patient, [Next]_vars
  PROVE  EtcdInv'
<1> SUFFICES ASSUME Calm' PROVE Core'
  BY DEF EtcdInv
<1>1. /\ Core
      /\ \A m : ~ HostCleanupFails(m) /\ ~ CallFails(m)
      /\ \A c : ~ ServerExits(c)
  BY CalmSteps DEF EtcdInv
<1>2. CASE UNCHANGED vars
  <2>1. UNCHANGED <<components, leases, members, issued, servers, workers>>
    BY <1>2, Zenon DEF vars
  <2>2. Types' /\ URLsApart' /\ MembersApart' /\ DataOK'
    BY <2>1, <1>1 DEF Core, Types, URLsApart, MembersApart, DataOK
  <2>3. VotersServed' /\ LiveVoter' /\ BootstrapsAlone'
    BY <2>1, <1>1, Zenon DEF Core, VotersServed, LiveVoter, BootstrapsAlone, Bootstraps, HasVoter,
         Holds, Identity, Live
  <2>4. \A m \in Manager : WorkerOK(workers[m])'
    BY <2>1, <1>1 DEF Core, WorkerOK, HasVoter, Holds, Identity, Bootstraps
  <2>5. DeletesFromEtcd'
    BY <2>1, <1>1 DEF Core, DeletesFromEtcd
  <2> QED BY <2>2, <2>3, <2>4, <2>5 DEF Core
<1>3. ASSUME NEW c \in ControlPlane,
             CreateComponent(c) \/ DeleteComponent(c) \/ ServerStarts(c)
      PROVE  Core'
  BY <1>1, <1>3, Creates, Deletes, Starts
<1>4. ASSUME NEW m \in Manager, Step(m) \/ Crash(m)
      PROVE  Core'
  BY <1>1, <1>4, Calls, PodEnsured, LearnerAdded, LearnerPromoted, MemberRemoved, EtcdStopped,
     HostCleanedUp DEF Step, Asks
<1>5. ASSUME NEW m \in Manager, NEW c \in ControlPlane, Pass(m, c)
      PROVE  Core'
  BY <1>1, <1>5, Passes
<1> QED BY <1>1, <1>2, <1>3, <1>4, <1>5 DEF Next, Failure

\* The data of all the control planes is that of one etcd.
LEMMA OneEtcdFollows ==
  ASSUME Core
  PROVE  OneEtcd
BY DEF OneEtcd, Core, DataOK, Live

\* All the voters are served.
LEMMA QuorumFollows ==
  ASSUME Core
  PROVE  QuorumKept
<1> SUFFICES ASSUME NEW e \in ControlPlane, NEW mb \in Voters(e)
             PROVE  Majority({v \in Voters(e) : \E c \in ControlPlane :
                                Holds(c, v) /\ servers[c].state \in {"up", "starting"}},
                             Voters(e))
  BY Zenon DEF QuorumKept
<1>1. {v \in Voters(e) : \E c \in ControlPlane :
          Holds(c, v) /\ servers[c].state \in {"up", "starting"}} = Voters(e)
  BY DEF Core, VotersServed, Voters, Members
<1>2. IsFiniteSet(Voters(e)) /\ Voters(e) # {}
  <2>1. Voters(e) \subseteq members
    BY DEF Voters, Members
  <2> QED BY <2>1, FS_Subset DEF Core, Types
<1>3. Cardinality(Voters(e)) \in Nat /\ Cardinality(Voters(e)) # 0
  BY <1>2, FS_CardinalityType, FS_EmptySet
<1>4. 2 * Cardinality(Voters(e)) > Cardinality(Voters(e))
  BY <1>3
<1> QED BY <1>1, <1>4, Zenon DEF Majority

\* With one manager, and calls that outwait the start of a server, the passes of the
\* component controller over the control planes keep the invariant, wherever the
\* manager dies and whatever etcd refuses.
THEOREM EtcdInvariant == OneManager /\ Patient => (Spec => []EtcdInv)
<1> SUFFICES ASSUME OneManager, Patient PROVE Spec => []EtcdInv
  OBVIOUS
<1>1. Init => EtcdInv
  BY EtcdInit DEF EtcdInv
<1>2. EtcdInv /\ [Next]_vars => EtcdInv'
  BY EtcdNext
<1> QED BY <1>1, <1>2, PTL DEF Spec

\* The etcd servers that etcdContainer and setupEtcdLearner lead to are all of one
\* etcd: no control plane bootstraps a second one beside it.
THEOREM EtcdIsOne == OneManager /\ Patient => (Spec => []OneEtcd)
<1> SUFFICES ASSUME OneManager, Patient PROVE Spec => []OneEtcd
  OBVIOUS
<1>1. EtcdInv => OneEtcd
  BY OneEtcdFollows DEF EtcdInv, Calm, OneEtcd
<1> QED BY <1>1, EtcdInvariant, PTL

\* Neither runEtcd nor removeEtcdMember and stopEtcd cost an etcd its quorum, as
\* every voter keeps a server; until a hostCleanup has failed.
THEOREM EtcdKeepsQuorum ==
  OneManager /\ Patient => (Spec => []("cleanup" \notin faults => QuorumKept))
<1> SUFFICES ASSUME OneManager, Patient
             PROVE  Spec => []("cleanup" \notin faults => QuorumKept)
  OBVIOUS
<1>1. EtcdInv => ("cleanup" \notin faults => QuorumKept)
  <2>1. CASE Calm
    BY <2>1, QuorumFollows DEF EtcdInv
  <2>2. CASE ~ Calm
    BY <2>2 DEF Calm, QuorumKept
  <2> QED BY <2>1, <2>2
<1> QED BY <1>1, EtcdInvariant, PTL
=============================================================================
