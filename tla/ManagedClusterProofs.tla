------------------------ MODULE ManagedClusterProofs ------------------------
(***************************************************************************)
(* What the managers do inside a managed cluster, where they share nothing *)
(* but its objects: the add-ons they install (module ClusterAddons), and   *)
(* the node join requests they answer (module NodeJoin, here the instance  *)
(* Nodes, on variables of its own).  Both hold for any number of managers, *)
(* whatever fails.                                                         *)
(*                                                                         *)
(* Add-ons.  What a pass can answer for is what it has gone past without   *)
(* an error: the objects of its add-on before the one it is at, and the    *)
(* whole of the add-ons before unless one was abandoned.  The invariant    *)
(* AddonsInv says that they are there as long as nobody deletes anything;  *)
(* since an add-on lists what an object needs before the object (LEMMA     *)
(* NeedsBefore), no object comes before what it needs, and a pass that     *)
(* ends well has them all.                                                 *)
(*                                                                         *)
(* Node join requests.  A request is answered once, whatever the number of *)
(* nodes and tokens: what a manager still holds to be fresh is pending in  *)
(* the managed cluster (AnswerInv), since the manager that answers a       *)
(* request outdates what the others have listed of it.  A kubelet then     *)
(* only starts on an answer, and the answer it started on stays            *)
(* (KubeletInv).                                                           *)
(***************************************************************************)
EXTENDS ClusterAddons, TLAPS

-----------------------------------------------------------------------------
(***************************************************************************)
(* The add-ons.                                                            *)
(***************************************************************************)

Field == {"running", "addon", "step", "succeeded", "fresh"}

\* A pass is at an object of an add-on, or has none left.
Placed(w) ==
    /\ w = [f \in Field |-> w[f]]
    /\ w.addon \in 1..7 /\ w.step \in Nat \ {0}
    /\ w.addon < 7 => w.step <= Len(Addons[w.addon])

\* Among objects s is the whole of add-on a, except perhaps the Service of CoreDNS.
Installed(a, s) == \A i \in 1..Len(Addons[a]) : Addons[a][i] \in s \cup {"kube-dns"}

\* Pass w leaves behind the objects of its add-on before the one it is at, and
\* unless there was an error the whole of the add-ons before.
Behind(w, s) ==
    /\ w.addon < 7 => \A i \in 1..(w.step - 1) : Addons[w.addon][i] \in s
    /\ w.succeeded => \A a \in 1..(w.addon - 1) : Installed(a, s)

\* Each object is there with the ones it needs.
Supported(s) == \A o \in s : Needs(o) \subseteq s

AddonsInv ==
    /\ pass = [m \in Manager |-> pass[m]]
    /\ \A m \in Manager : Placed(pass[m])
    /\ conditions = [type \in {"ReconcileStarted", "ReconcileSucceeded"} |-> conditions[type]]
    /\ deletions \in Nat
    /\ deletions = 0 =>
          /\ ~ terminating
          /\ Supported(objects)
          /\ \A m \in Manager : Behind(pass[m], objects)
          /\ conditions["ReconcileSucceeded"] = "True" => \A a \in 1..6 : Installed(a, objects)

-----------------------------------------------------------------------------

\* The objects of each add-on.
LEMMA AddonsListed ==
    /\ DOMAIN Addons = 1..6
    /\ Len(Addons) = 6
    /\ Len(Addons[1]) = 1 /\ Len(Addons[2]) = 1 /\ Len(Addons[3]) = 5
    /\ Len(Addons[4]) = 3 /\ Len(Addons[5]) = 6 /\ Len(Addons[6]) = 1
    /\ \A a \in 1..6 : DOMAIN Addons[a] = 1..Len(Addons[a])
    /\ Addons[1][1] = "nodejoinrequests"
    /\ Addons[2][1] = "oneinfra-system"
    /\ Addons[3][1] = "requester-clusterrole" /\ Addons[3][2] = "requester-clusterrolebinding"
    /\ Addons[3][3] = "requester-role" /\ Addons[3][4] = "requester-rolebinding"
    /\ Addons[3][5] = "kubelet-proxier-binding"
    /\ Addons[4][1] = "kube-proxy-account" /\ Addons[4][2] = "kube-proxy-binding"
    /\ Addons[4][3] = "kube-proxy-daemonset"
    /\ Addons[5][1] = "coredns-account" /\ Addons[5][2] = "coredns-role"
    /\ Addons[5][3] = "coredns-binding" /\ Addons[5][4] = "coredns-configmap"
    /\ Addons[5][5] = "coredns-deployment" /\ Addons[5][6] = "kube-dns"
    /\ Addons[6][1] = "oneinfra-join"
<1>1. /\ DOMAIN Addons = 1..6 /\ Len(Addons) = 6
      /\ Addons[1] = CustomResourceDefinitions /\ Addons[2] = Namespaces
      /\ Addons[3] = Permissions /\ Addons[4] = KubeProxy
      /\ Addons[5] = CoreDNS /\ Addons[6] = JoinPublicKeyConfigMap
  BY DEF Addons
<1>2. /\ Len(CustomResourceDefinitions) = 1 /\ CustomResourceDefinitions[1] = "nodejoinrequests"
      /\ DOMAIN CustomResourceDefinitions = 1..1
  BY DEF CustomResourceDefinitions, NodeJoinRequestsCRD, NodeJoinRequestsCRDLegacy
<1>3. /\ Len(Permissions) = 5 /\ DOMAIN Permissions = 1..5
      /\ Permissions[1] = "requester-clusterrole"
      /\ Permissions[2] = "requester-clusterrolebinding"
      /\ Permissions[3] = "requester-role" /\ Permissions[4] = "requester-rolebinding"
      /\ Permissions[5] = "kubelet-proxier-binding"
  BY DEF Permissions, NodeJoinRequestsPermissions, NodeJoinConfigMapPermissions,
         KubeletProxierPermissions
<1>4. /\ Len(KubeProxy) = 3 /\ DOMAIN KubeProxy = 1..3
      /\ KubeProxy[1] = "kube-proxy-account" /\ KubeProxy[2] = "kube-proxy-binding"
      /\ KubeProxy[3] = "kube-proxy-daemonset"
  BY DEF KubeProxy, KubeProxyPermissions
<1>5. /\ Len(CoreDNS) = 6 /\ DOMAIN CoreDNS = 1..6
      /\ CoreDNS[1] = "coredns-account" /\ CoreDNS[2] = "coredns-role"
      /\ CoreDNS[3] = "coredns-binding" /\ CoreDNS[4] = "coredns-configmap"
      /\ CoreDNS[5] = "coredns-deployment" /\ CoreDNS[6] = "kube-dns"
  BY DEF CoreDNS, CoreDNSPermissions, CoreDNSConfigMap, CoreDNSDeployment, CoreDNSService
<1>6. /\ Len(Namespaces) = 1 /\ DOMAIN Namespaces = 1..1 /\ Namespaces[1] = "oneinfra-system"
      /\ Len(JoinPublicKeyConfigMap) = 1 /\ DOMAIN JoinPublicKeyConfigMap = 1..1
      /\ JoinPublicKeyConfigMap[1] = "oneinfra-join"
  BY DEF Namespaces, JoinPublicKeyConfigMap
<1>7. QED
  BY <1>1, <1>2, <1>3, <1>4, <1>5, <1>6

\* No add-on is empty.
LEMMA AddonLength == \A a \in 1..6 : Len(Addons[a]) \in Nat \ {0}
BY AddonsListed

\* Where an object is in the add-ons, for those that need others or are needed.
LEMMA Position ==
    ASSUME NEW a \in 1..6, NEW i \in 1..Len(Addons[a])
    PROVE  /\ Addons[a][i] = "requester-clusterrolebinding" => a = 3 /\ i = 2
           /\ Addons[a][i] = "requester-rolebinding" => a = 3 /\ i = 4
           /\ Addons[a][i] = "kube-proxy-daemonset" => a = 4 /\ i = 3
           /\ Addons[a][i] = "coredns-deployment" => a = 5 /\ i = 5
           /\ Addons[a][i] = "kube-dns" => a = 5 /\ i = 6
<1>1. CASE a \in {1, 2, 6}
  BY <1>1, AddonsListed, SMTT(30)
<1>2. CASE a = 3
  BY <1>2, AddonsListed
<1>3. CASE a = 4
  BY <1>3, AddonsListed
<1>4. CASE a = 5
  BY <1>4, AddonsListed
<1> QED
  BY <1>1, <1>2, <1>3, <1>4

\* An add-on lists what an object needs before the object.
LEMMA NeedsBefore ==
    ASSUME NEW a \in 1..6, NEW i \in 1..Len(Addons[a]), NEW o \in Needs(Addons[a][i])
    PROVE  \E j \in 1..(i - 1) : Addons[a][j] = o
<1> DEFINE n == Addons[a][i]
<1>1. CASE n = "requester-clusterrolebinding"
  <2>1. o = "requester-clusterrole"
    BY <1>1 DEF Needs
  <2> QED
    BY <1>1, <2>1, Position, AddonsListed, SMTT(30)
<1>2. CASE n = "requester-rolebinding"
  <2>1. o = "requester-role"
    BY <1>2 DEF Needs
  <2> QED
    BY <1>2, <2>1, Position, AddonsListed, SMTT(30)
<1>3. CASE n = "kube-proxy-daemonset"
  <2>1. o \in {"kube-proxy-account", "kube-proxy-binding"}
    BY <1>3 DEF Needs
  <2> QED
    BY <1>3, <2>1, Position, AddonsListed, SMTT(30)
<1>4. CASE n = "coredns-deployment"
  <2>1. o \in {"coredns-account", "coredns-role", "coredns-binding", "coredns-configmap"}
    BY <1>4 DEF Needs
  <2>2. a = 5 /\ i = 5
    BY <1>4, Position
  <2> QED
    BY <2>1, <2>2, AddonsListed
<1>5. CASE n \notin {"requester-clusterrolebinding", "requester-rolebinding",
                     "kube-proxy-daemonset", "coredns-deployment"}
  BY <1>5 DEF Needs
<1> QED
  BY <1>1, <1>2, <1>3, <1>4, <1>5

\* Every object is one of an add-on.
LEMMA ObjectListed ==
    ASSUME NEW s, \A a \in 1..6 : Installed(a, s)
    PROVE  Object \ {"kube-dns"} \subseteq s
<1> SUFFICES ASSUME NEW o \in Object, o # "kube-dns" PROVE o \in s
  OBVIOUS
<1>1. PICK a \in DOMAIN Addons : o \in {Addons[a][i] : i \in DOMAIN Addons[a]}
  BY DEF Object
<1>2. a \in 1..6 /\ DOMAIN Addons[a] = 1..Len(Addons[a])
  BY AddonsListed
<1> QED
  BY <1>1, <1>2 DEF Installed

-----------------------------------------------------------------------------

\* At the first object of an add-on.
LEMMA FirstPlaced ==
    ASSUME NEW w, w = [f \in Field |-> w[f]], w.addon \in 1..7, w.step = 1
    PROVE  /\ Placed(w)
           /\ \A s : (w.succeeded => \A a \in 1..(w.addon - 1) : Installed(a, s))
                      => Behind(w, s)
<1>1. w.addon < 7 => 1 <= Len(Addons[w.addon])
  BY AddonLength, SMTT(30)
<1>2. Placed(w)
  BY <1>1 DEF Placed
<1> QED
  BY <1>2 DEF Behind

\* What is created in the meantime does not hurt.
LEMMA BehindGrows ==
    ASSUME NEW w, NEW s, NEW t, s \subseteq t, Placed(w), Behind(w, s)
    PROVE  Behind(w, t)
BY Zenon DEF Placed, Behind, Installed

\* A pass that begins has nothing to answer for.
LEMMA IdleBehind ==
    /\ Placed(Idle) /\ \A s : Behind(Idle, s)
    /\ Placed([Idle EXCEPT !.running = TRUE, !.fresh = TRUE])
    /\ \A s : Behind([Idle EXCEPT !.running = TRUE, !.fresh = TRUE], s)
<1> DEFINE w == [Idle EXCEPT !.running = TRUE, !.fresh = TRUE]
<1>1. Idle = [f \in Field |-> Idle[f]] /\ Idle.addon = 1 /\ Idle.step = 1
  BY DEF Field, Idle
<1>2. w = [f \in Field |-> w[f]] /\ w.addon = 1 /\ w.step = 1
  BY Zenon DEF Field, Idle
<1> HIDE DEF w
<1> QED
  <2>1. ASSUME NEW v, v = [f \in Field |-> v[f]], v.addon = 1, v.step = 1
        PROVE  Placed(v) /\ \A s : Behind(v, s)
    BY <2>1, FirstPlaced
  <2> QED
    BY <1>1, <1>2, <2>1, Zenon DEF w

\* Past the object it is at.
LEMMA AdvanceBehind ==
    ASSUME NEW w, NEW s, Placed(w), w.addon < 7
    PROVE  /\ Placed(Advance(w))
           /\ Behind(w, s) /\ At(w) \in s \cup {"kube-dns"} => Behind(Advance(w), s)
<1>1. CASE w.step < Len(Addons[w.addon])
  <2> DEFINE v == Advance(w)
  <2>1. /\ v = [f \in Field |-> v[f]] /\ v.step = w.step + 1
        /\ v.addon = w.addon /\ v.succeeded = w.succeeded
    BY <1>1 DEF Advance, Placed, Field
  <2> HIDE DEF v
  <2>2. Placed(v)
    BY <1>1, <2>1 DEF Placed
  <2>3. ASSUME Behind(w, s), At(w) \in s \cup {"kube-dns"}
        PROVE  Behind(v, s)
    <3>1. w.addon \in 1..6 /\ w.step \in 1..Len(Addons[w.addon])
      BY <1>1, AddonLength DEF Placed
    <3>2. At(w) = "kube-dns" => w.addon = 5 /\ w.step = 6
      BY <3>1, Position DEF At
    <3>3. At(w) # "kube-dns"
      <4>1. SUFFICES ASSUME At(w) = "kube-dns" PROVE FALSE
        OBVIOUS
      <4>2. w.addon = 5 /\ w.step = 6
        BY <3>2, <4>1
      <4>3. 6 < Len(Addons[5])
        BY <1>1, <4>2
      <4> QED
        BY <4>3, AddonsListed
    <3>4. \A i \in 1..(w.step - 1) : Addons[w.addon][i] \in s
      BY <2>3, <3>1 DEF Behind
    <3>5. \A i \in 1..w.step : Addons[w.addon][i] \in s
      BY <2>3, <3>1, <3>3, <3>4 DEF At
    <3> QED
      BY <2>1, <2>3, <3>1, <3>5 DEF Behind
  <2> QED
    BY <2>2, <2>3 DEF v
<1>2. CASE ~ (w.step < Len(Addons[w.addon]))
  <2> DEFINE v == Advance(w)
  <2>1. /\ v = [f \in Field |-> v[f]] /\ v.step = 1
        /\ v.addon = w.addon + 1 /\ v.succeeded = w.succeeded
    BY <1>2, Zenon DEF Advance, NextAddon, Placed, Field
  <2> HIDE DEF v
  <2>2. w.step = Len(Addons[w.addon]) /\ w.addon \in 1..6
    BY <1>2, AddonLength DEF Placed
  <2>3. Placed(v)
    BY <2>1, <2>2, FirstPlaced
  <2>4. ASSUME Behind(w, s), At(w) \in s \cup {"kube-dns"}
        PROVE  Behind(v, s)
    <3>1. Installed(w.addon, s)
      BY <2>2, <2>4 DEF Placed, Behind, At, Installed
    <3> QED
      BY <2>1, <2>2, <2>4, <3>1, FirstPlaced DEF Behind
  <2> QED
    BY <2>3, <2>4 DEF v
<1> QED
  BY <1>1, <1>2

\* An error leaves nothing behind that the pass would answer for.
LEMMA AbandonBehind ==
    ASSUME NEW w, NEW s, Placed(w), w.addon < 7
    PROVE  Placed(Abandon(w)) /\ Behind(Abandon(w), s)
<1> DEFINE v == Abandon(w)
<1>1. /\ v = [f \in Field |-> v[f]] /\ v.step = 1
      /\ v.addon = w.addon + 1 /\ v.succeeded = FALSE
  BY Zenon DEF Abandon, NextAddon, Placed, Field
<1> HIDE DEF v
<1> QED
  BY <1>1, FirstPlaced DEF Placed, v

\* After a failed creation.
LEMMA ErrorBehind ==
    ASSUME NEW w, NEW s, Placed(w), w.addon < 7
    PROVE  /\ Placed(AfterError(w))
           /\ Behind(w, s) => Behind(AfterError(w), s)
BY AdvanceBehind, AbandonBehind DEF AfterError

\* The creation of the object a pass is at leaves no object without what it needs.
LEMMA CreateSupported ==
    ASSUME NEW w, NEW s, Placed(w), w.addon < 7, Behind(w, s), Supported(s)
    PROVE  Supported(s \cup {At(w)})
<1>1. w.addon \in 1..6 /\ w.step \in 1..Len(Addons[w.addon])
  BY AddonLength DEF Placed
<1>2. \A o \in Needs(At(w)) : \E i \in 1..(w.step - 1) : Addons[w.addon][i] = o
  BY <1>1, NeedsBefore, Zenon DEF At
<1>3. \A i \in 1..(w.step - 1) : Addons[w.addon][i] \in s
  BY <1>1 DEF Behind
<1>4. Needs(At(w)) \subseteq s
  BY <1>2, <1>3
<1> QED
  BY <1>4 DEF Supported

-----------------------------------------------------------------------------

\* Nothing is installed and no pass runs.
LEMMA AddonsInit == Init => AddonsInv
<1> SUFFICES ASSUME Init PROVE AddonsInv
  OBVIOUS
<1>1. /\ objects = {} /\ terminating = FALSE /\ deletions = 0
      /\ conditions = [type \in {"ReconcileStarted", "ReconcileSucceeded"} |-> "Unknown"]
      /\ pass = [m \in Manager |-> Idle]
  BY DEF Init
<1>2. conditions["ReconcileSucceeded"] = "Unknown"
  BY <1>1
<1>3. pass = [m \in Manager |-> pass[m]] /\ \A m \in Manager : pass[m] = Idle
  BY <1>1
<1>4. conditions = [type \in {"ReconcileStarted", "ReconcileSucceeded"} |-> conditions[type]]
  BY <1>1
<1> QED
  BY <1>1, <1>2, <1>3, <1>4, IdleBehind DEF AddonsInv, Supported

\* Manager m goes on with pass w while objects are only added.
LEMMA PassMoves ==
    ASSUME AddonsInv, NEW m \in Manager, NEW w,
           pass' = [pass EXCEPT ![m] = w], Placed(w),
           objects \subseteq objects', UNCHANGED <<terminating, conditions, deletions>>,
           deletions = 0 => Supported(objects') /\ Behind(w, objects')
    PROVE  AddonsInv'
<1>1. /\ pass' = [n \in Manager |-> pass'[n]]
      /\ \A n \in Manager : pass'[n] = IF n = m THEN w ELSE pass[n]
  BY DEF AddonsInv
<1>2. \A n \in Manager : Placed(pass'[n])
  BY <1>1 DEF AddonsInv
<1>3. ASSUME deletions = 0, NEW n \in Manager
      PROVE  Behind(pass'[n], objects')
  <2>1. CASE n = m
    BY <1>1, <1>3, <2>1
  <2>2. CASE n # m
    BY <1>1, <1>3, <2>2, BehindGrows DEF AddonsInv
  <2> QED
    BY <2>1, <2>2
<1>4. \A a \in 1..6 : Installed(a, objects) => Installed(a, objects')
  BY DEF Installed
<1> QED
  BY <1>1, <1>2, <1>3, <1>4 DEF AddonsInv

\* The objects a pass is at are those of an add-on.
LEMMA BusyPlaced ==
    ASSUME AddonsInv, NEW m \in Manager, Busy(m)
    PROVE  Placed(pass[m]) /\ pass[m].addon < 7
BY AddonsListed DEF AddonsInv, Busy, Done, Placed

\* A pass overtaken by the write of another one.
Overtaken(w) == [w EXCEPT !.fresh = FALSE]

\* It is where it was.
LEMMA OvertakenBehind ==
    ASSUME NEW w, Placed(w)
    PROVE  Placed(Overtaken(w)) /\ \A s : Behind(w, s) => Behind(Overtaken(w), s)
<1> DEFINE v == Overtaken(w)
<1>1. /\ v = [f \in Field |-> v[f]] /\ v.succeeded = w.succeeded
      /\ v.addon = w.addon /\ v.step = w.step
  BY Zenon DEF Placed, Field, Overtaken
<1> HIDE DEF v
<1> QED
  BY <1>1, Zenon DEF Placed, Behind, v

\* A pass that reports success has the add-ons behind it.
LEMMA EndKeepsInv ==
    ASSUME AddonsInv, NEW m \in Manager, End(m)
    PROVE  AddonsInv'
<1>1. UNCHANGED <<objects, terminating, deletions>>
  BY DEF End, bounds
<1>2. CASE pass[m].succeeded /\ pass[m].fresh
  <2>1. /\ conditions' = Reported(pass[m]) /\ Done(pass[m])
        /\ pass' = [n \in Manager |-> IF n = m THEN Idle
                                      ELSE [pass[n] EXCEPT !.fresh = FALSE]]
    BY <1>2 DEF End
  <2>2. conditions' = [type \in {"ReconcileStarted", "ReconcileSucceeded"} |-> conditions'[type]]
    BY <2>1, Zenon DEF Reported, SetCondition, AddonsInv
  <2>3. deletions = 0 => \A a \in 1..6 : Installed(a, objects)
    <3>1. pass[m].addon = 7
      <4>1. Placed(pass[m]) /\ pass[m].addon > 6
        BY <2>1, AddonsListed DEF AddonsInv, Done
      <4> QED
        BY <4>1 DEF Placed
    <3> QED
      BY <1>2, <3>1 DEF AddonsInv, Behind
  <2>4. /\ pass' = [n \in Manager |-> pass'[n]]
        /\ \A n \in Manager :
              pass'[n] = IF n = m THEN Idle ELSE Overtaken(pass[n])
    BY <2>1, Zenon DEF Overtaken
  <2>5. \A n \in Manager : /\ Placed(pass'[n])
                           /\ deletions = 0 => Behind(pass'[n], objects)
    <3> SUFFICES ASSUME NEW n \in Manager
                 PROVE  Placed(pass'[n]) /\ (deletions = 0 => Behind(pass'[n], objects))
      OBVIOUS
    <3>1. CASE n = m
      BY <2>4, <3>1, IdleBehind, Zenon
    <3>2. CASE n # m
      <4>1. Placed(pass[n]) /\ (deletions = 0 => Behind(pass[n], objects))
        BY DEF AddonsInv
      <4> QED
        BY <2>4, <3>2, <4>1, OvertakenBehind, Zenon
    <3> QED
      BY <3>1, <3>2
  <2> QED
    BY <1>1, <2>2, <2>3, <2>4, <2>5 DEF AddonsInv
<1>3. CASE ~ (pass[m].succeeded /\ pass[m].fresh)
  <2>1. pass' = [pass EXCEPT ![m] = Idle] /\ UNCHANGED conditions
    BY <1>3 DEF End
  <2>2. deletions = 0 => Supported(objects')
    BY <1>1 DEF AddonsInv
  <2> QED
    BY <1>1, <2>1, <2>2, IdleBehind, PassMoves, Zenon
<1> QED
  BY <1>2, <1>3

\* The steps of the passes.
LEMMA PassKeepsInv ==
    ASSUME AddonsInv, NEW m \in Manager,
           PassStep(m) \/ CreateFails(m) \/ FailElsewhere(m) \/ Crash(m)
    PROVE  AddonsInv'
<1>1. CASE Begin(m)
  <2> DEFINE w == [Idle EXCEPT !.running = TRUE, !.fresh = TRUE]
  <2>1. /\ pass' = [pass EXCEPT ![m] = w]
        /\ UNCHANGED <<objects, terminating, conditions, deletions>>
    BY <1>1 DEF Begin, bounds
  <2>2. Placed(w) /\ \A s : Behind(w, s)
    BY IdleBehind
  <2>3. deletions = 0 => Supported(objects')
    BY <2>1 DEF AddonsInv
  <2> HIDE DEF w
  <2> QED
    BY <2>1, <2>2, <2>3, PassMoves, Zenon
<1>2. CASE Create(m)
  <2> DEFINE w == pass[m]
  <2>1. /\ pass' = [pass EXCEPT ![m] = Advance(w)] /\ objects' = objects \cup {At(w)}
        /\ UNCHANGED <<terminating, conditions, deletions>> /\ Busy(m)
    BY <1>2 DEF Create, bounds
  <2>2. Placed(w) /\ w.addon < 7
    BY <2>1, BusyPlaced
  <2>3. deletions = 0 => Behind(w, objects) /\ Supported(objects)
    BY DEF AddonsInv
  <2> HIDE DEF w
  <2>4. deletions = 0 => Supported(objects') /\ Behind(w, objects')
    BY <2>1, <2>2, <2>3, CreateSupported, BehindGrows
  <2>5. Placed(Advance(w)) /\ (deletions = 0 => Behind(Advance(w), objects'))
    BY <2>1, <2>2, <2>4, AdvanceBehind
  <2> QED
    BY <2>1, <2>4, <2>5, PassMoves, Zenon
<1>3. CASE Refuse(m) \/ CreateFails(m)
  <2> DEFINE w == pass[m]
  <2>1. /\ pass' = [pass EXCEPT ![m] = AfterError(w)]
        /\ objects' = objects \/ objects' = objects \cup {At(w)}
        /\ UNCHANGED <<terminating, conditions, deletions>> /\ Busy(m)
    BY <1>3 DEF Refuse, CreateFails, bounds
  <2>2. Placed(w) /\ w.addon < 7
    BY <2>1, BusyPlaced
  <2>3. deletions = 0 => Behind(w, objects) /\ Supported(objects)
    BY DEF AddonsInv
  <2> HIDE DEF w
  <2>4. deletions = 0 => Supported(objects') /\ Behind(w, objects')
    BY <2>1, <2>2, <2>3, CreateSupported, BehindGrows
  <2>5. Placed(AfterError(w)) /\ (deletions = 0 => Behind(AfterError(w), objects'))
    BY <2>2, <2>4, ErrorBehind
  <2> QED
    BY <2>1, <2>4, <2>5, PassMoves, Zenon
<1>4. CASE FailElsewhere(m)
  <2> DEFINE w == [pass[m] EXCEPT !.succeeded = FALSE]
  <2>1. /\ pass' = [pass EXCEPT ![m] = w]
        /\ UNCHANGED <<objects, terminating, conditions, deletions>>
    BY <1>4, Zenon DEF FailElsewhere
  <2>2. Placed(pass[m]) /\ (deletions = 0 => Behind(pass[m], objects) /\ Supported(objects))
    BY DEF AddonsInv
  <2>3. /\ w = [f \in Field |-> w[f]] /\ ~ w.succeeded
        /\ w.addon = pass[m].addon /\ w.step = pass[m].step
    BY <2>2, Zenon DEF Placed, Field
  <2> HIDE DEF w
  <2>4. Placed(w) /\ (deletions = 0 => Behind(w, objects))
    BY <2>2, <2>3, Zenon DEF Placed, Behind
  <2> QED
    BY <2>1, <2>2, <2>4, PassMoves, Zenon
<1>5. CASE Crash(m)
  BY <1>5, IdleBehind, PassMoves DEF Crash, AddonsInv
<1>6. CASE End(m)
  BY <1>6, EndKeepsInv
<1> QED
  BY <1>1, <1>2, <1>3, <1>4, <1>5, <1>6 DEF PassStep

\* The managed cluster loses something only after a deletion.
LEMMA ClusterKeepsInv ==
    ASSUME AddonsInv, (\E o \in Object : Delete(o)) \/ TerminateNamespace
    PROVE  AddonsInv'
<1>1. UNCHANGED <<pass, conditions>> /\ deletions' \in Nat
  BY DEF AddonsInv, Delete, TerminateNamespace, RemoveNamespace, EmptyNamespace, bounds
<1>2. deletions' # 0
  <2>1. CASE \E o \in Object : Delete(o)
    BY <2>1 DEF AddonsInv, Delete
  <2>2. CASE TerminateNamespace
    BY <2>2 DEF AddonsInv, TerminateNamespace, RemoveNamespace, EmptyNamespace, bounds
  <2> QED
    BY <2>1, <2>2
<1> QED
  BY <1>1, <1>2 DEF AddonsInv

\* Every step keeps the invariant.
LEMMA AddonsNext == AddonsInv /\ [Next]_vars => AddonsInv'
<1> SUFFICES ASSUME AddonsInv, [Next]_vars PROVE AddonsInv'
  OBVIOUS
<1>1. CASE UNCHANGED vars
  BY <1>1 DEF vars, AddonsInv
<1> QED
  BY <1>1, PassKeepsInv, ClusterKeepsInv DEF Next

\* A pass is at one of its add-ons and has behind it what it did not fail to create,
\* for any number of managers, service networks and refused objects.
THEOREM AddonsInvariant == Spec => []AddonsInv
BY AddonsInit, AddonsNext, PTL DEF Spec

\* Whatever calls fail and however the passes of any number of managers interleave,
\* no object is created before the ones it needs.
THEOREM NeedsComeFirst == Spec => []NeedsFirst
<1>1. AddonsInv => NeedsFirst
  BY DEF AddonsInv, NeedsFirst, Supported
<1> QED
  BY <1>1, AddonsInvariant, PTL

\* The condition ReconcileSucceeded stands for the add-ons being there, whichever
\* manager set it and whatever became of the passes of the others.
THEOREM SuccessStands == Spec => []SuccessIsComplete
<1>1. AddonsInv => SuccessIsComplete
  BY ObjectListed DEF AddonsInv, SuccessIsComplete
<1> QED
  BY <1>1, AddonsInvariant, PTL

-----------------------------------------------------------------------------
(***************************************************************************)
(* The addresses of the service network: what becomes of the offsets at    *)
(* the end of a byte.                                                      *)
(***************************************************************************)

\* In a network of 16 addresses or more (a /28 or larger) the sum never leaves the
\* byte: the addresses of CoreDNS and of the API server, which KubernetesServiceIP
\* puts into its certificate, lie in the network, and are two.
THEOREM ServiceAddressesFit ==
    ASSUME NEW net \in Network, net.size >= 16
    PROVE  /\ Contains(net, KubernetesServiceIP(net))
           /\ Contains(net, CoreDNSServiceIP(net))
           /\ KubernetesServiceIP(net) # CoreDNSServiceIP(net)
<1>1. net.last \in 0..255 /\ net.size \in {16, 32, 64, 128, 256} /\ net.last % net.size = 0
  BY DEF Network, Byte
<1>2. net.last <= 240
  <2>1. net.last % 16 = 0
    BY <1>1
  <2>2. QED
    BY <1>1, <2>1
<1> QED
  BY <1>1, <1>2 DEF Contains, KubernetesServiceIP, CoreDNSServiceIP

\* In a smaller one CoreDNSServiceIP is never an address of the network: the managed
\* cluster refuses the Service, and reconcileCoreDNSService drops its error.
THEOREM SmallNetworkLacksDNS ==
    ASSUME NEW net \in Network, net.size < 16
    PROVE  ~ Contains(net, CoreDNSServiceIP(net))
<1>1. net.last \in 0..255 /\ net.size \in {1, 2, 4, 8}
  BY DEF Network, Byte
<1> QED
  BY <1>1 DEF Contains, CoreDNSServiceIP

-----------------------------------------------------------------------------
(***************************************************************************)
(* Node join requests.                                                     *)
(***************************************************************************)

CONSTANTS Node, Joining, Token, VPNEnabled, Addresses, MaxJoins, MaxEdits
VARIABLES cluster, secrets, configMap, requests, nodes, reconciler, issuer, due, edits,
          joinFaults

Nodes == INSTANCE NodeJoin WITH faults <- joinFaults

\* Worker w has the fields of IdleIssuer.
IssuerField == {"pc", "joinKey", "peers", "todo", "fresh"}
Shaped(w) == w = [f \in IssuerField |-> w[f]]

\* There is one worker per manager.
IssuerShape ==
    /\ issuer = [m \in Manager |-> issuer[m]]
    /\ \A m \in Manager : Shaped(issuer[m])

\* There is one request per node.
RequestShape == requests = [n \in Node |-> requests[n]]

\* A request that a manager has listed, and whose copy is not outdated, is pending:
\* the resource version it carries is the current one, and an answer would have
\* replaced that.
FreshIsPending ==
    \A m \in Manager : \A n \in Node :
       n \in issuer[m].fresh => requests[n].phase = "pending"

AnswerInv == IssuerShape /\ RequestShape /\ FreshIsPending

\* A worker at the beginning and at the end of its pass.
LEMMA IdleShaped == Shaped(Nodes!IdleIssuer) /\ Nodes!IdleIssuer.fresh = {}
  BY DEF Nodes!IdleIssuer, Shaped, IssuerField

\* Initially nobody has listed anything.
LEMMA AnswerInit == Nodes!Init => AnswerInv
  BY IdleShaped DEF Nodes!Init, AnswerInv, IssuerShape, RequestShape, FreshIsPending

\* Worker w holds nothing to be fresh that worker v does not.
Follows(w, v) == Shaped(w) /\ w.fresh \subseteq v.fresh

\* What a worker does in its pass does not make it hold more.
LEMMA WorkerFollows ==
    ASSUME NEW w, NEW v, NEW n, Follows(w, v)
    PROVE  /\ Follows([w EXCEPT !.todo = @ \ {n}], v)
           /\ Follows(Nodes!Answered(w, n), v)
           /\ Follows(Nodes!Remaining(w), v)
<1>1. Follows([w EXCEPT !.todo = @ \ {n}], v)
  BY DEF Follows, Shaped, IssuerField
<1>2. Follows(Nodes!Answered(w, n), v)
  BY Zenon DEF Follows, Nodes!Answered, Shaped, IssuerField
<1>3. Follows(Nodes!Remaining(w), v)
  BY IdleShaped DEF Follows, Nodes!Remaining
<1>4. QED
  BY <1>1, <1>2, <1>3

\* A worker is like itself.
LEMMA Itself ==
    ASSUME AnswerInv, NEW m \in Manager
    PROVE  Follows(issuer[m], issuer[m])
  BY DEF AnswerInv, IssuerShape, Follows

\* A step that replaces one worker by one that holds no more.
LEMMA OneFollows ==
    ASSUME AnswerInv, NEW m \in Manager, NEW w, Follows(w, issuer[m]),
           issuer' = [issuer EXCEPT ![m] = w]
    PROVE  /\ issuer' = [k \in Manager |-> issuer'[k]]
           /\ \A k \in Manager : Follows(issuer'[k], issuer[k])
<1>1. \A k \in Manager : issuer'[k] = IF k = m THEN w ELSE issuer[k]
  BY DEF AnswerInv, IssuerShape
<1>2. issuer' = [k \in Manager |-> issuer'[k]]
  BY DEF AnswerInv, IssuerShape
<1>3. QED
  BY <1>1, <1>2, Itself

\* A step that leaves the requests alone and lets no worker hold more than before.
LEMMA Quiet ==
    ASSUME AnswerInv, requests' = requests,
           issuer' = [m \in Manager |-> issuer'[m]],
           \A m \in Manager : Follows(issuer'[m], issuer[m])
    PROVE  AnswerInv'
  BY DEF AnswerInv, IssuerShape, RequestShape, FreshIsPending, Follows

\* A step that leaves both alone.
LEMMA Unmoved ==
    ASSUME AnswerInv, UNCHANGED <<requests, issuer>>
    PROVE  AnswerInv'
  BY DEF AnswerInv, IssuerShape, RequestShape, FreshIsPending

\* No answer is replaced in this step.
AnswersStay == \A n \in Node : requests[n].phase = "issued" => requests'[n] = requests[n]

\* Users, the cluster reconciler and a node that has made its request touch neither
\* the requests nor the workers that answer them.
LEMMA OthersStep ==
    ASSUME AnswerInv, Nodes!Next,
           ~ \E n \in Node : \E t \in Token : Nodes!Join(n, t),
           ~ \E m \in Manager : Nodes!IssuerStep(m) \/ Nodes!IssuerFails(m) \/ Nodes!Crash(m)
    PROVE  AnswerInv' /\ AnswersStay
<1>1. UNCHANGED <<requests, issuer>>
  <2>1. CASE Nodes!Users
    BY <2>1, Zenon DEF Nodes!Users, Nodes!RotateJoinKey, Nodes!DeleteConfigMap,
                       Nodes!InjectToken, Nodes!DropToken, Nodes!DeleteSecret, Nodes!managed
  <2>2. CASE \E n \in Node : Nodes!NodeStep(n)
    BY <2>2 DEF Nodes!NodeStep, Nodes!Run, Nodes!Poll, Nodes!TimeOut, Nodes!SetupWireguard,
                Nodes!WriteCredentials, Nodes!StartKubelet, Nodes!SetupFails, Nodes!KeyLost,
                Nodes!Reinstall, Nodes!managed
  <2>3. CASE \E m \in Manager : Nodes!ReconcilerStep(m)
    BY <2>3, Zenon DEF Nodes!ReconcilerStep, Nodes!ReconcilerGet, Nodes!ReconcilerList,
                       Nodes!PublishJoinKey, Nodes!ReconcilerWrite, Nodes!CreateToken,
                       Nodes!RemoveToken, Nodes!managed
  <2>4. CASE \E m \in Manager : \E t \in Token : Nodes!TokenFails(m, t)
    BY <2>4 DEF Nodes!TokenFails, Nodes!managed
  <2>5. QED
    BY <2>1, <2>2, <2>3, <2>4 DEF Nodes!Next
<1>2. QED
  BY <1>1, Unmoved DEF AnswersStay

\* A new request is made only where there is none.
LEMMA JoinStep ==
    ASSUME AnswerInv, NEW n \in Node, NEW t \in Token, Nodes!Join(n, t)
    PROVE  AnswerInv' /\ AnswersStay
<1>1. issuer' = issuer
  BY DEF Nodes!Join
<1>2. CASE requests[n].phase # "none"
  <2>1. requests' = requests
    BY <1>2 DEF Nodes!Join
  <2>2. QED
    BY <1>1, <2>1, Unmoved DEF AnswersStay
<1>3. CASE requests[n].phase = "none"
  <2>1. requests' = [requests EXCEPT ![n] = Nodes!NewRequest(n)]
    BY <1>3 DEF Nodes!Join
  <2>2. Nodes!NewRequest(n).phase = "pending"
    BY DEF Nodes!NewRequest, Nodes!NoRequest
  <2>3. QED
    BY <1>1, <1>3, <2>1, <2>2
       DEF AnswerInv, IssuerShape, RequestShape, FreshIsPending, AnswersStay
<1>4. QED
  BY <1>2, <1>3

\* The steps of an issuer that write nothing.
LEMMA SilentIssuerStep ==
    ASSUME AnswerInv, NEW m \in Manager,
           \/ Nodes!IssuerGet(m) \/ Nodes!IssuerFails(m) \/ Nodes!Crash(m)
           \/ \E n \in Node : Nodes!IssueFails(m, n) \/ Nodes!SkipRequest(m, n)
    PROVE  AnswerInv' /\ AnswersStay
<1>1. requests' = requests
  BY Zenon DEF Nodes!IssuerGet, Nodes!IssuerFails, Nodes!Crash, Nodes!IssueFails,
               Nodes!SkipRequest, Nodes!managed
<1>2. issuer' = [k \in Manager |-> issuer'[k]]
         /\ \A k \in Manager : Follows(issuer'[k], issuer[k])
  <2>1. CASE Nodes!IssuerGet(m)
    <3>1. CASE issuer' = issuer
      BY <3>1, Itself DEF AnswerInv, IssuerShape
    <3>2. CASE issuer' # issuer
      <4> DEFINE w == [Nodes!IdleIssuer EXCEPT !.pc = "list", !.joinKey = cluster.joinKey,
                                         !.peers = cluster.peers]
      <4>1. issuer' = [issuer EXCEPT ![m] = w]
        BY <2>1, <3>2 DEF Nodes!IssuerGet
      <4>2. Follows(w, issuer[m])
        BY IdleShaped, Zenon DEF Follows, Shaped, IssuerField
      <4>3. QED
        BY <4>1, <4>2, OneFollows, Zenon
    <3>3. QED
      BY <3>1, <3>2
  <2>2. CASE Nodes!IssuerFails(m)
    <3>1. Follows(Nodes!Remaining(Nodes!IdleIssuer), issuer[m])
      BY IdleShaped DEF Follows, Nodes!Remaining
    <3>2. QED
      BY <2>2, <3>1, OneFollows, Zenon DEF Nodes!IssuerFails, Nodes!Proceed
  <2>3. CASE Nodes!Crash(m)
    <3>1. Follows(Nodes!IdleIssuer, issuer[m])
      BY IdleShaped DEF Follows
    <3>2. QED
      BY <2>3, <3>1, OneFollows, Zenon DEF Nodes!Crash
  <2>4. ASSUME NEW n \in Node, Nodes!IssueFails(m, n)
        PROVE  issuer' = [k \in Manager |-> issuer'[k]]
                  /\ \A k \in Manager : Follows(issuer'[k], issuer[k])
    <3>1. Follows(Nodes!Remaining(Nodes!Answered(issuer[m], n)), issuer[m])
      BY Itself, WorkerFollows, Zenon
    <3>2. QED
      BY <2>4, <3>1, OneFollows, Zenon DEF Nodes!IssueFails, Nodes!Proceed
  <2>5. ASSUME NEW n \in Node, Nodes!SkipRequest(m, n)
        PROVE  issuer' = [k \in Manager |-> issuer'[k]]
                  /\ \A k \in Manager : Follows(issuer'[k], issuer[k])
    <3>1. Follows(Nodes!Remaining([issuer[m] EXCEPT !.todo = @ \ {n}]), issuer[m])
      BY Itself, WorkerFollows
    <3>2. QED
      BY <2>5, <3>1, OneFollows, Zenon DEF Nodes!SkipRequest, Nodes!Proceed
  <2>6. QED
    BY <2>1, <2>2, <2>3, <2>4, <2>5
<1>3. QED
  BY <1>1, <1>2, Quiet DEF AnswersStay

\* What is listed as pending is pending.
LEMMA IssuerListStep ==
    ASSUME AnswerInv, NEW m \in Manager, Nodes!IssuerList(m)
    PROVE  AnswerInv' /\ AnswersStay
<1> DEFINE pending == {n \in Node : requests[n].phase = "pending"}
           w == [issuer[m] EXCEPT !.pc = "issue", !.todo = pending, !.fresh = pending]
<1>1. requests' = requests /\ issuer' = [issuer EXCEPT ![m] = Nodes!Remaining(w)]
  BY DEF Nodes!IssuerList, Nodes!Proceed, Nodes!managed
<1>2. Follows(w, w) /\ w.fresh = pending
  BY Zenon DEF AnswerInv, IssuerShape, Follows, Shaped, IssuerField
<1>3. Follows(Nodes!Remaining(w), w)
  BY <1>2, WorkerFollows, Zenon
<1>4. \A k \in Manager : issuer'[k] = IF k = m THEN Nodes!Remaining(w) ELSE issuer[k]
  BY <1>1 DEF AnswerInv, IssuerShape
<1>5. FreshIsPending'
  BY <1>1, <1>2, <1>3, <1>4, ZenonT(30) DEF AnswerInv, FreshIsPending, Follows
<1>6. IssuerShape'
  BY <1>1, <1>3, <1>4, Zenon DEF AnswerInv, IssuerShape, Follows
<1>7. QED
  BY <1>1, <1>5, <1>6 DEF AnswerInv, RequestShape, AnswersStay

\* The request that is answered is fresh, so it was not answered before; afterwards
\* nobody holds it to be fresh.
LEMMA IssueRequestStep ==
    ASSUME AnswerInv, NEW m \in Manager, NEW n \in Node, Nodes!IssueRequest(m, n)
    PROVE  AnswerInv' /\ AnswersStay
<1>1. requests[n].phase = "pending"
  BY DEF Nodes!IssueRequest, AnswerInv, FreshIsPending
<1>2. requests' = [requests EXCEPT ![n] = Nodes!Issued(m, n)]
  BY DEF Nodes!IssueRequest
<1>3. issuer' = [k \in Manager |-> issuer'[k]]
         /\ \A k \in Manager : Follows(issuer'[k], issuer[k]) /\ n \notin issuer'[k].fresh
  <2> DEFINE w == Nodes!Remaining(Nodes!Answered(issuer[m], n))
             ws == [issuer EXCEPT ![m] = w]
  <2>1. issuer' = Nodes!Outdate(ws, n)
    BY DEF Nodes!IssueRequest
  <2>2. Follows(w, issuer[m])
    BY Itself, WorkerFollows, Zenon
  <2>3. \A k \in Manager : Follows(ws[k], issuer[k])
    BY <2>2, Itself DEF AnswerInv, IssuerShape
  <2>4. \A k \in Manager : issuer'[k] = [ws[k] EXCEPT !.fresh = @ \ {n}]
    BY <2>1 DEF Nodes!Outdate
  <2> HIDE DEF w, ws
  <2>5. \A k \in Manager : Follows(issuer'[k], issuer[k]) /\ n \notin issuer'[k].fresh
    <3>1. SUFFICES ASSUME NEW k \in Manager, NEW v, v = ws[k],
                          issuer'[k] = [v EXCEPT !.fresh = @ \ {n}]
                   PROVE  Follows(issuer'[k], issuer[k]) /\ n \notin issuer'[k].fresh
      BY <2>4, Zenon
    <3>2. Shaped(v) /\ v.fresh \subseteq issuer[k].fresh
      BY <2>3, <3>1 DEF Follows
    <3>3. Shaped([v EXCEPT !.fresh = @ \ {n}])
      BY <3>2 DEF Shaped, IssuerField
    <3>4. [v EXCEPT !.fresh = @ \ {n}].fresh = v.fresh \ {n}
      BY <3>2 DEF Shaped, IssuerField
    <3>5. QED
      BY <3>1, <3>2, <3>3, <3>4 DEF Follows
  <2>6. issuer' = [k \in Manager |-> issuer'[k]]
    BY <2>1 DEF Nodes!Outdate
  <2>7. QED
    BY <2>5, <2>6
<1>4. QED
  BY <1>1, <1>2, <1>3, Zenon
     DEF AnswerInv, IssuerShape, RequestShape, FreshIsPending, AnswersStay, Follows

\* Every step preserves the invariant and leaves the answers that were given alone.
LEMMA AnswerNext ==
    ASSUME AnswerInv, [Nodes!Next]_(Nodes!vars)
    PROVE  AnswerInv' /\ AnswersStay
<1>1. CASE UNCHANGED Nodes!vars
  BY <1>1, Unmoved DEF Nodes!vars, AnswersStay
<1>2. CASE Nodes!Next
  BY <1>2, OthersStep, JoinStep, SilentIssuerStep, IssuerListStep, IssueRequestStep
     DEF Nodes!IssuerStep
<1>3. QED
  BY <1>1, <1>2

\* ReconcileNodeJoinRequests answers a request once: the answer a node may have read
\* is not replaced by another one, with any number of managers that work through the
\* same requests.
THEOREM AnswersStand == Nodes!Spec => Nodes!IssuedOnce
<1>1. Nodes!Init => AnswerInv
  BY AnswerInit
<1>2. AnswerInv /\ [Nodes!Next]_(Nodes!vars) => AnswerInv'
  BY AnswerNext
<1>3. AnswerInv /\ [Nodes!Next]_(Nodes!vars) =>
         [\A n \in Node : requests[n].phase = "issued" => requests'[n] = requests[n]]_(Nodes!vars)
  BY AnswerNext DEF AnswersStay
<1>4. QED
  BY <1>1, <1>2, <1>3, PTL DEF Nodes!Spec, Nodes!IssuedOnce

-----------------------------------------------------------------------------
(***************************************************************************)
(* What a node is set up with.  A run of `oi node join' that is past its   *)
(* wait has the answer in hand, and since answers stand, so have the runs  *)
(* before it that got as far: whatever they left on the node is of the     *)
(* same answer.                                                            *)
(***************************************************************************)

RequestField == {"phase", "joinKey", "key", "address", "by"}
NodeField == {"pc", "key", "empty", "token", "joins", "answer", "address", "credentials",
              "kubelet"}

\* Without a VPN there is no address in an answer.
RequestOK(r) ==
    /\ r = [f \in RequestField |-> r[f]]
    /\ ~ VPNEnabled => r.address = 0

\* Node d has of request r what its run and the earlier ones took from the answer.
NodeOK(d, r) ==
    /\ d = [f \in NodeField |-> d[f]]
    /\ ~ VPNEnabled => d.address = 0
    /\ d.pc \in {"vpn", "credentials", "kubelet"} => d.answer = {r} /\ r.phase = "issued"
    /\ d.pc = "vpn" => VPNEnabled
    /\ d.pc \in {"credentials", "kubelet"} => d.address = r.address
    /\ d.pc = "kubelet" => d.credentials = r.by
    /\ d.kubelet => /\ r.phase = "issued"
                    /\ d.credentials = r.by /\ d.address = r.address

KubeletInv ==
    /\ nodes = [n \in Node |-> nodes[n]]
    /\ \A n \in Node : RequestOK(requests[n]) /\ NodeOK(nodes[n], requests[n])

\* What holds of a node survives what becomes of its request, as an answer stands.
LEMMA NodeKept ==
    ASSUME NEW d, NEW r, NodeOK(d, r), NEW new, r.phase = "issued" => new = r,
           RequestOK(r), RequestOK(new)
    PROVE  NodeOK(d, new)
  BY DEF NodeOK, RequestOK

\* The requests that are made and answered.
LEMMA RequestsOK ==
    ASSUME AnswerInv, KubeletInv, [Nodes!Next]_(Nodes!vars), NEW n \in Node
    PROVE  RequestOK(requests'[n])
<1>1. CASE requests' = requests
  BY <1>1 DEF KubeletInv
<1>2. ASSUME NEW k \in Node, NEW t \in Token, Nodes!Join(k, t), requests' # requests
      PROVE  RequestOK(requests'[n])
  <2>1. requests' = [requests EXCEPT ![k] = Nodes!NewRequest(k)]
    BY <1>2 DEF Nodes!Join
  <2>2. RequestOK(Nodes!NewRequest(k))
    BY Zenon DEF RequestOK, RequestField, Nodes!NewRequest, Nodes!NoRequest
  <2> QED
    BY <2>1, <2>2 DEF AnswerInv, RequestShape, KubeletInv
<1>3. ASSUME NEW m \in Manager, NEW k \in Node, Nodes!IssueRequest(m, k)
      PROVE  RequestOK(requests'[n])
  <2>1. requests' = [requests EXCEPT ![k] = Nodes!Issued(m, k)]
    BY <1>3 DEF Nodes!IssueRequest
  <2>2. RequestOK(Nodes!Issued(m, k))
    BY Zenon DEF KubeletInv, RequestOK, RequestField, Nodes!Issued
  <2> QED
    BY <2>1, <2>2 DEF AnswerInv, RequestShape, KubeletInv
<1>4. CASE UNCHANGED Nodes!vars
  BY <1>1, <1>4 DEF Nodes!vars
<1>5. CASE Nodes!Next
  <2>1. CASE \E k \in Node : \E t \in Token : Nodes!Join(k, t)
    BY <1>1, <1>2, <2>1
  <2>2. CASE \E m \in Manager : Nodes!IssuerStep(m) \/ Nodes!IssuerFails(m) \/ Nodes!Crash(m)
    BY <1>1, <1>3, <2>2, Zenon DEF Nodes!IssuerStep, Nodes!IssuerGet, Nodes!IssuerList,
                                   Nodes!IssueFails, Nodes!SkipRequest, Nodes!IssuerFails,
                                   Nodes!Crash, Nodes!managed
  <2>3. CASE \/ Nodes!Users
             \/ \E m \in Manager : \/ Nodes!ReconcilerStep(m)
                                   \/ \E t \in Token : Nodes!TokenFails(m, t)
    BY <1>1, <2>3, Zenon
       DEF Nodes!Users, Nodes!RotateJoinKey, Nodes!DeleteConfigMap, Nodes!InjectToken,
           Nodes!DropToken, Nodes!DeleteSecret, Nodes!ReconcilerStep, Nodes!ReconcilerGet,
           Nodes!ReconcilerList, Nodes!PublishJoinKey, Nodes!ReconcilerWrite,
           Nodes!CreateToken, Nodes!RemoveToken, Nodes!TokenFails, Nodes!managed
  <2>4. CASE \E k \in Node : \/ Nodes!Run(k) \/ Nodes!KeyLost(k)
                             \/ Nodes!SetupFails(k) \/ Nodes!Reinstall(k)
    BY <1>1, <2>4 DEF Nodes!Run, Nodes!Poll, Nodes!TimeOut, Nodes!SetupWireguard,
                      Nodes!WriteCredentials, Nodes!StartKubelet, Nodes!SetupFails,
                      Nodes!KeyLost, Nodes!Reinstall, Nodes!managed
  <2> QED
    BY <1>5, <2>1, <2>2, <2>3, <2>4 DEF Nodes!Next, Nodes!NodeStep
<1> QED
  BY <1>4, <1>5

\* What the run on a node makes of it.
LEMMA NodeAdvances ==
    ASSUME KubeletInv, NEW n \in Node, Nodes!NodeStep(n)
    PROVE  /\ nodes' = [k \in Node |-> nodes'[k]]
           /\ \A k \in Node \ {n} : nodes'[k] = nodes[k]
           /\ NodeOK(nodes'[n], requests[n])
<1> DEFINE d == nodes[n]
           r == requests[n]
           Made == /\ nodes' = [k \in Node |-> nodes'[k]]
                   /\ \A k \in Node \ {n} : nodes'[k] = nodes[k]
                   /\ NodeOK(nodes'[n], r)
<1>1. NodeOK(d, r) /\ RequestOK(r) /\ d = [f \in NodeField |-> d[f]]
  BY DEF KubeletInv, NodeOK
<1>2. ASSUME NEW v, nodes' = [nodes EXCEPT ![n] = v], NodeOK(v, r)
      PROVE  Made
  BY <1>2 DEF KubeletInv
<1> HIDE DEF Made
<1>3. ASSUME NEW t \in Token, Nodes!Join(n, t)
      PROVE  Made
  <2> DEFINE v == [d EXCEPT !.pc = "waiting", !.token = {t}, !.joins = @ + 1]
  <2>1. nodes' = [nodes EXCEPT ![n] = v]
    BY <1>3, Zenon DEF Nodes!Join
  <2>2. /\ v = [f \in NodeField |-> v[f]] /\ v.pc = "waiting" /\ v.kubelet = d.kubelet
        /\ v.address = d.address /\ v.credentials = d.credentials
    BY <1>1, Zenon DEF NodeField
  <2> HIDE DEF v
  <2>3. NodeOK(v, r)
    BY <1>1, <2>2 DEF NodeOK
  <2> QED
    BY <1>2, <2>1, <2>3, Zenon
<1>4. CASE Nodes!TimeOut(n) \/ Nodes!SetupFails(n)
  <2> DEFINE v == IF Nodes!TimeOut(n) THEN [d EXCEPT !.pc = "failed", !.token = {}]
                  ELSE [d EXCEPT !.pc = "failed", !.answer = {}]
  <2>1. nodes' = [nodes EXCEPT ![n] = v]
    <3>1. CASE Nodes!TimeOut(n)
      BY <3>1, Zenon DEF Nodes!TimeOut
    <3>2. CASE ~ Nodes!TimeOut(n)
      BY <1>4, <3>2, Zenon DEF Nodes!SetupFails
    <3> QED
      BY <3>1, <3>2
  <2>2. /\ v = [f \in NodeField |-> v[f]] /\ v.pc = "failed" /\ v.kubelet = d.kubelet
        /\ v.address = d.address /\ v.credentials = d.credentials
    BY <1>1, Zenon DEF NodeField
  <2> HIDE DEF v
  <2>3. NodeOK(v, r)
    BY <1>1, <2>2 DEF NodeOK
  <2> QED
    BY <1>2, <2>1, <2>3, Zenon DEF Made
<1>5. CASE Nodes!KeyLost(n)
  <2> DEFINE v == [d EXCEPT !.empty = TRUE]
  <2>1. nodes' = [nodes EXCEPT ![n] = v]
    BY <1>5, Zenon DEF Nodes!KeyLost
  <2>2. /\ v = [f \in NodeField |-> v[f]] /\ v.pc = d.pc /\ v.kubelet = d.kubelet
        /\ v.address = d.address /\ v.credentials = d.credentials /\ v.answer = d.answer
    BY <1>1, Zenon DEF NodeField
  <2> HIDE DEF v
  <2>3. NodeOK(v, r)
    BY <1>1, <2>2 DEF NodeOK
  <2> QED
    BY <1>2, <2>1, <2>3, Zenon DEF Made
<1>6. CASE Nodes!Poll(n)
  <2> DEFINE v == [d EXCEPT !.pc = IF Nodes!Readable(n) THEN Nodes!AfterAnswer(n) ELSE "failed",
                            !.token = {}, !.answer = IF Nodes!Readable(n) THEN {r} ELSE {}]
  <2>1. nodes' = [nodes EXCEPT ![n] = v] /\ r.phase = "issued"
    BY <1>6, Zenon DEF Nodes!Poll
  <2>2. /\ v = [f \in NodeField |-> v[f]] /\ v.kubelet = d.kubelet
        /\ v.address = d.address /\ v.credentials = d.credentials
        /\ \/ v.pc = Nodes!AfterAnswer(n) /\ v.answer = {r}
           \/ v.pc = "failed"
    BY <1>1, Zenon DEF NodeField
  <2> HIDE DEF v
  <2>3. NodeOK(v, r)
    BY <1>1, <2>1, <2>2 DEF NodeOK, RequestOK, Nodes!AfterAnswer
  <2> QED
    BY <1>2, <2>1, <2>3, Zenon DEF Made
<1>7. ASSUME d.pc \in {"vpn", "credentials"}
      PROVE  Nodes!Answer(n) = r
  BY <1>1, <1>7 DEF NodeOK, Nodes!Answer
<1>8. CASE Nodes!SetupWireguard(n)
  <2> DEFINE v == [d EXCEPT !.pc = "credentials", !.address = Nodes!Answer(n).address]
  <2>1. nodes' = [nodes EXCEPT ![n] = v]
    BY <1>8, Zenon DEF Nodes!SetupWireguard
  <2>2. /\ v = [f \in NodeField |-> v[f]] /\ v.pc = "credentials" /\ v.kubelet = d.kubelet
        /\ v.address = Nodes!Answer(n).address /\ v.credentials = d.credentials
        /\ v.answer = d.answer
    BY <1>1, Zenon DEF NodeField
  <2> HIDE DEF v
  <2>3. NodeOK(v, r)
    BY <1>1, <1>7, <1>8, <2>2 DEF NodeOK, Nodes!SetupWireguard
  <2> QED
    BY <1>2, <2>1, <2>3, Zenon DEF Made
<1>9. CASE Nodes!WriteCredentials(n)
  <2> DEFINE v == [d EXCEPT !.pc = "kubelet", !.credentials = Nodes!Answer(n).by]
  <2>1. nodes' = [nodes EXCEPT ![n] = v]
    BY <1>9, Zenon DEF Nodes!WriteCredentials
  <2>2. /\ v = [f \in NodeField |-> v[f]] /\ v.pc = "kubelet" /\ v.kubelet = d.kubelet
        /\ v.address = d.address /\ v.credentials = Nodes!Answer(n).by
        /\ v.answer = d.answer
    BY <1>1, Zenon DEF NodeField
  <2> HIDE DEF v
  <2>3. NodeOK(v, r)
    BY <1>1, <1>7, <1>9, <2>2 DEF NodeOK, Nodes!WriteCredentials
  <2> QED
    BY <1>2, <2>1, <2>3, Zenon DEF Made
<1>10. CASE Nodes!StartKubelet(n)
  <2> DEFINE v == [d EXCEPT !.pc = "joined", !.kubelet = TRUE, !.answer = {}]
  <2>1. nodes' = [nodes EXCEPT ![n] = v]
    BY <1>10, Zenon DEF Nodes!StartKubelet
  <2>2. /\ v = [f \in NodeField |-> v[f]] /\ v.pc = "joined"
        /\ v.address = d.address /\ v.credentials = d.credentials
    BY <1>1, Zenon DEF NodeField
  <2> HIDE DEF v
  <2>3. NodeOK(v, r)
    BY <1>1, <1>10, <2>2, Zenon DEF NodeOK, Nodes!StartKubelet
  <2> QED
    BY <1>2, <2>1, <2>3, Zenon DEF Made
<1>11. CASE Nodes!Reinstall(n)
  <2> DEFINE v == [Nodes!NewNode EXCEPT !.key = d.key + 1, !.joins = d.joins]
  <2>1. nodes' = [nodes EXCEPT ![n] = v]
    BY <1>11, Zenon DEF Nodes!Reinstall
  <2>2. NodeOK(v, r)
    BY Zenon DEF NodeOK, Nodes!NewNode, NodeField
  <2> HIDE DEF v
  <2> QED
    BY <1>2, <2>1, <2>2, Zenon DEF Made
<1> QED
  BY <1>3, <1>4, <1>5, <1>6, <1>8, <1>9, <1>10, <1>11 DEF Nodes!NodeStep, Nodes!Run, Made

\* The rest of the system does not touch the nodes.
LEMMA KubeletNext ==
    ASSUME AnswerInv, KubeletInv, [Nodes!Next]_(Nodes!vars)
    PROVE  KubeletInv'
<1>1. \A n \in Node : RequestOK(requests'[n])
  BY RequestsOK
<1>2. ASSUME NEW n \in Node, NEW d, NodeOK(d, requests[n])
      PROVE  NodeOK(d, requests'[n])
  <2>1. requests[n].phase = "issued" => requests'[n] = requests[n]
    BY AnswerNext DEF AnswersStay
  <2>2. RequestOK(requests[n]) /\ RequestOK(requests'[n])
    BY <1>1 DEF KubeletInv
  <2> QED
    BY <1>2, <2>1, <2>2, NodeKept
<1>3. CASE nodes' = nodes
  BY <1>1, <1>2, <1>3 DEF KubeletInv
<1>4. ASSUME NEW n \in Node, Nodes!NodeStep(n)
      PROVE  KubeletInv'
  <2>1. /\ nodes' = [k \in Node |-> nodes'[k]]
        /\ \A k \in Node \ {n} : nodes'[k] = nodes[k]
        /\ NodeOK(nodes'[n], requests[n])
    BY <1>4, NodeAdvances
  <2>2. \A k \in Node : NodeOK(nodes'[k], requests[k])
    BY <2>1 DEF KubeletInv
  <2> QED
    BY <1>1, <1>2, <2>1, <2>2 DEF KubeletInv
<1>5. CASE \/ Nodes!Users
           \/ \E m \in Manager : \/ Nodes!ReconcilerStep(m) \/ Nodes!IssuerStep(m)
                                 \/ Nodes!IssuerFails(m) \/ Nodes!Crash(m)
                                 \/ \E t \in Token : Nodes!TokenFails(m, t)
  <2>1. nodes' = nodes
    BY <1>5, ZenonT(30) DEF Nodes!Users, Nodes!RotateJoinKey, Nodes!DeleteConfigMap,
                            Nodes!InjectToken, Nodes!DropToken, Nodes!DeleteSecret,
                            Nodes!ReconcilerStep, Nodes!ReconcilerGet, Nodes!ReconcilerList,
                            Nodes!PublishJoinKey, Nodes!ReconcilerWrite, Nodes!CreateToken,
                            Nodes!RemoveToken, Nodes!TokenFails, Nodes!IssuerStep,
                            Nodes!IssuerGet, Nodes!IssuerList, Nodes!IssueRequest,
                            Nodes!IssueFails, Nodes!SkipRequest, Nodes!IssuerFails,
                            Nodes!Crash
  <2> QED
    BY <1>3, <2>1
<1>6. CASE UNCHANGED Nodes!vars
  BY <1>3, <1>6 DEF Nodes!vars
<1> QED
  BY <1>4, <1>5, <1>6 DEF Nodes!Next

\* A kubelet never runs on a mixture of two answers: whichever attempts of `oi node
\* join' failed or were killed half way, the address and the credentials it has are
\* those of the one answer to the request of its node.
THEOREM KubeletsHaveAnswers == Nodes!Spec => []Nodes!KubeletHasAnswer
<1>1. Nodes!Init => KubeletInv
  <2> SUFFICES ASSUME Nodes!Init PROVE KubeletInv
    OBVIOUS
  <2>1. PICK k : requests = [n \in Node |->
                               IF n \in Joining THEN Nodes!NoRequest ELSE Nodes!Abandoned(k[n])]
    BY DEF Nodes!Init
  <2>2. \A x : RequestOK(Nodes!NoRequest) /\ RequestOK(Nodes!Abandoned(x))
    BY Zenon DEF RequestOK, RequestField, Nodes!NoRequest, Nodes!Abandoned
  <2>3. \A r : NodeOK(Nodes!NewNode, r)
    BY DEF NodeOK, NodeField, Nodes!NewNode
  <2>4. nodes = [n \in Node |-> Nodes!NewNode]
    BY DEF Nodes!Init
  <2> QED
    BY <2>1, <2>2, <2>3, <2>4 DEF KubeletInv
<1>2. AnswerInv /\ KubeletInv /\ [Nodes!Next]_(Nodes!vars) => KubeletInv'
  BY KubeletNext
<1>3. Nodes!Spec => []AnswerInv
  BY AnswerInit, AnswerNext, PTL DEF Nodes!Spec
<1>4. KubeletInv => Nodes!KubeletHasAnswer
  BY DEF KubeletInv, NodeOK, Nodes!KubeletHasAnswer
<1> QED
  BY <1>1, <1>2, <1>3, <1>4, PTL DEF Nodes!Spec
=============================================================================
