----------------------------- MODULE NodeJoin -----------------------------
(***************************************************************************)
(* How worker nodes join a managed cluster: the join tokens and the public *)
(* join key that the cluster reconciler puts into the managed cluster, the *)
(* node join requests that `oi node join' creates there, and the node join *)
(* request reconciler that answers them.                                   *)
(*                                                                         *)
(* Keys are numbers, 0 is no key.  What is ciphered with a key can be read *)
(* by those who have the same key and by nobody else; so a request is the  *)
(* join key it was made with and the symmetric key in it.  Removing a join *)
(* key and generating the next one (module ClusterLifecycle) is one step.  *)
(* A node is set up in four steps, in the order of the program; what each  *)
(* leaves on the node stays when the program ends before the next one.     *)
(***************************************************************************)
EXTENDS Naturals, FiniteSets

CONSTANTS
    Node,                  \* worker nodes
    Joining,               \* those on which `oi node join' is run; others left a request
    Token,                 \* join tokens, records with an id and a secret
    Manager,               \* the running managers
    VPNEnabled,            \* whether spec.vpn.enabled
    Addresses,             \* how many addresses the VPN CIDR has
    MaxJoins,              \* bound on how often `oi node join' is run on a node
    MaxEdits,              \* bound on what users change
    MaxFaults              \* bound on failed calls

VARIABLES
    cluster,               \* the cluster object: spec and status
    secrets,               \* the bootstrap token secrets in the managed cluster
    configMap,             \* the join key published in the managed cluster
    requests,              \* the node join requests in the managed cluster
    nodes,                 \* the worker nodes
    reconciler,            \* per manager, the worker of the cluster reconciler
    issuer,                \* per manager, the worker of the node join request reconciler
    due,                   \* per manager, whether that has a request queued
    edits,                 \* how many edits users made
    faults                 \* how many faults there were

vars == <<cluster, secrets, configMap, requests, nodes, reconciler, issuer, due,
          edits, faults>>
managed == <<secrets, configMap, requests>>
bounds == <<edits, faults>>

-----------------------------------------------------------------------------

\* A request; once issued, the address and the manager that generated the rest of
\* the answer, certificates and keys that are like no others.
NoRequest == [phase |-> "none", joinKey |-> 0, key |-> 0, address |-> 0, by |-> {}]

\* A node: the program, the file join.key and whether it was left empty, what the
\* program has read of the answer, and what of it is set up on the node: the address
\* of the VPN interface, the credentials of the kubelet, and whether the kubelet
\* runs.
NewNode ==
    [pc |-> "out", key |-> 1, empty |-> FALSE, token |-> {}, joins |-> 0, answer |-> {},
     address |-> 0, credentials |-> {}, kubelet |-> FALSE]

IdleReconciler == [pc |-> "idle", fresh |-> FALSE, desired |-> {}, joinKey |-> 0,
                   new |-> {}, excess |-> {}, succeeded |-> TRUE]
IdleIssuer == [pc |-> "idle", joinKey |-> 0, peers |-> {}, todo |-> {}, fresh |-> {}]

Fault == faults < MaxFaults /\ faults' = faults + 1
Edit == edits < MaxEdits /\ edits' = edits + 1

\* The cluster object is written; a cluster reconciler that read it before will be
\* refused, and every node join request reconciler has a request.
WriteCluster(cl, rs) ==
    /\ cluster' = cl
    /\ reconciler' = [m \in Manager |-> [rs[m] EXCEPT !.fresh = FALSE]]
    /\ due' = [m \in Manager |-> TRUE]

-----------------------------------------------------------------------------
(***************************************************************************)
(* Users.                                                                  *)
(***************************************************************************)

InjectToken(t) ==
    /\ t \notin cluster.desired
    /\ Edit
    /\ WriteCluster([cluster EXCEPT !.desired = @ \cup {t}], reconciler)
    /\ UNCHANGED <<managed, nodes, issuer, faults>>

DropToken(t) ==
    /\ t \in cluster.desired
    /\ Edit
    /\ WriteCluster([cluster EXCEPT !.desired = @ \ {t}], reconciler)
    /\ UNCHANGED <<managed, nodes, issuer, faults>>

RotateJoinKey ==
    /\ Edit
    /\ WriteCluster([cluster EXCEPT !.joinKey = @ + 1], reconciler)
    /\ UNCHANGED <<managed, nodes, issuer, faults>>

\* A secret is deleted in the managed cluster.
DeleteSecret(t) ==
    /\ t \in secrets
    /\ Edit
    /\ secrets' = secrets \ {t}
    /\ UNCHANGED <<cluster, configMap, requests, nodes, reconciler, issuer, due, faults>>

\* ... or the ConfigMap, for it to be written anew.
DeleteConfigMap ==
    /\ configMap # 0
    /\ Edit
    /\ configMap' = 0
    /\ UNCHANGED <<cluster, secrets, requests, nodes, reconciler, issuer, due, faults>>

-----------------------------------------------------------------------------
(***************************************************************************)
(* The cluster reconciler, as far as joins depend on it.  Its own writes   *)
(* of the status and the resync start it again and again.                  *)
(***************************************************************************)

ReconcilerGet(m) ==
    /\ reconciler[m].pc = "idle"
    /\ reconciler' = [reconciler EXCEPT ![m] =
                        [IdleReconciler EXCEPT !.pc = "list", !.fresh = TRUE,
                           !.desired = cluster.desired, !.joinKey = cluster.joinKey]]
    /\ UNCHANGED <<cluster, managed, nodes, issuer, due, bounds>>

\* Mutant: the tokens in the status are taken for those in the managed cluster.
CurrentTokensRecorded == cluster.current

\* ReconcileJoinTokens finds out what is there.
CurrentTokens == secrets

ReconcilerList(m) ==
    /\ reconciler[m].pc = "list"
    /\ reconciler' = [reconciler EXCEPT
                        ![m].pc = "tokens",
                        ![m].new = reconciler[m].desired \ CurrentTokens,
                        ![m].excess = CurrentTokens \ reconciler[m].desired]
    /\ UNCHANGED <<cluster, managed, nodes, issuer, due, bounds>>

\* The secrets that have the name of the secret of token t.
SameName(t) == {s \in secrets : s.id = t.id}

\* A secret that is there already is left as it is.
CreateToken(m, t) ==
    /\ reconciler[m].pc = "tokens"
    /\ t \in reconciler[m].new
    /\ secrets' = IF SameName(t) = {} THEN secrets \cup {t} ELSE secrets
    /\ reconciler' = [reconciler EXCEPT ![m].new = @ \ {t}]
    /\ UNCHANGED <<cluster, configMap, requests, nodes, issuer, due, bounds>>

\* Deletes by name, after the new ones were created; it is an error if there is no
\* such secret.
RemoveToken(m, t) ==
    /\ reconciler[m].pc = "tokens" /\ reconciler[m].new = {}
    /\ t \in reconciler[m].excess
    /\ secrets' = secrets \ SameName(t)
    /\ reconciler' = [reconciler EXCEPT ![m].excess = @ \ {t},
                                        ![m].succeeded = @ /\ SameName(t) # {}]
    /\ UNCHANGED <<cluster, configMap, requests, nodes, issuer, due, bounds>>

\* A call fails; the others are still made, the status is not written.
TokenFails(m, t) ==
    /\ reconciler[m].pc = "tokens"
    /\ t \in IF reconciler[m].new # {} THEN reconciler[m].new ELSE reconciler[m].excess
    /\ Fault
    /\ reconciler' = [reconciler EXCEPT ![m].new = @ \ {t}, ![m].excess = @ \ {t},
                                        ![m].succeeded = FALSE]
    /\ UNCHANGED <<cluster, managed, nodes, issuer, due, edits>>

\* ReconcileJoinPublicKeyConfigMap: a ConfigMap that is there is left as it is.
PublishJoinKey(m) ==
    /\ reconciler[m].pc = "tokens"
    /\ reconciler[m].new = {} /\ reconciler[m].excess = {}
    /\ configMap' = IF configMap = 0 THEN reconciler[m].joinKey ELSE configMap
    /\ reconciler' = [reconciler EXCEPT ![m].pc = "write"]
    /\ UNCHANGED <<cluster, secrets, requests, nodes, issuer, due, bounds>>

\* The status is written if all went well and the cluster did not change.
ReconcilerWrite(m) ==
    /\ reconciler[m].pc = "write"
    /\ LET w  == reconciler[m]
           rs == [reconciler EXCEPT ![m] = IdleReconciler]
       IN  IF w.succeeded /\ w.fresh
           THEN WriteCluster([cluster EXCEPT !.current = w.desired], rs)
           ELSE reconciler' = rs /\ UNCHANGED <<cluster, due>>
    /\ UNCHANGED <<managed, nodes, issuer, bounds>>

-----------------------------------------------------------------------------
(***************************************************************************)
(* The node join request reconciler: while there are tokens, it runs every *)
(* ten seconds.                                                            *)
(***************************************************************************)

IssuerGet(m) ==
    /\ issuer[m].pc = "idle" /\ due[m]
    /\ due' = [due EXCEPT ![m] = FALSE]
    /\ issuer' = IF cluster.current = {} THEN issuer
                 ELSE [issuer EXCEPT ![m] =
                         [IdleIssuer EXCEPT !.pc = "list", !.joinKey = cluster.joinKey,
                                            !.peers = cluster.peers]]
    /\ UNCHANGED <<cluster, managed, nodes, reconciler, bounds>>

\* The worker after a step of its pass, which is over when nothing is left to do,
\* and the requests then.
Remaining(w) == IF w.todo = {} THEN IdleIssuer ELSE w
Requeue(m, w) == due' = [due EXCEPT ![m] = @ \/ w.todo = {}]

Proceed(m, w) ==
    issuer' = [issuer EXCEPT ![m] = Remaining(w)] /\ Requeue(m, w)

\* Mutant: requests that were answered are answered again.
IssuerListAll(m) ==
    /\ issuer[m].pc = "list"
    /\ LET all == {n \in Node : requests[n].phase # "none"}
       IN  Proceed(m, [issuer[m] EXCEPT !.pc = "issue", !.todo = all, !.fresh = all])
    /\ UNCHANGED <<cluster, managed, nodes, reconciler, bounds>>

IssuerList(m) ==
    /\ issuer[m].pc = "list"
    /\ LET pending == {n \in Node : requests[n].phase = "pending"}
       IN  Proceed(m, [issuer[m] EXCEPT !.pc = "issue", !.todo = pending, !.fresh = pending])
    /\ UNCHANGED <<cluster, managed, nodes, reconciler, bounds>>

\* The address GenerateVPNPeer assigns to a node it has no peer for.
NextAddress(peers) == Cardinality(peers) + 1

\* A request can be answered: its symmetric key can be read with the join key, and
\* there is an address for the node.
Answerable(w, n) ==
    /\ requests[n].joinKey = w.joinKey
    /\ VPNEnabled => NextAddress(w.peers) <= Addresses

\* What worker w has after request n; its peers are kept in memory only.
Answered(w, n) ==
    [w EXCEPT !.todo = @ \ {n},
              !.peers = IF VPNEnabled THEN @ \cup {[node |-> n, address |-> NextAddress(@)]}
                        ELSE @]

\* Request n with the answer of manager m.
Issued(m, n) ==
    [requests[n] EXCEPT !.phase = "issued", !.by = {m},
                        !.address = IF VPNEnabled THEN NextAddress(issuer[m].peers) ELSE 0]

\* The other managers' copies of request n are outdated.
Outdate(ws, n) == [m \in Manager |-> [ws[m] EXCEPT !.fresh = @ \ {n}]]

\* The request is answered; what other managers listed of it is outdated.
IssueRequest(m, n) ==
    /\ issuer[m].pc = "issue"
    /\ n \in issuer[m].todo \cap issuer[m].fresh /\ Answerable(issuer[m], n)
    /\ requests' = [requests EXCEPT ![n] = Issued(m, n)]
    /\ LET w == Answered(issuer[m], n)
       IN  /\ issuer' = Outdate([issuer EXCEPT ![m] = Remaining(w)], n)
           /\ Requeue(m, w)
    /\ UNCHANGED <<cluster, secrets, configMap, nodes, reconciler, bounds>>

\* The write is refused, or fails, which is only logged.
IssueFails(m, n) ==
    /\ issuer[m].pc = "issue"
    /\ n \in issuer[m].todo /\ Answerable(issuer[m], n)
    /\ IF n \in issuer[m].fresh THEN Fault ELSE UNCHANGED faults
    /\ Proceed(m, Answered(issuer[m], n))
    /\ UNCHANGED <<cluster, managed, nodes, reconciler, edits>>

\* Mutant: the pass ends.
SkipRequestAndReturn(m, n) ==
    /\ issuer[m].pc = "issue"
    /\ n \in issuer[m].todo /\ ~ Answerable(issuer[m], n)
    /\ Proceed(m, IdleIssuer)
    /\ UNCHANGED <<cluster, managed, nodes, reconciler, bounds>>

\* A request that cannot be answered is passed over.
SkipRequest(m, n) ==
    /\ issuer[m].pc = "issue"
    /\ n \in issuer[m].todo /\ ~ Answerable(issuer[m], n)
    /\ Proceed(m, [issuer[m] EXCEPT !.todo = @ \ {n}])
    /\ UNCHANGED <<cluster, managed, nodes, reconciler, bounds>>

\* The requests cannot be listed.
IssuerFails(m) ==
    /\ issuer[m].pc = "list"
    /\ Fault
    /\ Proceed(m, IdleIssuer)
    /\ UNCHANGED <<cluster, managed, nodes, reconciler, edits>>

-----------------------------------------------------------------------------
(***************************************************************************)
(* `oi node join' on a worker node.                                        *)
(***************************************************************************)

\* The request of node n, ciphered with the join key of the ConfigMap.
NewRequest(n) ==
    [NoRequest EXCEPT !.phase = "pending", !.joinKey = configMap, !.key = nodes[n].key]

\* With a token the managed cluster accepts, reads the join key and creates the
\* request; one that is there from an earlier attempt is left as it is.
Join(n, t) ==
    /\ n \in Joining
    /\ nodes[n].pc \in {"out", "failed"} /\ nodes[n].joins < MaxJoins
    /\ ~ nodes[n].empty /\ t \in secrets /\ configMap # 0
    /\ requests' = IF requests[n].phase # "none" THEN requests
                   ELSE [requests EXCEPT ![n] = NewRequest(n)]
    /\ nodes' = [nodes EXCEPT ![n].pc = "waiting", ![n].token = {t}, ![n].joins = @ + 1]
    /\ UNCHANGED <<cluster, secrets, configMap, reconciler, issuer, due, bounds>>

\* The program dies before it has written the symmetric key to the file that it has
\* just created: with an empty key, no later attempt gets as far as a request.
KeyLost(n) ==
    /\ n \in Joining /\ nodes[n] = [NewNode EXCEPT !.key = nodes[n].key]
    /\ Fault
    /\ nodes' = [nodes EXCEPT ![n].empty = TRUE]
    /\ UNCHANGED <<cluster, managed, reconciler, issuer, due, edits>>

\* Node n can decipher the answer to its request.
Readable(n) == requests[n].key = nodes[n].key

\* Mutant: on a later attempt, the VPN is taken to be there.
AfterAnswerOnce(n) == IF VPNEnabled /\ nodes[n].joins = 1 THEN "vpn" ELSE "credentials"

\* What Join does first with an answer.
AfterAnswer(n) == IF VPNEnabled THEN "vpn" ELSE "credentials"

\* The node finds its request issued, and goes on if it can read the answer; a token
\* that is no longer accepted makes it wait.
Poll(n) ==
    /\ nodes[n].pc = "waiting" /\ nodes[n].token \subseteq secrets
    /\ requests[n].phase = "issued"
    /\ nodes' = [nodes EXCEPT
                   ![n].pc = IF Readable(n) THEN AfterAnswer(n) ELSE "failed",
                   ![n].token = {},
                   ![n].answer = IF Readable(n) THEN {requests[n]} ELSE {}]
    /\ UNCHANGED <<cluster, managed, reconciler, issuer, due, bounds>>

Answer(n) == CHOOSE a \in nodes[n].answer : TRUE

SetupWireguard(n) ==
    /\ nodes[n].pc = "vpn"
    /\ nodes' = [nodes EXCEPT ![n].pc = "credentials", ![n].address = Answer(n).address]
    /\ UNCHANGED <<cluster, managed, reconciler, issuer, due, bounds>>

\* The kubeconfig, the configuration and the certificates of the kubelet.
WriteCredentials(n) ==
    /\ nodes[n].pc = "credentials"
    /\ nodes' = [nodes EXCEPT ![n].pc = "kubelet", ![n].credentials = Answer(n).by]
    /\ UNCHANGED <<cluster, managed, reconciler, issuer, due, bounds>>

\* The kubelet is installed and started, if it does not run already.
StartKubelet(n) ==
    /\ nodes[n].pc = "kubelet"
    /\ nodes' = [nodes EXCEPT ![n].pc = "joined", ![n].kubelet = TRUE, ![n].answer = {}]
    /\ UNCHANGED <<cluster, managed, reconciler, issuer, due, bounds>>

\* A step fails, or the program is killed.
SetupFails(n) ==
    /\ nodes[n].pc \in {"vpn", "credentials", "kubelet"}
    /\ Fault
    /\ nodes' = [nodes EXCEPT ![n].pc = "failed", ![n].answer = {}]
    /\ UNCHANGED <<cluster, managed, reconciler, issuer, due, edits>>

\* Mutant: the time is looked at only after a request that was accepted.
TimeOutAccepted(n) ==
    /\ nodes[n].pc = "waiting" /\ nodes[n].token \subseteq secrets
    /\ nodes' = [nodes EXCEPT ![n].pc = "failed", ![n].token = {}]
    /\ UNCHANGED <<cluster, managed, reconciler, issuer, due, bounds>>

\* Five minutes have passed.
TimeOut(n) ==
    /\ nodes[n].pc = "waiting"
    /\ nodes' = [nodes EXCEPT ![n].pc = "failed", ![n].token = {}]
    /\ UNCHANGED <<cluster, managed, reconciler, issuer, due, bounds>>

\* The machine is installed anew and generates another symmetric key.
Reinstall(n) ==
    /\ nodes[n].pc # "out" \/ nodes[n].empty
    /\ Edit
    /\ nodes' = [nodes EXCEPT ![n] = [NewNode EXCEPT !.key = nodes[n].key + 1,
                                                     !.joins = nodes[n].joins]]
    /\ UNCHANGED <<cluster, managed, reconciler, issuer, due, faults>>

-----------------------------------------------------------------------------

\* A manager is killed and starts again.
Crash(m) ==
    /\ Fault
    /\ reconciler' = [reconciler EXCEPT ![m] = IdleReconciler]
    /\ issuer' = [issuer EXCEPT ![m] = IdleIssuer]
    /\ due' = [due EXCEPT ![m] = TRUE]
    /\ UNCHANGED <<cluster, managed, nodes, edits>>

\* The request of a node that is not heard of again, made before the join key was
\* replaced or after.
Abandoned(k) == [NoRequest EXCEPT !.phase = "pending", !.joinKey = k, !.key = 1]

\* The tokens were edited since the secrets were written, and the join key has been
\* replaced once, with the ConfigMap left as it was, deleted, or written anew.
Init ==
    /\ \E tokens \in SUBSET Token :
          cluster = [desired |-> tokens, current |-> {}, joinKey |-> 2, peers |-> {}]
    /\ secrets \in {ts \in SUBSET Token : \A s, t \in ts : s.id = t.id => s = t}
    /\ configMap \in 0..2
    /\ \E k \in [Node -> 1..2] :
          /\ \A n \in Node : k[n] <= configMap \/ configMap = 0
          /\ requests = [n \in Node |-> IF n \in Joining THEN NoRequest ELSE Abandoned(k[n])]
    /\ nodes = [n \in Node |-> NewNode]
    /\ reconciler = [m \in Manager |-> IdleReconciler]
    /\ issuer = [m \in Manager |-> IdleIssuer]
    /\ due = [m \in Manager |-> TRUE]
    /\ edits = 0
    /\ faults = 0

Users ==
    \/ RotateJoinKey \/ DeleteConfigMap
    \/ \E t \in Token : InjectToken(t) \/ DropToken(t) \/ DeleteSecret(t)

ReconcilerStep(m) ==
    \/ ReconcilerGet(m) \/ ReconcilerList(m) \/ PublishJoinKey(m) \/ ReconcilerWrite(m)
    \/ \E t \in Token : CreateToken(m, t) \/ RemoveToken(m, t)

IssuerStep(m) ==
    \/ IssuerGet(m) \/ IssuerList(m)
    \/ \E n \in Node : IssueRequest(m, n) \/ IssueFails(m, n) \/ SkipRequest(m, n)

\* A run of `oi node join' that waits or sets up the node.
Run(n) ==
    Poll(n) \/ TimeOut(n) \/ SetupWireguard(n) \/ WriteCredentials(n) \/ StartKubelet(n)

NodeStep(n) ==
    \/ \E t \in Token : Join(n, t)
    \/ Run(n) \/ KeyLost(n) \/ SetupFails(n) \/ Reinstall(n)

Next ==
    \/ Users
    \/ \E n \in Node : NodeStep(n)
    \/ \E m \in Manager : \/ ReconcilerStep(m) \/ IssuerStep(m)
                          \/ IssuerFails(m) \/ Crash(m)
                          \/ \E t \in Token : TokenFails(m, t)

Spec == Init /\ [][Next]_vars

\* The controllers go on, and so does `oi node join'.
FairSpec ==
    /\ Spec
    /\ \A m \in Manager : WF_vars(ReconcilerStep(m)) /\ WF_vars(IssuerStep(m))
    /\ \A n \in Node : WF_vars(Run(n))

-----------------------------------------------------------------------------
(***************************************************************************)
(* Properties.                                                             *)
(***************************************************************************)

\* An answer stands: a node may act on it at any time, so no manager that listed
\* the request earlier replaces it by another certificate, key and address.
IssuedOnce ==
    [][\A n \in Node : requests[n].phase = "issued" => requests'[n] = requests[n]]_vars

\* When users are done, the managed cluster accepts the tokens in the spec and no
\* others: also if somebody deleted a secret there, or replaced a token by one with
\* the same id, whose secret has the same name.
TokensFollow ==
    <>[](\A s, t \in cluster.desired : s.id = t.id => s = t) =>
       <>[](secrets = cluster.desired)

\* A request that can be read is answered while there are tokens, whatever other
\* requests there are that cannot be read.
RequestsIssued ==
    \A n \in Node :
       <>[](/\ cluster.current # {}
            /\ requests[n].phase # "none" /\ requests[n].joinKey = cluster.joinKey) =>
          <>(requests[n].phase = "issued")

\* A kubelet that runs has the credentials and the address of the answer to the
\* request of its node, whichever attempt of `oi node join' set up which of them.
KubeletHasAnswer ==
    \A n \in Node :
       nodes[n].kubelet =>
          /\ nodes[n].credentials = requests[n].by
          /\ nodes[n].address = requests[n].address

\* `oi node join' ends, also when its token is dropped while it waits or nobody can
\* answer its request.
JoinReturns ==
    \A n \in Node : nodes[n].pc = "waiting" ~> nodes[n].pc \in {"out", "joined", "failed"}

=============================================================================
