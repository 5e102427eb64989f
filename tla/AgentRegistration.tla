------------------------- MODULE AgentRegistration -------------------------
(***************************************************************************)
(* How a chaos agent comes to be, and how it is removed: the record of the *)
(* cluster in MongoDB, the manifest that carries its access key into the   *)
(* Kubernetes cluster, the handshake in which a starting subscriber        *)
(* exchanges that key for a new one, and DeleteClusters.                   *)
(*                                                                         *)
(* The server rotates the key in one place (the record) and the agent      *)
(* stores it in two (a ConfigMap says whether it is confirmed, a Secret    *)
(* holds the key); subscribers crash, replies get lost, and a rolling      *)
(* update runs two subscribers of one agent at a time.                     *)
(***************************************************************************)
EXTENDS Naturals, Sequences

CONSTANTS
  Agent,         \* clusters (cluster_id)
  Pod,           \* subscriber pods
  AgentOf,       \* the agent a pod belongs to
  Call,          \* confirmClusterRegistration requests the server handles
  None,          \* no value
  Circumstances, \* of each kind of behaviour to consider, what may happen in it
  MaxKey,        \* bound: access keys generated
  MaxManifests,  \* bound: manifests fetched for each agent
  MaxRequests    \* bound: requests on their way to a pod, then senders block

\* faults: pods crash and overlap, replies get lost, calls to MongoDB and to
\* Kubernetes fail, a manifest is applied again; deletion: users delete agents.
Happening == {"faults", "deletion"}

ASSUME AgentOfType == AgentOf \in [Pod -> Agent]
ASSUME BoundsType == /\ {MaxKey, MaxManifests, MaxRequests} \subseteq Nat
                     /\ Circumstances \subseteq SUBSET Happening
ASSUME NoneIsNone == None \notin Agent /\ None \notin Pod

VARIABLES
  given,      \* what may happen in this behaviour
  \* the server
  record,     \* MongoDB: the key, is_registered (with is_cluster_confirmed,
              \* which is written along with it) and is_removed of a cluster
  keys,       \* how many keys RandomString has made; each is a new one
  call,       \* requests to confirm, also those whose pod has gone
  toClean,    \* agents DeleteClusters has yet to send requests to
  cleaning,   \* the agent whose first request is sent, not the second
  \* what is on its way to the Kubernetes cluster
  manifest,   \* the manifest being applied: its key and confirmed flag
  applying,   \* the resource of it that comes next
  fetched,    \* manifests fetched so far
  \* the Kubernetes cluster
  configMap,  \* IS_CLUSTER_CONFIRMED of agent-config, "absent" without it
  secret,     \* ACCESS_KEY of agent-secret, 0 without it
  deployed,   \* is there a subscriber Deployment?
  \* the subscribers
  pod,        \* where the process is
  podKey,     \* clusterData["ACCESS_KEY"]
  requests    \* clean-up requests on their way to the connected pod

server   == <<record, keys, call, toClean, cleaning>>
delivery == <<manifest, applying, fetched>>
k8s      == <<configMap, secret, deployed>>
pods     == <<pod, podKey, requests>>
system   == <<server, delivery, k8s, pods>>
vars     == <<given, system>>

calm == "faults" \notin given

Key      == 0..MaxKey
NoRecord == [key |-> 0, registered |-> FALSE, removed |-> FALSE]
NoCall   == [stage |-> "free", pod |-> None, agent |-> None, key |-> 0]

CallStage == {"free", "sent", "matched", "confirmed", "refused"}
PodStage  == {"down", "starting", "readSecret", "confirming", "writeConfigMap",
              "writeSecret", "listening", "connected", "turnedAway"}

PodsOf(a) == {p \in Pod : AgentOf[p] = a}

Init ==
  /\ given \in Circumstances
  /\ record = [a \in Agent |-> NoRecord]
  /\ keys = 0
  /\ call = [q \in Call |-> NoCall]
  /\ toClean = {}
  /\ cleaning = None
  /\ manifest = [a \in Agent |-> NoRecord]
  /\ applying = [a \in Agent |-> "nothing"]
  /\ fetched = [a \in Agent |-> 0]
  /\ configMap = [a \in Agent |-> "absent"]
  /\ secret = [a \in Agent |-> 0]
  /\ deployed = [a \in Agent |-> FALSE]
  /\ pod = [p \in Pod |-> "down"]
  /\ podKey = [p \in Pod |-> 0]
  /\ requests = [p \in Pod |-> <<>>]

-----------------------------------------------------------------------------
(***************************************************************************)
(* Registration and the manifest.                                          *)
(***************************************************************************)
RegisterCluster(a) ==
  /\ record[a] = NoRecord
  /\ keys < MaxKey
  /\ keys' = keys + 1
  /\ record' = [record EXCEPT ![a].key = keys + 1]
  /\ UNCHANGED <<call, toClean, cleaning, delivery, k8s, pods>>

\* ManifestParser copies the key and the confirmed flag out of the record.
ManifestParser(a) ==
  /\ applying[a] = "nothing"
  /\ fetched[a] < MaxManifests
  /\ calm => fetched[a] = 0
  /\ fetched' = [fetched EXCEPT ![a] = @ + 1]
  /\ manifest' = [manifest EXCEPT ![a] = record[a]]
  /\ applying' = [applying EXCEPT ![a] = "ConfigMap"]
  /\ UNCHANGED <<server, k8s, pods>>

\* By token: only until the cluster is registered ("Cluster is already
\* registered" afterwards).
GetManifest(a) ==
  /\ record[a].key # 0
  /\ ~ record[a].registered
  /\ ManifestParser(a)

\* With the access key of the record, to upgrade an agent.
GetManifestWithClusterID(a) ==
  /\ record[a].key # 0
  /\ ManifestParser(a)

\* The resources of the manifest are applied one by one; one that fails is
\* reported, and the others are applied all the same.
Apply(a) ==
  /\ \/ /\ applying[a] = "ConfigMap"
        /\ applying' = [applying EXCEPT ![a] = "Secret"]
        /\ \/ configMap' = [configMap EXCEPT
                 ![a] = IF manifest[a].registered THEN "true" ELSE "false"]
           \/ ~ calm /\ UNCHANGED configMap
        /\ UNCHANGED <<secret, deployed>>
     \/ /\ applying[a] = "Secret"
        /\ applying' = [applying EXCEPT ![a] = "Deployment"]
        /\ \/ secret' = [secret EXCEPT ![a] = manifest[a].key]
           \/ ~ calm /\ UNCHANGED secret
        /\ UNCHANGED <<configMap, deployed>>
     \/ /\ applying[a] = "Deployment"
        /\ applying' = [applying EXCEPT ![a] = "nothing"]
        /\ \/ deployed' = [deployed EXCEPT ![a] = TRUE]
           \/ ~ calm /\ UNCHANGED deployed
        /\ UNCHANGED <<configMap, secret>>
  /\ UNCHANGED <<server, manifest, fetched, pods>>

-----------------------------------------------------------------------------
(***************************************************************************)
(* The subscriber process.                                                 *)
(***************************************************************************)
\* Kubernetes (re)starts a container once the ConfigMap and the Secret its
\* environment refers to exist; the key comes from the environment.
StartPod(p) ==
  LET a == AgentOf[p] IN
  /\ pod[p] = "down"
  /\ calm => \A other \in PodsOf(a) : pod[other] = "down"
  /\ deployed[a]
  /\ configMap[a] # "absent"
  /\ secret[a] # 0
  /\ pod' = [pod EXCEPT ![p] = "starting"]
  /\ podKey' = [podKey EXCEPT ![p] = secret[a]]
  /\ UNCHANGED <<server, delivery, k8s, requests>>

\* Fatal, a kill or an eviction. The requests under way to it are lost, a
\* call it has made goes on in the server without it.
Down(p) ==
  /\ pod' = [pod EXCEPT ![p] = "down"]
  /\ podKey' = [podKey EXCEPT ![p] = 0]
  /\ requests' = [requests EXCEPT ![p] = <<>>]

Abandon(p) ==
  call' = [q \in Call |->
             IF call[q].pod # p THEN call[q]
             ELSE IF call[q].stage \in {"sent", "matched"}
                  THEN [call[q] EXCEPT !.pod = None]
                  ELSE NoCall]

\* When nothing fails, Kubernetes still stops a pod whose Deployment is gone.
StopPod(p) ==
  /\ ~ calm \/ ~ deployed[AgentOf[p]]
  /\ pod[p] # "down"
  /\ Down(p)
  /\ Abandon(p)
  /\ UNCHANGED <<record, keys, toClean, cleaning, delivery, k8s>>

\* IsClusterConfirmed reads the ConfigMap; an unconfirmed subscriber sends
\* ClusterConfirm with the key it was started with. Failing to read is fatal.
IsClusterConfirmed(p) ==
  LET a == AgentOf[p] IN
  /\ pod[p] = "starting"
  /\ \/ /\ configMap[a] = "absent" \/ ~ calm
        /\ Down(p)
        /\ UNCHANGED call
     \/ /\ configMap[a] = "true"
        /\ pod' = [pod EXCEPT ![p] = "readSecret"]
        /\ UNCHANGED <<podKey, requests, call>>
     \/ /\ configMap[a] = "false"
        /\ pod' = [pod EXCEPT ![p] = "confirming"]
        /\ \E q \in Call :
             /\ call[q] = NoCall
             /\ call' = [call EXCEPT ![q] = [stage |-> "sent", pod |-> p,
                                             agent |-> a, key |-> podKey[p]]]
        /\ UNCHANGED <<podKey, requests>>
  /\ UNCHANGED <<record, keys, toClean, cleaning, delivery, k8s>>

ReadSecret(p) ==
  /\ pod[p] = "readSecret"
  /\ pod' = [pod EXCEPT ![p] = "listening"]
  /\ podKey' = [podKey EXCEPT ![p] = secret[AgentOf[p]]]
  /\ UNCHANGED <<server, delivery, k8s, requests>>

\* A subscriber that is not confirmed logs the fact and goes on.
ReceiveReply(p) ==
  /\ pod[p] = "confirming"
  /\ \E q \in Call :
       /\ call[q].pod = p
       /\ \/ /\ call[q].stage = "confirmed"
             /\ podKey' = [podKey EXCEPT ![p] = call[q].key]
             /\ pod' = [pod EXCEPT ![p] = "writeConfigMap"]
          \/ /\ call[q].stage = "refused"
             /\ pod' = [pod EXCEPT ![p] = "listening"]
             /\ UNCHANGED podKey
       /\ call' = [call EXCEPT ![q] = NoCall]
  /\ UNCHANGED <<record, keys, toClean, cleaning, delivery, k8s, requests>>

\* Mutant: the Secret is not written.
RegisterConfigMapOnly(p) ==
  /\ pod[p] = "writeConfigMap"
  /\ configMap[AgentOf[p]] # "absent"
  /\ configMap' = [configMap EXCEPT ![AgentOf[p]] = "true"]
  /\ pod' = [pod EXCEPT ![p] = "listening"]
  /\ UNCHANGED <<server, delivery, secret, deployed, podKey, requests>>

\* First the ConfigMap, then the Secret; a failing update is fatal (that of
\* the Secret: see StopPod).
ClusterRegister(p) ==
  LET a == AgentOf[p] IN
  /\ \/ /\ pod[p] = "writeConfigMap"
        /\ configMap[a] = "absent" \/ ~ calm
        /\ Down(p)
        /\ UNCHANGED <<configMap, secret>>
     \/ /\ pod[p] = "writeConfigMap"
        /\ configMap[a] # "absent"
        /\ configMap' = [configMap EXCEPT ![a] = "true"]
        /\ pod' = [pod EXCEPT ![p] = "writeSecret"]
        /\ UNCHANGED <<secret, podKey, requests>>
     \/ /\ pod[p] = "writeSecret"
        /\ secret' = [secret EXCEPT ![a] = podKey[p]]
        /\ pod' = [pod EXCEPT ![p] = "listening"]
        /\ UNCHANGED <<configMap, podKey, requests>>
  /\ UNCHANGED <<server, delivery, deployed>>

\* clusterConnect, once: a refused subscriber logs the error and waits for
\* messages that never come.
Connect(p) ==
  LET a == AgentOf[p] IN
  /\ pod[p] = "listening"
  /\ \/ /\ record[a].registered
        /\ record[a].key = podKey[p]
        /\ \A other \in PodsOf(a) : pod[other] # "connected"
        /\ pod' = [pod EXCEPT ![p] = "connected"]
     \/ /\ \/ ~ record[a].registered
           \/ record[a].key # podKey[p]
           \/ \E other \in PodsOf(a) : pod[other] = "connected"
        /\ pod' = [pod EXCEPT ![p] = "turnedAway"]
  /\ UNCHANGED <<server, delivery, k8s, podKey, requests>>

-----------------------------------------------------------------------------
(***************************************************************************)
(* ConfirmClusterRegistration on the server.                               *)
(***************************************************************************)
\* A reply with nobody left to take it is dropped.
Reply(q, stage, key) ==
  call' = [call EXCEPT ![q] = IF @.pod = None THEN NoCall
                              ELSE [@ EXCEPT !.stage = stage, !.key = key]]

\* Mutant: the key is not compared.
ConfirmAnyKey(q) ==
  /\ call[q].stage = "sent"
  /\ call' = [call EXCEPT ![q].stage = "matched"]
  /\ UNCHANGED <<record, keys, toClean, cleaning, delivery, k8s, pods>>

\* GetCluster, then the comparison of the keys.
CompareKey(q) ==
  /\ call[q].stage = "sent"
  /\ \/ /\ record[call[q].agent].key = call[q].key
        /\ call' = [call EXCEPT ![q].stage = "matched"]
     \/ /\ record[call[q].agent].key # call[q].key \/ ~ calm
        /\ Reply(q, "refused", call[q].key)
  /\ UNCHANGED <<record, keys, toClean, cleaning, delivery, k8s, pods>>

\* Mutant: the answer confirms although the update has failed.
ConfirmUnwritten(q) ==
  /\ call[q].stage = "matched"
  /\ Reply(q, "confirmed", call[q].key)
  /\ UNCHANGED <<record, keys, toClean, cleaning, delivery, k8s, pods>>

\* Mutant: the answer carries the old key.
AnswerOldKey(q) ==
  /\ call[q].stage = "matched"
  /\ keys < MaxKey
  /\ keys' = keys + 1
  /\ record' = [record EXCEPT ![call[q].agent].key = keys + 1,
                              ![call[q].agent].registered = TRUE]
  /\ Reply(q, "confirmed", call[q].key)
  /\ UNCHANGED <<toClean, cleaning, delivery, k8s, pods>>

\* The new key goes into the record, whatever key is there by now.
RotateKey(q) ==
  /\ call[q].stage = "matched"
  /\ \/ /\ keys < MaxKey
        /\ keys' = keys + 1
        /\ record' = [record EXCEPT ![call[q].agent].key = keys + 1,
                                    ![call[q].agent].registered = TRUE]
        /\ Reply(q, "confirmed", keys + 1)
     \/ /\ ~ calm
        /\ Reply(q, "refused", call[q].key)
        /\ UNCHANGED <<record, keys>>
  /\ UNCHANGED <<toClean, cleaning, delivery, k8s, pods>>

-----------------------------------------------------------------------------
(***************************************************************************)
(* DeleteClusters.                                                         *)
(***************************************************************************)
\* The update goes through UpdateOne: of the clusters asked for, one is
\* marked as removed; the requests go to all of them, or to none when the list
\* cannot be read.
DeleteClusters(S) ==
  /\ "deletion" \in given
  /\ toClean = {} /\ cleaning = None
  /\ S # {}
  /\ \A a \in S : record[a].key # 0
  /\ \E a \in S : record' = [record EXCEPT ![a].removed = TRUE]
  /\ toClean' \in {S, {}}
  /\ UNCHANGED <<keys, call, cleaning, delivery, k8s, pods>>

\* SendRequestToSubscriber: to the pod that is connected, or to nobody.
Send(a, kind) ==
  LET receivers == {p \in PodsOf(a) : pod[p] = "connected"} IN
  /\ \A p \in receivers : Len(requests[p]) < MaxRequests
  /\ requests' = [p \in Pod |-> IF p \in receivers
                                THEN Append(requests[p], kind)
                                ELSE requests[p]]

\* Mutant: the Deployment is forgotten.
SendOneDelete ==
  /\ \E a \in toClean : toClean' = toClean \ {a} /\ Send(a, "ConfigMap")
  /\ UNCHANGED <<record, keys, call, cleaning, delivery, k8s, pod, podKey>>

\* For each cluster a request to delete the ConfigMap, then one to delete
\* the Deployment.
SendDelete ==
  /\ \/ \E a \in toClean : /\ cleaning = None
                           /\ toClean' = toClean \ {a}
                           /\ cleaning' = a
                           /\ Send(a, "ConfigMap")
     \/ /\ cleaning # None
        /\ cleaning' = None
        /\ Send(cleaning, "Deployment")
        /\ UNCHANGED toClean
  /\ UNCHANGED <<record, keys, call, delivery, k8s, pod, podKey>>

\* RequestProcessor handles the requests one after the other.
ProcessDelete(p) ==
  LET a == AgentOf[p] IN
  /\ requests[p] # <<>>
  /\ \/ /\ Head(requests[p]) = "ConfigMap"
        /\ configMap' = [configMap EXCEPT ![a] = "absent"]
        /\ UNCHANGED deployed
     \/ /\ Head(requests[p]) = "Deployment"
        /\ deployed' = [deployed EXCEPT ![a] = FALSE]
        /\ UNCHANGED configMap
  /\ requests' = [requests EXCEPT ![p] = Tail(@)]
  /\ UNCHANGED <<server, delivery, secret, pod, podKey>>

-----------------------------------------------------------------------------
Register(a)   == \/ RegisterCluster(a)
                 \/ GetManifest(a)
                 \/ GetManifestWithClusterID(a)
                 \/ Apply(a)

Subscriber(p) == \/ StartPod(p)
                 \/ IsClusterConfirmed(p)
                 \/ ReadSecret(p)
                 \/ ReceiveReply(p)
                 \/ ClusterRegister(p)
                 \/ Connect(p)
                 \/ ProcessDelete(p)

ConfirmClusterRegistration(q) == CompareKey(q) \/ RotateKey(q)

Step == \/ \E a \in Agent : Register(a)
        \/ \E p \in Pod : Subscriber(p) \/ StopPod(p)
        \/ \E q \in Call : ConfirmClusterRegistration(q)
        \/ \E S \in SUBSET Agent : DeleteClusters(S)
        \/ SendDelete

Next == Step /\ UNCHANGED given

(***************************************************************************)
(* A manifest that is being applied is applied to the end, processes that  *)
(* can go on do; nobody has to register, fetch or delete anything.         *)
(***************************************************************************)
Fairness ==
  /\ \A a \in Agent : WF_system(Apply(a))
  /\ \A p \in Pod : WF_system(Subscriber(p))
  /\ \A q \in Call : WF_system(ConfirmClusterRegistration(q))
  /\ WF_system(SendDelete)

Spec     == Init /\ [][Next]_vars
FairSpec == Spec /\ Fairness

-----------------------------------------------------------------------------
(***************************************************************************)
(* Properties.                                                             *)
(***************************************************************************)
RecordType == [key : Key, registered : BOOLEAN, removed : BOOLEAN]

TypeOK ==
  /\ given \in Circumstances
  /\ record \in [Agent -> RecordType]
  /\ keys \in Key
  /\ call \in [Call -> [stage : CallStage, pod : Pod \cup {None},
                        agent : Agent \cup {None}, key : Key]]
  /\ toClean \subseteq Agent
  /\ cleaning \in Agent \cup {None}
  /\ manifest \in [Agent -> RecordType]
  /\ applying \in [Agent -> {"nothing", "ConfigMap", "Secret", "Deployment"}]
  /\ fetched \in [Agent -> 0..MaxManifests]
  /\ configMap \in [Agent -> {"absent", "false", "true"}]
  /\ secret \in [Agent -> Key]
  /\ deployed \in [Agent -> BOOLEAN]
  /\ pod \in [Pod -> PodStage]
  /\ podKey \in [Pod -> Key]
  /\ requests \in [Pod -> Seq({"ConfigMap", "Deployment"})]
  /\ \A p \in Pod : Len(requests[p]) <= MaxRequests

\* The server knows first: a ConfigMap says that an agent is confirmed only
\* once its record says so, and no key the agent's side holds is newer than
\* the one in the record (ConfirmClusterRegistration answers after the
\* update, ManifestParser copies the flag and the key together).
ServerKnowsFirst ==
  \A a \in Agent :
    /\ configMap[a] = "true" => record[a].registered
    /\ secret[a] <= record[a].key
    /\ \A p \in PodsOf(a) : podKey[p] <= record[a].key

\* The current key of a registered agent is held by nobody outside the
\* server, and no answer that carries a next one is to be expected.
LockedOut(a) ==
  /\ record[a].registered
  /\ secret[a] # record[a].key
  /\ \A p \in PodsOf(a) : podKey[p] # record[a].key
  /\ \A q \in Call : call[q].agent = a =>
       /\ call[q].stage = "confirmed" => call[q].key # record[a].key
       /\ call[q].stage = "matched" => call[q].pod = None
  /\ applying[a] \in {"nothing", "Deployment"} \/ manifest[a].key # record[a].key

\* An agent that has lost its key does not get back in by itself, however
\* often its subscriber restarts and asks to be confirmed: only a manifest
\* fetched anew helps.
LockedOutForGood ==
  [][\A a \in Agent : LockedOut(a) /\ ~ LockedOut(a)' => fetched'[a] # fetched[a]]_vars

\* When all is calm, a subscriber that is past its
\* initialisation can be restarted at any time: what it would read from the
\* Kubernetes cluster is what the server expects.
RestartSafe ==
  \A p \in Pod :
    LET a == AgentOf[p] IN
    /\ calm
    /\ pod[p] \in {"listening", "connected", "turnedAway"}
    /\ applying[a] = "nothing"
    => secret[a] = record[a].key /\ configMap[a] \in {"true", "absent"}

\* When all is calm, an agent that has been deployed gets connected.
RegistrationCompletes ==
  \A a \in Agent :
    calm /\ deployed[a] ~> (~ deployed[a] \/ \E p \in PodsOf(a) : pod[p] = "connected")

\* When all is calm, the subscriber of an agent that is connected while it
\* is deleted goes away. (The ConfigMap may stay: its request is lost when
\* the agent connects between the two.)
CleanUpCompletes ==
  \A p \in Pod :
    (calm /\ AgentOf[p] \in toClean /\ pod[p] = "connected") ~> ~ deployed[AgentOf[p]]
=============================================================================
