---------------------- MODULE AgentRegistration_proofs ----------------------
(***************************************************************************)
(* The server knows first, an agent that has lost its key does not get     *)
(* back in by itself, and when nothing fails a subscriber can be restarted *)
(* at any time: proofs for any agents, pods and calls, any bounds and all  *)
(* circumstances.                                                          *)
(*                                                                         *)
(* The inductive invariant IInv follows a key from the record to the agent *)
(* and back: what is on the way (a manifest, a call, the key of a process) *)
(* is not ahead of the record, and a call that somebody waits for is the   *)
(* only one of a pod that is still where it was when it asked.             *)
(***************************************************************************)
EXTENDS AgentRegistration, TLAPS

\* A manifest was once what the record was.
ManifestsBehind ==
  \A a \in Agent :
    /\ record[a].key <= keys
    /\ record[a].registered => record[a].key # 0
    /\ manifest[a].key <= record[a].key
    /\ manifest[a].registered => record[a].registered

CallsBehind ==
  \A q \in Call :
    call[q].stage # "free" =>
      /\ call[q].agent \in Agent
      /\ call[q].key <= record[call[q].agent].key
      /\ call[q].stage = "confirmed" => record[call[q].agent].registered

\* A pod waits for one call, its own, and has the key it asked with.
CallsAwaited ==
  \A q \in Call :
    call[q].pod # None =>
      /\ call[q].stage # "free"
      /\ call[q].agent = AgentOf[call[q].pod]
      /\ pod[call[q].pod] = "confirming"
      /\ call[q].stage \in {"sent", "matched"} => podKey[call[q].pod] = call[q].key
      /\ \A r \in Call : call[r].pod = call[q].pod => r = q

WritersConfirmed ==
  \A p \in Pod : pod[p] = "writeConfigMap" => record[AgentOf[p]].registered

IInv == /\ TypeOK /\ ServerKnowsFirst /\ ManifestsBehind
        /\ CallsBehind /\ CallsAwaited /\ WritersConfirmed
-----------------------------------------------------------------------------
(* Types.                                                                  *)

LEMMA Bounds == MaxKey \in Nat /\ MaxManifests \in Nat /\ MaxRequests \in Nat
BY BoundsType

LEMMA InitTypes == Init => TypeOK
<1>1. 0 \in Key /\ 0 \in 0 .. MaxManifests /\ 0 <= MaxRequests
  BY Bounds DEF Key
<1> QED
  BY <1>1 DEF Init, TypeOK, RecordType, NoRecord, NoCall, CallStage, PodStage

\* What a step changes on the server, and what it leaves alone.
LEMMA ServerTyped ==
  ASSUME TypeOK, given' = given,
         record' \in [Agent -> RecordType], keys' \in Key,
         call' \in [Call -> [stage : CallStage, pod : Pod \cup {None},
                            agent : Agent \cup {None}, key : Key]],
         toClean' \subseteq Agent, cleaning' \in Agent \cup {None},
         UNCHANGED <<delivery, k8s, pods>>
  PROVE  TypeOK'
<1>1. manifest' = manifest /\ applying' = applying /\ fetched' = fetched
  BY DEF delivery
<1>2. configMap' = configMap /\ secret' = secret /\ deployed' = deployed
  BY DEF k8s
<1>3. pod' = pod /\ podKey' = podKey /\ requests' = requests
  BY DEF pods
<1>4. /\ given' \in Circumstances
      /\ manifest' \in [Agent -> RecordType]
      /\ applying' \in [Agent -> {"nothing", "ConfigMap", "Secret", "Deployment"}]
      /\ fetched' \in [Agent -> 0..MaxManifests]
  BY <1>1 DEF TypeOK
<1>5. /\ configMap' \in [Agent -> {"absent", "false", "true"}]
      /\ secret' \in [Agent -> Key] /\ deployed' \in [Agent -> BOOLEAN]
  BY <1>2 DEF TypeOK
<1>6. /\ pod' \in [Pod -> PodStage] /\ podKey' \in [Pod -> Key]
      /\ requests' \in [Pod -> Seq({"ConfigMap", "Deployment"})]
      /\ \A p \in Pod : Len(requests'[p]) <= MaxRequests
  BY <1>3 DEF TypeOK
<1> QED
  BY <1>4, <1>5, <1>6 DEF TypeOK

\* What a step changes in the cluster and its pods.
LEMMA ClusterTyped ==
  ASSUME TypeOK, given' = given,
         configMap' \in [Agent -> {"absent", "false", "true"}],
         secret' \in [Agent -> Key], deployed' \in [Agent -> BOOLEAN],
         pod' \in [Pod -> PodStage], podKey' \in [Pod -> Key],
         requests' \in [Pod -> Seq({"ConfigMap", "Deployment"})],
         \A p \in Pod : Len(requests'[p]) <= MaxRequests,
         UNCHANGED <<server, delivery>>
  PROVE  TypeOK'
<1>1. manifest' = manifest /\ applying' = applying /\ fetched' = fetched
  BY DEF delivery
<1>2. /\ record' = record /\ keys' = keys /\ call' = call
      /\ toClean' = toClean /\ cleaning' = cleaning
  BY DEF server
<1>3. /\ given' \in Circumstances
      /\ manifest' \in [Agent -> RecordType]
      /\ applying' \in [Agent -> {"nothing", "ConfigMap", "Secret", "Deployment"}]
      /\ fetched' \in [Agent -> 0..MaxManifests]
  BY <1>1 DEF TypeOK
<1>4. /\ record' \in [Agent -> RecordType] /\ keys' \in Key
      /\ call' \in [Call -> [stage : CallStage, pod : Pod \cup {None},
                            agent : Agent \cup {None}, key : Key]]
      /\ toClean' \subseteq Agent /\ cleaning' \in Agent \cup {None}
  BY <1>2 DEF TypeOK
<1> QED
  BY <1>3, <1>4 DEF TypeOK

LEMMA NextKey == ASSUME TypeOK, keys < MaxKey PROVE keys + 1 \in Key
BY Bounds DEF TypeOK, Key

LEMMA RegisterTypes ==
  ASSUME TypeOK, NEW a \in Agent, Register(a), given' = given
  PROVE  TypeOK'
<1>1. CASE RegisterCluster(a)
  <2>1. keys + 1 \in Key
    BY <1>1, NextKey DEF RegisterCluster
  <2>2. record' \in [Agent -> RecordType] /\ keys' \in Key
    <3>1. keys' = keys + 1 /\ record' = [record EXCEPT ![a].key = keys + 1]
      BY <1>1 DEF RegisterCluster
    <3>2. record \in [Agent -> RecordType]
      BY DEF TypeOK
    <3> QED
      BY <2>1, <3>1, <3>2 DEF RecordType
  <2>3. UNCHANGED <<call, toClean, cleaning, delivery, k8s, pods>>
    BY <1>1 DEF RegisterCluster
  <2>4. /\ call' \in [Call -> [stage : CallStage, pod : Pod \cup {None},
                              agent : Agent \cup {None}, key : Key]]
        /\ toClean' \subseteq Agent /\ cleaning' \in Agent \cup {None}
    BY <2>3 DEF TypeOK
  <2> QED
    BY <2>2, <2>3, <2>4, ServerTyped
<1>2. CASE ManifestParser(a)
  <2>1. fetched[a] + 1 \in 0 .. MaxManifests
    BY <1>2, Bounds DEF ManifestParser, TypeOK
  <2> QED
    BY <1>2, <2>1 DEF ManifestParser, TypeOK, server, k8s, pods
<1>3. CASE Apply(a)
  BY <1>3 DEF Apply, TypeOK, RecordType, server, pods
<1> QED
  BY <1>1, <1>2, <1>3 DEF Register, GetManifest, GetManifestWithClusterID

LEMMA DownTypes ==
  ASSUME TypeOK, NEW p \in Pod, Down(p)
  PROVE  /\ pod' \in [Pod -> PodStage] /\ podKey' \in [Pod -> Key]
         /\ requests' \in [Pod -> Seq({"ConfigMap", "Deployment"})]
         /\ \A o \in Pod : Len(requests'[o]) <= MaxRequests
<1>1. 0 \in Key /\ 0 <= MaxRequests
  BY Bounds DEF Key
<1> QED
  BY <1>1 DEF Down, TypeOK, PodStage

LEMMA FreeCall == NoCall \in [stage : CallStage, pod : Pod \cup {None},
                              agent : Agent \cup {None}, key : Key]
BY Bounds DEF NoCall, CallStage, Key

LEMMA StopPodTypes ==
  ASSUME TypeOK, NEW p \in Pod, StopPod(p), given' = given
  PROVE  TypeOK'
<1>1. call' \in [Call -> [stage : CallStage, pod : Pod \cup {None},
                         agent : Agent \cup {None}, key : Key]]
  BY FreeCall DEF StopPod, Abandon, TypeOK
<1> QED
  BY <1>1, DownTypes DEF StopPod, TypeOK, delivery, k8s

LEMMA SubscriberTypes ==
  ASSUME TypeOK, NEW p \in Pod, Subscriber(p), given' = given
  PROVE  TypeOK'
<1>0. AgentOf[p] \in Agent
  BY AgentOfType
<1>1. CASE StartPod(p)
  BY <1>0, <1>1 DEF StartPod, TypeOK, PodStage, server, delivery, k8s
<1>2. CASE IsClusterConfirmed(p)
  <2>1. CASE Down(p) /\ UNCHANGED call
    BY <1>2, <2>1, DownTypes DEF IsClusterConfirmed, TypeOK, delivery, k8s
  <2>2. CASE pod' = [pod EXCEPT ![p] = "readSecret"] /\ UNCHANGED <<podKey, requests, call>>
    BY <1>2, <2>2 DEF IsClusterConfirmed, TypeOK, PodStage, delivery, k8s
  <2>3. CASE /\ pod' = [pod EXCEPT ![p] = "confirming"]
             /\ \E q \in Call :
                  /\ call[q] = NoCall
                  /\ call' = [call EXCEPT ![q] = [stage |-> "sent", pod |-> p,
                                             agent |-> AgentOf[p], key |-> podKey[p]]]
             /\ UNCHANGED <<podKey, requests>>
    BY <1>0, <1>2, <2>3 DEF IsClusterConfirmed, TypeOK, PodStage, CallStage, delivery, k8s
  <2> QED
    BY <1>2, <2>1, <2>2, <2>3 DEF IsClusterConfirmed
<1>3. CASE ReadSecret(p)
  BY <1>0, <1>3 DEF ReadSecret, TypeOK, PodStage, server, delivery, k8s
<1>4. CASE ReceiveReply(p)
  <2>1. PICK q \in Call :
          /\ \/ podKey' = [podKey EXCEPT ![p] = call[q].key]
             \/ podKey' = podKey
          /\ \/ pod' = [pod EXCEPT ![p] = "writeConfigMap"]
             \/ pod' = [pod EXCEPT ![p] = "listening"]
          /\ call' = [call EXCEPT ![q] = NoCall]
    BY <1>4 DEF ReceiveReply
  <2>2. podKey' \in [Pod -> Key]
    BY <2>1 DEF TypeOK
  <2>3. pod' \in [Pod -> PodStage]
    BY <2>1 DEF TypeOK, PodStage
  <2>4. call' \in [Call -> [stage : CallStage, pod : Pod \cup {None},
                           agent : Agent \cup {None}, key : Key]]
    BY <2>1, FreeCall DEF TypeOK
  <2> QED
    BY <1>4, <2>2, <2>3, <2>4 DEF ReceiveReply, TypeOK, delivery, k8s
<1>5. CASE ClusterRegister(p)
  <2>1. CASE Down(p) /\ UNCHANGED <<configMap, secret>>
    BY <1>5, <2>1, DownTypes DEF ClusterRegister, TypeOK, server, delivery
  <2>2. CASE UNCHANGED <<podKey, requests>>
    <3>1. pod' \in [Pod -> PodStage]
      <4>1. \E s \in PodStage : pod' = [pod EXCEPT ![p] = s]
        BY <1>5 DEF ClusterRegister, Down, PodStage
      <4> QED
        BY <4>1 DEF TypeOK
    <3>2. configMap' \in [Agent -> {"absent", "false", "true"}] /\ secret' \in [Agent -> Key]
      BY <1>0, <1>5, <2>2 DEF ClusterRegister, TypeOK
    <3>3. /\ UNCHANGED <<server, delivery, podKey, requests>> /\ deployed' = deployed
      BY <1>5, <2>2 DEF ClusterRegister
    <3>4. /\ deployed' \in [Agent -> BOOLEAN] /\ podKey' \in [Pod -> Key]
          /\ requests' \in [Pod -> Seq({"ConfigMap", "Deployment"})]
          /\ \A o \in Pod : Len(requests'[o]) <= MaxRequests
      BY <3>3 DEF TypeOK
    <3> QED
      BY <3>1, <3>2, <3>3, <3>4, ClusterTyped
  <2> QED
    BY <1>5, <2>1, <2>2 DEF ClusterRegister
<1>6. CASE Connect(p)
  BY <1>6 DEF Connect, TypeOK, PodStage, server, delivery, k8s
<1>7. CASE ProcessDelete(p)
  <2>1. requests[p] \in Seq({"ConfigMap", "Deployment"}) /\ requests[p] # <<>>
    BY <1>7 DEF ProcessDelete, TypeOK
  <2>2. /\ Tail(requests[p]) \in Seq({"ConfigMap", "Deployment"})
        /\ Len(Tail(requests[p])) <= Len(requests[p])
    BY <2>1
  <2>3. Len(requests[p]) \in Nat /\ Len(Tail(requests[p])) \in Nat
    BY <2>1, <2>2
  <2>4. Len(Tail(requests[p])) <= MaxRequests
    BY <2>2, <2>3, Bounds DEF TypeOK
  <2> QED
    BY <1>0, <1>7, <2>2, <2>4 DEF ProcessDelete, TypeOK, server, delivery
<1> QED
  BY <1>1, <1>2, <1>3, <1>4, <1>5, <1>6, <1>7 DEF Subscriber

LEMMA ReplyTypes ==
  ASSUME TypeOK, NEW q \in Call, NEW stage \in CallStage, NEW key \in Key,
         Reply(q, stage, key)
  PROVE  call' \in [Call -> [stage : CallStage, pod : Pod \cup {None},
                            agent : Agent \cup {None}, key : Key]]
BY FreeCall DEF Reply, TypeOK

\* A call may be of no agent, as far as its type goes; then nothing changes.
LEMMA RotatedType ==
  ASSUME NEW r \in [Agent -> RecordType], NEW a, NEW key \in Key
  PROVE  [r EXCEPT ![a].key = key, ![a].registered = TRUE] \in [Agent -> RecordType]
<1>1. CASE a \in Agent
  <2>1. [r[a] EXCEPT !.key = key] \in RecordType
    BY <1>1 DEF RecordType
  <2>2. [[r[a] EXCEPT !.key = key] EXCEPT !.registered = TRUE] \in RecordType
    BY <2>1 DEF RecordType
  <2> DEFINE s == [r EXCEPT ![a].key = key, ![a].registered = TRUE]
  <2>3. /\ s = [b \in Agent |-> s[b]]
        /\ s[a] = [[r[a] EXCEPT !.key = key] EXCEPT !.registered = TRUE]
        /\ \A b \in Agent \ {a} : s[b] = r[b]
    BY <1>1
  <2> HIDE DEF s
  <2>4. \A b \in Agent : s[b] \in RecordType
    BY <2>2, <2>3
  <2>5. s \in [Agent -> RecordType]
    BY <2>3, <2>4
  <2> QED
    BY <2>5 DEF s
<1>2. CASE a \notin Agent
  BY <1>2
<1> QED
  BY <1>1, <1>2

LEMMA ServerTypes ==
  ASSUME TypeOK, NEW q \in Call, ConfirmClusterRegistration(q), given' = given
  PROVE  TypeOK'
<1>1. call[q].key \in Key /\ "refused" \in CallStage /\ "confirmed" \in CallStage
  BY DEF TypeOK, CallStage
<1>2. CASE CompareKey(q)
  <2>1. CASE Reply(q, "refused", call[q].key)
    BY <1>1, <1>2, <2>1, ReplyTypes DEF CompareKey, TypeOK, delivery, k8s, pods
  <2>2. CASE call' = [call EXCEPT ![q].stage = "matched"]
    <3>1. call' \in [Call -> [stage : CallStage, pod : Pod \cup {None},
                             agent : Agent \cup {None}, key : Key]]
      <4>1. "matched" \in CallStage
        BY DEF CallStage
      <4>2. call \in [Call -> [stage : CallStage, pod : Pod \cup {None},
                              agent : Agent \cup {None}, key : Key]]
        BY DEF TypeOK
      <4> QED
        BY <2>2, <4>1, <4>2
    <3>2. UNCHANGED <<record, keys, toClean, cleaning, delivery, k8s, pods>>
      BY <1>2 DEF CompareKey
    <3>3. /\ record' \in [Agent -> RecordType] /\ keys' \in Key
          /\ toClean' \subseteq Agent /\ cleaning' \in Agent \cup {None}
      BY <3>2 DEF TypeOK
    <3> QED
      BY <3>1, <3>2, <3>3, ServerTyped
  <2> QED
    BY <1>2, <2>1, <2>2 DEF CompareKey
<1>3. CASE RotateKey(q)
  <2>1. CASE Reply(q, "refused", call[q].key) /\ UNCHANGED <<record, keys>>
    BY <1>1, <1>3, <2>1, ReplyTypes DEF RotateKey, TypeOK, delivery, k8s, pods
  <2>2. CASE /\ keys < MaxKey /\ keys' = keys + 1
             /\ record' = [record EXCEPT ![call[q].agent].key = keys + 1,
                                         ![call[q].agent].registered = TRUE]
             /\ Reply(q, "confirmed", keys + 1)
    <3>1. keys + 1 \in Key
      BY <2>2, NextKey
    <3>2. record' \in [Agent -> RecordType]
      BY <2>2, <3>1, RotatedType DEF TypeOK
    <3>3. call' \in [Call -> [stage : CallStage, pod : Pod \cup {None},
                             agent : Agent \cup {None}, key : Key]]
      BY <1>1, <2>2, <3>1, ReplyTypes
    <3> QED
      BY <1>3, <2>2, <3>1, <3>2, <3>3 DEF RotateKey, TypeOK, delivery, k8s, pods
  <2> QED
    BY <1>3, <2>1, <2>2 DEF RotateKey
<1> QED
  BY <1>2, <1>3 DEF ConfirmClusterRegistration

LEMMA SendTypes ==
  ASSUME TypeOK, NEW a \in Agent, NEW kind \in {"ConfigMap", "Deployment"}, Send(a, kind)
  PROVE  /\ requests' \in [Pod -> Seq({"ConfigMap", "Deployment"})]
         /\ \A p \in Pod : Len(requests'[p]) <= MaxRequests
<1>1. ASSUME NEW p \in Pod
      PROVE  /\ requests'[p] \in Seq({"ConfigMap", "Deployment"})
             /\ Len(requests'[p]) <= MaxRequests
  <2>1. /\ requests[p] \in Seq({"ConfigMap", "Deployment"})
        /\ Len(requests[p]) \in Nat /\ Len(requests[p]) <= MaxRequests
    BY DEF TypeOK
  <2>2. CASE p \in PodsOf(a) /\ pod[p] = "connected"
    <3>1. requests'[p] = Append(requests[p], kind) /\ Len(requests[p]) < MaxRequests
      BY <2>2 DEF Send
    <3>2. Len(Append(requests[p], kind)) = Len(requests[p]) + 1
      BY <2>1
    <3> QED
      BY <2>1, <3>1, <3>2, Bounds
  <2>3. CASE ~ (p \in PodsOf(a) /\ pod[p] = "connected")
    BY <2>1, <2>3 DEF Send
  <2> QED
    BY <2>2, <2>3
<1> QED
  BY <1>1 DEF Send

LEMMA DeleteTypes ==
  ASSUME TypeOK, given' = given, SendDelete \/ \E S \in SUBSET Agent : DeleteClusters(S)
  PROVE  TypeOK'
<1>1. ASSUME NEW S \in SUBSET Agent, DeleteClusters(S) PROVE TypeOK'
  <2>1. PICK a \in S : record' = [record EXCEPT ![a].removed = TRUE]
    BY <1>1 DEF DeleteClusters
  <2>2. record' \in [Agent -> RecordType]
    <3>1. record \in [Agent -> RecordType]
      BY DEF TypeOK
    <3> QED
      BY <2>1, <3>1 DEF RecordType
  <2>3. toClean' \subseteq Agent /\ cleaning' \in Agent \cup {None}
    BY <1>1 DEF DeleteClusters, TypeOK
  <2>4. UNCHANGED <<keys, call, delivery, k8s, pods>>
    BY <1>1 DEF DeleteClusters
  <2>5. /\ keys' \in Key
        /\ call' \in [Call -> [stage : CallStage, pod : Pod \cup {None},
                              agent : Agent \cup {None}, key : Key]]
    BY <2>4 DEF TypeOK
  <2> QED
    BY <2>2, <2>3, <2>4, <2>5, ServerTyped
<1>2. CASE SendDelete
  <2>1. ASSUME NEW a \in toClean, toClean' = toClean \ {a}, cleaning' = a, Send(a, "ConfigMap")
        PROVE  TypeOK'
    <3>1. a \in Agent
      BY DEF TypeOK
    <3> QED
      BY <1>2, <2>1, <3>1, SendTypes DEF SendDelete, TypeOK, delivery, k8s
  <2>2. ASSUME cleaning # None, cleaning' = None, Send(cleaning, "Deployment"), UNCHANGED toClean
        PROVE  TypeOK'
    <3>1. cleaning \in Agent
      BY <2>2 DEF TypeOK
    <3> QED
      BY <1>2, <2>2, <3>1, SendTypes DEF SendDelete, TypeOK, delivery, k8s
  <2> QED
    BY <1>2, <2>1, <2>2 DEF SendDelete
<1> QED
  BY <1>1, <1>2

LEMMA StepTypes == TypeOK /\ [Next]_vars => TypeOK'
<1> SUFFICES ASSUME TypeOK, [Next]_vars PROVE TypeOK'
  OBVIOUS
<1>1. CASE UNCHANGED vars
  BY <1>1 DEF vars, system, server, delivery, k8s, pods, TypeOK
<1>2. CASE Next
  BY <1>2, RegisterTypes, SubscriberTypes, StopPodTypes, ServerTypes, DeleteTypes
     DEF Next, Step
<1> QED
  BY <1>1, <1>2

\* Every variable keeps its type (the record, the manifest, the ConfigMap and
\* the Secret, the processes and their requests), for any sizes and bounds.
THEOREM TypeCorrect == Spec => []TypeOK
BY InitTypes, StepTypes, PTL DEF Spec

-----------------------------------------------------------------------------
(* The invariant, action by action.                                        *)

LEMMA Naturals ==
  ASSUME TypeOK
  PROVE  /\ keys \in Nat
         /\ \A a \in Agent : /\ record[a].key \in Nat /\ manifest[a].key \in Nat
                             /\ secret[a] \in Nat
         /\ \A p \in Pod : podKey[p] \in Nat /\ AgentOf[p] \in Agent
         /\ \A q \in Call : call[q].key \in Nat
BY Bounds, AgentOfType DEF TypeOK, RecordType, Key

LEMMA InitInv == Init => IInv
<1> SUFFICES ASSUME Init PROVE IInv
  OBVIOUS
<1>1. ServerKnowsFirst /\ ManifestsBehind
  BY DEF Init, NoRecord, ServerKnowsFirst, PodsOf, ManifestsBehind
<1>2. CallsBehind /\ CallsAwaited /\ WritersConfirmed
  BY DEF Init, NoCall, CallsBehind, CallsAwaited, WritersConfirmed
<1> QED
  BY <1>1, <1>2, InitTypes DEF IInv

\* What is not ahead of the record stays so when a record gets a newer key.
LEMMA RecordGrows ==
  ASSUME IInv, NEW a \in Agent,
         UNCHANGED <<delivery, k8s, pods>>,
         keys' = keys + 1,
         record'[a].key = keys', \A b \in Agent \ {a} : record'[b] = record[b],
         record[a].registered => record'[a].registered
  PROVE  ServerKnowsFirst' /\ ManifestsBehind' /\ WritersConfirmed'
<1>1. /\ keys' > 0
      /\ \A b \in Agent : /\ record[b].key <= record'[b].key
                          /\ record'[b].key <= keys'
                          /\ record[b].registered => record'[b].registered
                          /\ record'[b].registered => record'[b].key # 0
  BY Naturals DEF IInv, ManifestsBehind
<1>2. \A b \in Agent : record'[b].key \in Nat
  BY Naturals DEF IInv
<1>3. ServerKnowsFirst'
  BY <1>1, <1>2, Naturals DEF IInv, ServerKnowsFirst, PodsOf, k8s, pods
<1>4. ManifestsBehind'
  BY <1>1, <1>2, Naturals DEF IInv, ManifestsBehind, delivery
<1>5. WritersConfirmed'
  BY <1>1, AgentOfType DEF IInv, WritersConfirmed, pods
<1> QED
  BY <1>3, <1>4, <1>5

LEMMA CallsGrow ==
  ASSUME IInv, NEW a \in Agent, keys' = keys + 1,
         record'[a].key = keys', \A b \in Agent \ {a} : record'[b] = record[b],
         record[a].registered => record'[a].registered,
         NEW q \in Call, call[q].stage # "free"
  PROVE  /\ call[q].agent \in Agent
         /\ call[q].key <= record'[call[q].agent].key
         /\ call[q].stage = "confirmed" => record'[call[q].agent].registered
<1>1. /\ call[q].agent \in Agent
      /\ call[q].key <= record[call[q].agent].key
      /\ call[q].stage = "confirmed" => record[call[q].agent].registered
  BY DEF IInv, CallsBehind
<1>2. PICK b \in Agent : b = call[q].agent
  BY <1>1
<1>3. record[b].key \in Nat /\ call[q].key \in Nat
  BY Naturals DEF IInv
<1>4. record[b].key <= record'[b].key /\ record'[b].key \in Nat
  BY Naturals DEF IInv, ManifestsBehind
<1>5. call[q].key <= record'[b].key
  BY <1>1, <1>2, <1>3, <1>4
<1>6. record[b].registered => record'[b].registered
  OBVIOUS
<1> QED
  BY <1>1, <1>2, <1>5, <1>6

LEMMA RegisterClusterInv ==
  ASSUME IInv, NEW a \in Agent, RegisterCluster(a)
  PROVE  ServerKnowsFirst' /\ ManifestsBehind' /\ CallsBehind' /\ CallsAwaited' /\ WritersConfirmed'
<1>1. /\ record'[a].key = keys' /\ keys' = keys + 1 /\ ~ record[a].registered
      /\ \A b \in Agent \ {a} : record'[b] = record[b]
  BY DEF RegisterCluster, NoRecord, IInv, TypeOK, RecordType
<1>2. ServerKnowsFirst' /\ ManifestsBehind' /\ WritersConfirmed'
  BY <1>1, RecordGrows DEF RegisterCluster
<1>3. CallsBehind'
  BY <1>1, CallsGrow DEF CallsBehind, RegisterCluster
<1>4. CallsAwaited'
  BY DEF IInv, CallsAwaited, RegisterCluster, pods
<1> QED
  BY <1>2, <1>3, <1>4

LEMMA ManifestInv ==
  ASSUME IInv, NEW a \in Agent, ManifestParser(a)
  PROVE  ServerKnowsFirst' /\ ManifestsBehind' /\ CallsBehind' /\ CallsAwaited' /\ WritersConfirmed'
<1>1. ServerKnowsFirst' /\ WritersConfirmed' /\ CallsBehind' /\ CallsAwaited'
  BY DEF IInv, ServerKnowsFirst, PodsOf, WritersConfirmed, CallsBehind, CallsAwaited,
         ManifestParser, server, k8s, pods
<1>2. ManifestsBehind'
  BY Naturals DEF IInv, TypeOK, ManifestsBehind, ManifestParser, server
<1> QED
  BY <1>1, <1>2

LEMMA ApplyInv ==
  ASSUME IInv, NEW a \in Agent, Apply(a)
  PROVE  ServerKnowsFirst' /\ ManifestsBehind' /\ CallsBehind' /\ CallsAwaited' /\ WritersConfirmed'
<1>1. /\ \/ configMap' = configMap
         \/ configMap' = [configMap EXCEPT ![a] = IF manifest[a].registered THEN "true" ELSE "false"]
      /\ \/ secret' = secret
         \/ secret' = [secret EXCEPT ![a] = manifest[a].key]
  BY DEF Apply
<1>2. \A b \in Agent : configMap'[b] = "true" => record[b].registered
  BY <1>1 DEF IInv, TypeOK, ServerKnowsFirst, ManifestsBehind
<1>3. \A b \in Agent : secret'[b] <= record[b].key
  BY <1>1 DEF IInv, TypeOK, ServerKnowsFirst, ManifestsBehind
<1>4. ServerKnowsFirst'
  BY <1>2, <1>3 DEF IInv, ServerKnowsFirst, PodsOf, Apply, server, pods
<1>5. ManifestsBehind' /\ WritersConfirmed' /\ CallsBehind' /\ CallsAwaited'
  BY DEF IInv, ManifestsBehind, WritersConfirmed, CallsBehind, CallsAwaited,
         Apply, server, pods
<1> QED
  BY <1>4, <1>5

\* A process that ends leaves no key and no call behind.
LEMMA StopPodInv ==
  ASSUME IInv, NEW p \in Pod, StopPod(p)
  PROVE  ServerKnowsFirst' /\ ManifestsBehind' /\ CallsBehind' /\ CallsAwaited' /\ WritersConfirmed'
<1>1. \A o \in Pod : /\ podKey'[o] = IF o = p THEN 0 ELSE podKey[o]
                    /\ pod'[o] = IF o = p THEN "down" ELSE pod[o]
  BY DEF StopPod, Down, IInv, TypeOK
<1>2. ServerKnowsFirst'
  BY <1>1, Naturals DEF IInv, ServerKnowsFirst, PodsOf, StopPod, k8s
<1>3. ManifestsBehind' /\ WritersConfirmed'
  BY <1>1 DEF IInv, ManifestsBehind, WritersConfirmed, StopPod, delivery
<1>4. \A q \in Call :
        /\ call'[q].pod # p
        /\ call'[q].pod # None => call'[q] = call[q]
        /\ call'[q].stage # "free" => /\ call'[q].stage = call[q].stage
                                      /\ call'[q].agent = call[q].agent
                                      /\ call'[q].key = call[q].key
  BY NoneIsNone DEF StopPod, Abandon, NoCall, IInv, TypeOK
<1>5. CallsBehind'
  BY <1>4 DEF IInv, CallsBehind, StopPod
<1>6. CallsAwaited'
  <2> SUFFICES ASSUME NEW q \in Call, call'[q].pod # None
               PROVE  /\ call'[q].stage # "free"
                      /\ call'[q].agent = AgentOf[call'[q].pod]
                      /\ pod'[call'[q].pod] = "confirming"
                      /\ call'[q].stage \in {"sent", "matched"} =>
                           podKey'[call'[q].pod] = call'[q].key
                      /\ \A r \in Call : call'[r].pod = call'[q].pod => r = q
    BY DEF CallsAwaited
  <2>1. call'[q] = call[q] /\ call[q].pod \in Pod \ {p}
    BY <1>4 DEF IInv, TypeOK
  <2>2. \A r \in Call : call'[r].pod = call'[q].pod => call'[r] = call[r]
    BY <1>4
  <2> QED
    BY <1>1, <2>1, <2>2 DEF IInv, CallsAwaited
<1> QED
  BY <1>2, <1>3, <1>5, <1>6

\* A process that takes a step without a call: the record and what is on the
\* way stay, and so do the pods that wait.
LEMMA ProcessInv ==
  ASSUME IInv, NEW p \in Pod, NEW stage \in PodStage,
         pod[p] # "confirming", stage # "writeConfigMap" \/ pod[p] = stage,
         pod' = [pod EXCEPT ![p] = stage],
         \A o \in Pod \ {p} : podKey'[o] = podKey[o],
         podKey'[p] <= record[AgentOf[p]].key,
         \A a \in Agent : configMap'[a] = "true" => record[a].registered,
         \A a \in Agent : secret'[a] <= record[a].key,
         UNCHANGED <<record, keys, call, manifest>>
  PROVE  ServerKnowsFirst' /\ ManifestsBehind' /\ CallsBehind' /\ CallsAwaited' /\ WritersConfirmed'
<1>1. pod'[p] = stage /\ \A o \in Pod \ {p} : pod'[o] = pod[o]
  BY DEF IInv, TypeOK
<1>2. ServerKnowsFirst'
  BY DEF IInv, ServerKnowsFirst, PodsOf
<1>3. ManifestsBehind' /\ CallsBehind' /\ WritersConfirmed'
  BY <1>1 DEF IInv, ManifestsBehind, CallsBehind, WritersConfirmed
<1>4. \A q \in Call : call[q].pod # None => call[q].pod \in Pod \ {p}
  BY DEF IInv, TypeOK, CallsAwaited
<1>5. CallsAwaited'
  BY <1>1, <1>4 DEF IInv, CallsAwaited
<1> QED
  BY <1>2, <1>3, <1>5

LEMMA IsClusterConfirmedInv ==
  ASSUME IInv, NEW p \in Pod, IsClusterConfirmed(p)
  PROVE  ServerKnowsFirst' /\ ManifestsBehind' /\ CallsBehind' /\ CallsAwaited' /\ WritersConfirmed'
<1>1. /\ pod[p] = "starting" /\ AgentOf[p] \in Agent
      /\ UNCHANGED <<record, keys, manifest, configMap, secret>>
  BY AgentOfType DEF IsClusterConfirmed, delivery, k8s
<1>2. /\ \A a \in Agent : configMap'[a] = "true" => record[a].registered
      /\ \A a \in Agent : secret'[a] <= record[a].key
      /\ podKey[p] <= record[AgentOf[p]].key /\ 0 <= record[AgentOf[p]].key
  BY <1>1, Naturals DEF IInv, ServerKnowsFirst, PodsOf
<1>3. CASE Down(p) /\ UNCHANGED call
  <2>1. /\ podKey'[p] = 0 /\ \A o \in Pod \ {p} : podKey'[o] = podKey[o]
        /\ pod' = [pod EXCEPT ![p] = "down"] /\ "down" \in PodStage
    BY <1>3 DEF Down, IInv, TypeOK, PodStage
  <2> QED
    BY <1>1, <1>2, <1>3, <2>1, ProcessInv
<1>4. CASE pod' = [pod EXCEPT ![p] = "readSecret"] /\ UNCHANGED <<podKey, requests, call>>
  <2>1. "readSecret" \in PodStage
    BY DEF PodStage
  <2> QED
    BY <1>1, <1>2, <1>4, <2>1, ProcessInv
<1>5. CASE /\ pod' = [pod EXCEPT ![p] = "confirming"]
           /\ \E q \in Call :
                /\ call[q] = NoCall
                /\ call' = [call EXCEPT ![q] = [stage |-> "sent", pod |-> p,
                                           agent |-> AgentOf[p], key |-> podKey[p]]]
           /\ UNCHANGED <<podKey, requests>>
  <2>1. PICK q \in Call :
          call' = [call EXCEPT ![q] = [stage |-> "sent", pod |-> p,
                                       agent |-> AgentOf[p], key |-> podKey[p]]]
    BY <1>5
  <2>2. /\ call'[q].stage = "sent" /\ call'[q].pod = p
        /\ call'[q].agent = AgentOf[p] /\ call'[q].key = podKey[p]
        /\ \A r \in Call \ {q} : call'[r] = call[r]
    BY <2>1 DEF IInv, TypeOK
  <2>3. pod'[p] = "confirming" /\ \A o \in Pod \ {p} : pod'[o] = pod[o]
    BY <1>5 DEF IInv, TypeOK
  <2>4. \A r \in Call : call[r].pod # None => call[r].pod \in Pod \ {p}
    BY <1>1 DEF IInv, TypeOK, CallsAwaited
  <2>5. ServerKnowsFirst'
    BY <1>1, <1>5 DEF IInv, ServerKnowsFirst, PodsOf
  <2>6. ManifestsBehind' /\ WritersConfirmed'
    BY <1>1, <2>3 DEF IInv, ManifestsBehind, WritersConfirmed
  <2>7. CallsBehind'
    BY <1>1, <1>2, <2>2 DEF IInv, CallsBehind
  <2>8. CallsAwaited'
    <3> SUFFICES ASSUME NEW r \in Call, call'[r].pod # None
                 PROVE  /\ call'[r].stage # "free"
                        /\ call'[r].agent = AgentOf[call'[r].pod]
                        /\ pod'[call'[r].pod] = "confirming"
                        /\ call'[r].stage \in {"sent", "matched"} =>
                             podKey'[call'[r].pod] = call'[r].key
                        /\ \A s \in Call : call'[s].pod = call'[r].pod => s = r
      BY DEF CallsAwaited
    <3>1. CASE r = q
      BY <1>5, <2>2, <2>3, <2>4, <3>1, NoneIsNone
    <3>2. CASE r # q
      BY <1>5, <2>2, <2>3, <2>4, <3>2 DEF IInv, CallsAwaited
    <3> QED
      BY <3>1, <3>2
  <2> QED
    BY <2>5, <2>6, <2>7, <2>8
<1> QED
  BY <1>1, <1>3, <1>4, <1>5 DEF IsClusterConfirmed

LEMMA StartPodInv ==
  ASSUME IInv, NEW p \in Pod, StartPod(p)
  PROVE  ServerKnowsFirst' /\ ManifestsBehind' /\ CallsBehind' /\ CallsAwaited' /\ WritersConfirmed'
<1>1. /\ pod[p] = "down" /\ AgentOf[p] \in Agent /\ "starting" \in PodStage
      /\ pod' = [pod EXCEPT ![p] = "starting"]
      /\ UNCHANGED <<record, keys, call, manifest, configMap, secret>>
  BY AgentOfType DEF StartPod, server, delivery, k8s, PodStage
<1>2. /\ podKey'[p] = secret[AgentOf[p]]
      /\ \A o \in Pod \ {p} : podKey'[o] = podKey[o]
  BY DEF StartPod, IInv, TypeOK
<1>3. /\ \A a \in Agent : configMap'[a] = "true" => record[a].registered
      /\ \A a \in Agent : secret'[a] <= record[a].key
      /\ podKey'[p] <= record[AgentOf[p]].key
  BY <1>1, <1>2 DEF IInv, ServerKnowsFirst
<1> QED
  BY <1>1, <1>2, <1>3, ProcessInv

LEMMA ReadSecretInv ==
  ASSUME IInv, NEW p \in Pod, ReadSecret(p)
  PROVE  ServerKnowsFirst' /\ ManifestsBehind' /\ CallsBehind' /\ CallsAwaited' /\ WritersConfirmed'
<1>1. /\ pod[p] = "readSecret" /\ AgentOf[p] \in Agent /\ "listening" \in PodStage
      /\ pod' = [pod EXCEPT ![p] = "listening"]
      /\ UNCHANGED <<record, keys, call, manifest, configMap, secret>>
  BY AgentOfType DEF ReadSecret, server, delivery, k8s, PodStage
<1>2. /\ podKey'[p] = secret[AgentOf[p]]
      /\ \A o \in Pod \ {p} : podKey'[o] = podKey[o]
  BY DEF ReadSecret, IInv, TypeOK
<1>3. /\ \A a \in Agent : configMap'[a] = "true" => record[a].registered
      /\ \A a \in Agent : secret'[a] <= record[a].key
      /\ podKey'[p] <= record[AgentOf[p]].key
  BY <1>1, <1>2 DEF IInv, ServerKnowsFirst
<1> QED
  BY <1>1, <1>2, <1>3, ProcessInv

LEMMA ClusterRegisterInv ==
  ASSUME IInv, NEW p \in Pod, ClusterRegister(p)
  PROVE  ServerKnowsFirst' /\ ManifestsBehind' /\ CallsBehind' /\ CallsAwaited' /\ WritersConfirmed'
<1>1. /\ pod[p] \in {"writeConfigMap", "writeSecret"} /\ AgentOf[p] \in Agent
      /\ UNCHANGED <<record, keys, call, manifest>>
  BY AgentOfType DEF ClusterRegister, server, delivery
<1>2. {"down", "writeSecret", "listening"} \subseteq PodStage
  BY DEF PodStage
<1>3. CASE pod[p] = "writeConfigMap" /\ Down(p) /\ UNCHANGED <<configMap, secret>>
  <2>1. /\ podKey'[p] = 0 /\ \A o \in Pod \ {p} : podKey'[o] = podKey[o]
        /\ pod' = [pod EXCEPT ![p] = "down"]
    BY <1>3 DEF Down, IInv, TypeOK
  <2>2. /\ podKey'[p] <= record[AgentOf[p]].key
        /\ \A a \in Agent : configMap'[a] = "true" => record[a].registered
        /\ \A a \in Agent : secret'[a] <= record[a].key
    BY <1>1, <1>3, <2>1, Naturals DEF IInv, ServerKnowsFirst
  <2> QED
    BY <1>1, <1>2, <1>3, <2>1, <2>2, ProcessInv
<1>4. CASE /\ pod[p] = "writeConfigMap"
           /\ configMap' = [configMap EXCEPT ![AgentOf[p]] = "true"]
           /\ pod' = [pod EXCEPT ![p] = "writeSecret"]
           /\ UNCHANGED <<secret, podKey, requests>>
  <2>1. record[AgentOf[p]].registered
    BY <1>4 DEF IInv, WritersConfirmed
  <2>2. \A a \in Agent : configMap'[a] = "true" => record[a].registered
    BY <1>4, <2>1 DEF IInv, TypeOK, ServerKnowsFirst
  <2>3. /\ \A a \in Agent : secret'[a] <= record[a].key
        /\ podKey'[p] <= record[AgentOf[p]].key
    BY <1>1, <1>4 DEF IInv, ServerKnowsFirst, PodsOf
  <2> QED
    BY <1>1, <1>2, <1>4, <2>2, <2>3, ProcessInv
<1>5. CASE /\ pod[p] = "writeSecret"
           /\ secret' = [secret EXCEPT ![AgentOf[p]] = podKey[p]]
           /\ pod' = [pod EXCEPT ![p] = "listening"]
           /\ UNCHANGED <<configMap, podKey, requests>>
  <2>1. podKey'[p] <= record[AgentOf[p]].key
    BY <1>1, <1>5 DEF IInv, ServerKnowsFirst, PodsOf
  <2>2. \A a \in Agent : secret'[a] <= record[a].key
    BY <1>1, <1>5, <2>1 DEF IInv, TypeOK, ServerKnowsFirst
  <2>3. \A a \in Agent : configMap'[a] = "true" => record[a].registered
    BY <1>5 DEF IInv, ServerKnowsFirst
  <2> QED
    BY <1>1, <1>2, <1>5, <2>1, <2>2, <2>3, ProcessInv
<1> QED
  BY <1>3, <1>4, <1>5 DEF ClusterRegister

LEMMA ConnectInv ==
  ASSUME IInv, NEW p \in Pod, Connect(p)
  PROVE  ServerKnowsFirst' /\ ManifestsBehind' /\ CallsBehind' /\ CallsAwaited' /\ WritersConfirmed'
<1>1. /\ pod[p] = "listening" /\ AgentOf[p] \in Agent
      /\ UNCHANGED <<record, keys, call, manifest, configMap, secret, podKey>>
  BY AgentOfType DEF Connect, server, delivery, k8s
<1>2. PICK stage \in {"connected", "turnedAway"} : pod' = [pod EXCEPT ![p] = stage]
  BY DEF Connect
<1>3. stage \in PodStage /\ stage # "writeConfigMap"
  BY <1>2 DEF PodStage
<1>4. /\ \A a \in Agent : configMap'[a] = "true" => record[a].registered
      /\ \A a \in Agent : secret'[a] <= record[a].key
      /\ podKey'[p] <= record[AgentOf[p]].key
  BY <1>1 DEF IInv, ServerKnowsFirst, PodsOf
<1> QED
  BY <1>1, <1>2, <1>3, <1>4, ProcessInv

\* The clean-up deletes from the Kubernetes cluster and changes no key.
LEMMA ProcessDeleteInv ==
  ASSUME IInv, NEW p \in Pod, ProcessDelete(p)
  PROVE  ServerKnowsFirst' /\ ManifestsBehind' /\ CallsBehind' /\ CallsAwaited' /\ WritersConfirmed'
<1>1. /\ \A a \in Agent : configMap'[a] = "true" => configMap[a] = "true"
      /\ UNCHANGED <<record, keys, call, manifest, secret, pod, podKey>>
  BY AgentOfType DEF ProcessDelete, server, delivery, IInv, TypeOK
<1> QED
  BY <1>1 DEF IInv, ServerKnowsFirst, PodsOf, ManifestsBehind, CallsBehind,
              CallsAwaited, WritersConfirmed

\* The one pod that waited for the call takes its key.
LEMMA ReceiveReplyInv ==
  ASSUME IInv, NEW p \in Pod, ReceiveReply(p)
  PROVE  ServerKnowsFirst' /\ ManifestsBehind' /\ CallsBehind' /\ CallsAwaited' /\ WritersConfirmed'
<1>1. PICK q \in Call :
        /\ call[q].pod = p
        /\ \/ /\ call[q].stage = "confirmed"
              /\ podKey' = [podKey EXCEPT ![p] = call[q].key]
              /\ pod' = [pod EXCEPT ![p] = "writeConfigMap"]
           \/ /\ call[q].stage = "refused"
              /\ pod' = [pod EXCEPT ![p] = "listening"]
              /\ UNCHANGED podKey
        /\ call' = [call EXCEPT ![q] = NoCall]
  BY DEF ReceiveReply
<1>2. UNCHANGED <<record, keys, manifest, configMap, secret>>
  BY DEF ReceiveReply, delivery, k8s
<1>3. p # None /\ AgentOf[p] \in Agent
  BY NoneIsNone, AgentOfType
<1>4. /\ call[q].agent = AgentOf[p] /\ call[q].stage # "free"
      /\ \A r \in Call \ {q} : call[r].pod # p
  BY <1>1, <1>3 DEF IInv, CallsAwaited
<1>5. /\ call[q].key <= record[AgentOf[p]].key
      /\ call[q].stage = "confirmed" => record[AgentOf[p]].registered
  BY <1>4 DEF IInv, CallsBehind
<1>6. /\ \A o \in Pod \ {p} : podKey'[o] = podKey[o] /\ pod'[o] = pod[o]
      /\ podKey'[p] \in {call[q].key, podKey[p]}
      /\ pod'[p] = "writeConfigMap" => call[q].stage = "confirmed"
  BY <1>1 DEF IInv, TypeOK
<1>7. call'[q] = NoCall /\ \A r \in Call \ {q} : call'[r] = call[r]
  BY <1>1 DEF IInv, TypeOK
<1>8. ServerKnowsFirst'
  BY <1>2, <1>5, <1>6 DEF IInv, ServerKnowsFirst, PodsOf
<1>9. ManifestsBehind' /\ WritersConfirmed'
  BY <1>2, <1>5, <1>6 DEF IInv, ManifestsBehind, WritersConfirmed
<1>10. CallsBehind'
  BY <1>2, <1>7 DEF IInv, CallsBehind, NoCall
<1>11. CallsAwaited'
  <2> SUFFICES ASSUME NEW r \in Call, call'[r].pod # None
               PROVE  /\ call'[r].stage # "free"
                      /\ call'[r].agent = AgentOf[call'[r].pod]
                      /\ pod'[call'[r].pod] = "confirming"
                      /\ call'[r].stage \in {"sent", "matched"} =>
                           podKey'[call'[r].pod] = call'[r].key
                      /\ \A s \in Call : call'[s].pod = call'[r].pod => s = r
    BY DEF CallsAwaited
  <2>1. r # q /\ call'[r] = call[r]
    BY <1>7 DEF NoCall
  <2>2. call[r].pod \in Pod \ {p}
    BY <1>4, <2>1 DEF IInv, TypeOK
  <2> QED
    BY <1>6, <1>7, <2>1, <2>2 DEF IInv, CallsAwaited, NoCall
<1> QED
  BY <1>8, <1>9, <1>10, <1>11

\* A reply leaves the call with its pod and agent, or nobody waits for it.
LEMMA ReplyInv ==
  ASSUME IInv, NEW q \in Call, NEW stage \in {"confirmed", "refused"}, NEW key,
         Reply(q, stage, key)
  PROVE  /\ \A r \in Call \ {q} : call'[r] = call[r]
         /\ call[q].pod = None => call'[q] = NoCall
         /\ call[q].pod # None => /\ call'[q].stage = stage /\ call'[q].key = key
                                 /\ call'[q].pod = call[q].pod
                                 /\ call'[q].agent = call[q].agent
BY DEF Reply, IInv, TypeOK

\* What becomes of the calls when q is answered or compared, and the record
\* does not fall behind its key.
LEMMA AnsweredInv ==
  ASSUME IInv, NEW q \in Call, UNCHANGED pods,
         \A r \in Call \ {q} : call'[r] = call[r],
         \/ call'[q] = NoCall
         \/ /\ call'[q].stage \in {"matched", "confirmed", "refused"}
            /\ call'[q].pod = call[q].pod /\ call'[q].agent = call[q].agent
            /\ call[q].stage # "free"
            /\ call'[q].stage = "matched" =>
                  call[q].stage = "sent" /\ call'[q].key = call[q].key
  PROVE  CallsAwaited'
<1> SUFFICES ASSUME NEW r \in Call, call'[r].pod # None
             PROVE  /\ call'[r].stage # "free"
                    /\ call'[r].agent = AgentOf[call'[r].pod]
                    /\ pod'[call'[r].pod] = "confirming"
                    /\ call'[r].stage \in {"sent", "matched"} =>
                         podKey'[call'[r].pod] = call'[r].key
                    /\ \A s \in Call : call'[s].pod = call'[r].pod => s = r
  BY DEF CallsAwaited
<1>1. /\ call'[r].pod = call[r].pod /\ call[r].pod # None
      /\ call'[r].agent = call[r].agent /\ call'[r].stage # "free"
      /\ call'[r].stage \in {"sent", "matched"} =>
           call[r].stage \in {"sent", "matched"} /\ call'[r].key = call[r].key
  <2>1. CASE r = q
    BY <2>1 DEF NoCall
  <2>2. CASE r # q
    BY <2>2 DEF IInv, CallsAwaited
  <2> QED
    BY <2>1, <2>2
<1>2. \A s \in Call : call'[s].pod = call'[r].pod => call[s].pod = call[r].pod
  BY <1>1 DEF NoCall
<1> QED
  BY <1>1, <1>2 DEF IInv, CallsAwaited, pods

LEMMA CompareKeyInv ==
  ASSUME IInv, NEW q \in Call, CompareKey(q)
  PROVE  ServerKnowsFirst' /\ ManifestsBehind' /\ CallsBehind' /\ CallsAwaited' /\ WritersConfirmed'
<1>1. call[q].stage = "sent" /\ UNCHANGED <<record, keys, manifest, configMap, secret>>
      /\ UNCHANGED pods
  BY DEF CompareKey, delivery, k8s
<1>2. /\ \A r \in Call \ {q} : call'[r] = call[r]
      /\ \/ call'[q] = NoCall
         \/ /\ call'[q].stage \in {"matched", "refused"}
            /\ call'[q].pod = call[q].pod /\ call'[q].agent = call[q].agent
            /\ call'[q].key = call[q].key
  <2>1. CASE call' = [call EXCEPT ![q].stage = "matched"]
    BY <2>1 DEF IInv, TypeOK
  <2>2. CASE Reply(q, "refused", call[q].key)
    BY <2>2, ReplyInv
  <2> QED
    BY <2>1, <2>2 DEF CompareKey
<1>3. ServerKnowsFirst' /\ ManifestsBehind' /\ WritersConfirmed'
  BY <1>1 DEF IInv, ServerKnowsFirst, PodsOf, ManifestsBehind, WritersConfirmed, pods
<1>4. CallsBehind'
  BY <1>1, <1>2 DEF IInv, CallsBehind, NoCall
<1>5. CallsAwaited'
  BY <1>1, <1>2, AnsweredInv
<1> QED
  BY <1>3, <1>4, <1>5

LEMMA RotateKeyInv ==
  ASSUME IInv, NEW q \in Call, RotateKey(q)
  PROVE  ServerKnowsFirst' /\ ManifestsBehind' /\ CallsBehind' /\ CallsAwaited' /\ WritersConfirmed'
<1>1. /\ call[q].stage = "matched" /\ call[q].agent \in Agent
      /\ UNCHANGED <<manifest, configMap, secret>> /\ UNCHANGED <<delivery, k8s, pods>>
  BY DEF RotateKey, delivery, k8s, IInv, CallsBehind
<1>2. CASE Reply(q, "refused", call[q].key) /\ UNCHANGED <<record, keys>>
  <2>1. /\ \A r \in Call \ {q} : call'[r] = call[r]
        /\ \/ call'[q] = NoCall
           \/ /\ call'[q].stage = "refused" /\ call'[q].key = call[q].key
              /\ call'[q].pod = call[q].pod /\ call'[q].agent = call[q].agent
    BY <1>2, ReplyInv
  <2>2. ServerKnowsFirst' /\ ManifestsBehind' /\ WritersConfirmed'
    BY <1>1, <1>2 DEF IInv, ServerKnowsFirst, PodsOf, ManifestsBehind, WritersConfirmed, pods
  <2>3. CallsBehind'
    BY <1>1, <1>2, <2>1 DEF IInv, CallsBehind, NoCall
  <2>4. CallsAwaited'
    BY <1>1, <2>1, AnsweredInv
  <2> QED
    BY <2>2, <2>3, <2>4
<1>3. CASE /\ keys' = keys + 1
           /\ record' = [record EXCEPT ![call[q].agent].key = keys + 1,
                                       ![call[q].agent].registered = TRUE]
           /\ Reply(q, "confirmed", keys + 1)
  <2>1. PICK a \in Agent : a = call[q].agent
    BY <1>1
  <2>2. /\ record'[a].key = keys' /\ record'[a].registered
        /\ \A b \in Agent \ {a} : record'[b] = record[b]
    BY <1>3, <2>1 DEF IInv, TypeOK, RecordType
  <2>3. /\ \A r \in Call \ {q} : call'[r] = call[r]
        /\ \/ call'[q] = NoCall
           \/ /\ call'[q].stage = "confirmed" /\ call'[q].key = keys'
              /\ call'[q].pod = call[q].pod /\ call'[q].agent = a
    BY <1>3, <2>1, ReplyInv
  <2>4. ServerKnowsFirst' /\ ManifestsBehind' /\ WritersConfirmed'
    BY <1>1, <1>3, <2>2, RecordGrows
  <2>5. CallsBehind'
    <3> SUFFICES ASSUME NEW r \in Call, call'[r].stage # "free"
                 PROVE  /\ call'[r].agent \in Agent
                        /\ call'[r].key <= record'[call'[r].agent].key
                        /\ call'[r].stage = "confirmed" => record'[call'[r].agent].registered
      BY DEF CallsBehind
    <3>1. CASE r = q
      <4>1. call'[r].key = keys' /\ call'[r].agent = a /\ keys' \in Nat
        BY <1>3, <2>3, <3>1, Naturals DEF NoCall, IInv
      <4> QED
        BY <2>2, <4>1
    <3>2. CASE r # q
      BY <1>3, <2>2, <2>3, <3>2, CallsGrow
    <3> QED
      BY <3>1, <3>2
  <2>6. CallsAwaited'
    BY <1>1, <2>1, <2>3, AnsweredInv
  <2> QED
    BY <2>4, <2>5, <2>6
<1> QED
  BY <1>2, <1>3 DEF RotateKey

\* Deletion marks a record and sends requests; no key and no flag moves.
LEMMA DeleteInv ==
  ASSUME IInv, SendDelete \/ \E S \in SUBSET Agent : DeleteClusters(S)
  PROVE  ServerKnowsFirst' /\ ManifestsBehind' /\ CallsBehind' /\ CallsAwaited' /\ WritersConfirmed'
<1>1. /\ UNCHANGED <<keys, call, manifest, configMap, secret, pod, podKey>>
      /\ \A a \in Agent : record'[a].key = record[a].key
  <2>1. CASE SendDelete
    BY <2>1 DEF SendDelete, delivery, k8s
  <2>2. ASSUME NEW S \in SUBSET Agent, DeleteClusters(S)
        PROVE  /\ UNCHANGED <<keys, call, manifest, configMap, secret, pod, podKey>>
               /\ \A a \in Agent : record'[a].key = record[a].key
    BY <2>2 DEF DeleteClusters, delivery, k8s, pods, IInv, TypeOK, RecordType
  <2> QED
    BY <2>1, <2>2
<1>2. \A a \in Agent : record'[a].registered = record[a].registered
  <2>1. CASE SendDelete
    BY <2>1 DEF SendDelete
  <2>2. ASSUME NEW S \in SUBSET Agent, DeleteClusters(S)
        PROVE  \A a \in Agent : record'[a].registered = record[a].registered
    <3>1. PICK b \in Agent : record' = [record EXCEPT ![b].removed = TRUE]
      BY <2>2 DEF DeleteClusters
    <3>2. \A a \in Agent : record[a] \in RecordType
      BY DEF IInv, TypeOK
    <3> QED
      BY <3>1, <3>2 DEF RecordType, IInv, TypeOK
  <2> QED
    BY <2>1, <2>2
<1>3. ServerKnowsFirst'
  BY <1>1, <1>2 DEF IInv, ServerKnowsFirst, PodsOf
<1>4. ManifestsBehind'
  BY <1>1, <1>2 DEF IInv, ManifestsBehind
<1>5. CallsBehind'
  BY <1>1, <1>2 DEF IInv, CallsBehind
<1>6. CallsAwaited' /\ WritersConfirmed'
  BY <1>1, <1>2, AgentOfType DEF IInv, CallsAwaited, WritersConfirmed
<1> QED
  BY <1>3, <1>4, <1>5, <1>6

LEMMA StepInv == IInv /\ [Next]_vars => IInv'
<1> SUFFICES ASSUME IInv, [Next]_vars PROVE IInv'
  OBVIOUS
<1>1. TypeOK'
  BY StepTypes DEF IInv
<1>2. CASE UNCHANGED vars
  BY <1>1, <1>2 DEF IInv, vars, system, server, delivery, k8s, pods, ServerKnowsFirst,
     PodsOf, ManifestsBehind, CallsBehind, CallsAwaited, WritersConfirmed
<1>3. ASSUME NEW a \in Agent, Register(a) PROVE IInv'
  BY <1>1, <1>3, RegisterClusterInv, ManifestInv, ApplyInv
     DEF Register, GetManifest, GetManifestWithClusterID, IInv
<1>4. ASSUME NEW p \in Pod, Subscriber(p) \/ StopPod(p) PROVE IInv'
  BY <1>1, <1>4, StopPodInv, StartPodInv, IsClusterConfirmedInv, ReadSecretInv,
     ReceiveReplyInv, ClusterRegisterInv, ConnectInv, ProcessDeleteInv DEF Subscriber, IInv
<1>5. ASSUME NEW q \in Call, ConfirmClusterRegistration(q) PROVE IInv'
  BY <1>1, <1>5, CompareKeyInv, RotateKeyInv DEF ConfirmClusterRegistration, IInv
<1>6. ASSUME SendDelete \/ \E S \in SUBSET Agent : DeleteClusters(S) PROVE IInv'
  BY <1>1, <1>6, DeleteInv DEF IInv
<1> QED
  BY <1>2, <1>3, <1>4, <1>5, <1>6 DEF Next, Step

\* Nothing the agent's side holds is ahead of the server's record, whatever
\* fails and whoever is deleted (ConfirmClusterRegistration, ManifestParser).
THEOREM KnowsFirst == Spec => []ServerKnowsFirst
<1>1. IInv => ServerKnowsFirst
  BY DEF IInv
<1> QED
  BY <1>1, InitInv, StepInv, PTL DEF Spec

-----------------------------------------------------------------------------
(* An agent that is locked out stays so until a manifest is fetched.  In   *)
(* the words of LockedOut: no place gets the current key, since each of    *)
(* them is filled from another one, and a new key, newer than all there    *)
(* are, is only made for a call that nobody waits for.                     *)

KeptOut(a) == LockedOut(a)'

LEMMA RegisterOut ==
  ASSUME IInv, NEW a \in Agent, LockedOut(a), fetched'[a] = fetched[a],
         NEW b \in Agent, Register(b)
  PROVE  KeptOut(a)
<1>1. CASE RegisterCluster(b)
  <2>1. a # b
    BY <1>1 DEF RegisterCluster, LockedOut, NoRecord
  <2>2. record'[a] = record[a]
    BY <1>1, <2>1 DEF RegisterCluster, IInv, TypeOK
  <2> QED
    BY <1>1, <2>2 DEF RegisterCluster, LockedOut, KeptOut, PodsOf, delivery, k8s, pods
<1>2. CASE ManifestParser(b)
  <2>1. a # b
    BY <1>2, Bounds DEF ManifestParser, IInv, TypeOK
  <2>2. manifest'[a] = manifest[a] /\ applying'[a] = applying[a]
    BY <1>2, <2>1 DEF ManifestParser, IInv, TypeOK
  <2> QED
    BY <1>2, <2>2 DEF ManifestParser, LockedOut, KeptOut, PodsOf, server, k8s, pods
<1>3. CASE Apply(b)
  <2>1. UNCHANGED <<record, call, manifest, podKey>>
    BY <1>3 DEF Apply, server, pods
  <2>2. CASE a # b
    <3>1. secret'[a] = secret[a] /\ applying'[a] = applying[a]
      BY <1>3, <2>2 DEF Apply, IInv, TypeOK
    <3> QED
      BY <2>1, <3>1 DEF LockedOut, KeptOut, PodsOf
  <2>3. CASE a = b /\ manifest[a].key # record[a].key
    <3>1. secret'[a] \in {secret[a], manifest[a].key}
      BY <1>3, <2>3 DEF Apply, IInv, TypeOK
    <3> QED
      BY <2>1, <2>3, <3>1 DEF LockedOut, KeptOut, PodsOf
  <2>4. CASE a = b /\ applying[a] \in {"nothing", "Deployment"}
    <3>1. secret' = secret /\ applying'[a] = "nothing"
      BY <1>3, <2>4 DEF Apply, IInv, TypeOK
    <3> QED
      BY <2>1, <3>1 DEF LockedOut, KeptOut, PodsOf
  <2> QED
    BY <2>2, <2>3, <2>4 DEF LockedOut
<1> QED
  BY <1>1, <1>2, <1>3 DEF Register, GetManifest, GetManifestWithClusterID

\* No key is 0 once the record is registered.
LEMMA KeyOfRegistered ==
  ASSUME IInv, NEW a \in Agent, LockedOut(a)
  PROVE  record[a].key # 0
BY DEF IInv, ManifestsBehind, LockedOut

LEMMA SubscriberOut ==
  ASSUME IInv, NEW a \in Agent, LockedOut(a), NEW p \in Pod, Subscriber(p) \/ StopPod(p)
  PROVE  KeptOut(a)
<1>0. UNCHANGED <<record, manifest, applying>>
  BY DEF Subscriber, StartPod, IsClusterConfirmed, ReadSecret, ReceiveReply,
         ClusterRegister, Connect, ProcessDelete, StopPod, server, delivery
<1>1. /\ record[a].registered /\ secret[a] # record[a].key
      /\ \A o \in Pod : AgentOf[o] = a => podKey[o] # record[a].key
      /\ \A q \in Call : call[q].agent = a =>
           /\ call[q].stage = "confirmed" => call[q].key # record[a].key
           /\ call[q].stage = "matched" => call[q].pod = None
      /\ applying[a] \in {"nothing", "Deployment"} \/ manifest[a].key # record[a].key
  BY DEF LockedOut, PodsOf
<1>2. podKey \in [Pod -> Key] /\ secret \in [Agent -> Key]
  BY DEF IInv, TypeOK
<1>3. secret'[a] # record[a].key
  <2>1. secret' = secret \/ secret' = [secret EXCEPT ![AgentOf[p]] = podKey[p]]
    BY DEF Subscriber, StartPod, IsClusterConfirmed, ReadSecret, ReceiveReply,
           ClusterRegister, Connect, ProcessDelete, StopPod, k8s
  <2> QED
    BY <1>1, <1>2, <2>1
<1>4. \A o \in Pod : AgentOf[o] = a => podKey'[o] # record[a].key
  <2>1. \/ podKey' = podKey
        \/ podKey' = [podKey EXCEPT ![p] = secret[AgentOf[p]]]
        \/ podKey' = [podKey EXCEPT ![p] = 0]
        \/ \E q \in Call : /\ call[q].pod = p /\ call[q].stage = "confirmed"
                            /\ podKey' = [podKey EXCEPT ![p] = call[q].key]
    BY DEF Subscriber, StartPod, IsClusterConfirmed, ReadSecret, ReceiveReply,
           ClusterRegister, Connect, ProcessDelete, StopPod, Down, pods
  <2>2. ASSUME NEW q \in Call, call[q].pod = p, call[q].stage = "confirmed",
               podKey' = [podKey EXCEPT ![p] = call[q].key]
        PROVE  \A o \in Pod : AgentOf[o] = a => podKey'[o] # record[a].key
    <3>1. call[q].agent = AgentOf[p]
      BY <2>2, NoneIsNone DEF IInv, CallsAwaited
    <3> QED
      BY <1>1, <1>2, <2>2, <3>1
  <2>3. record[a].key # 0
    BY KeyOfRegistered
  <2> QED
    BY <1>1, <1>2, <2>1, <2>2, <2>3
<1>5. \A q \in Call : call'[q].agent = a =>
        /\ call'[q].stage = "confirmed" => call'[q].key # record[a].key
        /\ call'[q].stage = "matched" => call'[q].pod = None
  <2>1. CASE call' = call
    BY <1>1, <2>1
  <2>2. CASE StopPod(p)
    <3> SUFFICES ASSUME NEW q \in Call, call'[q].agent = a
                 PROVE  /\ call'[q].stage = "confirmed" => call'[q].key # record[a].key
                        /\ call'[q].stage = "matched" => call'[q].pod = None
      OBVIOUS
    <3>1. \/ call'[q] = call[q]
          \/ call'[q].stage = call[q].stage /\ call[q].stage # "confirmed" /\ call'[q].pod = None
          \/ call'[q].stage = "free"
      BY <2>2 DEF StopPod, Abandon, NoCall, IInv, TypeOK
    <3> QED
      BY <1>1, <3>1
  <2>3. CASE IsClusterConfirmed(p) \/ ReceiveReply(p)
    <3>1. \/ call' = call
          \/ \E q \in Call : call' = [call EXCEPT ![q] = NoCall]
          \/ \E q \in Call : call' = [call EXCEPT ![q] =
               [stage |-> "sent", pod |-> p, agent |-> AgentOf[p], key |-> podKey[p]]]
      BY <2>3 DEF IsClusterConfirmed, ReceiveReply
    <3>2. call \in [Call -> [stage : CallStage, pod : Pod \cup {None},
                            agent : Agent \cup {None}, key : Key]]
      BY DEF IInv, TypeOK
    <3> QED
      BY <1>1, <3>1, <3>2 DEF NoCall
  <2> QED
    BY <2>1, <2>2, <2>3 DEF Subscriber, StartPod, ReadSecret, ClusterRegister, Connect,
       ProcessDelete, server
<1> QED
  BY <1>0, <1>1, <1>3, <1>4, <1>5 DEF LockedOut, KeptOut, PodsOf

\* A call whose pod waits has the pod's key, which is not the current one; so
\* none with the current key is compared but that of a pod that has gone.
LEMMA CompareKeyOut ==
  ASSUME IInv, NEW a \in Agent, LockedOut(a), NEW q \in Call, CompareKey(q)
  PROVE  KeptOut(a)
<1>1. call[q].stage = "sent" /\ UNCHANGED <<record, manifest, applying, secret, podKey>>
  BY DEF CompareKey, delivery, k8s, pods
<1>2. \A r \in Call \ {q} : call'[r] = call[r]
  BY ReplyInv DEF CompareKey, IInv, TypeOK
<1>3. ASSUME call'[q].agent = a
      PROVE  /\ call'[q].stage # "confirmed"
             /\ call'[q].stage = "matched" => call'[q].pod = None
  <2>1. CASE Reply(q, "refused", call[q].key)
    BY <2>1, ReplyInv DEF NoCall
  <2>2. CASE record[call[q].agent].key = call[q].key /\ call' = [call EXCEPT ![q].stage = "matched"]
    <3>1. call'[q].stage = "matched" /\ call'[q].pod = call[q].pod /\ call[q].agent = a
      BY <1>3, <2>2 DEF IInv, TypeOK
    <3>2. ASSUME call[q].pod # None PROVE FALSE
      <4>1. /\ call[q].pod \in Pod /\ AgentOf[call[q].pod] = a
            /\ podKey[call[q].pod] = call[q].key
        BY <1>1, <3>1, <3>2 DEF IInv, TypeOK, CallsAwaited
      <4> QED
        BY <2>2, <3>1, <4>1 DEF LockedOut, PodsOf
    <3> QED
      BY <3>1, <3>2
  <2> QED
    BY <2>1, <2>2 DEF CompareKey
<1> QED
  BY <1>1, <1>2, <1>3 DEF LockedOut, KeptOut, PodsOf

LEMMA RotateKeyOut ==
  ASSUME IInv, NEW a \in Agent, LockedOut(a), NEW q \in Call, RotateKey(q)
  PROVE  KeptOut(a)
<1>1. /\ call[q].stage = "matched" /\ call[q].agent \in Agent
      /\ UNCHANGED <<manifest, applying, secret, podKey>>
  BY DEF RotateKey, delivery, k8s, pods, IInv, CallsBehind
<1>2. \A r \in Call \ {q} : call'[r] = call[r]
  BY ReplyInv DEF RotateKey
<1>3. call'[q].agent = a => call'[q].stage \notin {"confirmed", "matched"}
  <2>1. CASE call[q].agent = a
    <3>1. call[q].pod = None
      BY <1>1, <2>1 DEF LockedOut
    <3>2. call'[q] = NoCall
      BY <3>1, ReplyInv DEF RotateKey
    <3> QED
      BY <3>2 DEF NoCall
  <2>2. CASE call[q].agent # a
    <3>1. call'[q] = NoCall \/ call'[q].agent = call[q].agent
      BY ReplyInv DEF RotateKey
    <3> QED
      BY <2>2, <3>1 DEF NoCall
  <2> QED
    BY <2>1, <2>2
<1>4. CASE record'[a] = record[a]
  BY <1>1, <1>2, <1>3, <1>4 DEF LockedOut, KeptOut, PodsOf
<1>5. CASE record'[a].key = keys + 1 /\ record'[a].registered
  <2>1. record[a].key <= keys /\ manifest[a].key <= record[a].key /\ secret[a] <= record[a].key
    BY DEF IInv, ManifestsBehind, ServerKnowsFirst
  <2>2. keys \in Nat /\ record[a].key \in Nat /\ manifest[a].key \in Nat /\ secret[a] \in Nat
    BY Naturals DEF IInv
  <2>3. secret[a] # keys + 1 /\ manifest[a].key # keys + 1
    BY <2>1, <2>2
  <2>4. \A p \in PodsOf(a) : podKey[p] # keys + 1
    <3> SUFFICES ASSUME NEW p \in PodsOf(a) PROVE podKey[p] # keys + 1
      OBVIOUS
    <3>1. podKey[p] <= record[a].key /\ podKey[p] \in Nat
      BY Naturals DEF IInv, ServerKnowsFirst, PodsOf
    <3> QED
      BY <2>1, <2>2, <3>1
  <2>5. \A r \in Call : call[r].agent = a /\ call[r].stage = "confirmed" => call[r].key # keys + 1
    <3> SUFFICES ASSUME NEW r \in Call, call[r].agent = a, call[r].stage = "confirmed"
                 PROVE  call[r].key # keys + 1
      OBVIOUS
    <3>1. call[r].key <= record[a].key /\ call[r].key \in Nat
      BY Naturals DEF IInv, CallsBehind
    <3> QED
      BY <2>1, <2>2, <3>1
  <2> QED
    BY <1>1, <1>2, <1>3, <1>5, <2>3, <2>4, <2>5 DEF LockedOut, KeptOut, PodsOf
<1>6. \/ record'[a] = record[a]
      \/ record'[a].key = keys + 1 /\ record'[a].registered
  BY <1>1 DEF RotateKey, IInv, TypeOK, RecordType
<1> QED
  BY <1>4, <1>5, <1>6

LEMMA DeleteOut ==
  ASSUME IInv, NEW a \in Agent, LockedOut(a),
         SendDelete \/ \E S \in SUBSET Agent : DeleteClusters(S)
  PROVE  KeptOut(a)
<1>1. UNCHANGED <<call, manifest, applying, secret, podKey>>
  BY DEF SendDelete, DeleteClusters, delivery, k8s, pods
<1>2. record'[a].key = record[a].key /\ record'[a].registered = record[a].registered
  <2>1. CASE SendDelete
    BY <2>1 DEF SendDelete
  <2>2. ASSUME NEW S \in SUBSET Agent, DeleteClusters(S)
        PROVE  record'[a].key = record[a].key /\ record'[a].registered = record[a].registered
    <3>1. PICK b \in Agent : record' = [record EXCEPT ![b].removed = TRUE]
      BY <2>2 DEF DeleteClusters
    <3>2. record[a] \in RecordType
      BY DEF IInv, TypeOK
    <3> QED
      BY <3>1, <3>2 DEF RecordType, IInv, TypeOK
  <2> QED
    BY <2>1, <2>2
<1> QED
  BY <1>1, <1>2 DEF LockedOut, KeptOut, PodsOf

\* An agent that has lost its key does not get back in by itself, however many
\* subscribers it starts and calls it makes: a manifest must be fetched.
THEOREM LockedOutStays == Spec => LockedOutForGood
<1> DEFINE Stays == \A a \in Agent : LockedOut(a) /\ ~ LockedOut(a)' => fetched'[a] # fetched[a]
<1>1. IInv /\ [Next]_vars => [Stays]_vars
  <2> SUFFICES ASSUME IInv, Next, NEW a \in Agent, LockedOut(a), fetched'[a] = fetched[a]
               PROVE  KeptOut(a)
    BY DEF KeptOut
  <2> QED
    BY RegisterOut, SubscriberOut, CompareKeyOut, RotateKeyOut, DeleteOut
       DEF Next, Step, ConfirmClusterRegistration
<1> QED
  BY <1>1, InitInv, StepInv, PTL DEF Spec, LockedOutForGood

-----------------------------------------------------------------------------
(* When nothing fails, an agent goes through its life once, and what is to *)
(* be known of its objects, its pods and its calls depends on how far it   *)
(* has come.                                                               *)

AllDown(a) == \A p \in PodsOf(a) : pod[p] = "down"
NoCalls(a) == \A q \in Call : call[q].stage # "free" => call[q].agent # a

New(a) ==
  /\ fetched[a] = 0 /\ applying[a] = "nothing" /\ ~ deployed[a]
  /\ ~ record[a].registered
  /\ AllDown(a) /\ NoCalls(a)

Known(a) == fetched[a] # 0 /\ record[a].key # 0

InstallingAt(a) ==
  /\ Known(a) /\ applying[a] # "nothing" /\ ~ deployed[a]
  /\ manifest[a].key = record[a].key /\ ~ manifest[a].registered
  /\ applying[a] \in {"Secret", "Deployment"} => configMap[a] = "false"
  /\ applying[a] = "Deployment" => secret[a] = record[a].key
  /\ AllDown(a) /\ NoCalls(a)

Installed(a) ==
  /\ Known(a) /\ applying[a] = "nothing" /\ deployed[a]
  /\ configMap[a] = "false" /\ secret[a] = record[a].key
  /\ AllDown(a) /\ NoCalls(a)

\* The key a pod has got, or the answer it waits for brings, is the one of
\* the record until it is stored; only a connected pod can lose its objects.
Running(a, p) ==
  /\ Known(a) /\ applying[a] = "nothing"
  /\ pod[p] \notin {"down", "readSecret"}
  /\ \A o \in PodsOf(a) \ {p} : pod[o] = "down"
  /\ pod[p] # "connected" => deployed[a]
  /\ pod[p] \in {"starting", "confirming", "writeConfigMap"} => configMap[a] = "false"
  /\ pod[p] \in {"starting", "writeConfigMap", "writeSecret"} => podKey[p] = record[a].key
  /\ pod[p] \in {"listening", "connected", "turnedAway"} =>
       /\ secret[a] = record[a].key
       /\ configMap[a] = "true" \/ (configMap[a] = "absent" /\ pod[p] = "connected")
  /\ pod[p] = "writeSecret" => configMap[a] = "true"
  /\ pod[p] # "confirming" => NoCalls(a)
  /\ pod[p] = "confirming" => \A q \in Call :
       call[q].stage # "free" /\ call[q].agent = a =>
         /\ call[q].pod = p /\ call[q].stage # "refused"
         /\ call[q].key = record[a].key

Removed(a) ==
  /\ Known(a) /\ applying[a] = "nothing" /\ ~ deployed[a]
  /\ AllDown(a) /\ NoCalls(a)

Life(a) == \/ New(a) \/ InstallingAt(a) \/ Installed(a) \/ Removed(a)
           \/ \E p \in PodsOf(a) : Running(a, p)

\* Requests to clean up are only on their way to a pod that is connected.
RequestsToConnected == \A p \in Pod : requests[p] # <<>> => pod[p] = "connected"

LifeInv == RequestsToConnected /\ (calm => \A a \in Agent : Life(a))

LEMMA InitLife == Init => LifeInv
<1> SUFFICES ASSUME Init PROVE LifeInv
  OBVIOUS
<1>1. RequestsToConnected
  BY DEF Init, RequestsToConnected
<1>2. \A a \in Agent : New(a)
  BY DEF Init, New, AllDown, NoCalls, PodsOf, NoRecord, NoCall
<1> QED
  BY <1>1, <1>2 DEF LifeInv, Life

LEMMA PodsOfAgent ==
  ASSUME NEW p \in Pod
  PROVE  /\ AgentOf[p] \in Agent /\ p \in PodsOf(AgentOf[p])
         /\ \A b \in Agent \ {AgentOf[p]} : p \notin PodsOf(b)
BY AgentOfType DEF PodsOf

\* A pod that is not down is the one its agent runs.
LEMMA RunningPod ==
  ASSUME NEW p \in Pod, Life(AgentOf[p]), pod[p] # "down"
  PROVE  Running(AgentOf[p], p)
<1>1. p \in PodsOf(AgentOf[p])
  BY PodsOfAgent
<1>2. PICK o \in PodsOf(AgentOf[p]) : Running(AgentOf[p], o)
  BY <1>1 DEF Life, New, InstallingAt, Installed, Removed, AllDown
<1>3. o = p
  BY <1>1, <1>2 DEF Running
<1> QED
  BY <1>2, <1>3

\* An agent that a step leaves alone.
LEMMA LifeGoesOn ==
  ASSUME NEW b \in Agent, Life(b),
         record'[b].key = record[b].key, record'[b].registered = record[b].registered,
         manifest'[b] = manifest[b], applying'[b] = applying[b], fetched'[b] = fetched[b],
         configMap'[b] = configMap[b], secret'[b] = secret[b], deployed'[b] = deployed[b],
         \A p \in PodsOf(b) : pod'[p] = pod[p] /\ podKey'[p] = podKey[p],
         \A q \in Call : call'[q].stage # "free" /\ call'[q].agent = b => call'[q] = call[q]
  PROVE  Life(b)'
<1>1. AllDown(b) => AllDown(b)'
  BY DEF AllDown, PodsOf
<1>2. NoCalls(b) => NoCalls(b)'
  BY DEF NoCalls
<1>3. Known(b) => Known(b)'
  BY DEF Known
<1>4. CASE New(b)
  BY <1>1, <1>2, <1>4 DEF New, Life
<1>5. CASE InstallingAt(b)
  BY <1>1, <1>2, <1>3, <1>5 DEF InstallingAt, Life
<1>6. CASE Installed(b)
  BY <1>1, <1>2, <1>3, <1>6 DEF Installed, Life
<1>7. CASE Removed(b)
  BY <1>1, <1>2, <1>3, <1>7 DEF Removed, Life
<1>8. ASSUME NEW p \in PodsOf(b), Running(b, p) PROVE Life(b)'
  <2>1. Running(b, p)'
    BY <1>2, <1>3, <1>8 DEF Running, PodsOf
  <2> QED
    BY <2>1 DEF Life, PodsOf
<1> QED
  BY <1>4, <1>5, <1>6, <1>7, <1>8 DEF Life

LEMMA RegisterLife ==
  ASSUME IInv, calm, \A b \in Agent : Life(b), NEW a \in Agent, Register(a)
  PROVE  \A b \in Agent : Life(b)'
<1>1. \A b \in Agent \ {a} : Life(b)'
  <2>1. /\ \A b \in Agent \ {a} :
             /\ record'[b] = record[b] /\ manifest'[b] = manifest[b]
             /\ applying'[b] = applying[b] /\ fetched'[b] = fetched[b]
             /\ configMap'[b] = configMap[b] /\ secret'[b] = secret[b]
             /\ deployed'[b] = deployed[b]
        /\ UNCHANGED <<pod, podKey, call>>
    BY DEF Register, RegisterCluster, GetManifest, GetManifestWithClusterID, ManifestParser,
           Apply, server, delivery, k8s, pods, IInv, TypeOK
  <2> QED
    BY <2>1, LifeGoesOn
<1>2. CASE RegisterCluster(a)
  <2>1. New(a)
    BY <1>2 DEF RegisterCluster, NoRecord, Life, InstallingAt, Installed, Removed, Running, Known
  <2>2. ~ record'[a].registered
    BY <1>2 DEF RegisterCluster, NoRecord, IInv, TypeOK, RecordType
  <2>3. New(a)'
    BY <1>2, <2>1, <2>2 DEF RegisterCluster, New, AllDown, NoCalls, PodsOf, delivery, k8s, pods
  <2> QED
    BY <1>1, <2>3 DEF Life
<1>3. CASE ManifestParser(a) /\ record[a].key # 0
  <2>1. New(a)
    BY <1>3 DEF ManifestParser, Life, InstallingAt, Installed, Removed, Running, Known
  <2>2. /\ manifest'[a] = record[a] /\ applying'[a] = "ConfigMap" /\ fetched'[a] = 1
        /\ UNCHANGED <<record, call, deployed, pod>>
    BY <1>3, <2>1 DEF New, ManifestParser, server, k8s, pods, IInv, TypeOK
  <2>3. AllDown(a)' /\ NoCalls(a)' /\ Known(a)'
    BY <1>3, <2>1, <2>2 DEF New, AllDown, NoCalls, PodsOf, Known
  <2>4. InstallingAt(a)'
    BY <2>1, <2>2, <2>3 DEF New, InstallingAt
  <2> QED
    BY <1>1, <2>4 DEF Life
<1>4. CASE Apply(a)
  <2>1. InstallingAt(a)
    BY <1>4 DEF Apply, Life, New, Installed, Removed, Running
  <2>2. UNCHANGED <<record, manifest, fetched, call, pod>>
    BY <1>4 DEF Apply, server, pods
  <2>3. AllDown(a)' /\ NoCalls(a)' /\ Known(a)'
    BY <2>1, <2>2 DEF InstallingAt, AllDown, NoCalls, PodsOf, Known
  <2>4. CASE applying[a] = "ConfigMap"
    <3>1. applying'[a] = "Secret" /\ configMap'[a] = "false" /\ deployed'[a] = deployed[a]
      BY <1>4, <2>1, <2>4 DEF InstallingAt, Apply, IInv, TypeOK
    <3>2. InstallingAt(a)'
      BY <2>1, <2>2, <2>3, <3>1 DEF InstallingAt
    <3> QED
      BY <1>1, <3>2 DEF Life
  <2>5. CASE applying[a] = "Secret"
    <3>1. /\ applying'[a] = "Deployment" /\ secret'[a] = manifest[a].key
          /\ UNCHANGED <<configMap, deployed>>
      BY <1>4, <2>5 DEF Apply, IInv, TypeOK
    <3>2. InstallingAt(a)'
      BY <2>1, <2>2, <2>3, <2>5, <3>1 DEF InstallingAt
    <3> QED
      BY <1>1, <3>2 DEF Life
  <2>6. CASE applying[a] = "Deployment"
    <3>1. applying'[a] = "nothing" /\ deployed'[a] /\ UNCHANGED <<configMap, secret>>
      BY <1>4, <2>6 DEF Apply, IInv, TypeOK
    <3>2. Installed(a)'
      BY <2>1, <2>2, <2>3, <2>6, <3>1 DEF InstallingAt, Installed
    <3> QED
      BY <1>1, <3>2 DEF Life
  <2> QED
    BY <1>4, <2>4, <2>5, <2>6 DEF Apply
<1> QED
  BY <1>2, <1>3, <1>4 DEF Register, GetManifest, GetManifestWithClusterID

\* A step of one pod leaves the lives of the other agents alone.
LEMMA OthersGoOn ==
  ASSUME IInv, \A b \in Agent : Life(b), NEW p \in Pod,
         UNCHANGED <<record, manifest, applying, fetched>>,
         \A b \in Agent \ {AgentOf[p]} :
            configMap'[b] = configMap[b] /\ secret'[b] = secret[b] /\ deployed'[b] = deployed[b],
         \A o \in Pod \ {p} : pod'[o] = pod[o] /\ podKey'[o] = podKey[o],
         \A q \in Call : call'[q].stage # "free" /\ call'[q].agent # AgentOf[p] => call'[q] = call[q],
         Life(AgentOf[p])'
  PROVE  \A b \in Agent : Life(b)'
<1> SUFFICES ASSUME NEW b \in Agent, b # AgentOf[p] PROVE Life(b)'
  OBVIOUS
<1>1. \A o \in PodsOf(b) : pod'[o] = pod[o] /\ podKey'[o] = podKey[o]
  BY PodsOfAgent DEF PodsOf
<1> QED
  BY <1>1, LifeGoesOn

\* The calls of an agent are those of the pod it runs.
LEMMA CallsOfPod ==
  ASSUME IInv, NEW p \in Pod, NEW q \in Call, call[q].pod = p
  PROVE  call[q].agent = AgentOf[p]
BY NoneIsNone DEF IInv, CallsAwaited

LEMMA StartPodLife ==
  ASSUME IInv, calm, \A b \in Agent : Life(b), NEW p \in Pod, StartPod(p)
  PROVE  \A b \in Agent : Life(b)'
<1> DEFINE a == AgentOf[p]
<1>1. a \in Agent /\ p \in PodsOf(a)
  BY PodsOfAgent
<1>2. /\ UNCHANGED <<record, manifest, applying, fetched, configMap, secret, deployed, call>>
      /\ deployed[a] /\ \A o \in PodsOf(a) : pod[o] = "down"
  BY <1>1 DEF StartPod, server, delivery, k8s
<1>3. Installed(a)
  BY <1>1, <1>2 DEF Life, New, InstallingAt, Removed, Running
<1>4. /\ pod'[p] = "starting" /\ podKey'[p] = secret[a]
      /\ \A o \in Pod \ {p} : pod'[o] = pod[o] /\ podKey'[o] = podKey[o]
  BY DEF StartPod, IInv, TypeOK
<1>5. NoCalls(a)' /\ Known(a)'
  BY <1>2, <1>3 DEF Installed, NoCalls, Known
<1>6. Running(a, p)'
  BY <1>1, <1>2, <1>3, <1>4, <1>5 DEF Installed, Running, PodsOf
<1>7. Life(a)'
  BY <1>1, <1>6 DEF Life, PodsOf
<1> QED
  BY <1>2, <1>4, <1>7, OthersGoOn

\* When nothing fails, a pod is stopped only after the Deployment is gone.
LEMMA StopPodLife ==
  ASSUME IInv, calm, \A b \in Agent : Life(b), NEW p \in Pod, StopPod(p)
  PROVE  \A b \in Agent : Life(b)'
<1> DEFINE a == AgentOf[p]
<1>1. a \in Agent /\ p \in PodsOf(a)
  BY PodsOfAgent
<1>2. /\ UNCHANGED <<record, manifest, applying, fetched, configMap, secret, deployed>>
      /\ ~ deployed[a] /\ pod[p] # "down"
  BY DEF StopPod, delivery, k8s
<1>3. Running(a, p)
  BY <1>1, <1>2, RunningPod
<1>4. pod[p] = "connected" /\ NoCalls(a)
  BY <1>2, <1>3 DEF Running
<1>5. /\ pod'[p] = "down"
      /\ \A o \in Pod \ {p} : pod'[o] = pod[o] /\ podKey'[o] = podKey[o]
  BY DEF StopPod, Down, IInv, TypeOK
<1>6. ASSUME NEW q \in Call, call'[q].stage # "free"
      PROVE  /\ call'[q].agent # a => call'[q] = call[q]
             /\ call[q].stage # "free" /\ call'[q].agent = call[q].agent
  <2>1. CASE call[q].pod # p
    <3>1. call'[q] = call[q]
      BY <2>1 DEF StopPod, Abandon
    <3> QED
      BY <1>6, <3>1
  <2>2. CASE call[q].pod = p
    <3>1. call[q].agent = a
      BY <2>2, CallsOfPod
    <3>2. call'[q] \in {[call[q] EXCEPT !.pod = None], NoCall} /\ call[q].stage # "free"
      BY <2>2, NoneIsNone DEF StopPod, Abandon, IInv, CallsAwaited
    <3>3. call'[q].agent = call[q].agent
      BY <1>6, <3>2 DEF NoCall, IInv, TypeOK
    <3> QED
      BY <3>1, <3>2, <3>3
  <2> QED
    BY <2>1, <2>2
<1>7. NoCalls(a)' /\ Known(a)' /\ AllDown(a)'
  BY <1>1, <1>2, <1>3, <1>4, <1>5, <1>6 DEF NoCalls, Known, AllDown, Running, PodsOf
<1>8. Removed(a)'
  BY <1>2, <1>3, <1>7 DEF Removed, Running
<1>9. Life(a)'
  BY <1>8 DEF Life
<1> QED
  BY <1>2, <1>5, <1>6, <1>9, OthersGoOn

LEMMA IsClusterConfirmedLife ==
  ASSUME IInv, calm, \A b \in Agent : Life(b), NEW p \in Pod, IsClusterConfirmed(p)
  PROVE  \A b \in Agent : Life(b)'
<1> DEFINE a == AgentOf[p]
<1>1. a \in Agent /\ p \in PodsOf(a)
  BY PodsOfAgent
<1>2. /\ UNCHANGED <<record, manifest, applying, fetched, configMap, secret, deployed>>
      /\ pod[p] = "starting"
  BY DEF IsClusterConfirmed, delivery, k8s
<1>3. Running(a, p)
  BY <1>1, <1>2, RunningPod
<1>4. /\ configMap[a] = "false" /\ deployed[a] /\ podKey[p] = record[a].key
      /\ Known(a) /\ NoCalls(a) /\ applying[a] = "nothing"
      /\ \A o \in PodsOf(a) \ {p} : pod[o] = "down"
  BY <1>2, <1>3 DEF Running
<1>5. PICK q \in Call :
        call' = [call EXCEPT ![q] = [stage |-> "sent", pod |-> p, agent |-> a, key |-> podKey[p]]]
  BY <1>4 DEF IsClusterConfirmed
<1>6. /\ pod'[p] = "confirming" /\ podKey' = podKey
      /\ \A o \in Pod \ {p} : pod'[o] = pod[o]
  BY <1>4 DEF IsClusterConfirmed, IInv, TypeOK
<1>7. /\ call'[q].stage = "sent" /\ call'[q].pod = p /\ call'[q].agent = a
      /\ call'[q].key = podKey[p]
      /\ \A r \in Call \ {q} : call'[r] = call[r]
  BY <1>5 DEF IInv, TypeOK
<1>8. \A r \in Call : call'[r].stage # "free" /\ call'[r].agent = a => r = q
  BY <1>4, <1>7 DEF NoCalls
<1>9. Running(a, p)'
  <2>1. Known(a)'
    BY <1>2, <1>4 DEF Known
  <2> QED
    BY <2>1, <1>1, <1>2, <1>4, <1>6, <1>7, <1>8 DEF Running, PodsOf
<1>10. Life(a)'
  BY <1>1, <1>9 DEF Life, PodsOf
<1> QED
  BY <1>2, <1>6, <1>7, <1>10, OthersGoOn

\* The reply brings the key of the record; nobody else has asked.
LEMMA ReceiveReplyLife ==
  ASSUME IInv, calm, \A b \in Agent : Life(b), NEW p \in Pod, ReceiveReply(p)
  PROVE  \A b \in Agent : Life(b)'
<1> DEFINE a == AgentOf[p]
<1>1. a \in Agent /\ p \in PodsOf(a) /\ p # None
  BY PodsOfAgent, NoneIsNone
<1>2. /\ UNCHANGED <<record, manifest, applying, fetched, configMap, secret, deployed>>
      /\ pod[p] = "confirming"
  BY DEF ReceiveReply, delivery, k8s
<1>3. Running(a, p)
  BY <1>1, <1>2, RunningPod
<1>4. PICK q \in Call :
        /\ call[q].pod = p
        /\ \/ /\ call[q].stage = "confirmed"
              /\ podKey' = [podKey EXCEPT ![p] = call[q].key]
              /\ pod' = [pod EXCEPT ![p] = "writeConfigMap"]
           \/ call[q].stage = "refused"
        /\ call' = [call EXCEPT ![q] = NoCall]
  BY DEF ReceiveReply
<1>5. call[q].stage # "free" /\ call[q].agent = a
  BY <1>1, <1>4 DEF IInv, CallsAwaited
<1>6. call[q].stage # "refused" /\ call[q].key = record[a].key
  BY <1>2, <1>3, <1>5 DEF Running
<1>7. /\ podKey'[p] = record[a].key /\ pod'[p] = "writeConfigMap"
      /\ \A o \in Pod \ {p} : pod'[o] = pod[o] /\ podKey'[o] = podKey[o]
  BY <1>4, <1>6 DEF IInv, TypeOK
<1>8. call'[q] = NoCall /\ \A r \in Call \ {q} : call'[r] = call[r]
  BY <1>4 DEF IInv, TypeOK
<1>9. NoCalls(a)'
  <2> SUFFICES ASSUME NEW r \in Call, call'[r].stage # "free", call'[r].agent = a PROVE FALSE
    BY DEF NoCalls
  <2>1. r # q /\ call'[r] = call[r]
    BY <1>8 DEF NoCall
  <2>2. call[r].pod = p
    BY <1>2, <1>3, <2>1 DEF Running
  <2> QED
    BY <1>1, <1>4, <2>1, <2>2 DEF IInv, CallsAwaited
<1>10. Running(a, p)'
  <2>1. Known(a)'
    BY <1>2, <1>3 DEF Known, Running
  <2> QED
    BY <2>1, <1>2, <1>3, <1>7, <1>9 DEF Running, PodsOf
<1>11. Life(a)'
  BY <1>1, <1>10 DEF Life, PodsOf
<1>12. \A r \in Call : call'[r].stage # "free" => call'[r] = call[r]
  BY <1>8 DEF NoCall
<1> QED
  BY <1>2, <1>7, <1>11, <1>12, OthersGoOn

LEMMA ClusterRegisterLife ==
  ASSUME IInv, calm, \A b \in Agent : Life(b), NEW p \in Pod, ClusterRegister(p)
  PROVE  \A b \in Agent : Life(b)'
<1> DEFINE a == AgentOf[p]
<1>1. a \in Agent /\ p \in PodsOf(a)
  BY PodsOfAgent
<1>2. /\ UNCHANGED <<record, manifest, applying, fetched, deployed, call>>
      /\ pod[p] \in {"writeConfigMap", "writeSecret"}
  BY DEF ClusterRegister, server, delivery
<1>3. Running(a, p)
  BY <1>1, <1>2, RunningPod
<1>4. NoCalls(a)' /\ Known(a)'
  BY <1>2, <1>3 DEF Running, NoCalls, Known
<1>5. CASE pod[p] = "writeConfigMap"
  <2>1. configMap[a] = "false"
    BY <1>3, <1>5 DEF Running
  <2>2. /\ configMap'[a] = "true" /\ pod'[p] = "writeSecret"
        /\ \A b \in Agent \ {a} : configMap'[b] = configMap[b]
        /\ \A o \in Pod \ {p} : pod'[o] = pod[o]
        /\ UNCHANGED <<secret, podKey>>
    BY <1>1, <1>5, <2>1 DEF ClusterRegister, IInv, TypeOK
  <2>3. Running(a, p)'
    BY <1>2, <1>3, <1>4, <1>5, <2>2 DEF Running, PodsOf
  <2>4. Life(a)'
    BY <1>1, <2>3 DEF Life, PodsOf
  <2> QED
    BY <1>2, <2>2, <2>4, OthersGoOn
<1>6. CASE pod[p] = "writeSecret"
  <2>1. /\ secret'[a] = podKey[p] /\ pod'[p] = "listening"
        /\ \A b \in Agent \ {a} : secret'[b] = secret[b]
        /\ \A o \in Pod \ {p} : pod'[o] = pod[o]
        /\ UNCHANGED <<configMap, podKey>>
    BY <1>1, <1>6 DEF ClusterRegister, IInv, TypeOK
  <2>2. Running(a, p)'
    BY <1>2, <1>3, <1>4, <1>6, <2>1 DEF Running, PodsOf
  <2>3. Life(a)'
    BY <1>1, <2>2 DEF Life, PodsOf
  <2> QED
    BY <1>2, <2>1, <2>3, OthersGoOn
<1> QED
  BY <1>2, <1>5, <1>6

LEMMA ConnectLife ==
  ASSUME IInv, calm, \A b \in Agent : Life(b), NEW p \in Pod, Connect(p)
  PROVE  \A b \in Agent : Life(b)'
<1> DEFINE a == AgentOf[p]
<1>1. a \in Agent /\ p \in PodsOf(a)
  BY PodsOfAgent
<1>2. /\ UNCHANGED <<record, manifest, applying, fetched, configMap, secret, deployed, call, podKey>>
      /\ pod[p] = "listening"
  BY DEF Connect, server, delivery, k8s
<1>3. Running(a, p)
  BY <1>1, <1>2, RunningPod
<1>4. NoCalls(a)' /\ Known(a)'
  BY <1>2, <1>3 DEF Running, NoCalls, Known
<1>5. /\ pod'[p] \in {"connected", "turnedAway"}
      /\ \A o \in Pod \ {p} : pod'[o] = pod[o]
  BY DEF Connect, IInv, TypeOK
<1>6. Running(a, p)'
  BY <1>2, <1>3, <1>4, <1>5 DEF Running, PodsOf
<1>7. Life(a)'
  BY <1>1, <1>6 DEF Life, PodsOf
<1> QED
  BY <1>2, <1>5, <1>7, OthersGoOn

\* Only a connected pod has a request to process.
LEMMA ProcessDeleteLife ==
  ASSUME IInv, LifeInv, calm, NEW p \in Pod, ProcessDelete(p)
  PROVE  \A b \in Agent : Life(b)'
<1> DEFINE a == AgentOf[p]
<1>1. a \in Agent /\ p \in PodsOf(a) /\ \A b \in Agent : Life(b)
  BY PodsOfAgent DEF LifeInv
<1>2. /\ UNCHANGED <<record, manifest, applying, fetched, secret, call, pod, podKey>>
      /\ pod[p] = "connected"
  BY DEF ProcessDelete, server, delivery, LifeInv, RequestsToConnected
<1>3. Running(a, p)
  BY <1>1, <1>2, RunningPod
<1>4. NoCalls(a)' /\ Known(a)'
  BY <1>2, <1>3 DEF Running, NoCalls, Known
<1>5. /\ configMap'[a] \in {configMap[a], "absent"}
      /\ \A b \in Agent \ {a} : configMap'[b] = configMap[b] /\ deployed'[b] = deployed[b]
  BY <1>1 DEF ProcessDelete, IInv, TypeOK
<1>6. Running(a, p)'
  BY <1>2, <1>3, <1>4, <1>5 DEF Running, PodsOf
<1>7. Life(a)'
  BY <1>1, <1>6 DEF Life, PodsOf
<1> QED
  BY <1>1, <1>2, <1>5, <1>7, OthersGoOn

LEMMA SubscriberLife ==
  ASSUME IInv, LifeInv, calm, NEW p \in Pod, Subscriber(p) \/ StopPod(p)
  PROVE  \A b \in Agent : Life(b)'
<1>1. \A b \in Agent : Life(b)
  BY DEF LifeInv
<1>2. ~ ReadSecret(p)
  <2>1. Life(AgentOf[p])
    BY <1>1, PodsOfAgent
  <2> QED
    BY <2>1, RunningPod DEF ReadSecret, Running
<1> QED
  BY <1>1, <1>2, StartPodLife, StopPodLife, IsClusterConfirmedLife, ReceiveReplyLife,
     ClusterRegisterLife, ConnectLife, ProcessDeleteLife DEF Subscriber

\* A call under way is that of the pod which waits for it.
LEMMA ServerLife ==
  ASSUME IInv, LifeInv, calm, NEW q \in Call, ConfirmClusterRegistration(q)
  PROVE  \A b \in Agent : Life(b)'
<1>0. PICK a \in Agent : a = call[q].agent
  BY DEF ConfirmClusterRegistration, CompareKey, RotateKey, IInv, CallsBehind
<1>1. /\ call[q].stage \in {"sent", "matched"} /\ Life(a)
      /\ UNCHANGED <<manifest, applying, fetched, configMap, secret, deployed, pod, podKey>>
  <2>0. call[q].stage \in {"sent", "matched"}
    BY DEF ConfirmClusterRegistration, CompareKey, RotateKey
  <2>1. call[q].agent \in Agent
    BY <2>0 DEF IInv, CallsBehind
  <2>2. Life(a)
    BY <1>0, <2>1 DEF LifeInv
  <2>3. UNCHANGED <<delivery, k8s, pods>>
    <3>1. CASE CompareKey(q)
      BY <3>1, Zenon DEF CompareKey
    <3>2. CASE RotateKey(q)
      BY <3>2, Zenon DEF RotateKey
    <3> QED
      BY <3>1, <3>2 DEF ConfirmClusterRegistration
  <2> QED
    BY <2>0, <2>2, <2>3 DEF delivery, k8s, pods
<1>2. PICK p \in PodsOf(a) : Running(a, p) /\ pod[p] = "confirming"
  BY <1>0, <1>1 DEF Life, New, InstallingAt, Installed, Removed, NoCalls, Running
<1>3. p \in Pod /\ p # None
  BY <1>2, NoneIsNone DEF PodsOf
<1>4. /\ call[q].pod = p /\ call[q].key = record[a].key
      /\ \A r \in Call : call[r].stage # "free" /\ call[r].agent = a => r = q
  BY <1>0, <1>1, <1>2, <1>3 DEF Running, IInv, CallsAwaited
<1>5. /\ \A r \in Call \ {q} : call'[r] = call[r]
      /\ call'[q].pod = p /\ call'[q].agent = a
      /\ call'[q].stage \in {"matched", "confirmed"}
      /\ call'[q].key = record'[a].key
      /\ \A b \in Agent \ {a} : record'[b] = record[b]
      /\ record'[a].key # 0
  <2>1. CASE CompareKey(q)
    <3>1. record' = record /\ call' = [call EXCEPT ![q].stage = "matched"]
      BY <1>0, <1>4, <2>1 DEF CompareKey
    <3> QED
      BY <1>0, <1>2, <1>4, <3>1 DEF IInv, TypeOK, Running, Known
  <2>2. CASE RotateKey(q)
    <3>1. /\ record' = [record EXCEPT ![a].key = keys + 1, ![a].registered = TRUE]
          /\ Reply(q, "confirmed", keys + 1)
      BY <1>0, <2>2 DEF RotateKey
    <3>2. record'[a].key = keys + 1 /\ \A b \in Agent \ {a} : record'[b] = record[b]
      BY <1>1, <3>1 DEF IInv, TypeOK, RecordType
    <3>3. keys + 1 # 0
      BY Naturals DEF IInv
    <3> QED
      BY <1>0, <1>3, <1>4, <3>1, <3>2, <3>3, ReplyInv
  <2> QED
    BY <2>1, <2>2 DEF ConfirmClusterRegistration
<1>6. Running(a, p)'
  <2>1. \A r \in Call : call'[r].stage # "free" /\ call'[r].agent = a => r = q
    BY <1>4, <1>5
  <2>2. fetched'[a] # 0 /\ record'[a].key # 0
    BY <1>1, <1>2, <1>5 DEF Running, Known
  <2> QED
    BY <1>1, <1>2, <1>5, <2>1, <2>2 DEF Running, PodsOf, Known
<1>7. Life(a)'
  BY <1>2, <1>6 DEF Life, PodsOf
<1>8. ASSUME NEW b \in Agent, b # a PROVE Life(b)'
  <2>1. \A r \in Call : call'[r].stage # "free" /\ call'[r].agent = b => call'[r] = call[r]
    BY <1>5, <1>8
  <2>2. record'[b] = record[b] /\ Life(b)
    BY <1>5, <1>8 DEF LifeInv
  <2> QED
    BY <1>1, <2>1, <2>2, LifeGoesOn
<1> QED
  BY <1>7, <1>8

LEMMA DeleteLife ==
  ASSUME IInv, LifeInv, calm, SendDelete \/ \E S \in SUBSET Agent : DeleteClusters(S)
  PROVE  \A b \in Agent : Life(b)'
<1>1. UNCHANGED <<call, manifest, applying, fetched, configMap, secret, deployed, pod, podKey>>
  BY DEF SendDelete, DeleteClusters, delivery, k8s, pods
<1>2. \A b \in Agent : record'[b].key = record[b].key /\ record'[b].registered = record[b].registered
  <2>1. CASE SendDelete
    BY <2>1 DEF SendDelete
  <2>2. ASSUME NEW S \in SUBSET Agent, DeleteClusters(S)
        PROVE  \A b \in Agent : /\ record'[b].key = record[b].key
                                /\ record'[b].registered = record[b].registered
    <3>1. PICK c \in Agent : record' = [record EXCEPT ![c].removed = TRUE]
      BY <2>2 DEF DeleteClusters
    <3>2. \A b \in Agent : record[b] \in RecordType
      BY DEF IInv, TypeOK
    <3> QED
      BY <3>1, <3>2 DEF RecordType, IInv, TypeOK
  <2> QED
    BY <2>1, <2>2
<1> QED
  BY <1>1, <1>2, LifeGoesOn DEF LifeInv

\* Requests are sent to connected pods, and lost with the process.
LEMMA RequestsGoToConnected ==
  ASSUME IInv, RequestsToConnected, Step
  PROVE  RequestsToConnected'
<1>1. ASSUME NEW p \in Pod,
             requests' = requests \/ requests' = [requests EXCEPT ![p] = <<>>],
             pod[p] # "connected" \/ requests' # requests,
             \A o \in Pod \ {p} : pod'[o] = pod[o]
      PROVE  RequestsToConnected'
  BY <1>1 DEF RequestsToConnected, IInv, TypeOK
<1>2. CASE UNCHANGED <<pod, requests>>
  BY <1>2 DEF RequestsToConnected
<1>3. ASSUME NEW p \in Pod, StopPod(p) PROVE RequestsToConnected'
  BY <1>3 DEF StopPod, Down, RequestsToConnected, IInv, TypeOK
<1>4. ASSUME NEW p \in Pod, Subscriber(p), ~ ProcessDelete(p) PROVE RequestsToConnected'
  <2>1. /\ pod[p] # "connected" /\ \A o \in Pod \ {p} : pod'[o] = pod[o]
        /\ requests' = requests \/ requests' = [requests EXCEPT ![p] = <<>>]
    BY <1>4 DEF Subscriber, StartPod, IsClusterConfirmed, ReadSecret, ReceiveReply,
       ClusterRegister, Connect, Down, IInv, TypeOK
  <2> QED
    BY <2>1, <1>1
<1>5. ASSUME NEW p \in Pod, ProcessDelete(p) PROVE RequestsToConnected'
  <2>1. requests'[p] # <<>> => requests[p] # <<>>
    BY <1>5 DEF ProcessDelete
  <2>2. \A o \in Pod \ {p} : requests'[o] = requests[o]
    BY <1>5 DEF ProcessDelete, IInv, TypeOK
  <2> QED
    BY <1>5, <2>1, <2>2 DEF ProcessDelete, RequestsToConnected
<1>6. CASE SendDelete
  <2>1. pod' = pod
    BY <1>6 DEF SendDelete
  <2>2. \A p \in Pod : requests'[p] # requests[p] => pod[p] = "connected"
    BY <1>6 DEF SendDelete, Send
  <2> QED
    BY <2>1, <2>2 DEF RequestsToConnected
<1>7. ASSUME NEW a \in Agent, Register(a) PROVE UNCHANGED <<pod, requests>>
  BY <1>7 DEF Register, RegisterCluster, GetManifest, GetManifestWithClusterID,
     ManifestParser, Apply, pods
<1>8. ASSUME NEW q \in Call, ConfirmClusterRegistration(q) PROVE UNCHANGED <<pod, requests>>
  BY <1>8 DEF ConfirmClusterRegistration, CompareKey, RotateKey, pods
<1>9. ASSUME NEW S \in SUBSET Agent, DeleteClusters(S) PROVE UNCHANGED <<pod, requests>>
  BY <1>9 DEF DeleteClusters, pods
<1> QED
  BY <1>2, <1>3, <1>4, <1>5, <1>6, <1>7, <1>8, <1>9 DEF Step

LEMMA StepLife == IInv /\ LifeInv /\ [Next]_vars => LifeInv'
<1> SUFFICES ASSUME IInv, LifeInv, [Next]_vars PROVE LifeInv'
  OBVIOUS
<1>1. CASE UNCHANGED vars
  <2>1. ASSUME calm, NEW b \in Agent PROVE Life(b)'
    BY <1>1, <2>1, LifeGoesOn DEF LifeInv, vars, system, server, delivery, k8s, pods
  <2>2. RequestsToConnected' /\ (calm' <=> calm)
    BY <1>1 DEF LifeInv, RequestsToConnected, calm, vars, system, pods
  <2> QED
    BY <2>1, <2>2 DEF LifeInv
<1>2. CASE Next
  <2>1. RequestsToConnected' /\ (calm' <=> calm)
    BY <1>2, RequestsGoToConnected DEF LifeInv, Next, calm
  <2>2. ASSUME calm PROVE \A b \in Agent : Life(b)'
    BY <1>2, <2>2, RegisterLife, SubscriberLife, ServerLife, DeleteLife DEF Next, Step, LifeInv
  <2> QED
    BY <2>1, <2>2 DEF LifeInv
<1> QED
  BY <1>1, <1>2

\* When all is calm, a subscriber past its initialisation can be restarted at
\* any time: the Secret has the key of the record, and the ConfigMap says that
\* the agent is confirmed unless a clean-up has deleted it (ClusterRegister
\* writes the one after the other; IsClusterConfirmed and ReadSecret read them).
THEOREM CanRestart == Spec => []RestartSafe
<1>1. IInv /\ LifeInv => RestartSafe
  <2> SUFFICES ASSUME IInv, LifeInv, calm, NEW p \in Pod,
                      pod[p] \in {"listening", "connected", "turnedAway"}
               PROVE  /\ secret[AgentOf[p]] = record[AgentOf[p]].key
                      /\ configMap[AgentOf[p]] \in {"true", "absent"}
    BY DEF RestartSafe
  <2>1. Life(AgentOf[p])
    BY PodsOfAgent DEF LifeInv
  <2> QED
    BY <2>1, RunningPod DEF Running
<1> QED
  BY <1>1, InitInv, StepInv, InitLife, StepLife, PTL DEF Spec
=============================================================================
