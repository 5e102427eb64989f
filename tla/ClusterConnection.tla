------------------------- MODULE ClusterConnection -------------------------
(***************************************************************************)
(* The connections of the chaos agents to the GraphQL server: the          *)
(* clusterConnect subscription an agent holds open, the goroutine that     *)
(* cleans up after it, the users that watch cluster events, and the        *)
(* resolvers that push requests down to the agents.                        *)
(*                                                                         *)
(* All of them share data_store.Store, an in-memory record of maps and     *)
(* one Mutex; every channel in it has a buffer of one message, and the     *)
(* senders send while they hold the Mutex.                                 *)
(***************************************************************************)
EXTENDS Naturals

CONSTANTS
  Cluster,     \* the registered clusters (cluster_id)
  Conn,        \* clusterConnect subscriptions, one websocket each
  ClusterOf,   \* the cluster whose agent opens the subscription
  Observer,    \* getClusterEvents subscriptions of the users
  Caller,      \* resolvers that call SendRequestToSubscriber
  None         \* no value

ASSUME ClusterOfType == ClusterOf \in [Conn -> Cluster]

VARIABLES
  \* MongoDB, survives a restart of the server
  isActive,            \* is_active of the cluster record
  \* the data store of the server
  Mutex,               \* the goroutine that holds Store.Mutex, or None
  ConnectedCluster,    \* the subscription whose channel the map holds
  ClusterEventPublish, \* the observers whose channels are registered
  \* the goroutines and the channels
  connect,             \* where ClusterConnect is, for each subscription
  disconnect,          \* where its clean-up goroutine is
  ctxDone,             \* has the context of the subscription ended?
  actions,             \* messages in the subscription's action channel
  events,              \* messages in the observer's event channel
  recipients,          \* the observers SendClusterEvent has yet to send to
  sending              \* the subscription a caller is sending to, or None

store   == <<Mutex, ConnectedCluster, ClusterEventPublish>>
threads == <<connect, disconnect, ctxDone, recipients, sending>>
vars    == <<isActive, store, threads, actions, events>>

-----------------------------------------------------------------------------
\* make(chan *model.ClusterActionResponse, 1), and the same for the events.
ChanCap == 1

Connecting(k)    == <<"connect", k>>
Disconnecting(k) == <<"disconnect", k>>
Requesting(r)    == <<"request", r>>

Thread == ({"connect", "disconnect"} \X Conn) \cup ({"request"} \X Caller)

ASSUME NoneIsNoValue == None \notin Conn /\ None \notin Thread

ConnectStage    == {"new", "verified", "inserted", "announcing", "notifying",
                    "live", "refused", "failed"}
DisconnectStage == {"none", "waiting", "notifying", "deleting", "writing",
                    "done"}

Returned(k) == connect[k] \in {"live", "refused", "failed"}

\* The subscription is over and nothing of it runs any more, except a reader
\* parked on a channel that nobody else refers to.
Over(k) == /\ Returned(k)
           /\ ctxDone[k]
           /\ disconnect[k] \in {"none", "done"}

Init ==
  /\ isActive = [c \in Cluster |-> FALSE]
  /\ Mutex = None
  /\ ConnectedCluster = [c \in Cluster |-> None]
  /\ ClusterEventPublish = {}
  /\ connect = [k \in Conn |-> "new"]
  /\ disconnect = [k \in Conn |-> "none"]
  /\ ctxDone = [k \in Conn |-> FALSE]
  /\ actions = [k \in Conn |-> 0]
  /\ events = [o \in Observer |-> 0]
  /\ recipients = {}
  /\ sending = [r \in Caller |-> None]

-----------------------------------------------------------------------------
(***************************************************************************)
(* SendClusterEvent: lock, one blocking send per observer, unlock.         *)
(***************************************************************************)
LockForEvent(t) ==
  /\ Mutex = None
  /\ Mutex' = t
  /\ recipients' = ClusterEventPublish

SendEvent ==
  \E o \in recipients :
    /\ events[o] < ChanCap
    /\ events' = [events EXCEPT ![o] = @ + 1]
    /\ recipients' = recipients \ {o}
    /\ UNCHANGED <<isActive, store, connect, disconnect, ctxDone, actions,
                   sending>>

\* Mutant: the unlock after the loop is forgotten.
UnlockForgotten(t) ==
  /\ Mutex = t
  /\ recipients = {}
  /\ UNCHANGED <<Mutex, recipients>>

UnlockAfterEvent(t) ==
  /\ Mutex = t
  /\ recipients = {}
  /\ Mutex' = None
  /\ UNCHANGED recipients

-----------------------------------------------------------------------------
(***************************************************************************)
(* ClusterConnect.                                                         *)
(***************************************************************************)
\* An agent dials and subscribes; VerifyCluster accepts its credentials (the
\* refusal changes nothing). The channel of the new subscription is empty.
Subscribe(k) ==
  /\ connect[k] = "new" \/ Over(k)
  /\ connect' = [connect EXCEPT ![k] = "verified"]
  /\ disconnect' = [disconnect EXCEPT ![k] = "none"]
  /\ ctxDone' = [ctxDone EXCEPT ![k] = FALSE]
  /\ actions' = [actions EXCEPT ![k] = 0]
  /\ UNCHANGED <<isActive, store, events, recipients, sending>>

\* Mutant: a newer connection takes the place of the older one.
RegisterAlways(k) ==
  /\ connect[k] = "verified"
  /\ Mutex = None
  /\ ConnectedCluster' = [ConnectedCluster EXCEPT ![ClusterOf[k]] = k]
  /\ connect' = [connect EXCEPT ![k] = "inserted"]
  /\ disconnect' = [disconnect EXCEPT ![k] = "waiting"]
  /\ UNCHANGED <<isActive, Mutex, ClusterEventPublish, ctxDone, recipients,
                 sending, actions, events>>

\* Under the Mutex: refuse a cluster that is in the map, else put the channel
\* there. The clean-up goroutine starts right after the unlock.
Register(k) ==
  /\ connect[k] = "verified"
  /\ Mutex = None
  /\ LET c == ClusterOf[k] IN
       \/ /\ ConnectedCluster[c] # None
          /\ connect' = [connect EXCEPT ![k] = "refused"]
          /\ UNCHANGED <<ConnectedCluster, disconnect>>
       \/ /\ ConnectedCluster[c] = None
          /\ ConnectedCluster' = [ConnectedCluster EXCEPT ![c] = k]
          /\ connect' = [connect EXCEPT ![k] = "inserted"]
          /\ disconnect' = [disconnect EXCEPT ![k] = "waiting"]
  /\ UNCHANGED <<isActive, Mutex, ClusterEventPublish, ctxDone, recipients,
                 sending, actions, events>>

\* The update of is_active in MongoDB. When it returns an error the resolver
\* returns it too: the channel stays in the map, and nobody reads from it.
MarkActive(k) ==
  /\ connect[k] = "inserted"
  /\ \/ /\ isActive' = [isActive EXCEPT ![ClusterOf[k]] = TRUE]
        /\ connect' = [connect EXCEPT ![k] = "announcing"]
     \/ /\ connect' = [connect EXCEPT ![k] = "failed"]
        /\ UNCHANGED isActive
  /\ UNCHANGED <<store, disconnect, ctxDone, recipients, sending, actions,
                 events>>

AnnounceLive(k) ==
  /\ \/ /\ connect[k] = "announcing"
        /\ LockForEvent(Connecting(k))
        /\ connect' = [connect EXCEPT ![k] = "notifying"]
     \/ /\ connect[k] = "notifying"
        /\ UnlockAfterEvent(Connecting(k))
        /\ connect' = [connect EXCEPT ![k] = "live"]
  /\ UNCHANGED <<isActive, ConnectedCluster, ClusterEventPublish, disconnect,
                 ctxDone, sending, actions, events>>

\* The server reads the channel and writes to the websocket only once
\* ClusterConnect has returned it, and goes on after the agent has left.
DeliverAction(k) ==
  /\ connect[k] = "live"
  /\ actions[k] > 0
  /\ actions' = [actions EXCEPT ![k] = @ - 1]
  /\ UNCHANGED <<isActive, store, threads, events>>

-----------------------------------------------------------------------------
(***************************************************************************)
(* The end of a connection, and the goroutine waiting for it.              *)
(***************************************************************************)
\* The agent exits, or the network drops its websocket.
Disconnect(k) ==
  /\ connect[k] # "new"
  /\ ~ ctxDone[k]
  /\ ctxDone' = [ctxDone EXCEPT ![k] = TRUE]
  /\ UNCHANGED <<isActive, store, connect, disconnect, recipients, sending,
                 actions, events>>

AnnounceOffline(k) ==
  /\ \/ /\ disconnect[k] = "waiting"
        /\ ctxDone[k]
        /\ LockForEvent(Disconnecting(k))
        /\ disconnect' = [disconnect EXCEPT ![k] = "notifying"]
     \/ /\ disconnect[k] = "notifying"
        /\ UnlockAfterEvent(Disconnecting(k))
        /\ disconnect' = [disconnect EXCEPT ![k] = "deleting"]
  /\ UNCHANGED <<isActive, ConnectedCluster, ClusterEventPublish, connect,
                 ctxDone, sending, actions, events>>

\* Mutant: the entry is left in the map.
KeepEntry(k) ==
  /\ disconnect[k] = "deleting"
  /\ Mutex = None
  /\ disconnect' = [disconnect EXCEPT ![k] = "writing"]
  /\ UNCHANGED <<isActive, store, connect, ctxDone, recipients, sending,
                 actions, events>>

\* delete(ConnectedCluster, clusterID): by cluster, whatever channel is there.
DeleteEntry(k) ==
  /\ disconnect[k] = "deleting"
  /\ Mutex = None
  /\ ConnectedCluster' = [ConnectedCluster EXCEPT ![ClusterOf[k]] = None]
  /\ disconnect' = [disconnect EXCEPT ![k] = "writing"]
  /\ UNCHANGED <<isActive, Mutex, ClusterEventPublish, connect, ctxDone,
                 recipients, sending, actions, events>>

\* An error of this update is only logged.
MarkInactive(k) ==
  /\ disconnect[k] = "writing"
  /\ \/ isActive' = [isActive EXCEPT ![ClusterOf[k]] = FALSE]
     \/ UNCHANGED isActive
  /\ disconnect' = [disconnect EXCEPT ![k] = "done"]
  /\ UNCHANGED <<store, connect, ctxDone, recipients, sending, actions,
                 events>>

-----------------------------------------------------------------------------
(***************************************************************************)
(* The users and the resolvers.                                            *)
(***************************************************************************)
\* An observer is registered for good: nothing takes its channel out again.
GetClusterEvents(o) ==
  /\ o \notin ClusterEventPublish
  /\ Mutex = None
  /\ ClusterEventPublish' = ClusterEventPublish \cup {o}
  /\ UNCHANGED <<isActive, Mutex, ConnectedCluster, threads, actions, events>>

DeliverEvent(o) ==
  /\ events[o] > 0
  /\ events' = [events EXCEPT ![o] = @ - 1]
  /\ UNCHANGED <<isActive, store, threads, actions>>

\* Mutant: the lock covers the look-up only, not the send.
LookUpUnlocked(r, c) ==
  /\ sending[r] = None
  /\ Mutex = None
  /\ ConnectedCluster[c] # None
  /\ sending' = [sending EXCEPT ![r] = ConnectedCluster[c]]
  /\ UNCHANGED <<isActive, store, connect, disconnect, ctxDone, recipients,
                 actions, events>>

\* SendRequestToSubscriber takes the lock and looks the channel up. Without a
\* channel it unlocks and returns, and the request is dropped without a trace
\* (no step here: nothing changes).
LookUp(r, c) ==
  /\ sending[r] = None
  /\ Mutex = None
  /\ ConnectedCluster[c] # None
  /\ Mutex' = Requesting(r)
  /\ sending' = [sending EXCEPT ![r] = ConnectedCluster[c]]
  /\ UNCHANGED <<isActive, ConnectedCluster, ClusterEventPublish, connect,
                 disconnect, ctxDone, recipients, actions, events>>

\* Mutant: the send does not wait for room in the buffer.
SendUnbounded(r) ==
  /\ sending[r] # None
  /\ actions' = [actions EXCEPT ![sending[r]] = @ + 1]
  /\ sending' = [sending EXCEPT ![r] = None]
  /\ Mutex' = None
  /\ UNCHANGED <<isActive, ConnectedCluster, ClusterEventPublish, connect,
                 disconnect, ctxDone, recipients, events>>

\* Mutant: the send waits until the agent behind the channel is there.
SendToConnected(r) ==
  /\ sending[r] # None
  /\ ~ ctxDone[sending[r]]
  /\ actions[sending[r]] < ChanCap
  /\ actions' = [actions EXCEPT ![sending[r]] = @ + 1]
  /\ sending' = [sending EXCEPT ![r] = None]
  /\ Mutex' = None
  /\ UNCHANGED <<isActive, ConnectedCluster, ClusterEventPublish, connect,
                 disconnect, ctxDone, recipients, events>>

\* Mutant: a select with a default, which drops the request on a full buffer.
SendOrDrop(r) ==
  /\ sending[r] # None
  /\ actions' = [actions EXCEPT ![sending[r]] = ChanCap]
  /\ sending' = [sending EXCEPT ![r] = None]
  /\ Mutex' = None
  /\ UNCHANGED <<isActive, ConnectedCluster, ClusterEventPublish, connect,
                 disconnect, ctxDone, recipients, events>>

\* observer <- newAction, which blocks while the buffer is full; then unlock.
SendAction(r) ==
  /\ sending[r] # None
  /\ actions[sending[r]] < ChanCap
  /\ actions' = [actions EXCEPT ![sending[r]] = @ + 1]
  /\ sending' = [sending EXCEPT ![r] = None]
  /\ Mutex' = None
  /\ UNCHANGED <<isActive, ConnectedCluster, ClusterEventPublish, connect,
                 disconnect, ctxDone, recipients, events>>

\* The server process dies and starts again: the data store, the goroutines
\* and the websockets are gone, MongoDB keeps what it has.
Restart ==
  /\ Mutex' = None
  /\ ConnectedCluster' = [c \in Cluster |-> None]
  /\ ClusterEventPublish' = {}
  /\ connect' = [k \in Conn |-> "new"]
  /\ disconnect' = [k \in Conn |-> "none"]
  /\ ctxDone' = [k \in Conn |-> FALSE]
  /\ actions' = [k \in Conn |-> 0]
  /\ events' = [o \in Observer |-> 0]
  /\ recipients' = {}
  /\ sending' = [r \in Caller |-> None]
  /\ UNCHANGED isActive

-----------------------------------------------------------------------------
ClusterConnect(k) == \/ Subscribe(k)
                     \/ Register(k)
                     \/ MarkActive(k)
                     \/ AnnounceLive(k)

CleanUp(k) == \/ AnnounceOffline(k)
              \/ DeleteEntry(k)
              \/ MarkInactive(k)

SendRequestToSubscriber(r) == \/ \E c \in Cluster : LookUp(r, c)
                              \/ SendAction(r)

Serve == \/ \E k \in Conn : \/ ClusterConnect(k)
                            \/ CleanUp(k)
                            \/ DeliverAction(k)
                            \/ Disconnect(k)
         \/ SendEvent
         \/ \E o \in Observer : GetClusterEvents(o) \/ DeliverEvent(o)
         \/ \E r \in Caller : SendRequestToSubscriber(r)

Next == Serve \/ Restart

(***************************************************************************)
(* A goroutine that can run does run (WF); a goroutine that waits for the  *)
(* Mutex gets it in the end, because sync.Mutex hands itself over in FIFO  *)
(* order to goroutines that starve (SF); the websockets take what is       *)
(* written to them or break, so the readers go on (WF). Agents and users   *)
(* need not connect, leave or ask for anything, and the server need not    *)
(* restart.                                                                *)
(***************************************************************************)
Fairness ==
  /\ \A k \in Conn : /\ SF_vars(Register(k))
                     /\ WF_vars(MarkActive(k))
                     /\ SF_vars(AnnounceLive(k))
                     /\ WF_vars(DeliverAction(k))
                     /\ SF_vars(AnnounceOffline(k))
                     /\ SF_vars(DeleteEntry(k))
                     /\ WF_vars(MarkInactive(k))
  /\ WF_vars(SendEvent)
  /\ \A o \in Observer : WF_vars(DeliverEvent(o))
  /\ \A r \in Caller : WF_vars(SendAction(r))

Spec     == Init /\ [][Next]_vars
FairSpec == Spec /\ Fairness

-----------------------------------------------------------------------------
(***************************************************************************)
(* Properties.                                                             *)
(***************************************************************************)
TypeOK ==
  /\ isActive \in [Cluster -> BOOLEAN]
  /\ Mutex \in Thread \cup {None}
  /\ ConnectedCluster \in [Cluster -> Conn \cup {None}]
  /\ ClusterEventPublish \subseteq Observer
  /\ connect \in [Conn -> ConnectStage]
  /\ disconnect \in [Conn -> DisconnectStage]
  /\ ctxDone \in [Conn -> BOOLEAN]
  /\ actions \in [Conn -> 0..ChanCap]
  /\ events \in [Observer -> 0..ChanCap]
  /\ recipients \subseteq Observer
  /\ sending \in [Caller -> Conn \cup {None}]

\* The map holds the channel of a subscription exactly while the clean-up
\* goroutine of that subscription has its delete before it. So no entry is
\* left without somebody to remove it, no goroutine removes the entry of a
\* newer connection although it deletes by cluster id, and two agents of one
\* cluster are never connected at once (ClusterConnect, DeleteEntry).
EntryHasCleanUp ==
  \A k \in Conn :
    ConnectedCluster[ClusterOf[k]] = k
      <=> disconnect[k] \in {"waiting", "notifying", "deleting"}

\* While SendRequestToSubscriber blocks on a channel, that channel is the one
\* the map holds for the cluster: holding the Mutex over the send is what
\* keeps a request from going to a connection that is already cleaned up.
SendsToTheEntry ==
  \A r \in Caller :
    sending[r] # None => /\ Mutex = Requesting(r)
                         /\ ConnectedCluster[ClusterOf[sending[r]]] = sending[r]

\* As long as an agent stays connected and the server stays up, nobody takes
\* its entry away from it: a second connection of the cluster is turned down
\* with CLUSTER ALREADY CONNECTED.
ConnectedAgentKeepsEntry ==
  [][\A k \in Conn :
       /\ ConnectedCluster[ClusterOf[k]] = k
       /\ ~ ctxDone[k]
       /\ connect'[k] # "new"
       => ConnectedCluster'[ClusterOf[k]] = k]_vars

\* A send that cannot end: the channel is full and is not going to be read,
\* since ClusterConnect either waits for the Mutex the sender holds, or has
\* returned an error.
Frozen ==
  \E r \in Caller :
    /\ sending[r] # None
    /\ actions[sending[r]] = ChanCap
    /\ connect[sending[r]] \in {"announcing", "failed"}

\* Only a restart of the server ends such a send, the agent leaving does not.
FrozenUntilRestart ==
  [][Frozen /\ ~ Frozen' => connect' = [k \in Conn |-> "new"]]_vars

\* A send on the channel of a connection that is being read ends, also when
\* the agent behind it has left in the meantime.
LiveSendEnds ==
  \A r \in Caller, k \in Conn :
    (sending[r] = k /\ connect[k] = "live") ~> (sending[r] # k)

\* The Mutex is free again and again, unless a send is frozen.
MutexReleased == []<>(Mutex = None \/ Frozen)

\* The entry of an agent that has left goes away, so that the agent is not
\* refused for ever when it comes back, unless a send is frozen.
DeadEntryRemoved ==
  \A k \in Conn :
    (ConnectedCluster[ClusterOf[k]] = k /\ ctxDone[k])
      ~> (ConnectedCluster[ClusterOf[k]] # k \/ Frozen)

\* Every request that was taken up for a connected cluster is sent (the
\* comment on SendRequestToSubscriber). Does not hold: see Frozen.
RequestsAreSent ==
  \A r \in Caller : (sending[r] # None) ~> (sending[r] = None)
=============================================================================
