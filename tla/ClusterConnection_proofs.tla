---------------------- MODULE ClusterConnection_proofs ----------------------
(***************************************************************************)
(* The safety properties of ClusterConnection, for any set of clusters,    *)
(* connections, observers and callers.                                     *)
(***************************************************************************)
EXTENDS ClusterConnection, TLAPS

USE DEF ChanCap

(***************************************************************************)
(* EntryHasCleanUp and SendsToTheEntry need to know more of the store than *)
(* they say: the channel under a cluster belongs to that cluster, a        *)
(* subscription not yet made has no clean-up goroutine, and the clean-up   *)
(* starts when the context has ended.                                      *)
(***************************************************************************)
EntryOfItsCluster ==
  \A c \in Cluster :
    ConnectedCluster[c] # None => ClusterOf[ConnectedCluster[c]] = c

CleanUpInOrder ==
  \A k \in Conn :
    /\ connect[k] = "new" => disconnect[k] = "none"
    /\ disconnect[k] \in {"notifying", "deleting", "writing", "done"}
         => ctxDone[k]

IInv == /\ TypeOK
        /\ EntryOfItsCluster
        /\ CleanUpInOrder
        /\ EntryHasCleanUp
        /\ SendsToTheEntry

\* The initial states are of the declared types.
LEMMA InitTypeOK == Init => TypeOK
  BY ClusterOfType DEF Init, TypeOK, ConnectStage, DisconnectStage

\* Every step keeps the declared types, whatever the other parts of IInv say.
LEMMA StepTypeOK == ASSUME TypeOK, [Next]_vars PROVE TypeOK'
<1> USE ClusterOfType DEF TypeOK, ConnectStage, DisconnectStage
<1>1. ASSUME NEW k \in Conn, Subscribe(k) PROVE TypeOK'
  BY <1>1 DEF Subscribe, store
<1>2. ASSUME NEW k \in Conn, Register(k) PROVE TypeOK'
  BY <1>2 DEF Register
<1>3. ASSUME NEW k \in Conn, MarkActive(k) PROVE TypeOK'
  BY <1>3 DEF MarkActive, store
<1>4. ASSUME NEW k \in Conn, AnnounceLive(k) PROVE TypeOK'
  BY <1>4 DEF AnnounceLive, LockForEvent, UnlockAfterEvent, Connecting, Thread
<1>5. ASSUME NEW k \in Conn, DeliverAction(k) PROVE TypeOK'
  BY <1>5 DEF DeliverAction, store, threads
<1>6. ASSUME NEW k \in Conn, Disconnect(k) PROVE TypeOK'
  BY <1>6 DEF Disconnect, store
<1>7. ASSUME NEW k \in Conn, AnnounceOffline(k) PROVE TypeOK'
  BY <1>7 DEF AnnounceOffline, LockForEvent, UnlockAfterEvent, Disconnecting,
              Thread
<1>8. ASSUME NEW k \in Conn, DeleteEntry(k) PROVE TypeOK'
  BY <1>8 DEF DeleteEntry
<1>9. ASSUME NEW k \in Conn, MarkInactive(k) PROVE TypeOK'
  BY <1>9 DEF MarkInactive, store
<1>10. ASSUME SendEvent PROVE TypeOK'
  BY <1>10 DEF SendEvent, store
<1>11. ASSUME NEW o \in Observer, GetClusterEvents(o) PROVE TypeOK'
  BY <1>11 DEF GetClusterEvents, threads
<1>12. ASSUME NEW o \in Observer, DeliverEvent(o) PROVE TypeOK'
  BY <1>12 DEF DeliverEvent, store, threads
<1>13. ASSUME NEW r \in Caller, NEW c \in Cluster, LookUp(r, c) PROVE TypeOK'
  BY <1>13 DEF LookUp, Requesting, Thread
<1>14. ASSUME NEW r \in Caller, SendAction(r) PROVE TypeOK'
  BY <1>14 DEF SendAction
<1>15. ASSUME Restart PROVE TypeOK'
  BY <1>15 DEF Restart
<1>16. ASSUME UNCHANGED vars PROVE TypeOK'
  BY <1>16 DEF vars, store, threads
<1> QED
  BY <1>1, <1>2, <1>3, <1>4, <1>5, <1>6, <1>7, <1>8, <1>9, <1>10, <1>11,
     <1>12, <1>13, <1>14, <1>15, <1>16
  DEF Next, Serve, ClusterConnect, CleanUp, SendRequestToSubscriber

-----------------------------------------------------------------------------
\* In the first state the map is empty and no subscription exists.
LEMMA InitIInv == Init => IInv
<1> SUFFICES ASSUME Init PROVE IInv
  OBVIOUS
<1>1. EntryHasCleanUp
  BY ClusterOfType, NoneIsNoValue DEF Init, EntryHasCleanUp
<1> QED
  BY <1>1, InitTypeOK
  DEF Init, IInv, EntryOfItsCluster, CleanUpInOrder, SendsToTheEntry

\* The steps that leave the map, the goroutines and the senders alone.
LEMMA UnchangedIInv ==
  ASSUME IInv, TypeOK',
         UNCHANGED <<Mutex, ConnectedCluster, connect, disconnect, ctxDone,
                     sending>>
  PROVE  IInv'
  BY DEF IInv, EntryOfItsCluster, CleanUpInOrder, EntryHasCleanUp,
         SendsToTheEntry

\* The steps of one goroutine that change neither the map nor a sender, and
\* do not carry the clean-up over the delete.
LEMMA GoroutineIInv ==
  ASSUME IInv, TypeOK', NEW k \in Conn,
         UNCHANGED <<ConnectedCluster, sending>>,
         Mutex' = Mutex \/ \A r \in Caller : sending[r] = None,
         \A j \in Conn \ {k} : /\ connect'[j] = connect[j]
                               /\ disconnect'[j] = disconnect[j]
                               /\ ctxDone'[j] = ctxDone[j],
         disconnect[k] \in {"waiting", "notifying", "deleting"}
           <=> disconnect'[k] \in {"waiting", "notifying", "deleting"},
         connect'[k] = "new" => disconnect'[k] = "none",
         disconnect'[k] \in {"notifying", "deleting", "writing", "done"}
           => ctxDone'[k]
  PROVE  IInv'
<1>1. EntryOfItsCluster'
  BY DEF IInv, EntryOfItsCluster
<1>2. CleanUpInOrder'
  BY DEF IInv, CleanUpInOrder
<1>3. EntryHasCleanUp'
  BY DEF IInv, EntryHasCleanUp
<1>4. SendsToTheEntry'
  BY DEF IInv, SendsToTheEntry
<1> QED
  BY <1>1, <1>2, <1>3, <1>4 DEF IInv

\* Nobody is inside a send while the Mutex is free or held by another.
LEMMA NoSendWithoutMutex ==
  ASSUME IInv, \A r \in Caller : Mutex # Requesting(r)
  PROVE  \A r \in Caller : sending[r] = None
  BY DEF IInv, SendsToTheEntry

LEMMA FreeMutexNoSend ==
  ASSUME IInv, Mutex = None
  PROVE  \A r \in Caller : sending[r] = None
<1> \A r \in Caller : Requesting(r) \in Thread
  BY DEF Requesting, Thread
<1> QED
  BY NoSendWithoutMutex, NoneIsNoValue

\* The step that puts a channel into the map.
LEMMA RegisterIInv ==
  ASSUME IInv, TypeOK', NEW k \in Conn, Register(k) PROVE IInv'
<1> USE ClusterOfType, NoneIsNoValue
<1>1. CASE ConnectedCluster[ClusterOf[k]] # None
  BY <1>1, GoroutineIInv DEF Register, IInv, TypeOK, CleanUpInOrder
<1>2. CASE ConnectedCluster[ClusterOf[k]] = None
  <2>1. /\ ConnectedCluster' = [ConnectedCluster EXCEPT ![ClusterOf[k]] = k]
        /\ connect' = [connect EXCEPT ![k] = "inserted"]
        /\ disconnect' = [disconnect EXCEPT ![k] = "waiting"]
        /\ UNCHANGED <<Mutex, ctxDone, sending>>
    BY <1>2 DEF Register
  <2>2. \A r \in Caller : sending[r] = None
    BY FreeMutexNoSend DEF Register
  <2>3. EntryOfItsCluster'
    BY <2>1 DEF IInv, TypeOK, EntryOfItsCluster
  <2>4. CleanUpInOrder'
    BY <2>1 DEF IInv, TypeOK, CleanUpInOrder
  <2>5. EntryHasCleanUp'
    BY <1>2, <2>1 DEF IInv, TypeOK, EntryHasCleanUp
  <2>6. SendsToTheEntry'
    BY <2>1, <2>2 DEF SendsToTheEntry
  <2> QED
    BY <2>3, <2>4, <2>5, <2>6 DEF IInv
<1> QED
  BY <1>1, <1>2

\* The step that takes a channel out of the map. The entry it removes is its
\* own: otherwise EntryHasCleanUp would have two goroutines for one entry.
LEMMA DeleteEntryIInv ==
  ASSUME IInv, TypeOK', NEW k \in Conn, DeleteEntry(k) PROVE IInv'
<1> USE ClusterOfType, NoneIsNoValue
<1>1. /\ ConnectedCluster' = [ConnectedCluster EXCEPT ![ClusterOf[k]] = None]
      /\ disconnect' = [disconnect EXCEPT ![k] = "writing"]
      /\ UNCHANGED <<Mutex, connect, ctxDone, sending>>
  BY DEF DeleteEntry
<1>2. ConnectedCluster[ClusterOf[k]] = k
  BY DEF DeleteEntry, IInv, EntryHasCleanUp
<1>3. \A r \in Caller : sending[r] = None
  BY FreeMutexNoSend DEF DeleteEntry
<1>4. EntryOfItsCluster'
  BY <1>1 DEF IInv, TypeOK, EntryOfItsCluster
<1>5. CleanUpInOrder'
  BY <1>1 DEF DeleteEntry, IInv, TypeOK, CleanUpInOrder
<1>6. EntryHasCleanUp'
  BY <1>1, <1>2 DEF IInv, TypeOK, EntryHasCleanUp
<1>7. SendsToTheEntry'
  BY <1>1, <1>3 DEF SendsToTheEntry
<1> QED
  BY <1>4, <1>5, <1>6, <1>7 DEF IInv

\* SendRequestToSubscriber takes the Mutex with the channel of the map ...
LEMMA LookUpIInv ==
  ASSUME IInv, TypeOK', NEW r \in Caller, NEW c \in Cluster, LookUp(r, c)
  PROVE  IInv'
<1>1. /\ UNCHANGED <<ConnectedCluster, connect, disconnect, ctxDone>>
      /\ Mutex' = Requesting(r)
      /\ sending' = [sending EXCEPT ![r] = ConnectedCluster[c]]
  BY DEF LookUp
<1>2. \A q \in Caller : sending[q] = None
  BY FreeMutexNoSend DEF LookUp
<1>3. SendsToTheEntry'
  BY <1>1, <1>2 DEF LookUp, IInv, TypeOK, EntryOfItsCluster, SendsToTheEntry
<1> QED
  BY <1>1, <1>3 DEF IInv, EntryOfItsCluster, CleanUpInOrder, EntryHasCleanUp

\* ... and gives it back when the message is in the channel.
LEMMA SendActionIInv ==
  ASSUME IInv, TypeOK', NEW r \in Caller, SendAction(r) PROVE IInv'
<1>1. /\ UNCHANGED <<ConnectedCluster, connect, disconnect, ctxDone>>
      /\ sending' = [sending EXCEPT ![r] = None]
      /\ sending[r] # None
  BY DEF SendAction
<1>2. \A q \in Caller \ {r} : sending[q] = None
  BY <1>1 DEF IInv, SendsToTheEntry, Requesting
<1>3. SendsToTheEntry'
  BY <1>1, <1>2 DEF IInv, TypeOK, SendsToTheEntry
<1> QED
  BY <1>1, <1>3 DEF IInv, EntryOfItsCluster, CleanUpInOrder, EntryHasCleanUp

\* A restart empties the store.
LEMMA RestartIInv == ASSUME IInv, TypeOK', Restart PROVE IInv'
<1>1. EntryHasCleanUp'
  BY ClusterOfType, NoneIsNoValue DEF Restart, EntryHasCleanUp
<1> QED
  BY <1>1
  DEF Restart, IInv, EntryOfItsCluster, CleanUpInOrder, SendsToTheEntry

LEMMA StepIInv == ASSUME IInv, [Next]_vars PROVE IInv'
<1> TypeOK'
  BY StepTypeOK DEF IInv
<1>1. ASSUME NEW k \in Conn, Subscribe(k) PROVE IInv'
  BY <1>1, GoroutineIInv
  DEF Subscribe, Over, store, IInv, TypeOK, CleanUpInOrder
<1>2. ASSUME NEW k \in Conn, Register(k) PROVE IInv'
  BY <1>2, RegisterIInv
<1>3. ASSUME NEW k \in Conn, MarkActive(k) PROVE IInv'
  BY <1>3, GoroutineIInv DEF MarkActive, store, IInv, TypeOK, CleanUpInOrder
<1>4. ASSUME NEW k \in Conn, AnnounceLive(k) PROVE IInv'
  <2>1. \A r \in Caller : sending[r] = None
    BY <1>4, FreeMutexNoSend, NoSendWithoutMutex
    DEF AnnounceLive, LockForEvent, UnlockAfterEvent, Connecting, Requesting
  <2> QED
    BY <1>4, <2>1, GoroutineIInv DEF AnnounceLive, IInv, TypeOK, CleanUpInOrder
<1>5. ASSUME NEW k \in Conn, DeliverAction(k) PROVE IInv'
  BY <1>5, UnchangedIInv DEF DeliverAction, store, threads
<1>6. ASSUME NEW k \in Conn, Disconnect(k) PROVE IInv'
  BY <1>6, GoroutineIInv DEF Disconnect, store, IInv, TypeOK, CleanUpInOrder
<1>7. ASSUME NEW k \in Conn, AnnounceOffline(k) PROVE IInv'
  <2>1. \A r \in Caller : sending[r] = None
    BY <1>7, FreeMutexNoSend, NoSendWithoutMutex
    DEF AnnounceOffline, LockForEvent, UnlockAfterEvent, Disconnecting,
        Requesting
  <2> QED
    BY <1>7, <2>1, GoroutineIInv
    DEF AnnounceOffline, IInv, TypeOK, CleanUpInOrder
<1>8. ASSUME NEW k \in Conn, DeleteEntry(k) PROVE IInv'
  BY <1>8, DeleteEntryIInv
<1>9. ASSUME NEW k \in Conn, MarkInactive(k) PROVE IInv'
  BY <1>9, GoroutineIInv DEF MarkInactive, store, IInv, TypeOK, CleanUpInOrder
<1>10. ASSUME SendEvent PROVE IInv'
  BY <1>10, UnchangedIInv DEF SendEvent, store
<1>11. ASSUME NEW o \in Observer, GetClusterEvents(o) PROVE IInv'
  BY <1>11, UnchangedIInv DEF GetClusterEvents, threads
<1>12. ASSUME NEW o \in Observer, DeliverEvent(o) PROVE IInv'
  BY <1>12, UnchangedIInv DEF DeliverEvent, store, threads
<1>13. ASSUME NEW r \in Caller, NEW c \in Cluster, LookUp(r, c) PROVE IInv'
  BY <1>13, LookUpIInv
<1>14. ASSUME NEW r \in Caller, SendAction(r) PROVE IInv'
  BY <1>14, SendActionIInv
<1>15. ASSUME Restart PROVE IInv'
  BY <1>15, RestartIInv
<1>16. ASSUME UNCHANGED vars PROVE IInv'
  BY <1>16, UnchangedIInv DEF vars, store, threads
<1> QED
  BY <1>1, <1>2, <1>3, <1>4, <1>5, <1>6, <1>7, <1>8, <1>9, <1>10, <1>11,
     <1>12, <1>13, <1>14, <1>15, <1>16
  DEF Next, Serve, ClusterConnect, CleanUp, SendRequestToSubscriber

-----------------------------------------------------------------------------
\* The inductive invariant holds in every reachable state.
THEOREM Invariance == Spec => []IInv
  BY InitIInv, StepIInv, PTL DEF Spec

\* ClusterConnect and its clean-up keep the data store and the goroutines
\* within their declared values.
THEOREM TypeCorrect == Spec => []TypeOK
<1>1. IInv => TypeOK
  BY DEF IInv
<1> QED
  BY <1>1, Invariance, PTL

\* Entries of ConnectedCluster and clean-up goroutines match one to one.
THEOREM EntryCleanUp == Spec => []EntryHasCleanUp
<1>1. IInv => EntryHasCleanUp
  BY DEF IInv
<1> QED
  BY <1>1, Invariance, PTL

\* A blocked SendRequestToSubscriber always sends to the registered channel.
THEOREM SendsRegistered == Spec => []SendsToTheEntry
<1>1. IInv => SendsToTheEntry
  BY DEF IInv
<1> QED
  BY <1>1, Invariance, PTL

\* A connected agent is not evicted by any other connection of its cluster.
THEOREM KeepsEntry == Spec => ConnectedAgentKeepsEntry
<1> DEFINE Kept(k) == /\ ConnectedCluster[ClusterOf[k]] = k
                      /\ ~ ctxDone[k]
                      /\ connect'[k] # "new"
                      => ConnectedCluster'[ClusterOf[k]] = k
<1>1. ASSUME IInv, [Next]_vars, NEW k \in Conn PROVE Kept(k)
  <2> SUFFICES ASSUME ConnectedCluster[ClusterOf[k]] = k, ~ ctxDone[k],
                      connect'[k] # "new",
                      ConnectedCluster' # ConnectedCluster
               PROVE  ConnectedCluster'[ClusterOf[k]] = k
    OBVIOUS
  <2> USE ClusterOfType, NoneIsNoValue
  <2>1. ASSUME NEW j \in Conn, Register(j)
        PROVE  ConnectedCluster'[ClusterOf[k]] = k
    BY <1>1, <2>1 DEF Register, IInv, TypeOK
  <2>2. ASSUME NEW j \in Conn, DeleteEntry(j)
        PROVE  ConnectedCluster'[ClusterOf[k]] = k
    <3>1. ConnectedCluster[ClusterOf[j]] = j /\ ctxDone[j]
      BY <1>1, <2>2 DEF DeleteEntry, IInv, EntryHasCleanUp, CleanUpInOrder
    <3> QED
      BY <1>1, <2>2, <3>1 DEF DeleteEntry, IInv, TypeOK
  <2>3. ASSUME Restart PROVE FALSE
    BY <2>3 DEF Restart
  <2> QED
    BY <1>1, <2>1, <2>2, <2>3
    DEF Next, Serve, ClusterConnect, CleanUp, SendRequestToSubscriber,
        Subscribe, MarkActive, AnnounceLive, DeliverAction, Disconnect,
        AnnounceOffline, MarkInactive, SendEvent, GetClusterEvents,
        DeliverEvent, LookUp, SendAction, vars, store, threads
<1>2. IInv /\ [Next]_vars => [\A k \in Conn : Kept(k)]_vars
  BY <1>1
<1> QED
  BY <1>2, Invariance, PTL DEF Spec, ConnectedAgentKeepsEntry

\* A send that is frozen stays so until the server restarts: the agent that
\* leaves, its clean-up and every other goroutine wait for the same Mutex.
THEOREM FrozenForGood == Spec => FrozenUntilRestart
<1>1. ASSUME IInv, [Next]_vars, NEW r \in Caller,
             sending[r] # None, actions[sending[r]] = ChanCap,
             connect[sending[r]] \in {"announcing", "failed"}, ~ Restart
      PROVE  /\ sending'[r] # None
             /\ actions'[sending'[r]] = ChanCap
             /\ connect'[sending'[r]] \in {"announcing", "failed"}
  <2> DEFINE k == sending[r]
             Still == /\ sending'[r] = k
                      /\ actions'[k] = ChanCap
                      /\ connect'[k] \in {"announcing", "failed"}
  <2>1. /\ k \in Conn
        /\ Mutex = Requesting(r)
        /\ Mutex # None
        /\ ConnectedCluster[ClusterOf[k]] = k
        /\ disconnect[k] \in {"waiting", "notifying", "deleting"}
    BY <1>1, NoneIsNoValue
    DEF IInv, TypeOK, SendsToTheEntry, EntryHasCleanUp, Requesting, Thread
  <2> HIDE DEF k
  <2>2. ASSUME NEW j \in Conn, ClusterConnect(j) PROVE Still
    BY <1>1, <2>1, <2>2
    DEF ClusterConnect, Subscribe, Over, Register, MarkActive, AnnounceLive,
        LockForEvent, UnlockAfterEvent, Connecting, Requesting, IInv, TypeOK, k
  <2>3. ASSUME NEW j \in Conn, CleanUp(j) PROVE Still
    BY <1>1, <2>1, <2>3
    DEF CleanUp, AnnounceOffline, DeleteEntry, MarkInactive, store, k
  <2>4. ASSUME NEW j \in Conn, DeliverAction(j) \/ Disconnect(j) PROVE Still
    BY <1>1, <2>1, <2>4
    DEF DeliverAction, Disconnect, threads, store, IInv, TypeOK, k
  <2>5. ASSUME SendEvent PROVE Still
    BY <1>1, <2>5 DEF SendEvent, store, k
  <2>6. ASSUME NEW o \in Observer, GetClusterEvents(o) \/ DeliverEvent(o)
        PROVE  Still
    BY <1>1, <2>6 DEF GetClusterEvents, DeliverEvent, threads, store, k
  <2>7. ASSUME NEW q \in Caller, SendRequestToSubscriber(q) PROVE Still
    <3>1. ASSUME NEW c \in Cluster, LookUp(q, c) PROVE FALSE
      BY <2>1, <3>1 DEF LookUp
    <3>2. ASSUME SendAction(q) PROVE FALSE
      <4>1. q = r
        BY <1>1, <2>1, <3>2 DEF SendAction, IInv, SendsToTheEntry, Requesting
      <4> QED
        BY <1>1, <3>2, <4>1 DEF SendAction
    <3> QED
      BY <2>7, <3>1, <3>2 DEF SendRequestToSubscriber
  <2>8. ASSUME UNCHANGED vars PROVE Still
    BY <1>1, <2>8 DEF vars, store, threads, k
  <2> HIDE DEF Still
  <2>9. Serve \/ UNCHANGED vars
    BY <1>1 DEF Next
  <2>10. Still
    BY <2>2, <2>3, <2>4, <2>5, <2>6, <2>7, <2>8, <2>9 DEF Serve
  <2> QED
    BY <1>1, <2>10 DEF k, Still
<1>2. ASSUME IInv, [Next]_vars, Frozen, ~ Frozen'
      PROVE  connect' = [k \in Conn |-> "new"]
  <2>1. Restart
    BY <1>1, <1>2 DEF Frozen
  <2> QED
    BY <2>1 DEF Restart
<1>3. IInv /\ [Next]_vars
        => [Frozen /\ ~ Frozen' => connect' = [k \in Conn |-> "new"]]_vars
  BY <1>2
<1> QED
  BY <1>3, Invariance, PTL DEF Spec, FrozenUntilRestart
=============================================================================
