----------------------------- MODULE RunReports -----------------------------
(***************************************************************************)
(* How the subscriber reports workflow runs: an informer turns changes of  *)
(* Argo workflows into events, one goroutine sends them to the server one  *)
(* by one, and the goroutine that serves requests from the server sends    *)
(* events of its own. Both remember in eventMap what they last sent of a   *)
(* run, so that a verdict outlives the ChaosEngine it was read from.       *)
(***************************************************************************)
EXTENDS Naturals, SequencesExt

CONSTANTS
  Run,          \* runs (UIDs of Argo workflows)
  None,         \* no value
  Circumstances, \* of each kind of behaviour to consider, what may happen in it
  StreamCap,    \* capacity of the stream channel (10 in the code)
  MaxWatch,     \* bound: workflow changes the informer lags behind
  MaxRestarts   \* bound: crashes of the subscriber

\* requests: users ask for workflow_sync and workflow_delete; loss: a report
\* is lost on its way.
Happening == {"requests", "loss"}

ASSUME BoundsType == /\ {StreamCap, MaxWatch, MaxRestarts} \subseteq Nat
                     /\ Circumstances \subseteq SUBSET Happening

VARIABLES
  given,      \* what may happen in this behaviour
  \* the Kubernetes cluster
  workflow,   \* of each run: the Argo workflow
  engine,     \* of each run: its ChaosEngine, as getChaosData reads it
  \* the subscriber
  watch,      \* changes the informer has yet to handle
  stream,     \* the channel from the informer to WorkflowUpdates
  eventMap,   \* the event last sent of each run
  sender,     \* the two goroutines that call SendWorkflowUpdates
  request,    \* the request the subscriber has received
  restarts,   \* crashes and restarts so far
  panic,      \* what the last crash was due to
  \* the server
  stored,     \* the record of each run
  \* history
  seenFail,   \* runs a failed verdict was sent of since the last restart
  lost        \* runs whose completed report got lost since the last restart

cluster == <<workflow, engine>>
memory  == <<watch, stream, eventMap, sender, request>>
history == <<seenFail, lost>>
system  == <<cluster, memory, restarts, panic, stored, history>>
vars    == <<given, system>>

Sender == {"WorkflowUpdates", "RequestProcessor"}

\* verdict is "nil" without chaos data; nodes says whether the event has a
\* map of nodes at all.
Event == [run : Run, phase : {"Running", "Succeeded", "Failed", "NotAvailable"},
          finished : BOOLEAN, verdict : {"nil", "awaited", "fail"},
          nodes : BOOLEAN]

\* None is not an event, so that a missing one can be told.
ASSUME NoneIsNoEvent == None \notin Event

Ready == [stage |-> "ready"]

Present(r) == workflow[r] \in {"running", "finished"}

\* What a watch delivers: the workflow as it was at the change.
Change(r) == [run |-> r, finished |-> workflow[r] = "finished"]

Init ==
  /\ given \in Circumstances
  /\ workflow = [r \in Run |-> "absent"]
  /\ engine = [r \in Run |-> "nil"]
  /\ watch = <<>>
  /\ stream = <<>>
  /\ eventMap = [r \in Run |-> None]
  /\ sender = [s \in Sender |-> Ready]
  /\ request = None
  /\ restarts = 0
  /\ panic = "none"
  /\ stored = [r \in Run |-> None]
  /\ seenFail = {}
  /\ lost = {}

-----------------------------------------------------------------------------
(***************************************************************************)
(* The Kubernetes cluster.                                                 *)
(***************************************************************************)
Notify(r, finished) ==
  /\ Len(watch) < MaxWatch
  /\ watch' = Append(watch, [run |-> r, finished |-> finished])

\* Argo creates, updates or finishes a workflow.
RunWorkflow(r) ==
  /\ \/ /\ workflow[r] = "absent"
        /\ workflow' = [workflow EXCEPT ![r] = "running"]
        /\ Notify(r, FALSE)
     \/ /\ workflow[r] = "running"
        /\ workflow' = workflow
        /\ Notify(r, FALSE)
     \/ /\ workflow[r] = "running"
        /\ workflow' = [workflow EXCEPT ![r] = "finished"]
        /\ Notify(r, TRUE)
  /\ UNCHANGED <<engine, stream, eventMap, sender, request, restarts, panic,
                 stored, history>>

\* The chaos engine of a run appears, fails, and is cleaned up.
RunEngine(r) ==
  /\ \/ engine[r] = "nil" /\ workflow[r] = "running" /\ engine' = [engine EXCEPT ![r] = "awaited"]
     \/ engine[r] = "awaited" /\ engine' = [engine EXCEPT ![r] = "fail"]
     \/ engine[r] \in {"awaited", "fail"} /\ engine' = [engine EXCEPT ![r] = "gone"]
  /\ UNCHANGED <<workflow, memory, restarts, panic, stored, history>>

\* Somebody else deletes the workflow: a TTL, kubectl. No event is sent of
\* it: the informer has no handler for deletions.
Vanish(r) ==
  /\ Present(r)
  /\ workflow' = [workflow EXCEPT ![r] = "deleted"]
  /\ UNCHANGED <<engine, memory, restarts, panic, stored, history>>

-----------------------------------------------------------------------------
(***************************************************************************)
(* Events.                                                                 *)
(***************************************************************************)
\* WorkflowEventHandler: the workflow as it was, the engine as it is.
WorkflowEventHandler(change) ==
  LET verdict == IF engine[change.run] \in {"awaited", "fail"}
                 THEN engine[change.run] ELSE "nil"
  IN [run      |-> change.run,
      finished |-> change.finished,
      verdict  |-> verdict,
      nodes    |-> TRUE,
      phase    |-> IF verdict = "fail" THEN "Failed"
                   ELSE IF change.finished THEN "Succeeded" ELSE "Running"]

\* Mutant: an event that finds the stream full is dropped.
HandleOrDrop ==
  /\ watch # <<>>
  /\ stream' = IF Len(stream) < StreamCap
               THEN Append(stream, WorkflowEventHandler(Head(watch))) ELSE stream
  /\ watch' = Tail(watch)
  /\ UNCHANGED <<cluster, eventMap, sender, request, restarts, panic, stored,
                 history>>

\* The informer's handler blocks while the stream is full.
HandleChange ==
  /\ watch # <<>>
  /\ Len(stream) < StreamCap
  /\ stream' = Append(stream, WorkflowEventHandler(Head(watch)))
  /\ watch' = Tail(watch)
  /\ UNCHANGED <<cluster, eventMap, sender, request, restarts, panic, stored,
                 history>>

TakeEvent ==
  /\ sender["WorkflowUpdates"] = Ready
  /\ stream # <<>>
  /\ sender' = [sender EXCEPT
       !["WorkflowUpdates"] = [stage |-> "reading", event |-> Head(stream)]]
  /\ stream' = Tail(stream)
  /\ UNCHANGED <<cluster, watch, eventMap, request, restarts, panic, stored,
                 history>>

-----------------------------------------------------------------------------
(***************************************************************************)
(* SendWorkflowUpdates.                                                    *)
(***************************************************************************)
\* Mutant: the remembered verdict is not looked at.
ForgetVerdict(event, last) == event

\* Chaos data that the event does not have is taken from the last one sent.
Merged(event, last) ==
  IF last # None /\ last.verdict # "nil" /\ event.verdict = "nil"
  THEN [event EXCEPT !.verdict = last.verdict,
                     !.phase = IF last.verdict = "fail" THEN "Failed" ELSE @]
  ELSE event

\* Those nodes are copied into the event; one without a map of nodes cannot
\* take them.
NoRoom(event, last) == ~ event.nodes /\ last # None /\ last.verdict # "nil"

At(s, stage) == sender[s] # Ready /\ sender[s].stage = stage

\* The subscriber's process ends and starts again, with an empty eventMap;
\* its informer lists the workflows that are there.
Crash(cause) ==
  /\ restarts < MaxRestarts
  /\ restarts' = restarts + 1
  /\ panic' = cause
  /\ watch' \in SetToSeqs({Change(r) : r \in {x \in Run : Present(x)}})
  /\ stream' = <<>>
  /\ eventMap' = [r \in Run |-> None]
  /\ sender' = [s \in Sender |-> Ready]
  /\ request' = None
  /\ seenFail' = {}
  /\ lost' = {}
  /\ UNCHANGED <<cluster, stored>>

\* Neither goroutine locks eventMap: when both are at it, the Go runtime may
\* notice and end the process.
Collide ==
  /\ \A s \in Sender : At(s, "reading") \/ At(s, "writing")
  /\ Crash("race")

\* eventMap is read ...
Merge(s) ==
  /\ At(s, "reading")
  /\ LET event == sender[s].event
         last  == eventMap[event.run]
     IN \/ /\ NoRoom(event, last)
           /\ Crash("sync")
        \/ /\ ~ NoRoom(event, last)
           /\ sender' = [sender EXCEPT
                ![s] = [stage |-> "writing", event |-> Merged(event, last)]]
           /\ UNCHANGED <<cluster, watch, stream, eventMap, request, restarts,
                          panic, stored, history>>

\* ... and written: nothing is remembered of a run that is over.
Remember(s) ==
  /\ At(s, "writing")
  /\ LET event == sender[s].event
     IN /\ eventMap' = [eventMap EXCEPT
             ![event.run] = IF event.finished THEN None ELSE event]
        /\ seenFail' = IF event.verdict = "fail" THEN seenFail \cup {event.run}
                       ELSE seenFail
  /\ sender' = [sender EXCEPT ![s].stage = "posting"]
  /\ UNCHANGED <<cluster, watch, stream, request, restarts, panic, stored, lost>>

\* What the server makes of a report (see WorkflowRuns).
Record(event) ==
  IF stored[event.run] # None /\ stored[event.run].completed
  THEN stored
  ELSE [stored EXCEPT ![event.run] = [phase |-> event.phase,
                                      completed |-> event.finished]]

\* The mutation is posted once; an error is logged, and that is it.
Post(s) ==
  /\ At(s, "posting")
  /\ LET event == sender[s].event
     IN \/ /\ stored' = Record(event)
           /\ UNCHANGED lost
        \/ /\ "loss" \in given
           /\ lost' = IF event.finished THEN lost \cup {event.run} ELSE lost
           /\ UNCHANGED stored
  /\ sender' = [sender EXCEPT ![s] = Ready]
  /\ UNCHANGED <<cluster, watch, stream, eventMap, request, restarts, panic,
                 seenFail>>

-----------------------------------------------------------------------------
(***************************************************************************)
(* Requests of the server.                                                 *)
(***************************************************************************)
\* A user syncs a run that is not completed, or deletes any run.
Receive(kind, r) ==
  /\ "requests" \in given
  /\ request = None
  /\ sender["RequestProcessor"] = Ready
  /\ stored[r] # None
  /\ kind = "workflow_sync" => ~ stored[r].completed
  /\ request' = [kind |-> kind, run |-> r]
  /\ UNCHANGED <<cluster, watch, stream, eventMap, sender, restarts, panic,
                 stored, history>>

\* GetWorkflowObj finds the workflow or not; a delete does not look.
WorkflowRequest ==
  /\ request # None
  /\ LET r == request.run IN
     \/ /\ request.kind = "workflow_sync"
        /\ sender' = [sender EXCEPT !["RequestProcessor"] =
             [stage |-> "reading",
              event |-> IF Present(r) THEN WorkflowEventHandler(Change(r))
                        ELSE [run |-> r, phase |-> "NotAvailable",
                              finished |-> FALSE, verdict |-> "nil",
                              nodes |-> FALSE]]]
        /\ request' = None
        /\ UNCHANGED <<cluster, watch, stream, eventMap, restarts, panic,
                       stored, history>>
     \/ /\ request.kind = "workflow_delete"
        /\ Present(r)
        /\ workflow' = [workflow EXCEPT ![r] = "deleted"]
        /\ request' = None
        /\ UNCHANGED <<engine, watch, stream, eventMap, sender, restarts,
                       panic, stored, history>>
     \/ /\ request.kind = "workflow_delete"
        /\ ~ Present(r)
        /\ Crash("delete")

-----------------------------------------------------------------------------
SendWorkflowUpdates(s) == Merge(s) \/ Remember(s) \/ Post(s)

Step == \/ \E r \in Run : RunWorkflow(r) \/ RunEngine(r) \/ Vanish(r)
        \/ HandleChange
        \/ TakeEvent
        \/ \E s \in Sender : SendWorkflowUpdates(s)
        \/ \E r \in Run, kind \in {"workflow_sync", "workflow_delete"} :
             Receive(kind, r)
        \/ WorkflowRequest
        \/ Collide
        \/ Crash("kill")

Next == Step /\ UNCHANGED given

\* The goroutines of the subscriber go on; the cluster and the users need
\* not do anything.
Fairness == /\ WF_system(HandleChange)
            /\ WF_system(TakeEvent)
            /\ \A s \in Sender : WF_system(SendWorkflowUpdates(s))
            /\ WF_system(WorkflowRequest)

Spec     == Init /\ [][Next]_vars
FairSpec == Spec /\ Fairness

-----------------------------------------------------------------------------
(***************************************************************************)
(* Properties.                                                             *)
(***************************************************************************)
\* Within one life of the subscriber: once it has reported a failed experiment
\* of a run, the run is not recorded as completed with any other phase, although
\* the ChaosEngine the verdict was read from may be gone by then (eventMap).
\* Nothing is said of failures reported before a crash, which empties the map,
\* nor of a run users sync meanwhile.
FailureIsKept ==
  [][\A r \in seenFail \cap seenFail' :
       /\ "requests" \notin given
       /\ stored'[r] # stored[r]
       /\ stored'[r] # None /\ stored'[r].completed
       => stored'[r].phase = "Failed"]_vars

\* A run that has finished is recorded as completed in the end, unless its
\* last report got lost and the subscriber is not restarted after that, or
\* the workflow is deleted before a restart.
FinishedIsRecorded ==
  \A r \in Run :
    (workflow[r] = "finished") ~>
      \/ stored[r] # None /\ stored[r].completed
      \/ r \in lost
      \/ workflow[r] = "deleted"

\* The sync of a workflow that is not in the cluster is answered with a
\* report. Does not hold: with a remembered verdict the subscriber crashes,
\* since the report has no map of nodes to copy it into.
SyncIsAnswered == panic # "sync"
=============================================================================
