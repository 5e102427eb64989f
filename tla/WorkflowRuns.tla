---------------------------- MODULE WorkflowRuns ----------------------------
(***************************************************************************)
(* The record of the runs of a chaos workflow: one MongoDB document with   *)
(* an array of runs. Reports of the agent update the array in two steps    *)
(* (count, then push or set); users who delete or terminate a run read the *)
(* document, change the copy and write the whole array back.               *)
(***************************************************************************)
EXTENDS Naturals, Sequences, FiniteSets

CONSTANTS
  Run,         \* workflow runs (the UID of the Argo workflow)
  Handler,     \* chaosWorkflowRun requests the server handles
  User,        \* resolvers of users
  Overlap,     \* the behaviours to consider: may requests overlap in time?
  MaxEntries,  \* bound: entries of the array
  MaxStarted   \* bound: runs started in a behaviour with overlap

ASSUME OverlapType == Overlap \subseteq BOOLEAN
ASSUME BoundsType == {MaxEntries, MaxStarted} \subseteq Nat

VARIABLES
  overlap,     \* may requests overlap in this behaviour?
  \* the Kubernetes cluster of the agent
  started, finished, gone,  \* the runs Argo has started, finished, deleted
  \* requests to the agent under way
  toDelete,    \* workflow_delete
  toSync,      \* workflow_sync
  \* MongoDB
  runs,        \* workflow_runs
  isRemoved,   \* of the workflow
  \* the server
  handler,     \* the report a handler works on, and what it has counted
  user,        \* what a resolver is about to write
  \* what was promised
  accepted,    \* runs answered with "Workflow Run Accepted"
  terminated   \* runs a user has asked to terminate

cluster == <<started, finished, gone>>
agent   == <<toDelete, toSync>>
promise == <<accepted, terminated>>
vars    == <<overlap, cluster, agent, runs, isRemoved, handler, user, promise>>

-----------------------------------------------------------------------------
Phase  == {"Running", "Finished", "NotAvailable", "Terminated"}
Report == [id : Run, phase : Phase \ {"Terminated"}, completed : BOOLEAN]
Entry  == [id : Run, phase : Phase, completed : BOOLEAN, isRemoved : BOOLEAN]

Idle == [stage |-> "idle"]

Positions(r) == {i \in DOMAIN runs : runs[i].id = r}
Known(r)     == Positions(r) # {}

\* Requests that do not overlap find nobody else at work.
Alone == \/ overlap
         \/ /\ \A h \in Handler : handler[h] = Idle
            /\ \A u \in User : user[u] = Idle

Init ==
  /\ overlap \in Overlap
  /\ started = {} /\ finished = {} /\ gone = {}
  /\ toDelete = {} /\ toSync = {}
  /\ runs = <<>>
  /\ isRemoved = FALSE
  /\ handler = [h \in Handler |-> Idle]
  /\ user = [u \in User |-> Idle]
  /\ accepted = {} /\ terminated = {}

-----------------------------------------------------------------------------
(***************************************************************************)
(* The cluster: Argo runs the workflow, the subscriber carries requests    *)
(* out and reports.                                                        *)
(***************************************************************************)
Start(r) ==
  /\ r \notin started
  /\ overlap => Cardinality(started) < MaxStarted
  /\ started' = started \cup {r}
  /\ UNCHANGED <<finished, gone, agent, runs, isRemoved, handler, user, promise>>

Finish(r) ==
  /\ r \in started \ (finished \cup gone)
  /\ finished' = finished \cup {r}
  /\ UNCHANGED <<started, gone, agent, runs, isRemoved, handler, user, promise>>

DeleteInCluster(r) ==
  /\ r \in toDelete
  /\ toDelete' = toDelete \ {r}
  /\ gone' = gone \cup {r}
  /\ UNCHANGED <<started, finished, toSync, runs, isRemoved, handler, user,
                 promise>>

\* What the subscriber may report: a state the run has been in (a report may
\* be late), or that it is not there, in answer to a workflow_sync. Only a
\* run with FinishedAt is reported as completed.
Reports ==
  {[id |-> r, phase |-> "Running", completed |-> FALSE] : r \in started}
  \cup {[id |-> r, phase |-> "Finished", completed |-> TRUE] : r \in finished}
  \cup {[id |-> r, phase |-> "NotAvailable", completed |-> FALSE] :
          r \in toSync \cap gone}

-----------------------------------------------------------------------------
(***************************************************************************)
(* ChaosWorkflowRun on the server.                                         *)
(***************************************************************************)
\* CountDocuments: is the run in the array?
Count(h) ==
  /\ handler[h] = Idle
  /\ Alone
  /\ \E e \in Reports :
       /\ handler' = [handler EXCEPT
            ![h] = [stage |-> "counted", report |-> e, known |-> Known(e.id)]]
       /\ toSync' = IF e.phase = "NotAvailable" THEN toSync \ {e.id} ELSE toSync
  /\ UNCHANGED <<cluster, toDelete, runs, isRemoved, user, promise>>

EntryOf(e) == [id |-> e.id, phase |-> e.phase, completed |-> e.completed,
               isRemoved |-> FALSE]

Push(h) ==
  LET e == handler[h].report IN
  /\ handler[h] # Idle
  /\ ~ handler[h].known
  /\ Len(runs) < MaxEntries
  /\ runs' = Append(runs, EntryOf(e))
  /\ accepted' = accepted \cup {e.id}
  /\ handler' = [handler EXCEPT ![h] = Idle]
  /\ UNCHANGED <<cluster, agent, isRemoved, user, terminated>>

\* The entries $elemMatch may match, and the first of them, which the
\* positional operator stands for.
OpenPositions(r) == {i \in Positions(r) : ~ runs[i].completed}
First(S)         == CHOOSE i \in S : \A j \in S : i <= j

\* Mutant: a completed run is updated as well.
SetAny(h) ==
  LET e == handler[h].report IN
  /\ handler[h] # Idle
  /\ handler[h].known
  /\ Known(e.id)
  /\ runs' = [runs EXCEPT ![First(Positions(e.id))] = EntryOf(e)]
  /\ accepted' = accepted \cup {e.id}
  /\ handler' = [handler EXCEPT ![h] = Idle]
  /\ UNCHANGED <<cluster, agent, isRemoved, user, terminated>>

\* Mutant: any report on a known run completes it.
SetCompleted(h) ==
  LET e == handler[h].report IN
  /\ handler[h] # Idle
  /\ handler[h].known
  /\ OpenPositions(e.id) # {}
  /\ runs' = [runs EXCEPT ![First(OpenPositions(e.id))] =
                [EntryOf(e) EXCEPT !.completed = TRUE]]
  /\ accepted' = accepted \cup {e.id}
  /\ handler' = [handler EXCEPT ![h] = Idle]
  /\ UNCHANGED <<cluster, agent, isRemoved, user, terminated>>

SetFields(h) ==
  LET e == handler[h].report IN
  /\ handler[h] # Idle
  /\ handler[h].known
  /\ \/ /\ OpenPositions(e.id) # {}
        /\ runs' = [runs EXCEPT ![First(OpenPositions(e.id))] = EntryOf(e)]
        /\ accepted' = accepted \cup {e.id}
     \/ /\ OpenPositions(e.id) = {}     \* "Discarded[Duplicate Event]"
        /\ UNCHANGED <<runs, accepted>>
  /\ handler' = [handler EXCEPT ![h] = Idle]
  /\ UNCHANGED <<cluster, agent, isRemoved, user, terminated>>

-----------------------------------------------------------------------------
(***************************************************************************)
(* The users.                                                              *)
(***************************************************************************)
MarkRemoved(entry)    == [entry EXCEPT !.isRemoved = TRUE]
MarkTerminated(entry) == [entry EXCEPT !.completed = TRUE, !.phase = "Terminated"]

Marked(r, Mark(_)) ==
  [i \in DOMAIN runs |-> IF runs[i].id = r THEN Mark(runs[i]) ELSE runs[i]]

\* GetWorkflow, and the loop over the copy. Users name runs that the lists
\* have shown; one that was lost since is marked nowhere.
DeleteChaosWorkflowRun(u, r) ==
  /\ user[u] = Idle
  /\ Alone
  /\ r \in accepted
  /\ user' = [user EXCEPT ![u] = [stage |-> "read", id |-> r,
                                  copy |-> Marked(r, MarkRemoved)]]
  /\ UNCHANGED <<cluster, agent, runs, isRemoved, handler, promise>>

TerminateChaosWorkflow(u, r) ==
  /\ user[u] = Idle
  /\ Alone
  /\ r \in accepted
  /\ user' = [user EXCEPT ![u] = [stage |-> "read", id |-> r,
                                  copy |-> Marked(r, MarkTerminated)]]
  /\ terminated' = terminated \cup {r}
  /\ UNCHANGED <<cluster, agent, runs, isRemoved, handler, accepted>>

\* Mutant: only the new state of the run itself is kept of the copy.
WriteBackOne(u) ==
  /\ user[u] # Idle
  /\ runs' = SelectSeq(user[u].copy, LAMBDA e : e.id = user[u].id)
  /\ user' = [user EXCEPT ![u] = Idle]
  /\ UNCHANGED <<cluster, agent, isRemoved, handler, promise>>

\* The whole array is written, then the agent is asked to delete the run;
\* the request is dropped when no agent is connected.
ProcessWorkflowRunDelete(u) ==
  /\ user[u] # Idle
  /\ runs' = user[u].copy
  /\ toDelete' \in {toDelete, toDelete \cup {user[u].id}}
  /\ user' = [user EXCEPT ![u] = Idle]
  /\ UNCHANGED <<cluster, toSync, isRemoved, handler, promise>>

\* ProcessWorkflowDelete marks the workflow, the runs stay.
DeleteChaosWorkflow ==
  /\ ~ isRemoved
  /\ isRemoved' = TRUE
  /\ UNCHANGED <<cluster, agent, runs, handler, user, promise>>

SyncWorkflowRun(r) ==
  /\ ~ isRemoved
  /\ OpenPositions(r) # {}
  /\ toSync' = toSync \cup {r}
  /\ UNCHANGED <<cluster, toDelete, runs, isRemoved, handler, user, promise>>

-----------------------------------------------------------------------------
ChaosWorkflowRun(h) == Count(h) \/ Push(h) \/ SetFields(h)

Resolve(u) == \/ \E r \in Run : \/ DeleteChaosWorkflowRun(u, r)
                                \/ TerminateChaosWorkflow(u, r)
              \/ ProcessWorkflowRunDelete(u)

Step == \/ \E r \in Run : \/ Start(r)
                          \/ Finish(r)
                          \/ DeleteInCluster(r)
                          \/ SyncWorkflowRun(r)
        \/ \E h \in Handler : ChaosWorkflowRun(h)
        \/ \E u \in User : Resolve(u)
        \/ DeleteChaosWorkflow

Next == Step /\ UNCHANGED overlap

Spec == Init /\ [][Next]_vars

-----------------------------------------------------------------------------
(***************************************************************************)
(* Properties.                                                             *)
(***************************************************************************)
\* A run is recorded as completed only if it has finished in the cluster or
\* a user has asked to terminate it, whatever copies are written back.
CompletedForAReason ==
  \A i \in DOMAIN runs :
    runs[i].completed => runs[i].id \in finished \cup terminated

\* Reports leave completed entries alone (completed: false in the query of
\* UpdateWorkflowRun), also a report counted before the run was completed.
ReportsKeepCompleted ==
  [][\A h \in Handler : handler[h] # Idle /\ handler'[h] = Idle =>
       \A i \in DOMAIN runs : runs[i].completed => runs'[i] = runs[i]]_vars

\* The record as users see it.
StatusOf(r) == IF ~ Known(r) THEN "absent"
               ELSE IF Cardinality(Positions(r)) > 1 THEN "duplicated"
               ELSE IF OpenPositions(r) = {} THEN "completed" ELSE "open"

\* What the record promises is said of requests that do not overlap; with
\* others, the ledger stays blank.
Ledger == INSTANCE RunLedger
  WITH status <- [r \in Run |-> IF overlap THEN "absent" ELSE StatusOf(r)],
       shown  <- {r \in Run : /\ ~ overlap
                              /\ \E i \in Positions(r) : ~ runs[i].isRemoved}

\* When requests do not overlap, the record is the ledger users expect.
ImplementsLedger == Ledger!Spec

\* A run whose report was accepted is in the record (the comment on
\* ChaosWorkflowRun). Does not hold: an array read before the run was pushed
\* is written back over it.
AcceptedIsRecorded == \A r \in accepted : Known(r)
=============================================================================
