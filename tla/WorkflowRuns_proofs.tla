------------------------ MODULE WorkflowRuns_proofs ------------------------
(***************************************************************************)
(* What a completed run in the record means, and that reports keep it:     *)
(* proofs for any runs, handlers and users, whether or not their requests  *)
(* overlap.  When they do not, the steps on the record are steps of        *)
(* RunLedger.                                                              *)
(*                                                                         *)
(* A copy of the array that a user has read and changed is older than the  *)
(* record, and is written over it. The inductive invariant says of every   *)
(* copy, and of every report a handler has counted, what the property says *)
(* of the record.                                                          *)
(***************************************************************************)
EXTENDS WorkflowRuns, TLAPS, FiniteSetTheorems, WellFoundedInduction

Counted == [stage : {"counted"}, report : Report, known : BOOLEAN]
Reading == [stage : {"read"}, id : Run, copy : Seq(Entry)]

TypeOK ==
  /\ started \subseteq Run /\ finished \subseteq Run /\ toSync \subseteq Run
  /\ runs \in Seq(Entry)
  /\ handler \in [Handler -> {Idle} \cup Counted]
  /\ user \in [User -> {Idle} \cup Reading]

\* There is a reason for every completed entry of an array.
Reasoned(s, reasons) ==
  \A i \in DOMAIN s : s[i].completed => s[i].id \in reasons

CopiesReasoned ==
  \A u \in User :
    user[u] # Idle => Reasoned(user[u].copy, finished \cup terminated)

\* A report says that a run has completed only when it has.
ReportsTrue ==
  \A h \in Handler :
    handler[h] # Idle /\ handler[h].report.completed
      => handler[h].report.id \in finished

IInv == TypeOK /\ CompletedForAReason /\ CopiesReasoned /\ ReportsTrue
-----------------------------------------------------------------------------
(* Types.                                                                  *)

LEMMA CountedIsNotIdle ==
  /\ \A x \in {Idle} \cup Counted : x # Idle => x \in Counted
  /\ \A x \in {Idle} \cup Reading : x # Idle => x \in Reading
  /\ \A x \in Counted \cup Reading : x # Idle
<1>1. \A x \in Counted \cup Reading : x.stage # Idle.stage
  BY DEF Counted, Reading, Idle
<1> QED
  BY <1>1

LEMMA ReportsType == ASSUME TypeOK, NEW e \in Reports PROVE e \in Report
<1>1. ASSUME NEW r \in Run, NEW p \in {"Running", "Finished", "NotAvailable"},
             NEW b \in BOOLEAN
      PROVE  [id |-> r, phase |-> p, completed |-> b] \in Report
  BY DEF Report, Phase
<1>2. CASE \E r \in started :
             e = [id |-> r, phase |-> "Running", completed |-> FALSE]
  BY <1>1, <1>2 DEF TypeOK
<1>3. CASE \E r \in finished :
             e = [id |-> r, phase |-> "Finished", completed |-> TRUE]
  BY <1>1, <1>3 DEF TypeOK
<1>4. CASE \E r \in toSync \cap gone :
             e = [id |-> r, phase |-> "NotAvailable", completed |-> FALSE]
  BY <1>1, <1>4 DEF TypeOK
<1> QED
  BY <1>2, <1>3, <1>4 DEF Reports

LEMMA EntryType == \A e \in Report : EntryOf(e) \in Entry
BY DEF EntryOf, Report, Entry, Phase

\* The least of a set of positions is one of them.
LEMMA FirstIn ==
  ASSUME NEW S, S \subseteq Nat, S # {}
  PROVE  First(S) \in S
<1>1. PICK i \in S : \A j \in S : <<j, i>> \notin OpToRel(<, Nat)
  BY WFMin, NatLessThanWellFounded
<1>2. \A j \in S : i <= j
  <2> TAKE j \in S
  <2>1. <<j, i>> \in Nat \X Nat
    OBVIOUS
  <2>2. ~ (j < i)
    BY <1>1, <2>1 DEF OpToRel
  <2> QED
    BY <2>2
<1> QED
  BY <1>2 DEF First

\* The element that $elemMatch finds is in the array, and still open.
LEMMA FirstOpen ==
  ASSUME TypeOK, NEW r \in Run, OpenPositions(r) # {}
  PROVE  /\ First(OpenPositions(r)) \in 1 .. Len(runs)
         /\ First(OpenPositions(r)) \in DOMAIN runs
         /\ ~ runs[First(OpenPositions(r))].completed
<1>1. DOMAIN runs = 1 .. Len(runs) /\ Len(runs) \in Nat
  BY DEF TypeOK
<1>2. OpenPositions(r) \subseteq DOMAIN runs /\ OpenPositions(r) \subseteq Nat
  BY <1>1 DEF OpenPositions, Positions
<1>3. First(OpenPositions(r)) \in OpenPositions(r)
  BY <1>2, FirstIn
<1> QED
  BY <1>1, <1>2, <1>3 DEF OpenPositions

\* What a user's resolver makes of the array it has read.
LEMMA MarkedType ==
  ASSUME TypeOK, NEW r \in Run
  PROVE  /\ Marked(r, MarkRemoved) \in Seq(Entry)
         /\ Marked(r, MarkTerminated) \in Seq(Entry)
<1>1. runs \in [1 .. Len(runs) -> Entry] /\ Len(runs) \in Nat /\ DOMAIN runs = 1 .. Len(runs)
  BY DEF TypeOK
<1>2. \A e \in Entry : MarkRemoved(e) \in Entry /\ MarkTerminated(e) \in Entry
  BY DEF Entry, MarkRemoved, MarkTerminated, Phase
<1>3. Marked(r, MarkRemoved) \in [1 .. Len(runs) -> Entry]
  BY <1>1, <1>2 DEF Marked
<1>4. Marked(r, MarkTerminated) \in [1 .. Len(runs) -> Entry]
  BY <1>1, <1>2 DEF Marked
<1> QED
  BY <1>1, <1>3, <1>4

LEMMA StepTypes == TypeOK /\ [Next]_vars => TypeOK'
<1> SUFFICES ASSUME TypeOK, [Next]_vars PROVE TypeOK'
  OBVIOUS
<1>1. CASE UNCHANGED vars
  BY <1>1 DEF TypeOK, vars, cluster, agent
<1>2. CASE \E r \in Run : \/ Start(r) \/ Finish(r) \/ DeleteInCluster(r)
                          \/ SyncWorkflowRun(r)
  BY <1>2 DEF TypeOK, Start, Finish, DeleteInCluster, SyncWorkflowRun,
              cluster, agent
<1>3. CASE DeleteChaosWorkflow
  BY <1>3 DEF TypeOK, DeleteChaosWorkflow, cluster, agent
<1>4. ASSUME NEW h \in Handler, Count(h) PROVE TypeOK'
  <2>1. PICK e \in Reports :
          /\ handler' = [handler EXCEPT ![h] =
               [stage |-> "counted", report |-> e, known |-> Known(e.id)]]
          /\ toSync' \subseteq toSync
    BY <1>4 DEF Count
  <2>2. [stage |-> "counted", report |-> e, known |-> Known(e.id)] \in Counted
    BY ReportsType DEF Counted, Known
  <2>3. handler' \in [Handler -> {Idle} \cup Counted]
    BY <2>1, <2>2 DEF TypeOK
  <2> QED
    BY <1>4, <2>1, <2>3 DEF TypeOK, Count, cluster
<1>5. ASSUME NEW h \in Handler, Push(h) PROVE TypeOK'
  <2>1. handler[h].report \in Report
    BY <1>5, CountedIsNotIdle DEF Push, TypeOK, Counted
  <2>2. runs' \in Seq(Entry)
    <3>1. runs \in Seq(Entry) /\ EntryOf(handler[h].report) \in Entry
      BY <2>1, EntryType DEF TypeOK
    <3>2. runs' = Append(runs, EntryOf(handler[h].report))
      BY <1>5 DEF Push
    <3> QED
      BY <3>1, <3>2
  <2> QED
    BY <1>5, <2>2 DEF TypeOK, Push, cluster, agent
<1>6. ASSUME NEW h \in Handler, SetFields(h) PROVE TypeOK'
  <2>1. handler[h].report \in Report
    BY <1>6, CountedIsNotIdle DEF SetFields, TypeOK, Counted
  <2>2. runs' \in Seq(Entry)
    <3>1. CASE UNCHANGED runs
      BY <3>1 DEF TypeOK
    <3>2. CASE /\ OpenPositions(handler[h].report.id) # {}
               /\ runs' = [runs EXCEPT ![First(OpenPositions(handler[h].report.id))]
                             = EntryOf(handler[h].report)]
      <4>1. First(OpenPositions(handler[h].report.id)) \in 1 .. Len(runs)
        BY <3>2, <2>1, FirstOpen DEF Report
      <4>2. runs \in Seq(Entry) /\ EntryOf(handler[h].report) \in Entry
        BY <2>1, EntryType DEF TypeOK
      <4> QED
        BY <3>2, <4>1, <4>2
    <3> QED
      BY <1>6, <3>1, <3>2 DEF SetFields
  <2> QED
    BY <1>6, <2>2 DEF TypeOK, SetFields, cluster, agent
<1>7. ASSUME NEW u \in User, NEW r \in Run,
             DeleteChaosWorkflowRun(u, r) \/ TerminateChaosWorkflow(u, r)
      PROVE  TypeOK'
  <2>1. \A c \in Seq(Entry) : [stage |-> "read", id |-> r, copy |-> c] \in Reading
    BY DEF Reading
  <2>2. user' \in [User -> {Idle} \cup Reading]
    BY <1>7, <2>1, MarkedType
       DEF TypeOK, DeleteChaosWorkflowRun, TerminateChaosWorkflow
  <2> QED
    BY <1>7, <2>2 DEF TypeOK, DeleteChaosWorkflowRun, TerminateChaosWorkflow,
                      cluster, agent
<1>8. ASSUME NEW u \in User, ProcessWorkflowRunDelete(u) PROVE TypeOK'
  <2>1. user[u].copy \in Seq(Entry)
    BY <1>8, CountedIsNotIdle DEF ProcessWorkflowRunDelete, TypeOK, Reading
  <2> QED
    BY <1>8, <2>1 DEF TypeOK, ProcessWorkflowRunDelete, cluster
<1> QED
  BY <1>1, <1>2, <1>3, <1>4, <1>5, <1>6, <1>7, <1>8
     DEF Next, Step, ChaosWorkflowRun, Resolve

LEMMA InitInv == Init => IInv
BY DEF Init, IInv, TypeOK, CompletedForAReason, CopiesReasoned, ReportsTrue
-----------------------------------------------------------------------------
(* Completed for a reason.                                                 *)

\* Reasons do not go away.
LEMMA ReasonsGrow ==
  [Next]_vars => finished \subseteq finished' /\ terminated \subseteq terminated'
BY DEF Next, Step, ChaosWorkflowRun, Resolve, Start, Finish, DeleteInCluster,
       SyncWorkflowRun, DeleteChaosWorkflow, Count, Push, SetFields,
       DeleteChaosWorkflowRun, TerminateChaosWorkflow, ProcessWorkflowRunDelete,
       vars, cluster, agent, promise

LEMMA ReportKept ==
  ASSUME IInv, [Next]_vars, TypeOK',
         NEW h \in Handler, handler'[h] = handler[h]
  PROVE  handler'[h] # Idle /\ handler'[h].report.completed
           => handler'[h].report.id \in finished'
BY ReasonsGrow DEF IInv, ReportsTrue

LEMMA CopyKept ==
  ASSUME IInv, [Next]_vars, NEW u \in User, user'[u] = user[u] \/ user'[u] = Idle
  PROVE  user'[u] # Idle => Reasoned(user'[u].copy, finished' \cup terminated')
BY ReasonsGrow DEF IInv, CopiesReasoned, Reasoned

LEMMA RecordKept ==
  ASSUME IInv, [Next]_vars, runs' = runs
  PROVE  CompletedForAReason'
BY ReasonsGrow DEF IInv, CompletedForAReason

\* A step that does not touch the array, the handlers or the users.
LEMMA OutsideInv ==
  ASSUME IInv, [Next]_vars, UNCHANGED <<runs, handler, user>>
  PROVE  IInv'
<1>1. TypeOK'
  BY StepTypes DEF IInv
<1>2. CopiesReasoned'
  BY CopyKept DEF CopiesReasoned
<1>3. ReportsTrue'
  BY <1>1, ReportKept DEF ReportsTrue
<1> QED
  BY <1>1, <1>2, <1>3, RecordKept DEF IInv

LEMMA CountInv ==
  ASSUME IInv, [Next]_vars, NEW h \in Handler, Count(h)
  PROVE  IInv'
<1>1. TypeOK'
  BY StepTypes DEF IInv
<1>2. PICK e \in Reports :
        handler' = [handler EXCEPT ![h] =
                      [stage |-> "counted", report |-> e, known |-> Known(e.id)]]
  BY DEF Count
<1>3. e.completed => e.id \in finished
  BY <1>2 DEF Reports
<1>4. ReportsTrue'
  <2> SUFFICES ASSUME NEW k \in Handler, handler'[k] # Idle,
                      handler'[k].report.completed
               PROVE  handler'[k].report.id \in finished'
    BY DEF ReportsTrue
  <2>1. CASE k = h
    <3>1. handler'[h].report = e
      BY <1>2 DEF IInv, TypeOK
    <3> QED
      BY <2>1, <3>1, <1>3, ReasonsGrow
  <2>2. CASE k # h
    <3>1. handler'[k] = handler[k]
      BY <1>2, <2>2 DEF IInv, TypeOK
    <3> QED
      BY <3>1, <1>1, ReportKept
  <2> QED
    BY <2>1, <2>2
<1>5. CopiesReasoned'
  BY CopyKept DEF CopiesReasoned, Count
<1>6. CompletedForAReason'
  BY RecordKept DEF Count
<1> QED
  BY <1>1, <1>4, <1>5, <1>6 DEF IInv

\* The reports of the other handlers and the copies of the users are not
\* touched by a handler that stores its own.
LEMMA StoreKeepsRest ==
  ASSUME IInv, [Next]_vars, NEW h \in Handler,
         handler' = [handler EXCEPT ![h] = Idle], user' = user
  PROVE  ReportsTrue' /\ CopiesReasoned'
<1>1. TypeOK'
  BY StepTypes DEF IInv
<1>2. \A k \in Handler : handler'[k] = Idle \/ handler'[k] = handler[k]
  BY DEF IInv, TypeOK
<1>3. ReportsTrue'
  BY <1>1, <1>2, ReportKept DEF ReportsTrue
<1> QED
  BY <1>3, CopyKept DEF CopiesReasoned

\* What is stored is completed only if the report says so.
LEMMA StoredForAReason ==
  ASSUME IInv, NEW h \in Handler, handler[h] # Idle
  PROVE  /\ EntryOf(handler[h].report).completed
              => EntryOf(handler[h].report).id \in finished
         /\ EntryOf(handler[h].report) \in Entry
         /\ handler[h].report \in Report
<1>1. handler[h].report \in Report
  BY CountedIsNotIdle DEF IInv, TypeOK, Counted
<1> QED
  BY <1>1, EntryType DEF EntryOf, IInv, ReportsTrue

LEMMA PushInv ==
  ASSUME IInv, [Next]_vars, NEW h \in Handler, Push(h)
  PROVE  IInv'
<1>1. ReportsTrue' /\ CopiesReasoned'
  BY StoreKeepsRest DEF Push
<1>2. CompletedForAReason'
  <2> DEFINE e == EntryOf(handler[h].report)
  <2>1. e \in Entry /\ (e.completed => e.id \in finished)
    BY StoredForAReason DEF Push
  <2>2. runs \in Seq(Entry) /\ runs' = Append(runs, e)
    BY DEF IInv, TypeOK, Push
  <2> HIDE DEF e
  <2>3. \A i \in DOMAIN runs' : \/ i \in DOMAIN runs /\ runs'[i] = runs[i]
                              \/ runs'[i] = e
    BY <2>1, <2>2
  <2> QED
    BY <2>1, <2>3, ReasonsGrow DEF IInv, CompletedForAReason
<1> QED
  BY <1>1, <1>2, StepTypes DEF IInv

LEMMA SetFieldsInv ==
  ASSUME IInv, [Next]_vars, NEW h \in Handler, SetFields(h)
  PROVE  IInv'
<1>1. ReportsTrue' /\ CopiesReasoned'
  BY StoreKeepsRest DEF SetFields
<1>2. CASE UNCHANGED runs
  BY <1>1, <1>2, RecordKept, StepTypes DEF IInv
<1>3. CASE ~ UNCHANGED runs
  <2> DEFINE e == EntryOf(handler[h].report)
             n == First(OpenPositions(handler[h].report.id))
  <2>1. e.completed => e.id \in finished
    BY StoredForAReason DEF SetFields
  <2>2. runs' = [runs EXCEPT ![n] = e]
    BY <1>3 DEF SetFields
  <2>3. runs \in [1 .. Len(runs) -> Entry]
    BY DEF IInv, TypeOK
  <2> HIDE DEF e, n
  <2>4. \A i \in DOMAIN runs' : i \in DOMAIN runs /\ (runs'[i] = runs[i] \/ runs'[i] = e)
    BY <2>2, <2>3
  <2>5. CompletedForAReason'
    BY <2>1, <2>4, ReasonsGrow DEF IInv, CompletedForAReason
  <2> QED
    BY <1>1, <2>5, StepTypes DEF IInv
<1> QED
  BY <1>2, <1>3

\* Marking the runs of an id adds a reason where it completes an entry.
LEMMA MarkedReasoned ==
  ASSUME IInv, NEW r \in Run
  PROVE  /\ Reasoned(Marked(r, MarkRemoved), finished \cup terminated)
         /\ Reasoned(Marked(r, MarkTerminated), finished \cup terminated \cup {r})
<1>1. runs \in [1 .. Len(runs) -> Entry]
  BY DEF IInv, TypeOK
<1>2. \A e \in Entry : /\ MarkRemoved(e).completed = e.completed
                       /\ MarkRemoved(e).id = e.id
                       /\ MarkTerminated(e).id = e.id
  BY DEF Entry, MarkRemoved, MarkTerminated
<1>3. \A i \in DOMAIN runs :
        runs[i].completed => runs[i].id \in finished \cup terminated
  BY DEF IInv, CompletedForAReason
<1> QED
  BY <1>1, <1>2, <1>3 DEF Reasoned, Marked

LEMMA ReadInv ==
  ASSUME IInv, [Next]_vars, NEW u \in User, NEW r \in Run,
         DeleteChaosWorkflowRun(u, r) \/ TerminateChaosWorkflow(u, r)
  PROVE  IInv'
<1>1. TypeOK' /\ UNCHANGED <<runs, handler>>
  BY StepTypes DEF IInv, DeleteChaosWorkflowRun, TerminateChaosWorkflow
<1>2. PICK c : /\ user' = [user EXCEPT ![u] = [stage |-> "read", id |-> r, copy |-> c]]
               /\ Reasoned(c, finished' \cup terminated')
  <2>1. CASE DeleteChaosWorkflowRun(u, r)
    BY <2>1, MarkedReasoned, ReasonsGrow DEF DeleteChaosWorkflowRun, Reasoned
  <2>2. CASE TerminateChaosWorkflow(u, r)
    <3> DEFINE c == Marked(r, MarkTerminated)
    <3>1. /\ user' = [user EXCEPT ![u] = [stage |-> "read", id |-> r, copy |-> c]]
          /\ terminated' = terminated \cup {r}
      BY <2>2 DEF TerminateChaosWorkflow
    <3>2. Reasoned(c, finished \cup terminated \cup {r})
      BY MarkedReasoned
    <3> HIDE DEF c
    <3>3. Reasoned(c, finished' \cup terminated')
      BY <3>1, <3>2, ReasonsGrow DEF Reasoned
    <3> QED
      BY <3>1, <3>3
  <2> QED
    BY <2>1, <2>2
<1>3. CopiesReasoned'
  <2> SUFFICES ASSUME NEW v \in User, user'[v] # Idle
               PROVE  Reasoned(user'[v].copy, finished' \cup terminated')
    BY DEF CopiesReasoned, Reasoned
  <2>1. CASE v = u
    BY <1>2, <2>1 DEF IInv, TypeOK
  <2>2. CASE v # u
    <3>1. user'[v] = user[v]
      BY <1>2, <2>2 DEF IInv, TypeOK
    <3> QED
      BY <3>1, CopyKept
  <2> QED
    BY <2>1, <2>2
<1>4. ReportsTrue'
  BY <1>1, ReportKept DEF ReportsTrue
<1> QED
  BY <1>1, <1>3, <1>4, RecordKept DEF IInv

\* The copy that is written over the record has its reasons too.
LEMMA WriteBackInv ==
  ASSUME IInv, [Next]_vars, NEW u \in User, ProcessWorkflowRunDelete(u)
  PROVE  IInv'
<1>1. TypeOK' /\ UNCHANGED handler
  BY StepTypes DEF IInv, ProcessWorkflowRunDelete
<1>2. CompletedForAReason'
  BY ReasonsGrow
     DEF ProcessWorkflowRunDelete, IInv, CopiesReasoned, Reasoned, CompletedForAReason
<1>3. \A v \in User : user'[v] = user[v] \/ user'[v] = Idle
  BY DEF ProcessWorkflowRunDelete, IInv, TypeOK
<1>4. CopiesReasoned'
  BY <1>3, CopyKept DEF CopiesReasoned
<1>5. ReportsTrue'
  BY <1>1, ReportKept DEF ReportsTrue
<1> QED
  BY <1>1, <1>2, <1>4, <1>5 DEF IInv

LEMMA StepInv == IInv /\ [Next]_vars => IInv'
<1> SUFFICES ASSUME IInv, [Next]_vars PROVE IInv'
  OBVIOUS
<1>1. CASE UNCHANGED vars
  BY <1>1, OutsideInv DEF vars
<1>2. CASE \/ \E r \in Run : \/ Start(r) \/ Finish(r) \/ DeleteInCluster(r)
                             \/ SyncWorkflowRun(r)
           \/ DeleteChaosWorkflow
  BY <1>2, OutsideInv
     DEF Start, Finish, DeleteInCluster, SyncWorkflowRun, DeleteChaosWorkflow
<1>3. CASE \E h \in Handler : ChaosWorkflowRun(h)
  BY <1>3, CountInv, PushInv, SetFieldsInv DEF ChaosWorkflowRun
<1>4. CASE \E u \in User : Resolve(u)
  BY <1>4, ReadInv, WriteBackInv DEF Resolve
<1> QED
  BY <1>1, <1>2, <1>3, <1>4 DEF Next, Step

LEMMA InvHolds == Spec => []IInv
BY InitInv, StepInv, PTL DEF Spec

\* A run is recorded as completed only if it has finished in the cluster or a
\* user has asked to terminate it, whatever reports arrive late and whatever
\* old copies of the array are written over it.
THEOREM CompletedHasReason == Spec => []CompletedForAReason
<1>1. IInv => CompletedForAReason
  BY DEF IInv
<1> QED
  BY <1>1, InvHolds, PTL
-----------------------------------------------------------------------------
(* Reports keep what is completed.                                         *)

\* Only the two ends of chaosWorkflowRun make a handler idle.
LEMMA HandlerDone ==
  ASSUME TypeOK, [Next]_vars, NEW h \in Handler,
         handler[h] # Idle, handler'[h] = Idle
  PROVE  Push(h) \/ SetFields(h)
<1>1. CASE UNCHANGED vars
  BY <1>1 DEF vars
<1>2. ASSUME NEW k \in Handler, ChaosWorkflowRun(k)
      PROVE  Push(h) \/ SetFields(h)
  <2>1. CASE k = h
    BY <1>2, <2>1 DEF ChaosWorkflowRun, Count
  <2>2. CASE k # h
    BY <1>2, <2>2 DEF ChaosWorkflowRun, Count, Push, SetFields, TypeOK
  <2> QED
    BY <2>1, <2>2
<1>3. CASE \/ \E r \in Run : \/ Start(r) \/ Finish(r) \/ DeleteInCluster(r)
                             \/ SyncWorkflowRun(r)
           \/ DeleteChaosWorkflow
           \/ \E u \in User : Resolve(u)
  BY <1>3 DEF Start, Finish, DeleteInCluster, SyncWorkflowRun, DeleteChaosWorkflow,
              Resolve, DeleteChaosWorkflowRun, TerminateChaosWorkflow,
              ProcessWorkflowRunDelete
<1> QED
  BY <1>1, <1>2, <1>3 DEF Next, Step

LEMMA PushKeeps ==
  ASSUME TypeOK, NEW h \in Handler, Push(h)
  PROVE  \A i \in DOMAIN runs : runs'[i] = runs[i]
<1>1. handler[h].report \in Report
  BY CountedIsNotIdle DEF Push, TypeOK, Counted
<1>2. runs \in Seq(Entry) /\ EntryOf(handler[h].report) \in Entry
  BY <1>1, EntryType DEF TypeOK
<1>3. runs' = Append(runs, EntryOf(handler[h].report))
  BY DEF Push
<1> QED
  BY <1>2, <1>3

LEMMA SetFieldsKeeps ==
  ASSUME TypeOK, NEW h \in Handler, SetFields(h), NEW i \in DOMAIN runs,
         runs[i].completed
  PROVE  runs'[i] = runs[i]
<1>1. handler[h].report.id \in Run
  BY CountedIsNotIdle DEF SetFields, TypeOK, Counted, Report
<1>2. CASE UNCHANGED runs
  BY <1>2
<1>3. CASE ~ UNCHANGED runs
  <2> DEFINE n == First(OpenPositions(handler[h].report.id))
  <2>1. /\ OpenPositions(handler[h].report.id) # {}
        /\ runs' = [runs EXCEPT ![n] = EntryOf(handler[h].report)]
    BY <1>3 DEF SetFields
  <2>2. ~ runs[n].completed
    BY <1>1, <2>1, FirstOpen
  <2> QED
    BY <2>1, <2>2 DEF TypeOK
<1> QED
  BY <1>2, <1>3

\* Storing a report leaves every completed entry of the array as it was, also
\* when the run was completed after the handler had counted it.
THEOREM ReportsKeep == Spec => ReportsKeepCompleted
<1>1. TypeOK /\ [Next]_vars =>
        [\A h \in Handler : handler[h] # Idle /\ handler'[h] = Idle =>
           \A i \in DOMAIN runs : runs[i].completed => runs'[i] = runs[i]]_vars
  BY HandlerDone, PushKeeps, SetFieldsKeeps
<1>2. Init => TypeOK
  BY InitInv DEF IInv
<1> QED
  BY <1>1, <1>2, StepTypes, PTL DEF Spec, ReportsKeepCompleted
-----------------------------------------------------------------------------
(* The ledger: requests that do not overlap.                               *)

\* One request is at work at a time.
OneAtATime ==
  /\ \A h, k \in Handler : handler[h] # Idle /\ handler[k] # Idle => h = k
  /\ \A u, v \in User : user[u] # Idle /\ user[v] # Idle => u = v
  /\ \A h \in Handler, u \in User : handler[h] = Idle \/ user[u] = Idle

\* A run is in the array once.
Once == \A i, j \in DOMAIN runs : runs[i].id = runs[j].id => i = j

\* What was counted is still so.
CountHolds ==
  \A h \in Handler :
    handler[h] # Idle => (handler[h].known <=> Known(handler[h].report.id))

\* What was read and changed is the record with that change.
CopyHolds ==
  \A u \in User :
    user[u] # Idle => user[u].copy \in {Marked(user[u].id, MarkRemoved),
                                        Marked(user[u].id, MarkTerminated)}

InTurn == ~ overlap => OneAtATime /\ Once /\ CountHolds /\ CopyHolds

\* Who is at work when something starts, and when it ends.
LEMMA IdleAfter ==
  ASSUME TypeOK
  PROVE  /\ \A h \in Handler, k \in Handler :
              handler' = [handler EXCEPT ![h] = Idle]
                => handler'[k] = IF k = h THEN Idle ELSE handler[k]
         /\ \A u \in User, v \in User :
              user' = [user EXCEPT ![u] = Idle]
                => user'[v] = IF v = u THEN Idle ELSE user[v]
BY DEF TypeOK

\* A request that ends leaves everybody idle.
LEMMA AllIdle ==
  ASSUME TypeOK, OneAtATime,
         \/ \E h \in Handler : /\ handler[h] # Idle /\ user' = user
                               /\ handler' = [handler EXCEPT ![h] = Idle]
         \/ \E u \in User : /\ user[u] # Idle /\ handler' = handler
                            /\ user' = [user EXCEPT ![u] = Idle]
  PROVE  (\A h \in Handler : handler'[h] = Idle) /\ (\A u \in User : user'[u] = Idle)
<1>1. ASSUME NEW h \in Handler, handler[h] # Idle, user' = user,
             handler' = [handler EXCEPT ![h] = Idle]
      PROVE  (\A k \in Handler : handler'[k] = Idle) /\ (\A u \in User : user'[u] = Idle)
  <2>1. \A k \in Handler : handler'[k] = IF k = h THEN Idle ELSE handler[k]
    BY <1>1, IdleAfter
  <2>2. \A k \in Handler : k # h => handler[k] = Idle
    BY <1>1 DEF OneAtATime
  <2>3. \A u \in User : user[u] = Idle
    BY <1>1 DEF OneAtATime
  <2> QED
    BY <1>1, <2>1, <2>2, <2>3
<1>2. ASSUME NEW u \in User, user[u] # Idle, handler' = handler,
             user' = [user EXCEPT ![u] = Idle]
      PROVE  (\A h \in Handler : handler'[h] = Idle) /\ (\A v \in User : user'[v] = Idle)
  <2>1. \A v \in User : user'[v] = IF v = u THEN Idle ELSE user[v]
    BY <1>2, IdleAfter
  <2>2. \A v \in User : v # u => user[v] = Idle
    BY <1>2 DEF OneAtATime
  <2>3. \A h \in Handler : handler[h] = Idle
    BY <1>2 DEF OneAtATime
  <2> QED
    BY <1>2, <2>1, <2>2, <2>3
<1> QED
  BY <1>1, <1>2

LEMMA NobodyAtWork ==
  ASSUME \A h \in Handler : handler'[h] = Idle, \A u \in User : user'[u] = Idle
  PROVE  OneAtATime' /\ CountHolds' /\ CopyHolds'
BY DEF OneAtATime, CountHolds, CopyHolds

\* A marked array has the runs of the array, in their places.
LEMMA MarkedShape ==
  ASSUME TypeOK, NEW r \in Run
  PROVE  /\ DOMAIN Marked(r, MarkRemoved) = DOMAIN runs
         /\ DOMAIN Marked(r, MarkTerminated) = DOMAIN runs
         /\ \A i \in DOMAIN runs :
              /\ Marked(r, MarkRemoved)[i].id = runs[i].id
              /\ Marked(r, MarkTerminated)[i].id = runs[i].id
              /\ Marked(r, MarkRemoved)[i].completed = runs[i].completed
              /\ Marked(r, MarkTerminated)[i].isRemoved = runs[i].isRemoved
              /\ Marked(r, MarkTerminated)[i].completed
                   <=> (runs[i].completed \/ runs[i].id = r)
              /\ Marked(r, MarkRemoved)[i].isRemoved
                   <=> (runs[i].isRemoved \/ runs[i].id = r)
<1>1. runs \in [1 .. Len(runs) -> Entry]
  BY DEF TypeOK
<1>2. \A e \in Entry :
        /\ MarkRemoved(e).completed = e.completed
        /\ MarkRemoved(e).id = e.id /\ MarkRemoved(e).isRemoved = TRUE
        /\ MarkTerminated(e).id = e.id /\ MarkTerminated(e).completed = TRUE
        /\ MarkTerminated(e).isRemoved = e.isRemoved
  BY DEF Entry, MarkRemoved, MarkTerminated
<1>3. DOMAIN Marked(r, MarkRemoved) = DOMAIN runs /\ DOMAIN Marked(r, MarkTerminated) = DOMAIN runs
  BY DEF Marked
<1>4. ASSUME NEW i \in DOMAIN runs
      PROVE  /\ Marked(r, MarkRemoved)[i] =
                  IF runs[i].id = r THEN MarkRemoved(runs[i]) ELSE runs[i]
             /\ Marked(r, MarkTerminated)[i] =
                  IF runs[i].id = r THEN MarkTerminated(runs[i]) ELSE runs[i]
             /\ runs[i] \in Entry
  BY <1>1 DEF Marked
<1>5. \A e \in Entry : e.completed \in BOOLEAN /\ e.isRemoved \in BOOLEAN
  BY DEF Entry
<1>6. ASSUME NEW i \in DOMAIN runs
      PROVE  /\ Marked(r, MarkRemoved)[i].id = runs[i].id
             /\ Marked(r, MarkTerminated)[i].id = runs[i].id
             /\ Marked(r, MarkRemoved)[i].completed = runs[i].completed
             /\ Marked(r, MarkTerminated)[i].isRemoved = runs[i].isRemoved
  BY <1>2, <1>4
<1>7. ASSUME NEW i \in DOMAIN runs
      PROVE  /\ Marked(r, MarkTerminated)[i].completed
                  <=> (runs[i].completed \/ runs[i].id = r)
             /\ Marked(r, MarkRemoved)[i].isRemoved
                  <=> (runs[i].isRemoved \/ runs[i].id = r)
  <2>1. CASE runs[i].id = r
    <3>1. Marked(r, MarkTerminated)[i].completed = TRUE
      <4>1. Marked(r, MarkTerminated)[i] = MarkTerminated(runs[i]) /\ runs[i] \in Entry
        BY <1>4, <2>1
      <4> QED
        BY <4>1 DEF Entry, MarkTerminated
    <3>2. Marked(r, MarkRemoved)[i].isRemoved = TRUE
      <4>1. Marked(r, MarkRemoved)[i] = MarkRemoved(runs[i]) /\ runs[i] \in Entry
        BY <1>4, <2>1
      <4> QED
        BY <4>1 DEF Entry, MarkRemoved
    <3> QED
      BY <2>1, <3>1, <3>2
  <2>2. CASE runs[i].id # r
    BY <1>4, <2>2
  <2> QED
    BY <2>1, <2>2
<1> QED
  BY <1>3, <1>6, <1>7

\* What is appended, and what is replaced.
LEMMA PushShape ==
  ASSUME TypeOK, NEW h \in Handler, Push(h)
  PROVE  LET n == Len(runs) + 1
             e == handler[h].report
         IN  /\ DOMAIN runs' = DOMAIN runs \cup {n} /\ n \notin DOMAIN runs
             /\ \A i \in DOMAIN runs : runs'[i] = runs[i]
             /\ runs'[n] = EntryOf(e) /\ e \in Report
<1>1. handler[h].report \in Report
  BY CountedIsNotIdle DEF Push, TypeOK, Counted
<1>2. runs \in Seq(Entry) /\ EntryOf(handler[h].report) \in Entry
  BY <1>1, EntryType DEF TypeOK
<1>3. runs' = Append(runs, EntryOf(handler[h].report))
  BY DEF Push
<1> QED
  BY <1>1, <1>2, <1>3

LEMMA SetShape ==
  ASSUME TypeOK, NEW h \in Handler, SetFields(h), runs' # runs
  PROVE  LET e == handler[h].report
             n == First(OpenPositions(e.id))
         IN  /\ e \in Report /\ n \in DOMAIN runs
             /\ runs[n].id = e.id /\ ~ runs[n].completed
             /\ DOMAIN runs' = DOMAIN runs
             /\ \A i \in DOMAIN runs : i # n => runs'[i] = runs[i]
             /\ runs'[n] = EntryOf(e)
<1> DEFINE e == handler[h].report
           n == First(OpenPositions(e.id))
<1>1. e \in Report /\ e.id \in Run
  BY CountedIsNotIdle DEF SetFields, TypeOK, Counted, Report
<1>2. OpenPositions(e.id) # {} /\ runs' = [runs EXCEPT ![n] = EntryOf(e)]
  BY DEF SetFields
<1>3. OpenPositions(e.id) \subseteq DOMAIN runs /\ DOMAIN runs \subseteq Nat
  BY DEF OpenPositions, Positions, TypeOK
<1>4. n \in OpenPositions(e.id)
  BY <1>2, <1>3, FirstIn
<1>5. n \in DOMAIN runs /\ runs[n].id = e.id /\ ~ runs[n].completed
  BY <1>4 DEF OpenPositions, Positions
<1>6. runs \in [DOMAIN runs -> Entry]
  BY DEF TypeOK
<1> HIDE DEF n, e
<1>7. /\ DOMAIN runs' = DOMAIN runs
      /\ \A i \in DOMAIN runs : i # n => runs'[i] = runs[i]
      /\ runs'[n] = EntryOf(e)
  BY <1>2, <1>5, <1>6
<1> QED
  BY <1>1, <1>5, <1>7 DEF n, e

LEMMA KnownIs == \A r : Known(r) <=> \E i \in DOMAIN runs : runs[i].id = r
BY DEF Known, Positions

LEMMA EntryFields ==
  \A e : /\ EntryOf(e).id = e.id /\ EntryOf(e).completed = e.completed
         /\ EntryOf(e).isRemoved = FALSE
BY DEF EntryOf

LEMMA InTurnStays ==
  ASSUME TypeOK, InTurn, [Next]_vars
  PROVE  InTurn'
<1>1. overlap' = overlap
  BY DEF Next, vars
<1>2. SUFFICES ASSUME ~ overlap
               PROVE  OneAtATime' /\ Once' /\ CountHolds' /\ CopyHolds'
  BY <1>1 DEF InTurn
<1>3. OneAtATime /\ Once /\ CountHolds /\ CopyHolds
  BY <1>2 DEF InTurn
<1>4. ASSUME UNCHANGED <<runs, handler, user>>
      PROVE  OneAtATime' /\ Once' /\ CountHolds' /\ CopyHolds'
  BY <1>3, <1>4
     DEF OneAtATime, Once, CountHolds, CopyHolds, Known, Positions, Marked
<1>5. CASE UNCHANGED vars
  BY <1>4, <1>5 DEF vars
<1>6. CASE \/ \E r \in Run : \/ Start(r) \/ Finish(r) \/ DeleteInCluster(r)
                             \/ SyncWorkflowRun(r)
           \/ DeleteChaosWorkflow
  BY <1>4, <1>6
     DEF Start, Finish, DeleteInCluster, SyncWorkflowRun, DeleteChaosWorkflow
<1>7. ASSUME NEW h \in Handler, Count(h)
      PROVE  OneAtATime' /\ Once' /\ CountHolds' /\ CopyHolds'
  <2>1. (\A k \in Handler : handler[k] = Idle) /\ (\A u \in User : user'[u] = Idle)
    BY <1>2, <1>7 DEF Count, Alone
  <2>2. PICK e \in Reports :
          handler' = [handler EXCEPT ![h] =
                        [stage |-> "counted", report |-> e, known |-> Known(e.id)]]
    BY <1>7 DEF Count
  <2>3. /\ \A k \in Handler : k # h => handler'[k] = Idle
        /\ handler'[h].report = e /\ handler'[h].known = Known(e.id)
    BY <2>1, <2>2 DEF TypeOK
  <2>4. runs' = runs
    BY <1>7 DEF Count
  <2>5. OneAtATime' /\ CopyHolds'
    BY <2>1, <2>3 DEF OneAtATime, CopyHolds
  <2>6. CountHolds'
    BY <2>3, <2>4 DEF CountHolds, Known, Positions
  <2>7. Once'
    BY <1>3, <2>4 DEF Once
  <2> QED
    BY <2>5, <2>6, <2>7
<1>8. ASSUME NEW h \in Handler, Push(h)
      PROVE  OneAtATime' /\ Once' /\ CountHolds' /\ CopyHolds'
  <2>1. OneAtATime' /\ CountHolds' /\ CopyHolds'
    BY <1>3, <1>8, AllIdle, NobodyAtWork DEF Push
  <2>2. ~ Known(handler[h].report.id)
    BY <1>3, <1>8 DEF Push, CountHolds
  <2>3. \A i \in DOMAIN runs : runs[i].id # handler[h].report.id
    BY <2>2, KnownIs
  <2>4. Once'
    BY <1>3, <1>8, <2>3, PushShape, EntryFields DEF Once
  <2> QED
    BY <2>1, <2>4
<1>9. ASSUME NEW h \in Handler, SetFields(h)
      PROVE  OneAtATime' /\ Once' /\ CountHolds' /\ CopyHolds'
  <2>1. OneAtATime' /\ CountHolds' /\ CopyHolds'
    BY <1>3, <1>9, AllIdle, NobodyAtWork DEF SetFields
  <2>2. \A i \in DOMAIN runs' : i \in DOMAIN runs /\ runs'[i].id = runs[i].id
    BY <1>9, SetShape, EntryFields
  <2>3. Once'
    BY <1>3, <2>2 DEF Once
  <2> QED
    BY <2>1, <2>3
<1>10. ASSUME NEW u \in User, NEW r \in Run,
              DeleteChaosWorkflowRun(u, r) \/ TerminateChaosWorkflow(u, r)
       PROVE  OneAtATime' /\ Once' /\ CountHolds' /\ CopyHolds'
  <2>1. /\ \A k \in Handler : handler'[k] = Idle
        /\ \A v \in User : user[v] = Idle
        /\ runs' = runs
    BY <1>2, <1>10 DEF DeleteChaosWorkflowRun, TerminateChaosWorkflow, Alone
  <2>2. PICK c \in {Marked(r, MarkRemoved), Marked(r, MarkTerminated)} :
          user' = [user EXCEPT ![u] = [stage |-> "read", id |-> r, copy |-> c]]
    BY <1>10 DEF DeleteChaosWorkflowRun, TerminateChaosWorkflow
  <2>3. /\ \A v \in User : v # u => user'[v] = Idle
        /\ user'[u].id = r /\ user'[u].copy = c
    BY <2>1, <2>2 DEF TypeOK
  <2> QED
    BY <1>3, <2>1, <2>2, <2>3
       DEF OneAtATime, Once, CountHolds, CopyHolds, Known, Positions, Marked
<1>11. ASSUME NEW u \in User, ProcessWorkflowRunDelete(u)
       PROVE  OneAtATime' /\ Once' /\ CountHolds' /\ CopyHolds'
  <2>1. OneAtATime' /\ CountHolds' /\ CopyHolds'
    BY <1>3, <1>11, AllIdle, NobodyAtWork DEF ProcessWorkflowRunDelete
  <2>2. user[u].id \in Run /\ runs' \in {Marked(user[u].id, MarkRemoved),
                                         Marked(user[u].id, MarkTerminated)}
    BY <1>3, <1>11, CountedIsNotIdle DEF ProcessWorkflowRunDelete, CopyHolds, TypeOK, Reading
  <2>3. DOMAIN runs' = DOMAIN runs /\ \A i \in DOMAIN runs : runs'[i].id = runs[i].id
    BY <2>2, MarkedShape
  <2>4. Once'
    BY <1>3, <2>3 DEF Once
  <2> QED
    BY <2>1, <2>4
<1> QED
  BY <1>5, <1>6, <1>7, <1>8, <1>9, <1>10, <1>11 DEF Next, Step, ChaosWorkflowRun, Resolve

-----------------------------------------------------------------------------
(* The refinement.                                                         *)

Status == [r \in Run |-> IF overlap THEN "absent" ELSE StatusOf(r)]
Shown  == {r \in Run : ~ overlap /\ \E i \in Positions(r) : ~ runs[i].isRemoved}

\* What the record says of a run that is in it once, or not at all.
LEMMA StatusAbsent == \A r : ~ Known(r) => StatusOf(r) = "absent"
BY DEF StatusOf

LEMMA StatusPresent ==
  Once => \A i \in DOMAIN runs :
            StatusOf(runs[i].id) = IF runs[i].completed THEN "completed" ELSE "open"
<1> SUFFICES ASSUME Once, NEW i \in DOMAIN runs
             PROVE  StatusOf(runs[i].id) = IF runs[i].completed THEN "completed" ELSE "open"
  OBVIOUS
<1>1. Positions(runs[i].id) = {i}
  BY DEF Positions, Once
<1>2. Known(runs[i].id)
  BY <1>1 DEF Known
<1>3. ~ (Cardinality(Positions(runs[i].id)) > 1)
  <2>1. Cardinality(Positions(runs[i].id)) = 1
    BY <1>1, FS_Singleton
  <2> QED
    BY <2>1
<1>4. OpenPositions(runs[i].id) = {} <=> runs[i].completed
  BY <1>1 DEF OpenPositions
<1> QED
  BY <1>2, <1>3, <1>4 DEF StatusOf

\* The same of the record after a step.
LEMMA StatusAbsentNext == (\A r : ~ Known(r) => StatusOf(r) = "absent")'
BY StatusAbsent, PTL

LEMMA StatusPresentNext ==
  (Once => \A i \in DOMAIN runs :
             StatusOf(runs[i].id) = IF runs[i].completed THEN "completed" ELSE "open")'
BY StatusPresent, PTL

\* A run whose entry stays where it is, as completed as it was, has the status
\* it had.
LEMMA StatusKept ==
  ASSUME Once, Once', NEW r \in Run,
         \A i \in DOMAIN runs :
            runs[i].id = r => /\ i \in DOMAIN runs' /\ runs'[i].id = r
                              /\ runs'[i].completed = runs[i].completed,
         \A i \in DOMAIN runs' : runs'[i].id = r => \E j \in DOMAIN runs : runs[j].id = r
  PROVE  StatusOf(r)' = StatusOf(r)
<1>1. CASE Known(r)
  <2>1. PICK i \in DOMAIN runs : runs[i].id = r
    BY <1>1, KnownIs
  <2> QED
    BY <2>1, StatusPresent, StatusPresentNext
<1>2. CASE ~ Known(r)
  <2>1. \A i \in DOMAIN runs' : runs'[i].id # r
    BY <1>2, KnownIs
  <2>2. ~ Known(r)'
    BY <2>1 DEF Known, Positions
  <2> QED
    BY <1>2, <2>2, StatusAbsent, StatusAbsentNext
<1> QED
  BY <1>1, <1>2

\* A report stored is a report of the ledger.
LEMMA PushMaps ==
  ASSUME TypeOK, ~ overlap, overlap' = overlap, CountHolds, Once, Once',
         NEW h \in Handler, Push(h)
  PROVE  \E r \in Run : Ledger!Report(r)
<1> DEFINE n == Len(runs) + 1
<1>1. PICK e \in Report : e = handler[h].report
  BY PushShape
<1>2. /\ DOMAIN runs' = DOMAIN runs \cup {n} /\ n \notin DOMAIN runs
      /\ \A i \in DOMAIN runs : runs'[i] = runs[i]
      /\ runs'[n] = EntryOf(e)
  BY <1>1, PushShape
<1> HIDE DEF n
<1>3. e.id \in Run /\ ~ Known(e.id) /\ \A i \in DOMAIN runs : runs[i].id # e.id
  BY <1>1, KnownIs DEF Report, Push, CountHolds
<1>4. /\ runs'[n].id = e.id /\ runs'[n].completed = e.completed
      /\ ~ runs'[n].isRemoved /\ n \in DOMAIN runs'
  BY <1>2, EntryFields
<1>5. StatusOf(e.id) = "absent"
  BY <1>3, StatusAbsent
<1>6. StatusOf(e.id)' = IF e.completed THEN "completed" ELSE "open"
  BY <1>4, StatusPresentNext
<1>7. ASSUME NEW r \in Run, r # e.id PROVE StatusOf(r)' = StatusOf(r)
  BY <1>2, <1>4, <1>7, StatusKept
<1>8. PICK s \in {"open", "completed"} : Status' = [Status EXCEPT ![e.id] = s]
  BY <1>3, <1>6, <1>7 DEF Status
<1>9. Status[e.id] # "completed"
  BY <1>3, <1>5 DEF Status
<1>10. Shown' = Shown \cup {e.id}
  <2>1. ASSUME NEW r \in Run
        PROVE  (\E i \in DOMAIN runs' : runs'[i].id = r /\ ~ runs'[i].isRemoved)
                 <=> \/ \E i \in DOMAIN runs : runs[i].id = r /\ ~ runs[i].isRemoved
                     \/ r = e.id
    BY <1>2, <1>4
  <2> QED
    BY <1>3, <2>1 DEF Shown, Positions
<1> QED
  BY <1>3, <1>8, <1>9, <1>10 DEF Ledger!Report, Status, Shown

LEMMA SetMaps ==
  ASSUME TypeOK, ~ overlap, overlap' = overlap, Once, Once',
         NEW h \in Handler, SetFields(h), runs' # runs
  PROVE  \E r \in Run : Ledger!Report(r)
<1>1. PICK e \in Report : e = handler[h].report
  BY SetShape
<1>2. PICK n \in DOMAIN runs :
        /\ runs[n].id = e.id /\ ~ runs[n].completed
        /\ DOMAIN runs' = DOMAIN runs
        /\ \A i \in DOMAIN runs : i # n => runs'[i] = runs[i]
        /\ runs'[n] = EntryOf(e)
  BY <1>1, SetShape
<1>3. e.id \in Run /\ \A i \in DOMAIN runs : runs[i].id = e.id => i = n
  BY <1>2 DEF Report, Once
<1>4. /\ runs'[n].id = e.id /\ runs'[n].completed = e.completed
      /\ ~ runs'[n].isRemoved /\ n \in DOMAIN runs'
  BY <1>2, EntryFields
<1>5. StatusOf(e.id) = "open"
  BY <1>2, StatusPresent
<1>6. StatusOf(e.id)' = IF e.completed THEN "completed" ELSE "open"
  BY <1>4, StatusPresentNext
<1>7. ASSUME NEW r \in Run, r # e.id PROVE StatusOf(r)' = StatusOf(r)
  BY <1>2, <1>4, <1>7, StatusKept
<1>8. PICK s \in {"open", "completed"} : Status' = [Status EXCEPT ![e.id] = s]
  BY <1>3, <1>6, <1>7 DEF Status
<1>9. Status[e.id] # "completed"
  BY <1>3, <1>5 DEF Status
<1>10. Shown' = Shown \cup {e.id}
  <2>1. ASSUME NEW r \in Run
        PROVE  (\E i \in DOMAIN runs' : runs'[i].id = r /\ ~ runs'[i].isRemoved)
                 <=> \/ \E i \in DOMAIN runs : runs[i].id = r /\ ~ runs[i].isRemoved
                     \/ r = e.id
    BY <1>2, <1>4
  <2> QED
    BY <1>3, <2>1 DEF Shown, Positions
<1> QED
  BY <1>3, <1>8, <1>9, <1>10 DEF Ledger!Report, Status, Shown

\* What a user has made of the record is written back over the same record.
LEMMA WriteBackMaps ==
  ASSUME TypeOK, ~ overlap, overlap' = overlap, Once, Once', CopyHolds,
         NEW u \in User, ProcessWorkflowRunDelete(u)
  PROVE  \/ \E r \in Run : Ledger!Remove(r) \/ Ledger!Terminate(r)
         \/ UNCHANGED <<Status, Shown>>
<1>1. PICK r \in Run : r = user[u].id
  BY CountedIsNotIdle DEF ProcessWorkflowRunDelete, TypeOK, Reading
<1>7. CASE \A i \in DOMAIN runs : runs[i].id # r
  <2>1. runs' \in {Marked(r, MarkRemoved), Marked(r, MarkTerminated)}
    BY <1>1 DEF ProcessWorkflowRunDelete, CopyHolds
  <2>2. /\ DOMAIN runs' = DOMAIN runs
        /\ \A i \in DOMAIN runs : runs'[i] = runs[i]
    BY <1>7, <2>1 DEF Marked
  <2>3. \A x \in Run : StatusOf(x)' = StatusOf(x)
    BY <2>2, StatusKept
  <2>4. Shown' = Shown
    BY <2>2 DEF Shown, Positions
  <2> QED
    BY <2>3, <2>4 DEF Status
<1>2. SUFFICES ASSUME NEW n \in DOMAIN runs, runs[n].id = r
               PROVE  \E x \in Run : Ledger!Remove(x) \/ Ledger!Terminate(x)
  BY <1>7
<1>3. \A i \in DOMAIN runs : runs[i].id = r => i = n
  BY <1>2 DEF Once
<1>4. Status[r] # "absent"
  BY <1>2, StatusPresent DEF Status
<1>5. CASE runs' = Marked(r, MarkRemoved)
  <2>1. /\ DOMAIN runs' = DOMAIN runs
        /\ \A i \in DOMAIN runs : /\ runs'[i].id = runs[i].id
                                  /\ runs'[i].completed = runs[i].completed
    BY <1>5, MarkedShape
  <2>2. \A i \in DOMAIN runs :
          runs'[i].isRemoved <=> (runs[i].isRemoved \/ runs[i].id = r)
    BY <1>5, MarkedShape
  <2>3. \A x \in Run : StatusOf(x)' = StatusOf(x)
    BY <2>1, StatusKept
  <2>4. Shown' = Shown \ {r}
    <3>1. ASSUME NEW x \in Run
          PROVE  (\E i \in DOMAIN runs' : runs'[i].id = x /\ ~ runs'[i].isRemoved)
                   <=> /\ \E i \in DOMAIN runs : runs[i].id = x /\ ~ runs[i].isRemoved
                       /\ x # r
      BY <2>1, <2>2
    <3> QED
      BY <3>1 DEF Shown, Positions
  <2> QED
    BY <1>4, <2>3, <2>4 DEF Ledger!Remove, Status, Shown
<1>6. CASE runs' = Marked(r, MarkTerminated)
  <2>1. /\ DOMAIN runs' = DOMAIN runs
        /\ \A i \in DOMAIN runs : /\ runs'[i].id = runs[i].id
                                  /\ runs'[i].isRemoved = runs[i].isRemoved
    BY <1>6, MarkedShape
  <2>2. \A i \in DOMAIN runs :
          runs'[i].completed <=> (runs[i].completed \/ runs[i].id = r)
    BY <1>6, MarkedShape
  <2>3. StatusOf(r)' = "completed"
    BY <1>2, <2>1, <2>2, StatusPresentNext
  <2>4. ASSUME NEW x \in Run, x # r PROVE StatusOf(x)' = StatusOf(x)
    <3>1. ASSUME NEW i \in DOMAIN runs, runs[i].id = x
          PROVE  runs'[i].completed = runs[i].completed
      <4>1. runs'[i] = runs[i]
        BY <1>6, <2>4, <3>1 DEF Marked
      <4> QED
        BY <4>1
    <3> QED
      BY <2>1, <3>1, StatusKept
  <2>5. Status' = [Status EXCEPT ![r] = "completed"]
    BY <2>3, <2>4 DEF Status
  <2>6. Shown' = Shown
    BY <2>1 DEF Shown, Positions
  <2> QED
    BY <1>4, <2>5, <2>6 DEF Ledger!Terminate, Status, Shown
<1> QED
  BY <1>1, <1>5, <1>6 DEF ProcessWorkflowRunDelete, CopyHolds

LEMMA StepMaps ==
  ASSUME TypeOK, InTurn, InTurn', [Next]_vars
  PROVE  [Ledger!Next]_<<Status, Shown>>
<1>1. overlap' = overlap
  BY DEF Next, vars
<1>2. CASE overlap
  BY <1>1, <1>2 DEF Status, Shown
<1>3. CASE UNCHANGED runs
  BY <1>1, <1>3 DEF Status, Shown, StatusOf, Known, Positions, OpenPositions
<1>4. CASE ~ overlap /\ ~ UNCHANGED runs
  <2>1. Once /\ Once' /\ CountHolds /\ CopyHolds
    BY <1>1, <1>4 DEF InTurn
  <2>2. CASE \E h \in Handler : Push(h) \/ SetFields(h)
    BY <1>1, <1>4, <2>1, <2>2, PushMaps, SetMaps DEF Ledger!Next
  <2>3. CASE \E u \in User : ProcessWorkflowRunDelete(u)
    BY <1>1, <1>4, <2>1, <2>3, WriteBackMaps DEF Ledger!Next
  <2> QED
    BY <1>4, <2>2, <2>3
       DEF Next, Step, ChaosWorkflowRun, Resolve, vars, Start, Finish, DeleteInCluster,
           SyncWorkflowRun, DeleteChaosWorkflow, Count, DeleteChaosWorkflowRun,
           TerminateChaosWorkflow
<1> QED
  BY <1>2, <1>3, <1>4

\* When requests do not overlap, the array of runs, which is counted, pushed
\* to, set in place and written back as a whole, is the ledger users expect:
\* a run that was reported is in it once, is completed once and stays there.
THEOREM Refinement == Spec => ImplementsLedger
<1>1. Init => InTurn
  BY DEF Init, InTurn, OneAtATime, Once, CountHolds, CopyHolds
<1>2. Init => TypeOK
  BY InitInv DEF IInv
<1>3. Init => Ledger!Init
  <2> SUFFICES ASSUME Init PROVE Ledger!Init
    OBVIOUS
  <2>1. \A r \in Run : Positions(r) = {}
    BY DEF Init, Positions
  <2> QED
    BY <2>1 DEF Ledger!Init, StatusOf, Known
<1>4. TypeOK /\ InTurn /\ InTurn' /\ [Next]_vars => [Ledger!Next]_Ledger!vars
  BY StepMaps DEF Ledger!vars, Status, Shown
<1> QED
  BY <1>1, <1>2, <1>3, <1>4, StepTypes, InTurnStays, PTL
     DEF Spec, ImplementsLedger, Ledger!Spec
=============================================================================
