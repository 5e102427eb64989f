------------------------- MODULE RunReports_proofs -------------------------
(***************************************************************************)
(* Proof that a failed verdict once reported of a run is kept, for any     *)
(* runs, capacities and bounds.  What the property says of the record is   *)
(* made true earlier: the events of a run are handled in the order of its  *)
(* changes, so the event that ends it is the last one, none after the      *)
(* verdict goes back to an experiment under way, and until the end the     *)
(* verdict is remembered.                                                  *)
(***************************************************************************)
EXTENDS RunReports, FiniteSetTheorems, TLAPS

Stages  == {"reading", "writing", "posting"}
Sending == [stage : Stages, event : Event]
Changes == [run : Run, finished : BOOLEAN]

Types ==
  /\ workflow \in [Run -> {"absent", "running", "finished", "deleted"}]
  /\ engine \in [Run -> {"nil", "awaited", "fail", "gone"}]
  /\ watch \in Seq(Changes)
  /\ stream \in Seq(Event)
  /\ eventMap \in [Run -> Event \cup {None}]
  /\ sender \in [Sender -> Sending \cup {Ready}]
  /\ request = None \/ request \in [kind : {"workflow_sync", "workflow_delete"}, run : Run]
  /\ seenFail \subseteq Run

Records  == [phase : {"Running", "Succeeded", "Failed", "NotAvailable"}, completed : BOOLEAN]
Recorded == stored \in [Run -> Records \cup {None}]

\* The informer lists finitely many workflows when it starts.
Created == {r \in Run : workflow[r] # "absent"}

IsOver(x)  == x.finished
Over(r)    == workflow[r] \in {"finished", "deleted"}
Fallen(r)  == engine[r] \in {"fail", "gone"}
OfRun(q, r) == {x \in Range(q) : x.run = r}

\* The last change of a run is its end, and so it is of its events.
Ends(q)  == \A i, j \in DOMAIN q : i < j /\ IsOver(q[i]) => q[j].run # q[i].run
\* After a failed verdict of a run none is awaited.
Falls(q) == \A i, j \in DOMAIN q :
              i < j /\ q[i].verdict = "fail" /\ q[j].run = q[i].run => q[j].verdict # "awaited"

NoAwait(r) == \A e \in OfRun(stream, r) : e.verdict # "awaited"

InOrder ==
  /\ Ends(watch) /\ Ends(stream) /\ Falls(stream)
  /\ \A c \in Range(watch) : IsOver(c) => Over(c.run)
  /\ \A e \in Range(stream) :
       /\ IsOver(e) => Over(e.run) /\ OfRun(watch, e.run) = {}
       /\ e.verdict = "fail" => Fallen(e.run) /\ e.phase = "Failed"

own   == sender["WorkflowUpdates"]
Taken == own # Ready

TakenInOrder ==
  Taken =>
    /\ IsOver(own.event) => Over(own.event.run) /\ OfRun(watch, own.event.run) = {}
                            /\ OfRun(stream, own.event.run) = {}
    /\ own.event.verdict = "fail" =>
         Fallen(own.event.run) /\ NoAwait(own.event.run) /\ own.event.phase = "Failed"

\* A failed verdict is remembered, unless the end of the run was reported.
Remembered(r) ==
  \/ eventMap[r] # None /\ eventMap[r].verdict = "fail"
  \/ /\ Over(r) /\ OfRun(watch, r) = {} /\ OfRun(stream, r) = {}
     /\ Taken /\ own.event.run = r => own.stage = "posting"

Kept(r) ==
  /\ Fallen(r) /\ NoAwait(r) /\ Remembered(r)
  /\ Taken /\ own.event.run = r =>
       /\ own.stage = "reading" => own.event.verdict # "awaited"
       /\ own.stage # "reading" => own.event.verdict = "fail"

\* What holds as long as users ask for nothing.
Unasked ==
  /\ request = None /\ sender["RequestProcessor"] = Ready
  /\ InOrder /\ TakenInOrder
  /\ \A r \in seenFail : Kept(r)
  /\ \A r \in Run : eventMap[r] # None /\ eventMap[r].verdict = "fail" => r \in seenFail

IInv == Types /\ Recorded /\ IsFiniteSet(Created) /\ ("requests" \notin given => Unasked)

-----------------------------------------------------------------------------
(* Queues and events.                                                      *)

LEMMA AppendOf ==
  ASSUME NEW S, NEW q \in Seq(S), NEW e \in S
  PROVE  /\ Append(q, e) \in Seq(S)
         /\ DOMAIN Append(q, e) = DOMAIN q \cup {Len(q) + 1}
         /\ \A i \in DOMAIN q : i < Len(q) + 1 /\ Append(q, e)[i] = q[i]
         /\ Append(q, e)[Len(q) + 1] = e
         /\ Range(Append(q, e)) = Range(q) \cup {e}
<1>1. /\ Append(q, e) \in Seq(S)
      /\ DOMAIN Append(q, e) = DOMAIN q \cup {Len(q) + 1}
      /\ \A i \in DOMAIN q : i < Len(q) + 1 /\ Append(q, e)[i] = q[i]
      /\ Append(q, e)[Len(q) + 1] = e
  OBVIOUS
<1>2. Range(Append(q, e)) = Range(q) \cup {e}
  <2> DEFINE g == Append(q, e)
  <2>1. /\ DOMAIN g = DOMAIN q \cup {Len(q) + 1} /\ g[Len(q) + 1] = e
        /\ \A i \in DOMAIN q : g[i] = q[i]
    BY <1>1
  <2> HIDE DEF g
  <2>2. Range(g) = Range(q) \cup {e}
    BY <2>1 DEF Range
  <2> QED
    BY <2>2 DEF g
<1> QED
  BY <1>1, <1>2

LEMMA InQueue == ASSUME NEW S, NEW q \in Seq(S), NEW x \in Range(q) PROVE x \in S
BY DEF Range

LEMMA TailOf ==
  ASSUME NEW S, NEW q \in Seq(S), q # <<>>
  PROVE  /\ Tail(q) \in Seq(S) /\ Head(q) \in S /\ 1 \in DOMAIN q /\ q[1] = Head(q)
         /\ \A i \in DOMAIN Tail(q) : i + 1 \in DOMAIN q /\ 1 < i + 1 /\ Tail(q)[i] = q[i + 1]
         /\ Head(q) \in Range(q) /\ Range(Tail(q)) \subseteq Range(q)
<1>1. /\ Tail(q) \in Seq(S) /\ Head(q) \in S /\ 1 \in DOMAIN q /\ q[1] = Head(q)
      /\ \A i \in DOMAIN Tail(q) : i + 1 \in DOMAIN q /\ 1 < i + 1 /\ Tail(q)[i] = q[i + 1]
  OBVIOUS
<1>2. Head(q) \in Range(q) /\ Range(Tail(q)) \subseteq Range(q)
  BY <1>1 DEF Range
<1> QED
  BY <1>1, <1>2

LEMMA EndsAppend ==
  ASSUME NEW S, NEW q \in Seq(S), NEW e \in S, Ends(q),
         \A x \in Range(q) : IsOver(x) => x.run # e.run
  PROVE  Ends(Append(q, e))
<1> DEFINE g == Append(q, e)
<1>1. /\ DOMAIN g = DOMAIN q \cup {Len(q) + 1} /\ g[Len(q) + 1] = e
      /\ \A i \in DOMAIN q : i < Len(q) + 1 /\ g[i] = q[i]
  BY AppendOf
<1>2. \A i \in DOMAIN q : i \in Nat /\ Len(q) \in Nat
  OBVIOUS
<1>3. ASSUME NEW i \in DOMAIN g, NEW j \in DOMAIN g, i < j, IsOver(g[i]) PROVE g[j].run # g[i].run
  <2>1. i \in DOMAIN q
    BY <1>1, <1>2, <1>3
  <2>2. CASE j \in DOMAIN q
    BY <1>1, <1>3, <2>1, <2>2 DEF Ends
  <2>3. CASE j = Len(q) + 1
    BY <1>1, <1>3, <2>1, <2>3 DEF Range
  <2> QED
    BY <1>1, <2>2, <2>3
<1> QED
  BY <1>3 DEF Ends

LEMMA FallsAppend ==
  ASSUME NEW S, NEW q \in Seq(S), NEW e \in S, Falls(q),
         \A x \in Range(q) : x.verdict = "fail" /\ x.run = e.run => e.verdict # "awaited"
  PROVE  Falls(Append(q, e))
<1> DEFINE g == Append(q, e)
<1>1. /\ DOMAIN g = DOMAIN q \cup {Len(q) + 1} /\ g[Len(q) + 1] = e
      /\ \A i \in DOMAIN q : i < Len(q) + 1 /\ g[i] = q[i]
  BY AppendOf
<1>2. \A i \in DOMAIN q : i \in Nat /\ Len(q) \in Nat
  OBVIOUS
<1>3. ASSUME NEW i \in DOMAIN g, NEW j \in DOMAIN g, i < j, g[i].verdict = "fail", g[j].run = g[i].run
      PROVE  g[j].verdict # "awaited"
  <2>1. i \in DOMAIN q
    BY <1>1, <1>2, <1>3
  <2>2. CASE j \in DOMAIN q
    BY <1>1, <1>3, <2>1, <2>2 DEF Falls
  <2>3. CASE j = Len(q) + 1
    BY <1>1, <1>3, <2>1, <2>3 DEF Range
  <2> QED
    BY <1>1, <2>2, <2>3
<1> QED
  BY <1>3 DEF Falls

\* What is taken from a queue in order is in order with the rest.
LEMMA OrderTail ==
  ASSUME NEW S, NEW q \in Seq(S), q # <<>>
  PROVE  /\ Ends(q) => /\ Ends(Tail(q))
                       /\ IsOver(Head(q)) => \A x \in Range(Tail(q)) : x.run # Head(q).run
         /\ Falls(q) => /\ Falls(Tail(q))
                        /\ Head(q).verdict = "fail" => \A x \in Range(Tail(q)) :
                             x.run = Head(q).run => x.verdict # "awaited"
<1> DEFINE t == Tail(q)
           h == Head(q)
<1>1. /\ 1 \in DOMAIN q /\ q[1] = h
      /\ \A i \in DOMAIN t : i + 1 \in DOMAIN q /\ 1 < i + 1 /\ t[i] = q[i + 1]
  BY TailOf
<1>2. t \in Seq(S)
  BY TailOf
<1>3. \A i, j \in DOMAIN t : i < j => i + 1 < j + 1
  BY <1>2
<1>4. \A x \in Range(t) : \E i \in DOMAIN t : x = t[i]
  BY DEF Range
<1> HIDE DEF t, h
<1>5. ASSUME Ends(q) PROVE Ends(t) /\ (IsOver(h) => \A x \in Range(t) : x.run # h.run)
  BY <1>1, <1>3, <1>4, <1>5 DEF Ends
<1>6. ASSUME Falls(q)
      PROVE  Falls(t) /\ (h.verdict = "fail" => \A x \in Range(t) : x.run = h.run => x.verdict # "awaited")
  BY <1>1, <1>3, <1>4, <1>6 DEF Falls
<1> QED
  BY <1>5, <1>6 DEF t, h

LEMMA TypeOfEvent ==
  ASSUME NEW e \in Event
  PROVE  /\ e.run \in Run /\ e.phase \in {"Running", "Succeeded", "Failed", "NotAvailable"}
         /\ e.finished \in BOOLEAN /\ e.verdict \in {"nil", "awaited", "fail"}
         /\ e.nodes \in BOOLEAN
BY DEF Event

LEMMA Handled ==
  ASSUME Types, NEW c, c \in Changes
  PROVE  LET e == WorkflowEventHandler(c) IN
         /\ e \in Event /\ e.run = c.run /\ (IsOver(e) <=> IsOver(c))
         /\ e.verdict = "awaited" => engine[c.run] = "awaited"
         /\ e.verdict = "fail" => Fallen(c.run) /\ e.phase = "Failed"
<1> DEFINE v == IF engine[c.run] \in {"awaited", "fail"} THEN engine[c.run] ELSE "nil"
           f == IF v = "fail" THEN "Failed" ELSE IF c.finished THEN "Succeeded" ELSE "Running"
<1>1. /\ c.run \in Run /\ c.finished \in BOOLEAN
      /\ v \in {"nil", "awaited", "fail"}
      /\ f \in {"Running", "Succeeded", "Failed", "NotAvailable"}
  BY DEF Changes
<1>2. /\ v = "awaited" => engine[c.run] = "awaited"
      /\ v = "fail" => engine[c.run] = "fail" /\ f = "Failed"
  OBVIOUS
<1>3. WorkflowEventHandler(c) =
        [run |-> c.run, finished |-> c.finished, verdict |-> v, nodes |-> TRUE, phase |-> f]
  BY DEF WorkflowEventHandler
<1> HIDE DEF v, f
<1>4. WorkflowEventHandler(c) \in Event
  BY <1>1, <1>3 DEF Event
<1>5. /\ WorkflowEventHandler(c).run = c.run /\ WorkflowEventHandler(c).verdict = v
      /\ WorkflowEventHandler(c).phase = f
      /\ IsOver(WorkflowEventHandler(c)) <=> IsOver(c)
  BY <1>3 DEF IsOver
<1> QED
  BY <1>2, <1>4, <1>5 DEF Fallen

LEMMA MergedOf ==
  ASSUME NEW e \in Event, NEW last \in Event \cup {None}
  PROVE  LET g == Merged(e, last) IN
         /\ g \in Event /\ g.run = e.run /\ (IsOver(g) <=> IsOver(e))
         /\ last # None /\ last.verdict = "fail" /\ e.verdict = "nil" =>
              g.verdict = "fail" /\ g.phase = "Failed"
         /\ ~ (last # None /\ last.verdict = "fail" /\ e.verdict = "nil") =>
              /\ g.verdict = "fail" <=> e.verdict = "fail"
              /\ g.phase = e.phase
<1>1. CASE last # None /\ last.verdict # "nil" /\ e.verdict = "nil"
  <2> DEFINE f == IF last.verdict = "fail" THEN "Failed" ELSE e.phase
             g == [e EXCEPT !.verdict = last.verdict, !.phase = f]
  <2>1. /\ last \in Event /\ last.verdict \in {"nil", "awaited", "fail"}
        /\ f \in {"Running", "Succeeded", "Failed", "NotAvailable"}
    BY <1>1, TypeOfEvent
  <2>2. Merged(e, last) = g
    BY <1>1 DEF Merged
  <2>3. last.verdict = "fail" => f = "Failed"
    OBVIOUS
  <2>4. last.verdict # "fail" => f = e.phase
    OBVIOUS
  <2> HIDE DEF f
  <2>5. g \in Event
    BY <2>1 DEF Event
  <2>6. g.verdict = last.verdict /\ g.phase = f /\ g.run = e.run
    BY DEF Event
  <2>7. g.finished = e.finished
    BY DEF Event
  <2> QED
    BY <1>1, <2>2, <2>3, <2>4, <2>5, <2>6, <2>7 DEF IsOver
<1>2. CASE ~ (last # None /\ last.verdict # "nil" /\ e.verdict = "nil")
  BY <1>2 DEF Merged
<1> QED
  BY <1>1, <1>2

-----------------------------------------------------------------------------
(* Types.                                                                  *)

LEMMA SenderOf ==
  ASSUME Types, NEW s \in Sender, sender[s] # Ready
  PROVE  sender[s] \in Sending /\ sender[s].stage \in Stages /\ sender[s].event \in Event
<1>1. sender[s] \in Sending
  BY DEF Types
<1> QED
  BY <1>1 DEF Sending

LEMMA SenderBecomes ==
  ASSUME Types, NEW s \in Sender, NEW x \in Sending \cup {Ready},
         sender' = [sender EXCEPT ![s] = x]
  PROVE  /\ sender' \in [Sender -> Sending \cup {Ready}]
         /\ sender'[s] = x /\ \A o \in Sender \ {s} : sender'[o] = sender[o]
BY DEF Types

LEMMA Sends ==
  ASSUME NEW st \in Stages, NEW e \in Event
  PROVE  LET x == [stage |-> st, event |-> e] IN
         x \in Sending /\ x # Ready /\ x.stage = st /\ x.event = e
<1> DEFINE x == [stage |-> st, event |-> e]
<1>1. x \in Sending /\ x.stage = st /\ x.event = e
  BY DEF Sending
<1>2. Ready.stage = "ready" /\ st # "ready"
  BY DEF Ready, Stages
<1>3. x # Ready
  BY <1>1, <1>2
<1> QED
  BY <1>1, <1>3

LEMMA ChangeType ==
  ASSUME NEW r \in Run
  PROVE  /\ Change(r) \in Changes
         /\ Change(r).run = r /\ (IsOver(Change(r)) => Over(r))
BY DEF Change, Changes, IsOver, Over

LEMMA SequenceOf == ASSUME NEW S, NEW n \in Nat, NEW q \in [1 .. n -> S] PROVE q \in Seq(S)
OBVIOUS

\* A restarted informer lists every workflow once.
LEMMA Listed ==
  ASSUME IsFiniteSet(Created), NEW q \in SetToSeqs({Change(r) : r \in {x \in Run : Present(x)}})
  PROVE  /\ q \in Seq(Changes) /\ Ends(q)
         /\ \A c \in Range(q) : IsOver(c) => Over(c.run)
<1> DEFINE P == {x \in Run : Present(x)}
           C == {Change(r) : r \in P}
           f == [r \in P |-> Change(r)]
<1>1. IsFiniteSet(P)
  <2>1. P \in SUBSET Created
    BY DEF Present, Created
  <2> QED
    BY <2>1, FS_Subset
<1>2. \A r \in P : r \in Run
  OBVIOUS
<1>3. q \in SetToSeqs(C)
  OBVIOUS
<1>4. f \in Surjection(P, C)
  BY DEF Surjection
<1>5. IsFiniteSet(C)
  <2> HIDE DEF f, C, P
  <2> QED
    BY <1>1, <1>4, FS_Surjection
<1>6. \A c \in C : \E r \in Run : c = Change(r)
  BY <1>2
<1> HIDE DEF P, f, C
<1>7. Cardinality(C) \in Nat
  BY <1>5, FS_CardinalityType
<1>8. /\ q \in [1 .. Cardinality(C) -> C]
      /\ \A i, j \in 1 .. Cardinality(C) : i # j => q[i] # q[j]
  BY <1>3 DEF SetToSeqs
<1>9. DOMAIN q = 1 .. Cardinality(C) /\ \A i \in DOMAIN q : q[i] \in C
  BY <1>8
<1>10. \A c \in C : c \in Changes /\ c = Change(c.run) /\ (IsOver(c) => Over(c.run))
  BY <1>6, ChangeType
<1>11. q \in Seq(Changes)
  <2>1. q \in [1 .. Cardinality(C) -> Changes]
    <3>1. \A c \in C : c \in Changes
      BY <1>10
    <3> QED
      BY <1>8, <3>1
  <2> QED
    BY <1>7, <2>1, SequenceOf
<1>12. Ends(q)
  <2>1. \A i, j \in DOMAIN q : i < j => i # j
    BY <1>7, <1>9
  <2>2. \A i, j \in DOMAIN q : i < j => q[j].run # q[i].run
    BY <1>8, <1>9, <1>10, <2>1
  <2> QED
    BY <2>2 DEF Ends
<1>13. \A c \in Range(q) : c \in C
  BY <1>9 DEF Range
<1> QED
  BY <1>10, <1>11, <1>12, <1>13

LEMMA CrashOf ==
  ASSUME Types, IsFiniteSet(Created), NEW cause, Crash(cause)
  PROVE  /\ Types' /\ IsFiniteSet(Created)' /\ Ends(watch)'
         /\ \A c \in Range(watch') : IsOver(c) => Over(c.run)
         /\ stream' = <<>> /\ eventMap' = [r \in Run |-> None]
         /\ \A s \in Sender : sender'[s] = Ready
         /\ request' = None /\ seenFail' = {} /\ UNCHANGED <<cluster, stored>>
<1>1. /\ stream' = <<>> /\ eventMap' = [r \in Run |-> None]
      /\ sender' = [s \in Sender |-> Ready]
      /\ request' = None /\ seenFail' = {} /\ workflow' = workflow /\ engine' = engine
      /\ UNCHANGED <<cluster, stored>>
  BY DEF Crash, cluster
<1>2. PICK q \in SetToSeqs({Change(r) : r \in {x \in Run : Present(x)}}) : watch' = q
  BY DEF Crash
<1>3. /\ q \in Seq(Changes) /\ Ends(q)
      /\ \A c \in Range(q) : IsOver(c) => Over(c.run)
  BY Listed
<1>4. Types'
  <2>1. eventMap' \in [Run -> Event \cup {None}] /\ sender' \in [Sender -> Sending \cup {Ready}]
        /\ stream' \in Seq(Event)
    BY <1>1
  <2> QED
    BY <1>1, <1>2, <1>3, <2>1 DEF Types
<1>5. Created' = Created
  BY <1>1 DEF Created
<1> QED
  BY <1>1, <1>2, <1>3, <1>4, <1>5

LEMMA NotifyOf ==
  ASSUME Types, NEW r \in Run, NEW b \in BOOLEAN, Notify(r, b)
  PROVE  LET c == [run |-> r, finished |-> b] IN
         c \in Changes /\ c.run = r /\ watch' = Append(watch, c)
BY DEF Notify, Changes

LEMMA TypesStep ==
  ASSUME Types, IsFiniteSet(Created), Step
  PROVE  Types' /\ IsFiniteSet(Created)'
<1>1. ASSUME NEW r \in Run, RunWorkflow(r) PROVE Types' /\ IsFiniteSet(Created)'
  <2>1. /\ UNCHANGED <<engine, stream, eventMap, sender, request, seenFail>>
        /\ workflow' \in [Run -> {"absent", "running", "finished", "deleted"}]
        /\ \A x \in Run \ {r} : workflow'[x] = workflow[x]
        /\ Notify(r, FALSE) \/ Notify(r, TRUE)
    BY <1>1 DEF RunWorkflow, history, Types
  <2>2. watch' \in Seq(Changes)
    <3>1. PICK b \in BOOLEAN : Notify(r, b)
      BY <2>1
    <3>2. PICK c \in Changes : watch' = Append(watch, c)
      BY <3>1, NotifyOf
    <3> QED
      BY <3>2, AppendOf DEF Types
  <2>3. Created' \in SUBSET (Created \cup {r})
    BY <2>1 DEF Created
  <2>4. IsFiniteSet(Created \cup {r})
    BY FS_AddElement
  <2>5. IsFiniteSet(Created')
    BY <2>3, <2>4, FS_Subset
  <2>6. Types'
    BY <2>1, <2>2 DEF Types
  <2> QED
    BY <2>5, <2>6
<1>2. ASSUME NEW r \in Run, RunEngine(r) PROVE Types' /\ IsFiniteSet(Created)'
  BY <1>2 DEF RunEngine, memory, history, Types, Created
<1>3. ASSUME NEW r \in Run, Vanish(r) PROVE Types' /\ IsFiniteSet(Created)'
  <2>1. /\ UNCHANGED <<engine, watch, stream, eventMap, sender, request, seenFail>>
        /\ workflow' = [workflow EXCEPT ![r] = "deleted"] /\ workflow[r] # "absent"
    BY <1>3 DEF Vanish, memory, history, Present
  <2>2. Types'
    BY <2>1 DEF Types
  <2>3. Created' = Created
    BY <2>1 DEF Created, Types
  <2> QED
    BY <2>2, <2>3
<1>4. CASE HandleChange
  <2>1. /\ UNCHANGED <<workflow, engine, eventMap, sender, request, seenFail>>
        /\ watch # <<>> /\ watch' = Tail(watch)
        /\ stream' = Append(stream, WorkflowEventHandler(Head(watch)))
    BY <1>4 DEF HandleChange, cluster, history
  <2>2. Head(watch) \in Changes /\ watch' \in Seq(Changes)
    BY <2>1, TailOf DEF Types
  <2>3. WorkflowEventHandler(Head(watch)) \in Event
    BY <2>2, Handled
  <2>4. stream' \in Seq(Event)
    BY <2>1, <2>3, AppendOf DEF Types
  <2> QED
    BY <2>1, <2>2, <2>4 DEF Types, Created
<1>5. CASE TakeEvent
  <2>1. /\ UNCHANGED <<workflow, engine, watch, eventMap, request, seenFail>>
        /\ stream # <<>> /\ stream' = Tail(stream)
        /\ sender' = [sender EXCEPT !["WorkflowUpdates"] = [stage |-> "reading", event |-> Head(stream)]]
    BY <1>5 DEF TakeEvent, cluster, history
  <2>2. stream' \in Seq(Event) /\ Head(stream) \in Event
    BY <2>1, TailOf DEF Types
  <2>3. sender' \in [Sender -> Sending \cup {Ready}]
    BY <2>1, <2>2, Sends, SenderBecomes DEF Sender, Stages
  <2> QED
    BY <2>1, <2>2, <2>3 DEF Types, Created
<1>6. ASSUME NEW s \in Sender, SendWorkflowUpdates(s) PROVE Types' /\ IsFiniteSet(Created)'
  <2>1. sender[s] \in Sending /\ sender[s].stage \in Stages /\ sender[s].event \in Event
    BY <1>6, SenderOf DEF SendWorkflowUpdates, Merge, Remember, Post, At
  <2>2. sender[s].event.run \in Run
    BY <2>1, TypeOfEvent
  <2>3. CASE Merge(s) /\ ~ \E cause : Crash(cause)
    <3>1. /\ UNCHANGED <<workflow, engine, watch, stream, eventMap, request, seenFail>>
          /\ sender' = [sender EXCEPT ![s] = [stage |-> "writing",
                event |-> Merged(sender[s].event, eventMap[sender[s].event.run])]]
      BY <2>3 DEF Merge, cluster, history
    <3>2. Merged(sender[s].event, eventMap[sender[s].event.run]) \in Event
      BY <2>1, <2>2, MergedOf DEF Types
    <3>3. sender' \in [Sender -> Sending \cup {Ready}]
      BY <3>1, <3>2, Sends, SenderBecomes DEF Stages
    <3> QED
      BY <3>1, <3>3 DEF Types, Created
  <2>4. CASE Merge(s) /\ \E cause : Crash(cause)
    BY <2>4, CrashOf
  <2>5. CASE Remember(s)
    <3>1. /\ UNCHANGED <<workflow, engine, watch, stream, request>>
          /\ eventMap' = [eventMap EXCEPT ![sender[s].event.run] =
                            IF sender[s].event.finished THEN None ELSE sender[s].event]
          /\ seenFail' \subseteq seenFail \cup {sender[s].event.run}
          /\ sender' = [sender EXCEPT ![s].stage = "posting"]
      BY <2>5 DEF Remember, cluster
    <3>2. [sender[s] EXCEPT !.stage = "posting"] \in Sending
      BY <2>1 DEF Sending, Stages
    <3>3. sender' \in [Sender -> Sending \cup {Ready}]
      BY <3>1, <3>2 DEF Types
    <3>4. eventMap' \in [Run -> Event \cup {None}] /\ seenFail' \subseteq Run
      BY <2>1, <2>2, <3>1 DEF Types
    <3> QED
      BY <3>1, <3>3, <3>4 DEF Types, Created
  <2>6. CASE Post(s)
    <3>1. /\ UNCHANGED <<workflow, engine, watch, stream, eventMap, request, seenFail>>
          /\ sender' = [sender EXCEPT ![s] = Ready]
      BY <2>6 DEF Post, cluster
    <3>2. sender' \in [Sender -> Sending \cup {Ready}]
      BY <3>1 DEF Types
    <3> QED
      BY <3>1, <3>2 DEF Types, Created
  <2> QED
    BY <1>6, <2>3, <2>4, <2>5, <2>6 DEF SendWorkflowUpdates
<1>7. ASSUME NEW r \in Run, NEW kind \in {"workflow_sync", "workflow_delete"}, Receive(kind, r)
      PROVE  Types' /\ IsFiniteSet(Created)'
  BY <1>7 DEF Receive, cluster, history, Types, Created
<1>8. CASE WorkflowRequest /\ ~ \E cause : Crash(cause)
  <2> DEFINE r == request.run
  <2>1. r \in Run /\ request' = None /\ UNCHANGED <<engine, watch, stream, eventMap, seenFail>>
    BY <1>8 DEF WorkflowRequest, Types, cluster, history
  <2>2. CASE /\ sender' = sender /\ Present(r) /\ workflow' = [workflow EXCEPT ![r] = "deleted"]
    <3>1. Created' = Created
      BY <2>1, <2>2 DEF Created, Present, Types
    <3> QED
      BY <2>1, <2>2, <3>1 DEF Types
  <2> DEFINE e == IF Present(r) THEN WorkflowEventHandler(Change(r))
                  ELSE [run |-> r, phase |-> "NotAvailable",
                        finished |-> FALSE, verdict |-> "nil", nodes |-> FALSE]
  <2>3. CASE /\ workflow' = workflow
             /\ sender' = [sender EXCEPT !["RequestProcessor"] = [stage |-> "reading", event |-> e]]
    <3>1. WorkflowEventHandler(Change(r)) \in Event
      BY <2>1, ChangeType, Handled
    <3>2. [run |-> r, phase |-> "NotAvailable",
           finished |-> FALSE, verdict |-> "nil", nodes |-> FALSE] \in Event
      BY <2>1 DEF Event
    <3>3. e \in Event
      BY <3>1, <3>2
    <3> HIDE DEF e, r
    <3>4. [stage |-> "reading", event |-> e] \in Sending
      BY <3>3, Sends DEF Stages
    <3>5. sender' \in [Sender -> Sending \cup {Ready}]
      BY <2>3, <3>4, SenderBecomes DEF Sender
    <3> QED
      BY <2>1, <2>3, <3>5 DEF Types, Created
  <2> QED
    BY <1>8, <2>2, <2>3 DEF WorkflowRequest, cluster, history
<1>9. ASSUME NEW cause, Crash(cause) PROVE Types' /\ IsFiniteSet(Created)'
  BY <1>9, CrashOf
<1> QED
  BY <1>1, <1>2, <1>3, <1>4, <1>5, <1>6, <1>7, <1>8, <1>9 DEF Step, Collide

-----------------------------------------------------------------------------
(* The record of a run.                                                    *)

LEMMA RecordOf ==
  ASSUME NEW e \in Event, Recorded, stored' = Record(e)
  PROVE  /\ Recorded'
         /\ \A r \in Run : stored'[r] # stored[r] => r = e.run /\ stored'[r].phase = e.phase
<1> DEFINE x == [phase |-> e.phase, completed |-> e.finished]
<1>1. x \in Records /\ x.phase = e.phase
  BY TypeOfEvent DEF Records
<1>2. stored' = stored \/ stored' = [stored EXCEPT ![e.run] = x]
  BY DEF Record
<1> HIDE DEF x
<1>3. CASE stored' = stored
  BY <1>3 DEF Recorded
<1>4. CASE stored' = [stored EXCEPT ![e.run] = x]
  BY <1>1, <1>4, TypeOfEvent DEF Recorded
<1> QED
  BY <1>2, <1>3, <1>4

\* Only a report that arrives changes the records.
LEMMA StoredStep ==
  ASSUME Step
  PROVE  \/ stored' = stored
         \/ \E s \in Sender : Post(s) /\ At(s, "posting") /\ stored' = Record(sender[s].event)
<1>1. \A cause : Crash(cause) => stored' = stored
  BY DEF Crash
<1>2. \A r \in Run : RunWorkflow(r) \/ RunEngine(r) \/ Vanish(r) => stored' = stored
  BY DEF RunWorkflow, RunEngine, Vanish
<1>3. HandleChange \/ TakeEvent \/ WorkflowRequest \/ Collide => stored' = stored
  BY <1>1 DEF HandleChange, TakeEvent, WorkflowRequest, Collide
<1>4. \A r, kind : Receive(kind, r) => stored' = stored
  BY DEF Receive
<1>5. \A s \in Sender : Merge(s) \/ Remember(s) => stored' = stored
  BY <1>1 DEF Merge, Remember
<1>6. \A s \in Sender :
        Post(s) => At(s, "posting") /\ (stored' = stored \/ stored' = Record(sender[s].event))
  BY DEF Post
<1> QED
  BY <1>1, <1>2, <1>3, <1>4, <1>5, <1>6 DEF Step, SendWorkflowUpdates

LEMMA RecordedStep ==
  ASSUME Types, Recorded, Step
  PROVE  Recorded'
<1>1. CASE stored' = stored
  BY <1>1 DEF Recorded
<1>2. CASE \E s \in Sender : At(s, "posting") /\ stored' = Record(sender[s].event)
  BY <1>2, SenderOf, RecordOf DEF At
<1> QED
  BY <1>1, <1>2, StoredStep

-----------------------------------------------------------------------------
(* Steps while users ask for nothing.                                      *)

\* What happens outside the subscriber: changes are added to the watch.
LEMMA Outside ==
  ASSUME Types, Unasked, UNCHANGED <<stream, eventMap, sender, request, seenFail>>, Ends(watch)',
         \A c \in Range(watch') : IsOver(c) => Over(c.run)',
         \A r \in Run : Over(r) => Over(r)' /\ (OfRun(watch, r) = {} => OfRun(watch', r) = {}),
         \A r \in Run : Fallen(r) => Fallen(r)'
  PROVE  Unasked'
<1>1. \A e \in Range(stream) : e.run \in Run
  BY TypeOfEvent DEF Types, Range
<1>2. Taken => own.event.run \in Run
  BY SenderOf, TypeOfEvent DEF Taken, own, Sender
<1>3. own' = own /\ Taken' = Taken
  BY DEF own, Taken
<1>4. InOrder'
  BY <1>1 DEF Unasked, InOrder
<1>5. TakenInOrder'
  BY <1>2, <1>3 DEF Unasked, TakenInOrder, NoAwait
<1>6. ASSUME NEW r \in seenFail PROVE Kept(r)'
  <2>1. r \in Run /\ Kept(r)
    BY <1>6 DEF Unasked, Types
  <2>2. Fallen(r)' /\ NoAwait(r)' /\ Remembered(r)'
    BY <1>3, <2>1 DEF Kept, NoAwait, Remembered
  <2> QED
    BY <1>3, <2>1, <2>2 DEF Kept
<1> QED
  BY <1>4, <1>5, <1>6 DEF Unasked

LEMMA CalmRunWorkflow ==
  ASSUME Types, Unasked, NEW r \in Run, RunWorkflow(r)
  PROVE  Unasked'
<1>1. /\ UNCHANGED <<engine, stream, eventMap, sender, request, seenFail>>
      /\ ~ Over(r) /\ \A x \in Run \ {r} : workflow'[x] = workflow[x]
  BY DEF RunWorkflow, history, Types, Over
<1>2. \/ Notify(r, FALSE)
      \/ Notify(r, TRUE) /\ workflow' = [workflow EXCEPT ![r] = "finished"]
  BY DEF RunWorkflow
<1>3. \E c \in Changes :
        c.run = r /\ watch' = Append(watch, c) /\ (IsOver(c) => Over(r)')
  <2>1. CASE Notify(r, FALSE)
    <3> DEFINE c == [run |-> r, finished |-> FALSE]
    <3>1. c \in Changes /\ c.run = r /\ watch' = Append(watch, c)
      BY <2>1, NotifyOf
    <3>2. ~ IsOver(c)
      BY DEF IsOver
    <3> QED
      BY <3>1, <3>2
  <2>2. CASE Notify(r, TRUE) /\ workflow' = [workflow EXCEPT ![r] = "finished"]
    <3> DEFINE c == [run |-> r, finished |-> TRUE]
    <3>1. c \in Changes /\ c.run = r /\ watch' = Append(watch, c)
      BY <2>2, NotifyOf
    <3>2. Over(r)'
      BY <2>2 DEF Over, Types
    <3> QED
      BY <3>1, <3>2
  <2> QED
    BY <1>2, <2>1, <2>2
<1>4. PICK c \in Changes :
        c.run = r /\ watch' = Append(watch, c) /\ (IsOver(c) => Over(r)')
  BY <1>3
<1>5. /\ watch \in Seq(Changes) /\ Range(watch') = Range(watch) \cup {c}
      /\ \A x \in Range(watch) : x.run \in Run /\ (IsOver(x) => Over(x.run))
  <2>1. watch \in Seq(Changes)
    BY DEF Types
  <2>2. \A x \in Range(watch) : x.run \in Run
    <3>1. \A x \in Range(watch) : x \in Changes
      BY <2>1, InQueue
    <3> QED
      BY <3>1 DEF Changes
  <2>3. Range(watch') = Range(watch) \cup {c}
    BY <1>4, <2>1, AppendOf
  <2> QED
    BY <2>1, <2>2, <2>3 DEF Unasked, InOrder
<1>6. \A x \in Run : Over(x) => x # r /\ Over(x)'
  BY <1>1 DEF Over
<1>7. Ends(watch)'
  <2>1. \A x \in Range(watch) : IsOver(x) => x.run # c.run
    BY <1>1, <1>4, <1>5
  <2> QED
    BY <1>4, <1>5, <2>1, EndsAppend DEF Unasked, InOrder
<1>8. \A x \in Range(watch') : IsOver(x) => Over(x.run)'
  BY <1>4, <1>5, <1>6
<1>9. \A x \in Run : Over(x) => Over(x)' /\ (OfRun(watch, x) = {} => OfRun(watch', x) = {})
  BY <1>4, <1>5, <1>6 DEF OfRun
<1>10. \A x \in Run : Fallen(x) => Fallen(x)'
  BY <1>1 DEF Fallen
<1> QED
  BY <1>1, <1>7, <1>8, <1>9, <1>10, Outside

LEMMA CalmCluster ==
  ASSUME Types, Unasked, NEW r \in Run, RunEngine(r) \/ Vanish(r)
  PROVE  Unasked'
<1>1. UNCHANGED <<watch, stream, eventMap, sender, request, seenFail>>
  BY DEF RunEngine, Vanish, memory, history
<1>2. (\A x \in Run : Fallen(x) => Fallen(x)') /\ (\A x \in Run : Over(x) => Over(x)')
  <2>1. CASE RunEngine(r)
    <3>1. workflow' = workflow
      BY <2>1 DEF RunEngine
    <3>2. \A x \in Run : Fallen(x) => Fallen(x)'
      BY <2>1 DEF RunEngine, Fallen, Types
    <3> QED
      BY <3>1, <3>2 DEF Over
  <2>2. CASE Vanish(r)
    BY <2>2 DEF Vanish, Fallen, Over, Types
  <2> QED
    BY <2>1, <2>2
<1>3. \A c \in Range(watch) : c.run \in Run
  <2>1. \A c \in Range(watch) : c \in Changes
    BY InQueue DEF Types
  <2> QED
    BY <2>1 DEF Changes
<1>4. Ends(watch)' /\ \A c \in Range(watch') : IsOver(c) => Over(c.run)'
  BY <1>1, <1>2, <1>3 DEF Unasked, InOrder
<1> QED
  BY <1>1, <1>2, <1>4, Outside

LEMMA CalmHandleChange ==
  ASSUME Types, Unasked, HandleChange
  PROVE  Unasked'
<1>0. PICK c, e : c = Head(watch) /\ e = WorkflowEventHandler(c)
  OBVIOUS
<1>1. /\ UNCHANGED <<workflow, engine, eventMap, sender, request, seenFail>>
      /\ watch # <<>> /\ watch' = Tail(watch) /\ stream' = Append(stream, e)
  BY <1>0 DEF HandleChange, cluster, history
<1>2. watch \in Seq(Changes) /\ stream \in Seq(Event) /\ Ends(watch) /\ Ends(stream) /\ Falls(stream)
  BY DEF Types, Unasked, InOrder
<1>3. c \in Changes /\ c.run \in Run /\ c \in Range(watch) /\ Range(watch') \subseteq Range(watch)
  <2>1. c \in Changes /\ c \in Range(watch) /\ Range(watch') \subseteq Range(watch)
    BY <1>0, <1>1, <1>2, TailOf
  <2> QED
    BY <2>1 DEF Changes
<1>4. /\ e \in Event /\ e.run = c.run /\ (IsOver(e) <=> IsOver(c))
      /\ e.verdict = "awaited" => engine[c.run] = "awaited"
      /\ e.verdict = "fail" => Fallen(c.run) /\ e.phase = "Failed"
  BY <1>0, <1>3, Handled
<1>5. Ends(watch)' /\ (IsOver(c) => \A x \in Range(watch') : x.run # c.run)
  BY <1>0, <1>1, <1>2, OrderTail
<1>6. Range(stream') = Range(stream) \cup {e}
  BY <1>1, <1>2, <1>4, AppendOf
<1>7. \A x \in Range(stream) : x \in Event /\ x.run \in Run
  BY <1>2, InQueue, TypeOfEvent
<1>8. e.verdict = "awaited" => ~ Fallen(c.run)
  BY <1>4 DEF Fallen
<1>9. \A r : OfRun(watch, r) = {} => OfRun(watch', r) = {} /\ r # c.run
  BY <1>3 DEF OfRun
<1>10. Ends(stream)'
  <2>1. \A x \in Range(stream) : IsOver(x) => x.run # e.run
    BY <1>4, <1>9 DEF Unasked, InOrder
  <2> QED
    BY <1>1, <1>2, <1>4, <2>1, EndsAppend
<1>11. Falls(stream)'
  <2>1. \A x \in Range(stream) : x.verdict = "fail" /\ x.run = e.run => e.verdict # "awaited"
    BY <1>4, <1>8 DEF Unasked, InOrder
  <2> QED
    BY <1>1, <1>2, <1>4, <2>1, FallsAppend
<1>12. \A r : Over(r)' = Over(r) /\ Fallen(r)' = Fallen(r)
  BY <1>1 DEF Over, Fallen
<1>13. InOrder'
  <2>1. \A x \in Range(watch') : IsOver(x) => Over(x.run)'
    BY <1>3, <1>12 DEF Unasked, InOrder
  <2>2. ASSUME NEW x \in Range(stream')
        PROVE  /\ IsOver(x) => Over(x.run)' /\ OfRun(watch', x.run) = {}
               /\ x.verdict = "fail" => Fallen(x.run)' /\ x.phase = "Failed"
    <3>1. CASE x \in Range(stream)
      BY <1>9, <1>12, <3>1 DEF Unasked, InOrder
    <3>2. CASE x = e
      <4>1. IsOver(c) => Over(c.run)
        BY <1>3 DEF Unasked, InOrder
      <4>2. IsOver(c) => OfRun(watch', c.run) = {}
        BY <1>5 DEF OfRun
      <4> QED
        BY <1>4, <1>12, <3>2, <4>1, <4>2
    <3> QED
      BY <1>6, <3>1, <3>2
  <2> QED
    BY <1>5, <1>10, <1>11, <2>1, <2>2 DEF InOrder
<1>14. \A r : NoAwait(r) /\ Fallen(r) => NoAwait(r)'
  BY <1>4, <1>6, <1>8 DEF NoAwait, OfRun
<1>15. \A r : OfRun(stream, r) = {} /\ r # c.run => OfRun(stream', r) = {}
  BY <1>4, <1>6 DEF OfRun
<1>16. own' = own /\ Taken' = Taken
  BY <1>1 DEF own, Taken
<1>17. TakenInOrder'
  BY <1>9, <1>12, <1>14, <1>15, <1>16 DEF Unasked, TakenInOrder
<1>18. ASSUME NEW r \in seenFail PROVE Kept(r)'
  <2>1. Kept(r)
    BY <1>18 DEF Unasked
  <2>2. Remembered(r)'
    BY <1>1, <1>9, <1>12, <1>15, <1>16, <2>1 DEF Kept, Remembered
  <2> QED
    BY <1>12, <1>14, <1>16, <2>1, <2>2 DEF Kept
<1> QED
  BY <1>1, <1>13, <1>17, <1>18 DEF Unasked

LEMMA CalmTakeEvent ==
  ASSUME Types, Unasked, TakeEvent
  PROVE  Unasked'
<1>0. PICK e : e = Head(stream)
  OBVIOUS
<1>1. /\ UNCHANGED <<workflow, engine, watch, eventMap, request, seenFail>>
      /\ own = Ready /\ stream # <<>> /\ stream' = Tail(stream)
      /\ sender' = [sender EXCEPT !["WorkflowUpdates"] = [stage |-> "reading", event |-> e]]
  BY <1>0 DEF TakeEvent, cluster, history, own
<1>2. stream \in Seq(Event) /\ Ends(stream) /\ Falls(stream)
  BY DEF Types, Unasked, InOrder
<1>3. e \in Event /\ e.run \in Run /\ e \in Range(stream) /\ Range(stream') \subseteq Range(stream)
  BY <1>0, <1>1, <1>2, TailOf, TypeOfEvent
<1>4. /\ own'.stage = "reading" /\ own'.event = e
      /\ sender'["RequestProcessor"] = sender["RequestProcessor"]
  BY <1>1 DEF own, Types, Sender
<1>5. /\ Ends(stream)' /\ (IsOver(e) => \A x \in Range(stream') : x.run # e.run)
      /\ Falls(stream)' /\ (e.verdict = "fail" =>
                              \A x \in Range(stream') : x.run = e.run => x.verdict # "awaited")
  BY <1>0, <1>1, <1>2, OrderTail
<1>6. \A r : Over(r)' = Over(r) /\ Fallen(r)' = Fallen(r)
  BY <1>1 DEF Over, Fallen
<1>7. InOrder'
  BY <1>1, <1>3, <1>5, <1>6 DEF Unasked, InOrder
<1>8. \A r : OfRun(stream', r) \subseteq OfRun(stream, r)
  BY <1>3 DEF OfRun
<1>9. TakenInOrder'
  <2>1. /\ IsOver(e) => Over(e.run) /\ OfRun(watch, e.run) = {}
        /\ e.verdict = "fail" => Fallen(e.run) /\ e.phase = "Failed"
    BY <1>3 DEF Unasked, InOrder
  <2>2. IsOver(e) => OfRun(stream', e.run) = {}
    BY <1>5 DEF OfRun
  <2>3. e.verdict = "fail" => NoAwait(e.run)'
    BY <1>5 DEF NoAwait, OfRun
  <2> QED
    BY <1>1, <1>4, <1>6, <2>1, <2>2, <2>3 DEF TakenInOrder
<1>10. ASSUME NEW r \in seenFail PROVE Kept(r)'
  <2>1. Kept(r)
    BY <1>10 DEF Unasked
  <2>2. NoAwait(r)'
    BY <1>8, <2>1 DEF Kept, NoAwait
  <2>3. e.run = r => OfRun(stream, r) # {} /\ e.verdict # "awaited"
    BY <1>3, <2>1 DEF Kept, NoAwait, OfRun
  <2>4. Remembered(r)'
    BY <1>1, <1>4, <1>6, <1>8, <2>1, <2>3 DEF Kept, Remembered
  <2> QED
    BY <1>4, <1>6, <2>1, <2>2, <2>3, <2>4 DEF Kept
<1> QED
  BY <1>1, <1>4, <1>7, <1>9, <1>10 DEF Unasked

\* Only the goroutine of the informer's events sends.
LEMMA OwnSends ==
  ASSUME Types, Unasked, NEW s \in Sender, NEW st, At(s, st)
  PROVE  /\ s = "WorkflowUpdates" /\ Taken /\ own.stage = st
         /\ own.event \in Event /\ own.event.run \in Run
<1>1. s = "WorkflowUpdates"
  BY DEF Unasked, At, Sender
<1>2. Taken /\ own.stage = st
  BY <1>1 DEF At, own, Taken
<1>3. own.event \in Event
  BY <1>1, <1>2, SenderOf DEF own, Taken
<1> QED
  BY <1>1, <1>2, <1>3, TypeOfEvent

\* A step of that goroutine changes nothing the order is about.
LEMMA OwnStep ==
  ASSUME Types, Unasked, UNCHANGED <<workflow, engine, watch, stream>>
  PROVE  /\ InOrder'
         /\ \A r : Over(r)' = Over(r) /\ Fallen(r)' = Fallen(r) /\ NoAwait(r)' = NoAwait(r)
<1>1. \A r : Over(r)' = Over(r) /\ Fallen(r)' = Fallen(r) /\ NoAwait(r)' = NoAwait(r)
  BY DEF Over, Fallen, NoAwait
<1> QED
  BY <1>1 DEF Unasked, InOrder

LEMMA CalmMerge ==
  ASSUME Types, Unasked, NEW s \in Sender, Merge(s), ~ \E cause : Crash(cause)
  PROVE  Unasked'
<1>1. PICK e, last, g : e = own.event /\ last = eventMap[e.run] /\ g = Merged(e, last)
  OBVIOUS
<1>2. s = "WorkflowUpdates" /\ Taken /\ own.stage = "reading" /\ e \in Event /\ e.run \in Run
  BY <1>1, OwnSends DEF Merge
<1>3. /\ UNCHANGED <<workflow, engine, watch, stream, eventMap, request, seenFail>>
      /\ sender' = [sender EXCEPT ![s] = [stage |-> "writing", event |-> g]]
  BY <1>1, <1>2 DEF Merge, cluster, history, own
<1>4. last \in Event \cup {None}
  BY <1>1, <1>2 DEF Types
<1>5. /\ g \in Event /\ g.run = e.run /\ (IsOver(g) <=> IsOver(e))
      /\ last # None /\ last.verdict = "fail" /\ e.verdict = "nil" =>
           g.verdict = "fail" /\ g.phase = "Failed"
      /\ ~ (last # None /\ last.verdict = "fail" /\ e.verdict = "nil") =>
           (g.verdict = "fail" <=> e.verdict = "fail") /\ g.phase = e.phase
  BY <1>1, <1>2, <1>4, MergedOf
<1>6. /\ own'.stage = "writing" /\ own'.event = g
      /\ sender'["RequestProcessor"] = sender["RequestProcessor"]
  BY <1>2, <1>3 DEF own, Types, Sender
<1>7. /\ InOrder'
      /\ \A r : Over(r)' = Over(r) /\ Fallen(r)' = Fallen(r) /\ NoAwait(r)' = NoAwait(r)
  BY <1>3, OwnStep
<1>8. last # None /\ last.verdict = "fail" => Fallen(e.run) /\ NoAwait(e.run)
  BY <1>1, <1>2 DEF Unasked, Kept
<1>9. TakenInOrder'
  <2>1. /\ IsOver(e) => Over(e.run) /\ OfRun(watch, e.run) = {} /\ OfRun(stream, e.run) = {}
        /\ e.verdict = "fail" => Fallen(e.run) /\ NoAwait(e.run) /\ e.phase = "Failed"
    BY <1>1, <1>2 DEF Unasked, TakenInOrder
  <2>2. g.verdict = "fail" => Fallen(e.run) /\ NoAwait(e.run) /\ g.phase = "Failed"
    BY <1>5, <1>8, <2>1
  <2>3. /\ IsOver(own'.event) => Over(e.run)' /\ OfRun(watch', e.run) = {} /\ OfRun(stream', e.run) = {}
        /\ own'.event.verdict = "fail" =>
             Fallen(e.run)' /\ NoAwait(e.run)' /\ own'.event.phase = "Failed"
    BY <1>3, <1>5, <1>6, <1>7, <2>1, <2>2
  <2> QED
    BY <1>5, <1>6, <2>3 DEF TakenInOrder
<1>10. ASSUME NEW r \in seenFail PROVE Kept(r)'
  <2>1. Kept(r)
    BY <1>10 DEF Unasked
  <2>2. Remembered(r)'
    BY <1>1, <1>2, <1>3, <1>5, <1>6, <1>7, <2>1 DEF Kept, Remembered
  <2>3. e.run = r => e.verdict # "awaited" /\ last # None /\ last.verdict = "fail"
    BY <1>1, <1>2, <2>1 DEF Kept, Remembered
  <2>4. e.run = r => g.verdict = "fail"
    BY <1>2, <1>5, <2>3, TypeOfEvent
  <2> QED
    BY <1>5, <1>6, <1>7, <2>1, <2>2, <2>4 DEF Kept
<1> QED
  BY <1>3, <1>6, <1>7, <1>9, <1>10 DEF Unasked

LEMMA CalmRemember ==
  ASSUME Types, Unasked, NEW s \in Sender, Remember(s)
  PROVE  Unasked'
<1>1. PICK e : e = own.event
  OBVIOUS
<1>2. s = "WorkflowUpdates" /\ Taken /\ own.stage = "writing" /\ e \in Event /\ e.run \in Run
  BY <1>1, OwnSends DEF Remember
<1>3. /\ UNCHANGED <<workflow, engine, watch, stream, request>>
      /\ eventMap' = [eventMap EXCEPT ![e.run] = IF IsOver(e) THEN None ELSE e]
      /\ seenFail' = IF e.verdict = "fail" THEN seenFail \cup {e.run} ELSE seenFail
      /\ sender' = [sender EXCEPT ![s].stage = "posting"]
  BY <1>1, <1>2 DEF Remember, cluster, own, IsOver
<1>4. /\ eventMap'[e.run] = IF IsOver(e) THEN None ELSE e
      /\ \A r \in Run \ {e.run} : eventMap'[r] = eventMap[r]
  BY <1>2, <1>3 DEF Types
<1>5. sender[s] \in Sending /\ sender' = [sender EXCEPT ![s] = [sender[s] EXCEPT !.stage = "posting"]]
  BY <1>2, <1>3, SenderOf DEF own, Taken
<1>6. /\ own'.stage = "posting" /\ own'.event = e
      /\ sender'["RequestProcessor"] = sender["RequestProcessor"]
  BY <1>1, <1>2, <1>5 DEF own, Types, Sender, Sending
<1>7. /\ InOrder'
      /\ \A r : Over(r)' = Over(r) /\ Fallen(r)' = Fallen(r) /\ NoAwait(r)' = NoAwait(r)
  BY <1>3, OwnStep
<1>8. /\ IsOver(e) => Over(e.run) /\ OfRun(watch, e.run) = {} /\ OfRun(stream, e.run) = {}
      /\ e.verdict = "fail" => Fallen(e.run) /\ NoAwait(e.run) /\ e.phase = "Failed"
  BY <1>1, <1>2 DEF Unasked, TakenInOrder
<1>9. TakenInOrder'
  <2>1. /\ IsOver(own'.event) => Over(e.run)' /\ OfRun(watch', e.run) = {} /\ OfRun(stream', e.run) = {}
        /\ own'.event.verdict = "fail" =>
             Fallen(e.run)' /\ NoAwait(e.run)' /\ own'.event.phase = "Failed"
    BY <1>3, <1>6, <1>7, <1>8
  <2> QED
    BY <1>6, <2>1 DEF TakenInOrder
<1>10. ASSUME NEW r \in seenFail' PROVE Kept(r)'
  <2>1. r \in Run
    BY <1>2, <1>3 DEF Types
  <2>2. Fallen(r) /\ NoAwait(r) /\ (r = e.run => e.verdict = "fail")
    BY <1>1, <1>2, <1>3, <1>8 DEF Unasked, Kept
  <2>3. Remembered(r)'
    <3>1. CASE r = e.run /\ IsOver(e)
      <4>1. Over(r)' /\ OfRun(watch', r) = {} /\ OfRun(stream', r) = {}
        BY <1>3, <1>7, <1>8, <3>1
      <4> QED
        BY <1>6, <4>1 DEF Remembered
    <3>2. CASE r = e.run /\ ~ IsOver(e)
      <4>1. eventMap'[r] # None /\ eventMap'[r].verdict = "fail"
        BY <1>2, <1>4, <2>2, <3>2, NoneIsNoEvent
      <4> QED
        BY <4>1 DEF Remembered
    <3>3. CASE r # e.run
      <4>1. Remembered(r) /\ eventMap'[r] = eventMap[r]
        BY <1>3, <1>4, <2>1, <3>3 DEF Unasked, Kept
      <4> QED
        BY <1>3, <1>6, <1>7, <3>3, <4>1 DEF Remembered
    <3> QED
      BY <3>1, <3>2, <3>3
  <2> QED
    BY <1>6, <1>7, <2>2, <2>3 DEF Kept
<1>11. \A r \in Run : eventMap'[r] # None /\ eventMap'[r].verdict = "fail" => r \in seenFail'
  BY <1>3, <1>4 DEF Unasked
<1> QED
  BY <1>3, <1>6, <1>7, <1>9, <1>10, <1>11 DEF Unasked

LEMMA CalmPost ==
  ASSUME Types, Unasked, NEW s \in Sender, Post(s)
  PROVE  Unasked'
<1>1. s = "WorkflowUpdates"
  BY OwnSends DEF Post
<1>2. /\ UNCHANGED <<workflow, engine, watch, stream, eventMap, request, seenFail>>
      /\ sender' = [sender EXCEPT ![s] = Ready]
  BY DEF Post, cluster
<1>3. ~ Taken' /\ sender'["RequestProcessor"] = sender["RequestProcessor"]
  BY <1>1, <1>2 DEF Taken, own, Types, Sender
<1>4. /\ InOrder'
      /\ \A r : Over(r)' = Over(r) /\ Fallen(r)' = Fallen(r) /\ NoAwait(r)' = NoAwait(r)
  BY <1>2, OwnStep
<1>5. ASSUME NEW r \in seenFail PROVE Kept(r)'
  <2>1. Kept(r)
    BY <1>5 DEF Unasked
  <2>2. Remembered(r)'
    BY <1>2, <1>3, <1>4, <2>1 DEF Kept, Remembered
  <2> QED
    BY <1>3, <1>4, <2>1, <2>2 DEF Kept
<1> QED
  BY <1>2, <1>3, <1>4, <1>5 DEF Unasked, TakenInOrder

LEMMA CalmCrash ==
  ASSUME Types, IsFiniteSet(Created), Unasked, NEW cause, Crash(cause)
  PROVE  Unasked'
<1>1. /\ Types' /\ Ends(watch)' /\ \A c \in Range(watch') : IsOver(c) => Over(c.run)
      /\ stream' = <<>> /\ eventMap' = [r \in Run |-> None]
      /\ \A s \in Sender : sender'[s] = Ready
      /\ request' = None /\ seenFail' = {} /\ workflow' = workflow /\ engine' = engine
  BY CrashOf DEF cluster
<1>2. \A r : Over(r)' = Over(r)
  BY <1>1 DEF Over
<1>3. Range(stream') = {} /\ Ends(stream)' /\ Falls(stream)'
  BY <1>1 DEF Range, Ends, Falls
<1>4. InOrder'
  BY <1>1, <1>2, <1>3 DEF InOrder
<1>5. ~ Taken' /\ sender'["RequestProcessor"] = Ready
  BY <1>1 DEF Taken, own, Sender
<1>6. \A r \in Run : eventMap'[r] = None
  BY <1>1
<1> QED
  BY <1>1, <1>4, <1>5, <1>6 DEF Unasked, TakenInOrder

LEMMA CalmStep ==
  ASSUME Types, IsFiniteSet(Created), Unasked, "requests" \notin given, Step
  PROVE  Unasked'
<1>1. \A r, kind : ~ Receive(kind, r)
  BY DEF Receive
<1>2. ~ WorkflowRequest
  BY DEF WorkflowRequest, Unasked
<1>3. ASSUME NEW s \in Sender, SendWorkflowUpdates(s) PROVE Unasked'
  <2>1. CASE \E cause : Crash(cause)
    BY <2>1, CalmCrash
  <2>2. CASE ~ \E cause : Crash(cause)
    BY <1>3, <2>2, CalmMerge, CalmRemember, CalmPost DEF SendWorkflowUpdates
  <2> QED
    BY <2>1, <2>2
<1>4. ASSUME NEW r \in Run, RunWorkflow(r) \/ RunEngine(r) \/ Vanish(r) PROVE Unasked'
  BY <1>4, CalmRunWorkflow, CalmCluster
<1>5. CASE Collide \/ Crash("kill")
  BY <1>5, CalmCrash DEF Collide
<1> QED
  BY <1>1, <1>2, <1>3, <1>4, <1>5, CalmHandleChange, CalmTakeEvent DEF Step

-----------------------------------------------------------------------------
(* The invariant and the theorems.                                         *)

LEMMA InitInv == Init => IInv
<1> SUFFICES ASSUME Init PROVE IInv
  OBVIOUS
<1>1. /\ workflow = [r \in Run |-> "absent"] /\ engine = [r \in Run |-> "nil"]
      /\ watch = <<>> /\ stream = <<>> /\ eventMap = [r \in Run |-> None]
      /\ sender = [s \in Sender |-> Ready] /\ request = None /\ seenFail = {}
  BY DEF Init
<1>2. Types /\ Recorded
  BY <1>1 DEF Types, Recorded, Init
<1>3. Created = {}
  BY <1>1 DEF Created
<1>4. IsFiniteSet(Created)
  BY <1>3, FS_EmptySet
<1>5. Range(watch) = {} /\ Range(stream) = {} /\ Ends(watch) /\ Ends(stream) /\ Falls(stream)
  BY <1>1 DEF Range, Ends, Falls
<1>6. InOrder
  BY <1>5 DEF InOrder
<1>7. ~ Taken /\ sender["RequestProcessor"] = Ready
  BY <1>1 DEF Taken, own, Sender
<1>8. \A r \in Run : eventMap[r] = None
  BY <1>1
<1>9. Unasked
  BY <1>1, <1>6, <1>7, <1>8 DEF Unasked, TakenInOrder
<1> QED
  BY <1>2, <1>4, <1>9 DEF IInv

LEMMA StepInv == IInv /\ [Next]_vars => IInv'
<1> SUFFICES ASSUME IInv, [Next]_vars PROVE IInv'
  OBVIOUS
<1>1. CASE Next
  <2>1. Types /\ Recorded /\ IsFiniteSet(Created) /\ Step /\ given' = given
    BY <1>1 DEF IInv, Next
  <2>2. Types' /\ Recorded' /\ IsFiniteSet(Created)'
    BY <2>1, TypesStep, RecordedStep
  <2>3. "requests" \notin given' => Unasked'
    BY <2>1, CalmStep DEF IInv
  <2> QED
    BY <2>2, <2>3 DEF IInv
<1>2. CASE UNCHANGED vars
  <2>1. /\ given' = given /\ workflow' = workflow /\ engine' = engine /\ watch' = watch
        /\ stream' = stream /\ eventMap' = eventMap /\ sender' = sender
        /\ request' = request /\ seenFail' = seenFail /\ stored' = stored
    BY <1>2 DEF vars, system, cluster, memory, history
  <2>2. Types' /\ Recorded' /\ Created' = Created
    BY <2>1 DEF IInv, Types, Recorded, Created
  <2>3. Unasked' = Unasked
    BY <2>1 DEF Unasked, InOrder, TakenInOrder, Taken, own, Kept, Remembered, NoAwait, Over, Fallen
  <2> QED
    BY <2>1, <2>2, <2>3 DEF IInv
<1> QED
  BY <1>1, <1>2

LEMMA Invariance == Spec => []IInv
BY InitInv, StepInv, PTL DEF Spec

\* Every variable keeps its type, and the informer has finitely many
\* workflows to list when the subscriber starts again.
THEOREM TypeCorrect == Spec => [](Types /\ Recorded /\ IsFiniteSet(Created))
<1>1. IInv => Types /\ Recorded /\ IsFiniteSet(Created)
  BY DEF IInv
<1> QED
  BY <1>1, Invariance, PTL

\* Within one life of the subscriber: once it has reported a failed experiment
\* of a run, no report records the run as completed with another phase,
\* although the ChaosEngine the verdict was read from may be gone: eventMap
\* keeps the verdict until the last event of the run. A restart empties the
\* map and, with it, seenFail: of failures reported before one nothing is said.
THEOREM FailureKept == Spec => FailureIsKept
<1>1. ASSUME IInv, Next, NEW r \in seenFail \cap seenFail', "requests" \notin given,
             stored'[r] # stored[r]
      PROVE  stored'[r].phase = "Failed"
  <2>1. Types /\ Recorded /\ Unasked /\ Step /\ Kept(r) /\ r \in Run
    BY <1>1 DEF IInv, Next, Unasked, Types
  <2>2. PICK s \in Sender : At(s, "posting") /\ stored' = Record(sender[s].event)
    BY <1>1, <2>1, StoredStep
  <2>3. Taken /\ own.stage = "posting" /\ own.event \in Event /\ stored' = Record(own.event)
    BY <2>1, <2>2, OwnSends DEF own
  <2>4. r = own.event.run /\ stored'[r].phase = own.event.phase
    BY <1>1, <2>1, <2>3, RecordOf
  <2>5. own.event.verdict = "fail"
    BY <2>1, <2>3, <2>4 DEF Kept
  <2> QED
    BY <2>1, <2>3, <2>4, <2>5 DEF Unasked, TakenInOrder
<1>2. IInv /\ [Next]_vars =>
        [\A r \in seenFail \cap seenFail' :
           /\ "requests" \notin given
           /\ stored'[r] # stored[r]
           /\ stored'[r] # None /\ stored'[r].completed
           => stored'[r].phase = "Failed"]_vars
  BY <1>1
<1> QED
  BY <1>2, Invariance, PTL DEF Spec, FailureIsKept
=============================================================================
