----------------------------- MODULE RunsTable -----------------------------
(***************************************************************************)
(* The table of scenario runs: frontend/src/views/ChaosWorkflows/Runs.     *)
(*                                                                         *)
(* One query, whose variables are the filters, the page and the sorting,   *)
(* and whose answers lie in the Apollo cache by their variables.  Every    *)
(* change of the shown data adds a subscription to the runs' events, with  *)
(* the filters of that render in its closure, and none is ever taken back. *)
(* Every subscription gets every event; an event whose run is not in the   *)
(* rows is put in front of them if the closure's filters accept it.        *)
(*                                                                         *)
(* The server and its answers are external.  Answers of a query and events *)
(* come by different connections and may overtake each other.  Sorting,    *)
(* dates and the cluster filter work like the status filter and are left   *)
(* out, as are the popovers of a row.                                      *)
(***************************************************************************)
EXTENDS Naturals, Sequences, FiniteSets, SequencesExt

CONSTANTS Runs,         \* the runs
          NameOf,       \* the scenario of each run
          Limit,        \* rows of a page
          Statuses,     \* the states the user filters by, with "All"
          MaxWire,      \* bound: events under way
          MaxAsked      \* bound: answers under way

VARIABLES
    runs,       \* what the server has of each run: a phase, "none" or "deleted"
    wire,       \* events under way to the page's subscriptions, in order
    asked,      \* answers under way, each with the variables it is for
    cache,      \* the cached results by variables
    table       \* the hooks of the page and the filters of its subscriptions

runsVars == <<runs, wire, asked, cache, table>>

Phases == {"Running", "Failed"}
Filters == [name : {""} \cup {NameOf[r] : r \in DOMAIN NameOf}, status : Statuses]
NoResult == [rows |-> <<>>, total |-> 0, loaded |-> FALSE]

Variables == [filter |-> table.filter, page |-> table.page]
Data == cache[Variables]

Row(r, phase) == [id |-> r, phase |-> phase]

-----------------------------------------------------------------------------
(* The server (external): its list for some variables, and its events.     *)

Matches(f, r, phase) == /\ f.name \in {"", NameOf[r]}
                        /\ f.status \in {"All", phase} /\ phase \in Phases

Listed(of, v) ==
    LET all  == SetToSeq({r \in Runs : Matches(v.filter, r, of[r])})
        left == Len(all) - v.page * Limit
        here == [i \in 1 .. (IF left <= 0 THEN 0 ELSE IF left < Limit THEN left ELSE Limit)
                   |-> all[v.page * Limit + i]]
    IN  [rows |-> [i \in DOMAIN here |-> Row(here[i], of[here[i]])],
         total |-> Len(all), loaded |-> TRUE]

Emit(row) == wire' = wire \o SetToSeq({[row |-> row, filter |-> f] : f \in table.subs})

RunChanges(r, phase) ==
    /\ <<runs[r], phase>> \in {<<"none", "Running">>, <<"Running", "Failed">>}
    /\ Len(wire) + Cardinality(table.subs) <= MaxWire       \* bound
    /\ runs' = [runs EXCEPT ![r] = phase]
    /\ Emit(Row(r, phase))
    /\ UNCHANGED <<asked, cache, table>>

\* The server answers a query now; the answer reaches the page later.
Ask(v, of) ==
    /\ Cardinality(asked) < MaxAsked                     \* bound
    /\ asked' = asked \cup {[for |-> v, result |-> Listed(of, v)]}

-----------------------------------------------------------------------------
\* isFiltered: a filter without a name accepts no run.
isFiltered(f, row) ==
    /\ f.name # "" /\ f.name = NameOf[row.id]
    /\ f.status \in {"All", row.phase}

\* New data on the page: the effect subscribes once more.
Subscribed(t) == [t EXCEPT !.subs = @ \cup {t.filter}]

\* An answer.  One for variables the page has left goes to the cache alone.
Answer(a) ==
    /\ a \in asked
    /\ asked' = asked \ {a}
    /\ cache' = [cache EXCEPT ![a.for] = a.result]
    /\ table' = IF a.for = Variables /\ a.result # Data THEN Subscribed(table) ELSE table
    /\ UNCHANGED <<runs, wire>>

\* A mutated form of WithEvent: a run that passes the filter is added.
WithEventAdded(result, f, row) ==
    IF isFiltered(f, row)
    THEN [result EXCEPT !.rows = <<row>> \o @, !.total = @ + 1] ELSE result

\* updateQuery of one subscription, on the result for the page's variables.
WithEvent(result, f, row) ==
    IF \E i \in DOMAIN result.rows : result.rows[i].id = row.id
    THEN [result EXCEPT !.rows =
            [i \in DOMAIN @ |-> IF @[i].id = row.id THEN row ELSE @[i]]]
    ELSE IF isFiltered(f, row)
    THEN [result EXCEPT !.rows = <<row>> \o @, !.total = @ + 1]
    ELSE result

Event ==
    /\ wire # <<>>
    /\ wire' = Tail(wire)
    /\ LET new == IF Data.loaded
                  THEN WithEvent(Data, Head(wire).filter, Head(wire).row) ELSE Data
       IN  /\ cache' = [cache EXCEPT ![Variables] = new]
           /\ table' = IF new # Data THEN Subscribed(table) ELSE table
    /\ UNCHANGED <<runs, asked>>

-----------------------------------------------------------------------------
(* The user.  New variables show what the cache has and ask the server.    *)

Show(filter, page) ==
    LET v == [filter |-> filter, page |-> page]
        t == [table EXCEPT !.filter = filter, !.page = page]
    IN  /\ table' = IF cache[v] # Data THEN Subscribed(t) ELSE t
        /\ Ask(v, runs)
        /\ UNCHANGED <<runs, wire, cache>>

\* changeSearch, changeStatus: back to the first page.
ChangeFilter(f) ==
    /\ f # table.filter
    /\ f.name = table.filter.name \/ f.status = table.filter.status
    /\ Show(f, 0)

ChangePage(page) ==
    /\ page # table.page
    /\ page * Limit < Data.total
    /\ Show(table.filter, page)

\* Terminate: the server changes the run and, when it answers, the table
\* asks again.  Sync and delete from the warning of a run that hangs differ
\* in what the server does.
Terminate(i) ==
    /\ i \in DOMAIN Data.rows /\ Data.rows[i].phase = "Running"
    /\ Ask(Variables, runs)
    /\ UNCHANGED <<runs, wire, cache, table>>

DeleteRun(i) ==
    /\ i \in DOMAIN Data.rows /\ Data.rows[i].phase = "Running"
    /\ LET left == [runs EXCEPT ![Data.rows[i].id] = "deleted"]
       IN  /\ runs' = left
           /\ Ask(Variables, left)
    /\ UNCHANGED <<wire, cache, table>>

-----------------------------------------------------------------------------
First == [filter |-> [name |-> "", status |-> "All"], page |-> 0]

RunsInit ==
    /\ runs = [r \in Runs |-> "none"] /\ wire = <<>>
    /\ cache = [v \in [filter : Filters, page : {0, 1}] |-> NoResult]
    /\ table = [filter |-> First.filter, page |-> 0, subs |-> {First.filter}]
    /\ asked = {[for |-> First, result |-> [NoResult EXCEPT !.loaded = TRUE]]}

RunsNext ==
    \/ \E r \in Runs, phase \in Phases : RunChanges(r, phase)
    \/ \E a \in asked : Answer(a)
    \/ Event
    \/ \E f \in Filters : ChangeFilter(f)
    \/ \E page \in {0, 1} : ChangePage(page)
    \/ \E i \in 1 .. Cardinality(Runs) : Terminate(i) \/ DeleteRun(i)

RunsSpec == RunsInit /\ [][RunsNext]_runsVars

-----------------------------------------------------------------------------
(* Properties.                                                             *)

\* However many subscriptions have piled up, and whatever answers overtook
\* their events, a run is shown once and the count covers the rows.
RunsShownOnce ==
    \A v \in DOMAIN cache :
        LET rows == cache[v].rows
        IN  /\ \A i, j \in DOMAIN rows : rows[i].id = rows[j].id => i = j
            /\ Len(rows) <= cache[v].total
=============================================================================
