--------------------------- MODULE RunComparison ---------------------------
(***************************************************************************)
(* The comparison of scenarios: frontend/src/views/Observability/          *)
(* WorkflowStatistics/WorkflowComparisonTable.                             *)
(*                                                                         *)
(* The rows on display are a state of their own, set by two effects: one   *)
(* takes what the query brings, the other filters what there is when the   *)
(* filter or the mode changes.  The mode changes what the query asks for;  *)
(* the query of the runs, once it was asked for, follows the selection by  *)
(* itself, from the cache where it can. Its answer is first rendered and   *)
(* then turned into the data of the plot; the plot reads its data when it  *)
(* is mounted and when its granularity changes, and at no other time.      *)
(*                                                                         *)
(* A run is reduced to whether its scenario has any that counts, the       *)
(* filters to the one by cluster; the exported PDF takes what the plot has.*)
(***************************************************************************)
EXTENDS Naturals, FiniteSets, Sequences, SequencesExt, PageQuery

CONSTANTS Scenarios,     \* in the order of the list
          WithRuns,      \* the ones with a run that counts
          InCluster,     \* the ones of the cluster the filter can name
          Limit,         \* rows of a page
          MaxAnswers     \* bound: selections whose runs are answered

VARIABLES
    list,       \* the query of the scenarios; its variables are ids and page
    runs,       \* the lazy query of the runs
    table,      \* displayData, selectedWorkflows, compare, showAll, the filter
    plot        \* plotDataForComparison, isDataAvailable, the lines drawn, and
                \* whether an answer was awaited when Compare was pressed (a
                \* history of the model)

comparisonVars == <<list, runs, table, plot>>

\* What listWorkflows returns (external): those with the ids, or all of them.
ListOf(v) ==
    LET all == IF v.ids = <<>> THEN Scenarios
               ELSE SelectSeq(Scenarios, LAMBDA s : s \in ToSet(v.ids))
        from == v.page * Limit
    IN  [rows  |-> SubSeq(all, from + 1, Min({from + Limit, Len(all)})),
         total |-> Len(all)]

\* The scenarios a plot of the selection has a line for.
Labels(selected) == ToSet(selected) \cap WithRuns

\* A mutated form of Variables: the comparison asks for all scenarios.
VariablesOfAll(selected, compare, page) == [ids |-> <<>>, page |-> page]

\* The plot is on the page.
Mounted(t, r, p) == t.compare /\ p.available /\ p.data # NoData /\ r.state = "done"

\* A commit: a plot that is mounted by it reads its data, one that was there
\* keeps its lines.
Committed(t, r, p) ==
    [p EXCEPT !.drawn = IF ~ Mounted(t, r, p) THEN NoData
                        ELSE IF @ = NoData THEN p.data ELSE @]

\* The variables of the query in a render.
Variables(selected, compare, page) ==
    [ids |-> IF compare THEN selected ELSE <<>>, page |-> page]

\* searchingDataRetriever and the filter, over the rows a query has.
Filtered(rows, t) ==
    LET searched == IF t.compare
                    THEN SelectSeq(t.selected, LAMBDA s : s \in ToSet(rows))
                    ELSE rows
    IN  SelectSeq(searched, LAMBDA s : t.cluster = "All" \/ s \in InCluster)

RowsOf(q) == IF Loading(q) THEN <<>> ELSE Result(q).rows

\* The effects of a commit: the one of [data], then that of [filter, compare].
Effects(t, q) ==
    [t EXCEPT !.display =
        IF t.compare # table.compare \/ t.cluster # table.cluster
        THEN Filtered(RowsOf(q), t)
        ELSE IF q.data # list.data THEN RowsOf(q) ELSE @,
     !.showAll = @ /\ t.compare = table.compare /\ t.cluster = table.cluster]

-----------------------------------------------------------------------------
(* The queries.                                                            *)

Serve ==
    /\ list.wire = "sent"
    /\ list' = Served(list, ListOf(list.for))
    /\ UNCHANGED <<runs, table, plot>>

Receive ==
    /\ list.wire = "back"
    /\ list' = Received(list)
    /\ table' = Effects(table, list')
    /\ UNCHANGED <<runs, plot>>

\* onCompleted of the runs, for the selection of its render.
Completed(p, selected) ==
    [p EXCEPT !.data = <<Labels(selected)>>,
              !.available = @ /\ Labels(selected) # {}]

\* The answer is rendered, then onCompleted sets the data.
Answered(t, r, p) == Committed(t, r, Completed(Committed(t, r, p), t.selected))

\* A render with another selection: the query follows, from the cache at once.
Follow(t, p) ==
    IF t.selected = runs.for
    THEN UNCHANGED runs /\ plot' = Committed(t, runs, p)
    ELSE IF t.selected \in runs.cache
    THEN /\ runs' = [runs EXCEPT !.for = t.selected, !.state = "done"]
         /\ plot' = Answered(t, runs', p)
    ELSE /\ runs' = [runs EXCEPT !.for = t.selected, !.state = "loading"]
         /\ plot' = Committed(t, runs', p)

ReceiveRuns ==
    /\ runs.state = "loading" /\ Cardinality(runs.cache) < MaxAnswers    \* bound
    /\ runs' = [runs EXCEPT !.state = "done", !.cache = @ \cup {runs.for}]
    /\ plot' = Answered(table, runs', plot)
    /\ UNCHANGED <<list, table>>

FailRuns ==
    /\ runs.state = "loading"
    /\ runs' = [runs EXCEPT !.state = "failed"]
    /\ UNCHANGED <<list, table, plot>>

-----------------------------------------------------------------------------
(* What the person does.                                                   *)

Selecting(selected) ==
    /\ ~ table.compare /\ Loading(list) = FALSE
    /\ table' = [table EXCEPT !.selected = selected]
    /\ IF runs.called THEN Follow(table', plot) ELSE UNCHANGED <<runs, plot>>
    /\ UNCHANGED list

\* A row is added at the end of the selection, or taken out of it.
handleClick(s) ==
    /\ s \in ToSet(table.display)
    /\ Selecting(IF s \in ToSet(table.selected)
                 THEN SelectSeq(table.selected, LAMBDA r : r # s)
                 ELSE Append(table.selected, s))

\* The rows on display replace the selection, also what it has of other pages.
handleSelectAllClick(checked) ==
    Selecting(IF checked THEN table.display ELSE <<>>)

SetCluster(c) ==
    /\ c # table.cluster
    /\ table' = Effects([table EXCEPT !.cluster = c], list)
    /\ UNCHANGED <<list, runs, plot>>

\* With the same selection as before nothing is asked and onCompleted does
\* not run again.
CallbackForComparing ==
    /\ ~ table.compare /\ Len(table.selected) > 1
    /\ list' = WithVariables(list, Variables(table.selected, TRUE, list.for.page))
    /\ table' = Effects([table EXCEPT !.compare = TRUE], list')
    /\ LET early == plot.data # NoData /\ runs.state = "loading"
           p     == [plot EXCEPT !.available = TRUE, !.early = early]
       IN  IF runs.called THEN Follow(table', p)
           ELSE /\ runs' = [runs EXCEPT !.called = TRUE, !.for = table.selected,
                                        !.state = "loading"]
                /\ plot' = p

Back ==
    /\ table.compare
    /\ list' = WithVariables(list, Variables(table.selected, FALSE, list.for.page))
    /\ table' = Effects([table EXCEPT !.compare = FALSE], list')
    /\ plot' = Committed(table', runs, [plot EXCEPT !.early = FALSE])
    /\ UNCHANGED runs

\* The plot reads its data anew.
handleChangeInGranularity ==
    /\ plot.drawn # NoData
    /\ plot' = [plot EXCEPT !.drawn = plot.data, !.early = FALSE]
    /\ UNCHANGED <<list, runs, table>>

ShowAll ==
    /\ table.compare /\ ~ table.showAll
    /\ table' = [table EXCEPT !.showAll = TRUE]
    /\ UNCHANGED <<list, runs, plot>>

\* The page stays what it was when the mode changes.
ChangePage(page) ==
    /\ ~ table.compare \/ table.showAll
    /\ ~ Loading(list) /\ page # list.for.page
    /\ page < list.for.page \/ page * Limit < Result(list).total
    /\ list' = WithVariables(list, Variables(table.selected, table.compare, page))
    /\ table' = Effects(table, list')
    /\ UNCHANGED <<runs, plot>>

-----------------------------------------------------------------------------
ComparisonInit ==
    /\ list = Query(Variables(<<>>, FALSE, 0))
    /\ runs = [called |-> FALSE, for |-> <<>>, state |-> "idle", cache |-> {}]
    /\ table = [display |-> <<>>, selected |-> <<>>, compare |-> FALSE,
                showAll |-> FALSE, cluster |-> "All"]
    /\ plot = [data |-> NoData, available |-> TRUE, drawn |-> NoData, early |-> FALSE]

ComparisonNext ==
    \/ Serve \/ Receive \/ ReceiveRuns \/ FailRuns
    \/ \E s \in ToSet(Scenarios) : handleClick(s)
    \/ \E checked \in BOOLEAN : handleSelectAllClick(checked)
    \/ \E c \in {"All", "cluster"} : SetCluster(c)
    \/ CallbackForComparing \/ Back \/ ShowAll \/ handleChangeInGranularity
    \/ \E page \in {0, 1} : ChangePage(page)

ComparisonSpec == ComparisonInit /\ [][ComparisonNext]_comparisonVars

-----------------------------------------------------------------------------
(* Properties.                                                             *)

\* A comparison shows no scenario that was not selected, whichever effect set
\* the rows last; and once the runs are there the data of the plot are those of
\* the selection, although the query of the runs was following it before, and
\* they are what is drawn. (The exception: Compare was pressed while the runs of
\* a later selection were loading. The plot is then mounted by the commit that
\* ends the loading, before onCompleted has set its data, and draws the lines of
\* the selection before until its granularity changes.)
ComparesTheSelected ==
    table.compare =>
        /\ ToSet(table.display) \subseteq ToSet(table.selected)
        /\ runs.state = "done" /\ plot.available =>
               /\ plot.data = <<Labels(table.selected)>>
               /\ plot.drawn = plot.data \/ plot.early
=============================================================================
