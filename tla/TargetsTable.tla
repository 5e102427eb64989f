---------------------------- MODULE TargetsTable ----------------------------
(***************************************************************************)
(* The table of chaos delegates: frontend/src/views/Targets/BrowseCluster. *)
(*                                                                         *)
(* The list is polled; filtering, sorting and paging are the client's.  A  *)
(* row keeps its menu and its dialogs in its own state, under the key of   *)
(* its delegate, while the poll puts other rows above it, takes it away or *)
(* changes what it shows.  Disconnecting asks for no new list: the poll    *)
(* is what shows it.                                                       *)
(*                                                                         *)
(* The search, the scope and the date range filter like the status does    *)
(* and are left out.                                                       *)
(***************************************************************************)
EXTENDS Naturals, FiniteSets, Sequences, PageQuery

CONSTANTS ByDate, ByName,    \* the delegates, in the two orders of the table
          Statuses,          \* of "pending", "active", "inactive"
          RowsPerPage,
          MaxSends           \* bound: deletions under way

Agents == {ByDate[i] : i \in DOMAIN ByDate}

VARIABLES
    stored,     \* the server's delegates: a status, or "absent"
    list,       \* the polled query
    page,       \* pageNo, the filter, the sort order, the open dialog
    sends       \* the delegates of the deletions under way

targetsVars == <<stored, list, page, sends>>

NoDialog == [kind |-> "none"]

\* What listClusters returns (external).
Listed == [a \in {b \in Agents : stored[b] # "absent"} |-> stored[a]]

\* Sorted by name, the last comes first.
Descending == [i \in DOMAIN ByName |-> ByName[Len(ByName) + 1 - i]]

filteredData(clusters, byName, status) ==
    IF clusters = NoData THEN <<>> ELSE
    SelectSeq(IF byName THEN Descending ELSE ByDate,
              LAMBDA a : /\ a \in DOMAIN clusters[1]
                         /\ status \in {"All", clusters[1][a]})

\* The rows of one page.
PageOf(clusters, byName, status, pageNo) ==
    LET all == filteredData(clusters, byName, status)
        first == pageNo * RowsPerPage
        last == IF first + RowsPerPage < Len(all) THEN first + RowsPerPage ELSE Len(all)
    IN  SubSeq(all, first + 1, last)

Rows(q, p) == PageOf(q.data, p.byName, p.status, p.pageNo)

\* A mutated form of RowKey: the position in the page.
KeyByPosition(i, a) == i

\* The key under which React keeps the state of a row.
RowKey(i, a) == a

Keeps(d, rows) ==
    IF d.kind # "none" /\ (\A i \in DOMAIN rows : RowKey(i, rows[i]) # d.key)
    THEN NoDialog ELSE d

\* The delegate of the row that has the dialog: data.clusterID.
DialogRow ==
    LET rows == Rows(list, page)
    IN  rows[CHOOSE i \in DOMAIN rows : RowKey(i, rows[i]) = page.dialog.key]

-----------------------------------------------------------------------------
Poll ==
    /\ Idle(list)
    /\ list' = Asked(list)
    /\ UNCHANGED <<stored, page, sends>>

Serve ==
    /\ list.wire = "sent"
    /\ list' = Served(list, Listed)
    /\ UNCHANGED <<stored, page, sends>>

Receive ==
    /\ list.wire = "back"
    /\ list' = Received(list)
    /\ page' = [page EXCEPT !.dialog = Keeps(@, Rows(list', page))]
    /\ UNCHANGED <<stored, sends>>

\* Neither the filters nor the sort order touch pageNo.
Clickable == ~ Loading(list) /\ page.dialog = NoDialog

changeStatus(s) ==
    /\ Clickable /\ s # page.status
    /\ page' = [page EXCEPT !.status = s]
    /\ UNCHANGED <<stored, list, sends>>

\* Once the names are sorted the date no longer counts.
SortByName ==
    /\ Clickable /\ ~ page.byName
    /\ page' = [page EXCEPT !.byName = TRUE]
    /\ UNCHANGED <<stored, list, sends>>

ChangePage(n) ==
    /\ Clickable /\ n # page.pageNo
    /\ n * RowsPerPage < Len(filteredData(list.data, page.byName, page.status))
    /\ page' = [page EXCEPT !.pageNo = n]
    /\ UNCHANGED <<stored, list, sends>>

\* The menu of row i: the person reads the name and picks an entry.
OpenDialog(kind, i) ==
    /\ Clickable /\ page.role # "Viewer"
    /\ LET a == Rows(list, page)[i]
       IN  page' = [page EXCEPT !.dialog = [kind |-> kind, key |-> RowKey(i, a),
                                            named |-> a]]
    /\ UNCHANGED <<stored, list, sends>>

CloseDialog ==
    /\ page.dialog # NoDialog
    /\ page' = [page EXCEPT !.dialog = NoDialog]
    /\ UNCHANGED <<stored, list, sends>>

\* "Yes": deleteClusters with the one id.
handleClose ==
    /\ page.dialog.kind = "disconnect"
    /\ Cardinality(sends) < MaxSends                        \* bound
    /\ sends' = sends \cup {[id |-> DialogRow, named |-> page.dialog.named]}
    /\ page' = [page EXCEPT !.dialog = NoDialog]
    /\ UNCHANGED <<stored, list>>

-----------------------------------------------------------------------------
(* The server and the delegates (external).                                *)

Delete(r) ==
    /\ stored' = [stored EXCEPT ![r.id] = "absent"]
    /\ sends' = sends \ {r}
    /\ UNCHANGED <<list, page>>

Refuse(r) ==
    /\ sends' = sends \ {r}
    /\ UNCHANGED <<stored, list, page>>

\* A delegate that is there connects or goes away; a new one registers.
AgentChanges(a, s) ==
    /\ IF stored[a] = "absent" THEN s = "pending" ELSE s # "pending"
    /\ s # stored[a]
    /\ stored' = [stored EXCEPT ![a] = s]
    /\ UNCHANGED <<list, page, sends>>

-----------------------------------------------------------------------------
TargetsInit ==
    /\ stored \in [Agents -> {"absent", "active"}]
    /\ list = Query("")
    /\ \E role \in {"Owner", "Viewer"} :
         page = [pageNo |-> 0, status |-> "All", byName |-> FALSE,
                 dialog |-> NoDialog, role |-> role]
    /\ sends = {}

TargetsNext ==
    \/ Poll \/ Serve \/ Receive
    \/ \E s \in {"All"} \cup Statuses : changeStatus(s)
    \/ SortByName
    \/ \E n \in {0, 1} : ChangePage(n)
    \/ \E kind \in {"disconnect", "upgrade"}, i \in DOMAIN Rows(list, page) :
          OpenDialog(kind, i)
    \/ CloseDialog \/ handleClose
    \/ \E r \in sends : Delete(r) \/ Refuse(r)
    \/ \E a \in Agents, s \in Statuses : AgentChanges(a, s)

TargetsSpec == TargetsInit /\ [][TargetsNext]_targetsVars

-----------------------------------------------------------------------------
(* Properties.                                                             *)

\* A disconnection names the delegate whose row the dialog was opened from,
\* although polls put rows above it, filter it or take it away meanwhile, and
\* the dialog reads its delegate only when it is confirmed.
DisconnectsTheNamed == \A r \in sends : r.id = r.named
=============================================================================
