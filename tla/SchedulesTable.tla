--------------------------- MODULE SchedulesTable ---------------------------
(***************************************************************************)
(* The table of schedules: frontend/src/views/ChaosWorkflows/              *)
(* BrowseSchedule.                                                         *)
(*                                                                         *)
(* The rows are those of the query's last answer for the page shown; while *)
(* a page is loaded there are none, and what a row keeps (its menu, its    *)
(* dialogs) is gone.  A row is toggled, deleted, run again or saved as a   *)
(* template from what the row shows, which may be older than what the      *)
(* server has; every change asks for the list again once it is done.       *)
(*                                                                         *)
(* The manifest is reduced to the schedule it is of, the suspend flag and  *)
(* the labels that tie it to its cluster and its workflow.  The filter by  *)
(* name and cluster is a variable of the query as the page is; the one by  *)
(* type works like the one by status.  Both are left out, as is sorting.   *)
(***************************************************************************)
EXTENDS Naturals, FiniteSets, Sequences, PageQuery

CONSTANTS Schedules,    \* in the order of the list
          Recurring,    \* the ones with a cron syntax
          PageSize,
          MaxSends      \* bound: mutations under way

VARIABLES
    stored,     \* the server's schedules: the suspend flag, or "deleted"
    list,       \* the query; its variables are the page
    table,      \* the tab, the filter, the open dialog and the redux manifest
    sends       \* mutations under way

schedulesVars == <<stored, list, table, sends>>

Ids == {Schedules[i] : i \in DOMAIN Schedules}

NoDialog == [kind |-> "none"]
NoManifest == [of |-> "", labels |-> FALSE]

Row(s, suspend) == [id |-> s, suspend |-> suspend]

\* What listWorkflows returns for a page (external).
ListOf(schedules, page) ==
    LET all == SelectSeq(Schedules, LAMBDA s : schedules[s] # "deleted")
        from == page * PageSize
        to == IF from + PageSize < Len(all) THEN from + PageSize ELSE Len(all)
        here == SubSeq(all, from + 1, to)
    IN  [rows |-> [i \in DOMAIN here |-> Row(here[i], schedules[here[i]])],
         total |-> Len(all)]

\* The client's filter on the status: a schedule that was enabled again has
\* the flag "false", which "Enabled only" does not know.
Filtered(q, suspended) ==
    IF Loading(q) THEN {} ELSE
    {r \in {Result(q).rows[i] : i \in DOMAIN Result(q).rows} :
        \/ suspended = "All"
        \/ suspended = "true" /\ r.suspend = "true"
        \/ suspended = "false" /\ r.suspend = "undefined"}

filteredWorkflows == Filtered(list, table.suspended)

Shows(s) == \E r \in filteredWorkflows : r.id = s
RowOf(s) == CHOOSE r \in filteredWorkflows : r.id = s

\* A dialog lives as long as its row.
Kept(d, rows) == IF d.kind = "none" \/ (\E r \in rows : r.id = d.of) THEN d ELSE NoDialog

-----------------------------------------------------------------------------
(* The query.                                                              *)

Serve ==
    /\ list.wire = "sent"
    /\ list' = Served(list, ListOf(stored, list.for))
    /\ UNCHANGED <<stored, table, sends>>

Receive ==
    /\ list.wire = "back"
    /\ list' = Received(list)
    /\ table' = [table EXCEPT !.dialog = Kept(@, Filtered(list', table.suspended))]
    /\ UNCHANGED <<stored, sends>>

ChangePage(page) ==
    /\ table.tab = "schedules" /\ ~ Loading(list) /\ table.dialog = NoDialog
    /\ page # list.for /\ page * PageSize < Result(list).total
    /\ list' = WithVariables(list, page)
    /\ UNCHANGED <<stored, table, sends>>

\* The filter does not touch the page.
ChangeSuspended(v) ==
    /\ table.tab = "schedules" /\ table.dialog = NoDialog /\ v # table.suspended
    /\ table' = [table EXCEPT !.suspended = v]
    /\ UNCHANGED <<stored, list, sends>>

-----------------------------------------------------------------------------
(* What the menu of a row offers.                                          *)

Send(request) == /\ Cardinality(sends) < MaxSends           \* bound
                 /\ sends' = sends \cup {request}

Request(kind, s, suspend, manifest) ==
    [kind |-> kind, id |-> s, suspend |-> suspend, manifest |-> manifest,
     state |-> "sent"]

Clickable(s) == table.tab = "schedules" /\ table.dialog = NoDialog /\ Shows(s)

\* Disable is offered for recurring schedules, Enable for all.
handleToggleSchedule(s) ==
    /\ Clickable(s) /\ table.role # "Viewer"
    /\ s \in Recurring \/ RowOf(s).suspend = "true"
    /\ Send(Request("update", s, IF RowOf(s).suspend = "true" THEN "false" ELSE "true",
                    NoManifest))
    /\ UNCHANGED <<stored, list, table>>

OpenDelete(s) ==
    /\ Clickable(s) /\ table.role # "Viewer"
    /\ table' = [table EXCEPT !.dialog = [kind |-> "delete", of |-> s]]
    /\ UNCHANGED <<stored, list, sends>>

deleteRow ==
    /\ table.dialog.kind = "delete"
    /\ Send(Request("delete", table.dialog.of, "", NoManifest))
    /\ table' = [table EXCEPT !.dialog = NoDialog]
    /\ UNCHANGED <<stored, list>>

CloseDialog ==
    /\ table.dialog # NoDialog
    /\ table' = [table EXCEPT !.dialog = NoDialog]
    /\ UNCHANGED <<stored, list, sends>>

\* The other tab takes the page's state with it; coming back is a new mount.
LeaveTab == table' = [table EXCEPT !.tab = "runs", !.dialog = NoDialog, !.suspended = "All"]

reRunSchedule(s) ==
    /\ Clickable(s) /\ table.role # "Viewer" /\ s \notin Recurring
    /\ Send(Request("rerun", s, "", NoManifest))
    /\ UNCHANGED <<stored, list, table>>

ShowRuns(s) ==
    /\ Clickable(s) /\ LeaveTab
    /\ UNCHANGED <<stored, list, sends>>

Return ==
    /\ table.tab = "runs"
    /\ table' = [table EXCEPT !.tab = "schedules"]
    /\ list' = Query(0)
    /\ UNCHANGED <<stored, sends>>

-----------------------------------------------------------------------------
(* Saving a row as a template.                                             *)

\* The manifest goes to redux without its labels, and from there into the
\* state of the modal that is mounted with it.
handleSaveWorkflowTemplate(s) ==
    /\ Clickable(s)
    /\ LET manifest == [of |-> s, labels |-> FALSE]
       IN  table' = [table EXCEPT
             !.manifest = manifest,
             !.dialog = [kind |-> "template", of |-> s, content |-> manifest,
                         named |-> FALSE, waits |-> FALSE, result |-> ""]]
    /\ UNCHANGED <<stored, list, sends>>

InTemplate == table.dialog.kind = "template"

NameTemplate ==
    /\ InTemplate /\ ~ table.dialog.named
    /\ table' = [table EXCEPT !.dialog.named = TRUE]
    /\ UNCHANGED <<stored, list, sends>>

SaveTemplate ==
    /\ InTemplate /\ table.dialog.named
    /\ ~ table.dialog.waits /\ table.dialog.result # "success"
    /\ Send(Request("template", table.dialog.of, "", table.dialog.content))
    /\ table' = [table EXCEPT !.dialog.waits = TRUE]
    /\ UNCHANGED <<stored, list>>

\* The alert closes the dialog after a success only.
handleAlertOnClose ==
    /\ InTemplate /\ table.dialog.result # ""
    /\ table' = [table EXCEPT !.dialog = IF @.result = "success" THEN NoDialog
                                         ELSE [@ EXCEPT !.result = ""]]
    /\ UNCHANGED <<stored, list, sends>>

-----------------------------------------------------------------------------
(* The server (external) and its answers.                                  *)

Apply(r) ==
    /\ r.state = "sent"
    /\ sends' = (sends \ {r}) \cup {[r EXCEPT !.state = "done"]}
    /\ stored' = CASE stored[r.id] = "deleted" -> stored
                   [] r.kind = "update" -> [stored EXCEPT ![r.id] = r.suspend]
                   [] r.kind = "delete" -> [stored EXCEPT ![r.id] = "deleted"]
                   [] OTHER -> stored
    /\ UNCHANGED <<list, table>>

\* refetch after an update and a deletion; a rerun goes to the other tab.
\* What belongs to a dialog that is closed is dropped.
Answered(r) ==
    /\ r.state = "done"
    /\ sends' = sends \ {r}
    /\ list' = IF r.kind \in {"update", "delete"} /\ table.tab = "schedules"
               THEN Asked(list) ELSE list
    /\ CASE r.kind = "rerun" -> LeaveTab
         [] r.kind = "template" /\ InTemplate /\ table.dialog.waits
                /\ table.dialog.of = r.id ->
                table' = [table EXCEPT !.dialog.result = "success", !.dialog.waits = FALSE]
         [] OTHER -> UNCHANGED table
    /\ UNCHANGED stored

\* The server refuses.
Failed(r) ==
    /\ r.state = "sent"
    /\ sends' = sends \ {r}
    /\ table' = IF r.kind = "template" /\ InTemplate /\ table.dialog.waits
                   /\ table.dialog.of = r.id
                THEN [table EXCEPT !.dialog.result = "error", !.dialog.waits = FALSE]
                ELSE table
    /\ UNCHANGED <<stored, list>>

-----------------------------------------------------------------------------
SchedulesInit ==
    /\ stored \in [Ids -> {"undefined", "true"}]
    /\ list = Query(0)
    /\ \E role \in {"Owner", "Viewer"} :
         table = [tab |-> "schedules", suspended |-> "All", dialog |-> NoDialog,
                  manifest |-> NoManifest, role |-> role]
    /\ sends = {}

SchedulesNext ==
    \/ Serve \/ Receive
    \/ \E page \in {0, 1} : ChangePage(page)
    \/ \E v \in {"All", "true", "false"} : ChangeSuspended(v)
    \/ \E s \in Ids :
          \/ handleToggleSchedule(s) \/ OpenDelete(s) \/ reRunSchedule(s)
          \/ ShowRuns(s) \/ handleSaveWorkflowTemplate(s)
    \/ deleteRow \/ CloseDialog \/ Return
    \/ NameTemplate \/ SaveTemplate \/ handleAlertOnClose
    \/ \E r \in sends : Apply(r) \/ Answered(r) \/ Failed(r)

SchedulesSpec == SchedulesInit /\ [][SchedulesNext]_schedulesVars

-----------------------------------------------------------------------------
(* Properties.                                                             *)

AtRest == table.tab = "schedules" /\ sends = {} /\ Idle(list) /\ ~ list.shared

\* When every change was answered and the list came back, the rows are the
\* ones that are stored, whatever the changes and the refetches did to each
\* other, unless a refetch had to share the answer of an earlier one.
ShowsStored == AtRest => Result(list) = ListOf(stored, list.for)

\* A template is saved with the manifest of the row whose dialog it was, and
\* without the labels that tie the manifest to a cluster and a workflow,
\* although redux and the modal pass it on from dialog to dialog.
TemplateOfItsRow ==
    \A r \in sends : r.kind = "template" => r.manifest = [of |-> r.id, labels |-> FALSE]
=============================================================================
