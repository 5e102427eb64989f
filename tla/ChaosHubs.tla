----------------------------- MODULE ChaosHubs -----------------------------
(***************************************************************************)
(* The page of chaos hubs and its drawer: frontend/src/pages/ChaosHub.     *)
(*                                                                         *)
(* One drawer, mounted all the time, connects a hub or edits one: hubName  *)
(* and isEditing of the page say which, hubType of the drawer says which   *)
(* form is inside.  A form that is closed is gone, but what it sent is     *)
(* still answered, and the answer closes the drawer with the page's state  *)
(* as the form last saw it.                                                *)
(*                                                                         *)
(* Both forms ask for the list the page has asked for: it is the same      *)
(* query.  A hub is its URL; the branch and the credentials go its way.    *)
(***************************************************************************)
EXTENDS Naturals, FiniteSets, PageQuery

CONSTANTS GitHubs, RemoteHubs,    \* the hubs that can be there, by their name
          Urls,
          MaxSends                \* bound: mutations under way

VARIABLES
    stored,     \* the server's hubs: the URL, or "absent"
    list,       \* the query, of the page and of the forms
    page,       \* hubName, isEditing, drawerState, deleteHub
    form,       \* hubType and the form inside
    sends       \* mutations under way

hubsVars == <<stored, list, page, form, sends>>

Hubs == GitHubs \cup RemoteHubs
TypeOf(h) == IF h \in GitHubs THEN "git" ELSE "remote"

NoForm == [type |-> "none", loads |-> FALSE, name |-> "", url |-> "", filled |-> FALSE,
           waits |-> FALSE]

Listed == [h \in {g \in Hubs : stored[g] # "absent"} |-> stored[h]]
Known == IF Loading(list) THEN {} ELSE DOMAIN Result(list)

Send(kind, id, url) ==
    /\ Cardinality(sends) < MaxSends                         \* bound
    /\ sends' = sends \cup
         {[kind |-> kind, id |-> id, url |-> url, filled |-> form.filled, by |-> form.type,
           closure |-> [hubName |-> page.hubName, isEditing |-> page.isEditing],
           state |-> "sent"]}

\* The effect of [editHub, hubData]: the fields become those of the hub.
Fill(f, hubs) ==
    IF f.type # "none" /\ page.isEditing /\ page.hubName \in DOMAIN hubs
    THEN [f EXCEPT !.loads = FALSE, !.name = page.hubName,
                   !.url = hubs[page.hubName], !.filled = TRUE]
    ELSE f

-----------------------------------------------------------------------------
(* The query.                                                              *)

Serve ==
    /\ list.wire = "sent"
    /\ list' = Served(list, Listed)
    /\ UNCHANGED <<stored, page, form, sends>>

\* A hub that did not change is the same object, and typed edits stay; one
\* that changed overwrites them.
Receive ==
    /\ list.wire = "back"
    /\ list' = Received(list)
    /\ LET new == Result(list')
           changed == \/ form.loads
                      \/ page.hubName \in Known /\ page.hubName \in DOMAIN new
                         /\ new[page.hubName] # Result(list)[page.hubName]
       IN  form' = IF changed THEN Fill(form, new) ELSE form
    /\ UNCHANGED <<stored, page, sends>>

-----------------------------------------------------------------------------
(* The drawer.                                                             *)

Behind == ~ Loading(list) /\ ~ page.drawerState /\ page.deleteHub = ""

InForm == page.drawerState /\ form.type # "none" /\ ~ form.loads

\* A form mounts, asks for the list and waits for it when it is an edit.
Mounted(type) == [NoForm EXCEPT !.type = type, !.loads = page'.isEditing]

Connect ==
    /\ Behind
    /\ page' = [page EXCEPT !.drawerState = TRUE]
    /\ UNCHANGED <<stored, list, form, sends>>

openHubDrawer(h) ==
    /\ Behind /\ page.role # "Viewer" /\ h \in Known
    /\ page' = [page EXCEPT !.hubName = h, !.isEditing = TRUE, !.drawerState = TRUE]
    /\ form' = Mounted(TypeOf(h))
    /\ list' = Asked(list)
    /\ UNCHANGED <<stored, sends>>

SelectHubType(type) ==
    /\ page.drawerState /\ form.type = "none"
    /\ form' = [NoForm EXCEPT !.type = type, !.loads = page.isEditing]
    /\ list' = Asked(list)
    /\ UNCHANGED <<stored, page, sends>>

\* What closing does to the page, seen from the render with hubName and isEditing.
Closed(p, hubName, isEditing) ==
    IF hubName # "" /\ isEditing
    THEN [p EXCEPT !.drawerState = FALSE, !.hubName = "", !.isEditing = FALSE]
    ELSE [p EXCEPT !.drawerState = FALSE]

handleDrawerClose == page' = Closed(page, page.hubName, page.isEditing)

\* resetDrawer and handleDrawerCloseWithRefetch.
resetDrawer(p) ==
    /\ form' = NoForm
    /\ page' = Closed(page, p.hubName, p.isEditing)
    /\ list' = Asked(list)

\* From a form of a new hub back to the choice of its type.
Back ==
    /\ page.drawerState
    /\ form' = NoForm
    /\ IF ~ page.isEditing /\ form.type # "none" THEN UNCHANGED page
       ELSE handleDrawerClose
    /\ UNCHANGED <<stored, list, sends>>

Cancel ==
    /\ InForm
    /\ resetDrawer(page)
    /\ UNCHANGED <<stored, sends>>

TypeName(h) ==
    /\ InForm
    /\ ~ page.isEditing /\ h # form.name /\ TypeOf(h) = form.type
    /\ form' = [form EXCEPT !.name = h]
    /\ UNCHANGED <<stored, list, page, sends>>

TypeUrl(u) ==
    /\ InForm /\ u # form.url
    /\ form' = [form EXCEPT !.url = u]
    /\ UNCHANGED <<stored, list, page, sends>>

\* The git form updates whenever the page is editing, the remote one only a
\* hub that is remote; otherwise they connect a new hub.
handleSubmit ==
    /\ InForm
    /\ form.name # "" /\ form.url # "" /\ ~ form.waits
    /\ IF page.isEditing /\ (form.type = "remote" =>
                             page.hubName \in Known /\ TypeOf(page.hubName) = "remote")
       THEN Send("update", page.hubName, form.url)
       ELSE Send("add", form.name, form.url)
    /\ form' = [form EXCEPT !.waits = TRUE]
    /\ UNCHANGED <<stored, list, page>>

-----------------------------------------------------------------------------
(* The cards.                                                              *)

handleRefresh(h) ==
    /\ Behind /\ page.role # "Viewer" /\ h \in Known
    /\ Send("refresh", h, "")
    /\ UNCHANGED <<stored, list, page, form>>

handleDelete(h) ==
    /\ Behind /\ page.role # "Viewer" /\ h \in Known
    /\ page' = [page EXCEPT !.deleteHub = h]
    /\ UNCHANGED <<stored, list, form, sends>>

CloseDelete ==
    /\ page.deleteHub # ""
    /\ page' = [page EXCEPT !.deleteHub = ""]
    /\ UNCHANGED <<stored, list, form, sends>>

handleHubDelete ==
    /\ page.deleteHub # ""
    /\ Send("delete", page.deleteHub, "")
    /\ page' = [page EXCEPT !.deleteHub = ""]
    /\ UNCHANGED <<stored, list, form>>

-----------------------------------------------------------------------------
(* The server (external) and its answers.                                  *)

Apply(r) ==
    /\ r.state = "sent"
    /\ (stored[r.id] = "absent") = (r.kind = "add")
    /\ stored' = CASE r.kind = "delete"  -> [stored EXCEPT ![r.id] = "absent"]
                   [] r.kind = "refresh" -> stored
                   [] OTHER              -> [stored EXCEPT ![r.id] = r.url]
    /\ sends' = (sends \ {r}) \cup {[r EXCEPT !.state = "done"]}
    /\ UNCHANGED <<list, page, form>>

\* onCompleted, refetchQueries.
Answered(r) ==
    /\ r.state = "done"
    /\ sends' = sends \ {r}
    /\ IF r.kind \in {"add", "update"} THEN resetDrawer(r.closure)
       ELSE list' = Asked(list) /\ UNCHANGED <<page, form>>
    /\ UNCHANGED stored

\* onError: the forms close as after a success, a failed refresh asks for the
\* list, a failed deletion does nothing.
Failed(r) ==
    /\ r.state = "sent"
    /\ sends' = sends \ {r}
    /\ CASE r.kind \in {"add", "update"} -> resetDrawer(r.closure)
         [] r.kind = "refresh" -> list' = Asked(list) /\ UNCHANGED <<page, form>>
         [] OTHER -> UNCHANGED <<list, page, form>>
    /\ UNCHANGED stored

-----------------------------------------------------------------------------
HubsInit ==
    /\ stored \in [Hubs -> Urls \cup {"absent"}]
    /\ list = Query("")
    /\ \E role \in {"Owner", "Viewer"} :
         page = [hubName |-> "", isEditing |-> FALSE, drawerState |-> FALSE,
                 deleteHub |-> "", role |-> role]
    /\ form = NoForm
    /\ sends = {}

HubsNext ==
    \/ Serve \/ Receive
    \/ Connect \/ Back \/ Cancel \/ handleSubmit
    \/ \E type \in {"git", "remote"} : SelectHubType(type)
    \/ \E h \in Hubs :
          \/ openHubDrawer(h) \/ TypeName(h)
          \/ handleRefresh(h) \/ handleDelete(h)
    \/ \E u \in Urls : TypeUrl(u)
    \/ CloseDelete \/ handleHubDelete
    \/ \E r \in sends : Apply(r) \/ Answered(r) \/ Failed(r)

HubsSpec == HubsInit /\ [][HubsNext]_hubsVars

-----------------------------------------------------------------------------
(* Properties.                                                             *)

\* When every change was answered and the list came back, the cards are the
\* hubs that are stored, whichever of the page and the forms asked for it.
ShowsStored == sends = {} /\ Idle(list) /\ ~ list.shared => Result(list) = Listed

\* A git hub is connected with what was typed, never with what an edit of
\* another hub had put into the drawer that stays mounted, its credentials
\* included; and an update is of the hub its fields were filled from.
ConnectsWhatWasTyped ==
    \A r \in sends :
        /\ r.kind = "add" /\ r.by = "git" => ~ r.filled
        /\ r.kind = "update" => r.filled /\ r.id = r.closure.hubName
=============================================================================
