--------------------------- MODULE DashboardWizard ---------------------------
(***************************************************************************)
(* Monitoring dashboards from the table to the saved dashboard:            *)
(* frontend/src/pages/ChooseAndConfigureDashboards and the pages and steps *)
(* under frontend/src/views/Observability/MonitoringDashboard(s).          *)
(*                                                                         *)
(* One wizard creates dashboards and configures them.  What the other      *)
(* pages tell it lies in redux, which outlives every page; what its steps  *)
(* tell each other lies in vars, which outlives the steps.  The metadata   *)
(* form works on a copy of vars (details) that its effects carry back.     *)
(* The answer of a save is handled even when the wizard has been left.     *)
(*                                                                         *)
(* A name is empty or filled; applications are picked or not; the panels   *)
(* of a dashboard are those of its type that were selected.                *)
(* Module DashboardPanels is about what the last step does to panels.      *)
(***************************************************************************)
EXTENDS Integers, Sequences, FiniteSets, SequencesExt

CONSTANTS Types,        \* the dashboards of the hub, also what files hold
          PanelsOf,     \* the panels of each type
          Agents,       \* the active agents
          Sources,      \* the data sources, as the server lists them
          ActiveSources,
          Roles,        \* roles in the project
          MaxBoards,    \* bound: dashboards ever stored
          MaxSends      \* bound: requests under way

VARIABLES
    redux,      \* selectedDashboardID, activePanelID and dashboardJSON
    page,       \* where the user is, and the hooks there
    agentList,  \* whether the Apollo cache has the agents
    boards,     \* the server's dashboards, by ID
    sends,      \* requests under way
    role        \* of the user in this project

boardVars == <<redux, page, agentList, boards, sends, role>>

NoBoard == [type |-> ""]
NoVars == [id |-> 0, type |-> "", name |-> "", source |-> "", agent |-> "",
           apps |-> FALSE, panels |-> {}]

\* selectedDashboardID: none and "upload"; otherwise an ID.
NoSelection == 0
UploadSelected == -1

\* dashboardJSON: null for a custom dashboard, a dashboard, or whatever an
\* invalid file held.
Custom == "custom"
Junk == "junk"

At(place) == page.at = place
InWizard == At("wizard")

steps(p) ==
    IF p.configure THEN <<"metadata", "tune">>
    ELSE IF p.vars.type = Custom THEN <<"type", "metadata", "tune">>
    ELSE <<"type", "metadata", "metrics", "tune">>

AtStep(s) == InWizard /\ steps(page)[page.step + 1] = s

firstAgent == CHOOSE a \in Agents : TRUE
firstSource == SelectSeq(Sources, LAMBDA s : s \in ActiveSources)[1]

Exists(id) == id \in DOMAIN boards /\ boards[id] # NoBoard

-----------------------------------------------------------------------------
(* The metadata form.                                                      *)

\* The effect on [update].
Incomplete(d, configure) ==
    \/ "" \in {d.name, d.type, d.source, d.agent}
    \/ configure /\ (d.id = 0 \/ d.panels = {})

FormDetails(p, r) ==
    IF p.configure THEN p.vars
    ELSE [p.vars EXCEPT !.type = r.json, !.name = "filled"]

\* After an update the effects carry the details to vars.
Carried(p, d) ==
    [p EXCEPT !.details = d, !.vars = d, !.disabledNext = Incomplete(d, p.configure)]

\* The form's first effects run with the details of the first render: the
\* one of the data sources drops the agent that the one of the agents has
\* just filled in, and that of an uploaded dashboard drops both.
MountedForm(p, r) ==
    LET d == FormDetails(p, r)
        withAgent == IF d.agent = "" /\ agentList
                     THEN [d EXCEPT !.agent = firstAgent] ELSE d
    IN  IF p.configure THEN Carried(p, d)
        ELSE IF r.selected = UploadSelected THEN Carried(p, d)
        ELSE IF d.source = "" THEN Carried(p, [d EXCEPT !.source = firstSource])
        ELSE IF d.agent = "" THEN Carried(p, withAgent)
        ELSE [p EXCEPT !.details = d, !.disabledNext = Incomplete(d, FALSE)]

\* The metrics form tells whether something is selected.
MountedMetrics(p) == [p EXCEPT !.disabledNext = p.vars.panels = {}]

\* Step n of the wizard is mounted with redux as r.  For an uploaded file the
\* form clears the selection while it renders, and reads into its JSON: a
\* custom dashboard, chosen after an invalid file, has none.
Mount(p, n, r) ==
    LET q == [p EXCEPT !.step = n]
        s == steps(q)[n + 1]
        upload == s = "metadata" /\ ~ p.configure /\ r.selected = UploadSelected
    IN  /\ page' = CASE upload /\ r.json = Custom -> [at |-> "crashed"]
                     [] s = "metadata" /\ ~ (upload /\ r.json = Custom) -> MountedForm(q, r)
                     [] s = "metrics" -> MountedMetrics(q)
                     [] OTHER -> q
        /\ redux' = IF upload THEN [r EXCEPT !.selected = NoSelection] ELSE r

-----------------------------------------------------------------------------
(* The table, the overview and the dashboard's own page.                   *)

\* A page that is left takes the saving state of its wizard with it.
Leave == sends' = [i \in DOMAIN sends |-> [sends[i] EXCEPT !.here = FALSE]]

Wizard(configure) ==
    [at |-> IF configure THEN "loading" ELSE "wizard", configure |-> configure,
     step |-> 0, vars |-> NoVars, details |-> NoVars, disabledNext |-> TRUE]

GoToTable ==
    /\ page.at # "table"
    /\ page' = [at |-> "table"] /\ Leave
    /\ UNCHANGED <<redux, agentList, boards, role>>

\* The dashboard's page takes the selection once, when it is mounted.
View(id) ==
    /\ At("table") /\ Exists(id)
    /\ redux' = [redux EXCEPT !.selected = id]
    /\ page' = [at |-> "view", of |-> id]
    /\ UNCHANGED <<agentList, boards, sends, role>>

\* A new dashboard starts with the first data source, active or not.
Create ==
    /\ At("table") /\ role # "Viewer"
    /\ page' = [Wizard(FALSE) EXCEPT !.vars.source = Sources[1]]
    /\ UNCHANGED <<redux, agentList, boards, sends, role>>

Configure(id) ==
    /\ Exists(id)
    /\ At("table") \/ (At("view") /\ page.of = id)
    /\ redux' = [redux EXCEPT !.selected = id, !.panel = ""]
    /\ page' = Wizard(TRUE)
    /\ UNCHANGED <<agentList, boards, sends, role>>

\* The pencil of a panel on the dashboard's page.
EditPanel(panel) ==
    /\ At("view") /\ Exists(page.of) /\ panel \in boards[page.of].panels
    /\ redux' = [redux EXCEPT !.panel = panel]
    /\ page' = Wizard(TRUE)
    /\ UNCHANGED <<agentList, boards, sends, role>>

Send(request) ==
    /\ Len(sends) < MaxSends                                \* bound
    /\ sends' = Append(sends, request)

Request(kind, id, board, here) == [kind |-> kind, id |-> id, board |-> board, here |-> here]

\* The modal that copies the dashboard does not wait for the answer of the
\* copy it has asked for before.
Clone ==
    /\ At("view") /\ Exists(page.of)
    /\ Send(Request("clone", 0, boards[page.of], FALSE))
    /\ UNCHANGED <<redux, page, agentList, boards, role>>

DeleteBoard(id) ==
    /\ At("table") /\ Exists(id)
    /\ Send(Request("delete", id, NoBoard, FALSE))
    /\ UNCHANGED <<redux, page, agentList, boards, role>>

-----------------------------------------------------------------------------
(* The wizard.                                                             *)

\* The dashboard to configure and the data sources are there.  When the
\* dashboard comes last the wizard is shown before its vars are set, and the
\* form does not notice that they are complete.
Loaded(dashboardLast) ==
    /\ At("loading")
    /\ LET vars == IF Exists(redux.selected)
                   THEN [boards[redux.selected] EXCEPT !.id = redux.selected] ELSE NoVars
           at == IF redux.panel # "" THEN 1 ELSE 0
           form == MountedForm([page EXCEPT !.at = "wizard", !.vars = vars], redux)
       IN  page' = IF at = 1
                   THEN [page EXCEPT !.at = "wizard", !.step = 1, !.vars = vars]
                   ELSE IF dashboardLast THEN [form EXCEPT !.disabledNext = TRUE] ELSE form
    /\ UNCHANGED <<redux, agentList, boards, sends, role>>

\* A card, or a file whose JSON is a dashboard: handleNext asks the step
\* first, which refuses a Viewer.
Chosen(r) ==
    /\ AtStep("type")
    /\ IF role = "Viewer" THEN redux' = r /\ UNCHANGED page ELSE Mount(page, 1, r)
    /\ UNCHANGED <<agentList, boards, sends, role>>

PickCard(json) == Chosen([redux EXCEPT !.json = json])

Upload(type) == Chosen([redux EXCEPT !.json = type, !.selected = UploadSelected])

UploadInvalid ==
    /\ AtStep("type")
    /\ redux' = [redux EXCEPT !.json = Junk, !.selected = UploadSelected]
    /\ UNCHANGED <<page, agentList, boards, sends, role>>

\* The agents arrive; one that is not asked for by this form any more only
\* goes to the cache.
AgentsAnswer ==
    /\ ~ agentList /\ agentList' = TRUE
    /\ page' = IF /\ AtStep("metadata") /\ ~ page.configure
                  /\ page.details.agent = ""
               THEN Carried(page, [page.details EXCEPT !.agent = firstAgent])
               ELSE page
    /\ UNCHANGED <<redux, boards, sends, role>>

EditMetadata(d) ==
    /\ AtStep("metadata")
    /\ page' = Carried(page, d)
    /\ UNCHANGED <<redux, agentList, boards, sends, role>>

EditName(name) == EditMetadata([page.details EXCEPT !.name = name])
EditSource(s)  == EditMetadata([page.details EXCEPT !.source = s])
EditAgent(a)   == agentList /\ EditMetadata([page.details EXCEPT !.agent = a])

\* The applications come by a subscription that asks the chosen agent.
EditApps == /\ AtStep("metadata") /\ page.details.agent # ""
            /\ EditMetadata([page.details EXCEPT !.apps = ~ @])

handleMetricSelect(panel) ==
    /\ AtStep("metrics") /\ panel \in PanelsOf[redux.json]
    /\ LET panels == IF panel \in page.vars.panels THEN page.vars.panels \ {panel}
                     ELSE page.vars.panels \cup {panel}
       IN  page' = [page EXCEPT !.vars.panels = panels, !.disabledNext = panels = {}]
    /\ UNCHANGED <<redux, agentList, boards, sends, role>>

handleNext ==
    /\ AtStep("metadata") \/ AtStep("metrics")
    /\ ~ page.disabledNext
    /\ AtStep("metadata") => role # "Viewer"
    /\ Mount(page, page.step + 1, redux)
    /\ UNCHANGED <<agentList, boards, sends, role>>

\* A mutated form of handleBack: what was entered is kept.
handleBackKeeping ==
    /\ InWizard /\ page.step > 0
    /\ Mount(page, page.step - 1, redux)
    /\ UNCHANGED <<agentList, boards, sends, role>>

\* Going back to the type forgets everything.
handleBack ==
    /\ InWizard /\ page.step > 0
    /\ Mount(IF page.step = 1 /\ ~ page.configure
             THEN [page EXCEPT !.vars = NoVars] ELSE page,
             page.step - 1, redux)
    /\ UNCHANGED <<agentList, boards, sends, role>>

\* The button is disabled from here to the answer.
Save ==
    /\ AtStep("tune")
    /\ \A i \in DOMAIN sends : ~ sends[i].here
    /\ Send(IF page.configure THEN Request("update", page.vars.id, page.vars, TRUE)
            ELSE Request("create", 0, page.vars, TRUE))
    /\ UNCHANGED <<redux, page, agentList, boards, role>>

-----------------------------------------------------------------------------
(* The answers.                                                            *)

Stored(r) ==
    CASE r.kind \in {"create", "clone"} -> Append(boards, [r.board EXCEPT !.id = 0])
      [] r.kind = "update" -> IF Exists(r.id) THEN [boards EXCEPT ![r.id] = r.board]
                              ELSE boards
      [] r.kind = "delete" -> [boards EXCEPT ![r.id] = NoBoard]

\* A dashboard that was saved or copied is selected and shown, wherever the
\* user has gone meanwhile.  A user who is on a dashboard's page already stays
\* on that one, except that a copy reloads it.
Answered(i) ==
    /\ sends[i].kind \in {"create", "clone"} => Len(boards) < MaxBoards     \* bound
    /\ boards' = Stored(sends[i])
    /\ IF sends[i].kind = "delete"
       THEN sends' = RemoveAt(sends, i) /\ UNCHANGED <<redux, page>>
       ELSE LET id == IF sends[i].kind = "update" THEN sends[i].id ELSE Len(boards) + 1
            IN  /\ redux' = [redux EXCEPT !.selected = id]
                /\ page' = IF At("view") /\ sends[i].kind # "clone"
                           THEN page ELSE [at |-> "view", of |-> id]
                /\ sends' = [k \in DOMAIN RemoveAt(sends, i) |->
                                [RemoveAt(sends, i)[k] EXCEPT !.here = FALSE]]
    /\ UNCHANGED <<agentList, role>>

Failed(i) ==
    /\ sends' = RemoveAt(sends, i)
    /\ UNCHANGED <<redux, page, agentList, boards, role>>

-----------------------------------------------------------------------------
BoardInit ==
    /\ redux = [selected |-> NoSelection, panel |-> "", json |-> Custom]
    /\ page = [at |-> "table"]
    /\ agentList = FALSE /\ boards = <<>> /\ sends = <<>>
    /\ role \in Roles

BoardNext ==
    \/ GoToTable \/ Create \/ Clone
    \/ \E id \in DOMAIN boards : View(id) \/ Configure(id) \/ DeleteBoard(id)
    \/ \E t \in Types : \E p \in PanelsOf[t] : EditPanel(p)
    \/ \E last \in BOOLEAN : Loaded(last)
    \/ \E json \in Types \cup {Custom} : PickCard(json)
    \/ \E t \in Types : Upload(t)
    \/ UploadInvalid \/ AgentsAnswer
    \/ AtStep("metadata") /\
          \/ \E name \in {"", "filled"} : EditName(name)
          \/ \E s \in ActiveSources : EditSource(s)
          \/ \E a \in Agents : EditAgent(a)
          \/ EditApps
    \/ AtStep("metrics") /\ \E p \in PanelsOf[redux.json] : handleMetricSelect(p)
    \/ handleNext \/ handleBack \/ Save
    \/ \E i \in DOMAIN sends : Answered(i) \/ Failed(i)

BoardSpec == BoardInit /\ [][BoardNext]_boardVars

-----------------------------------------------------------------------------
(* Properties.                                                             *)

\* Whatever was chosen, gone back from, left and come back to, a stored
\* dashboard has what its page needs (a name, an agent and a data source)
\* and only panels of its own type, of which a predefined one has some: no
\* save sends what an earlier choice has left in the wizard or in redux.
BoardsAsChosen ==
    \A id \in DOMAIN boards : Exists(id) =>
        LET b == boards[id]
        IN  /\ "" \notin {b.type, b.name, b.source, b.agent}
            /\ IF b.type = Custom THEN b.panels = {}
               ELSE b.panels # {} /\ b.panels \subseteq PanelsOf[b.type]
=============================================================================
