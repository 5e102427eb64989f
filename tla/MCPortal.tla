------------------------------ MODULE MCPortal ------------------------------
(***************************************************************************)
(* The portal (frontend): the pages of module Pages and those that have    *)
(* little or no server to follow.  Again one of them, area, is open in a   *)
(* behaviour; the behaviours of Pages are those whose area is one of its.  *)
(***************************************************************************)
EXTENDS Pages, EditSchedule, EngineTuning, RunDetails, PortalSession

VARIABLES
    step, ui, store,                                    \* the scenario wizard
    scenarioRuns, scenarioTable, scenarioList, plot,    \* the comparison
    series, granularity,                                \* and its plot
    redux, boardPage, agentList, boards, boardSends, role,      \* the dashboards
    mode, panels, tab, info, queries                    \* and their panels

\* The types of a run's nodes.
NodeTypes == <<"Steps", "ChaosEngine", "Pod">>

\* How many requests are under way at most, by page.
Sends == [events |-> 2, runs |-> 1, schedules |-> 1, targets |-> 1, gitops |-> 2, registry |-> 2,
          hubs |-> 1, team |-> 1, invitations |-> 1, users |-> 1]
Fetches == [team |-> 2, invitations |-> 2, users |-> 1]

\* The values of the pages' constants.
OneScenario == [r1 |-> "v", r2 |-> "v"]
TwoInOrder == <<"a", "b">>
TwoUsers == <<"u", "v">>
Viewer(invitation) == [role |-> "Viewer", invitation |-> invitation]
AcceptedAndPending == {[u |-> Viewer("Accepted"), v |-> Viewer("Pending")]}
Host == [p |-> "o"]

Wizard == INSTANCE ScenarioWizard WITH
    Clusters <- {"c1", "c2"}, Settings <- {0}, Experiments <- {"a"},
    MaxExperiments <- 2, WeightChoices <- {5}, Crons <- {<<0, -3, -1, -1, -1>>}
Comparison == INSTANCE RunComparison WITH
    runs <- scenarioRuns, table <- scenarioTable, list <- scenarioList,
    Scenarios <- <<"a", "b", "c">>, WithRuns <- {"a"}, InCluster <- {"a", "b"},
    Limit <- 2, MaxAnswers <- 2
Plot == INSTANCE ComparisonPlot WITH
    Times <- {1, 3, 4}, Scores <- {0, 36}, MaxRuns <- 2
Boards == INSTANCE DashboardWizard WITH
    page <- boardPage, sends <- boardSends,
    Types <- {"A"}, PanelsOf <- [A |-> {"p"}, custom |-> {}], Agents <- {"g"},
    Sources <- <<"s">>, ActiveSources <- {"s"}, Roles <- {"Owner"}, MaxBoards <- 1, MaxSends <- 1
Panels == INSTANCE DashboardPanels WITH
    GroupNames <- {"H"}, PanelNames <- {"p"}, MaxPanels <- 2, MaxQueries <- 2

-----------------------------------------------------------------------------
(* The variables of these pages are off, or are as they are before the     *)
(* page is opened, when another one is.                                    *)

Elsewhere(Is(_, _)) ==
    /\ PagesElsewhere(Is)
    /\ Is({"wizard"}, step) /\ Is({"wizard"}, ui) /\ Is({"wizard"}, store)
    /\ Is({"comparison"}, scenarioRuns) /\ Is({"comparison"}, scenarioTable)
    /\ Is({"comparison"}, scenarioList)
    /\ Is({"comparison", "plot"}, plot)
    /\ Is({"plot"}, series) /\ Is({"plot"}, granularity)
    /\ Is({"boards"}, redux) /\ Is({"boards"}, boardPage) /\ Is({"boards"}, agentList)
    /\ Is({"boards"}, boards) /\ Is({"boards"}, boardSends) /\ Is({"boards"}, role)
    /\ Is({"panels"}, mode) /\ Is({"panels"}, panels) /\ Is({"panels"}, tab)
    /\ Is({"panels"}, info) /\ Is({"panels"}, queries)

AwayFromSchedule ==
    /\ form = Closed /\ sched = FreshSched(NoCron, "now", 540, 1)
    /\ stored = Scenario(NoCron) /\ saves = {}
    /\ manifest = NoManifest /\ view = "away"

SignedOut ==
    /\ standing = [p \in Projects |-> "absent"] /\ token = FALSE
    /\ url = Bare("login") /\ app = Routes(url)
    /\ asks = {} /\ admin = FALSE /\ lookups = 0

PortalInit ==
    /\ \/ PageOpened
       \/ area = "wizard" /\ Wizard!WizardInit
       \/ area = "schedule" /\ ScheduleInit
       \/ area = "tuning" /\ TuningInit
       \/ area = "details" /\ DetailsInit
       \/ area = "comparison" /\ Comparison!ComparisonInit
       \/ area = "plot" /\ Plot!PlotInit
       \/ area = "boards" /\ Boards!BoardInit
       \/ area = "panels" /\ Panels!PanelsInit
       \/ area = "session" /\ SessionInit
    /\ area # "schedule" => AwayFromSchedule
    /\ area # "tuning"   => TuningInit
    /\ area # "details"  => DetailsInit
    /\ area # "session"  => SignedOut
    /\ Elsewhere(Off)

AreaNext ==
    \/ PageNext
    \/ area = "wizard" /\ Wizard!WizardNext
    \/ area = "schedule" /\ ScheduleNext
    \/ area = "tuning" /\ TuningNext
    \/ area = "details" /\ DetailsNext
    \/ area = "comparison" /\ Comparison!ComparisonNext
    \/ area = "plot" /\ Plot!PlotNext
    \/ area = "boards" /\ Boards!BoardNext
    \/ area = "panels" /\ Panels!PanelsNext
    \/ area = "session" /\ SessionNext

PortalNext ==
    /\ AreaNext /\ Elsewhere(Stays) /\ UNCHANGED area
    /\ area # "schedule" => UNCHANGED scheduleVars
    /\ area # "tuning"   => UNCHANGED tuningVars
    /\ area # "details"  => UNCHANGED detailsVars
    /\ area # "session"  => UNCHANGED sessionVars

portalVars == <<pagesVars, step, ui, store, scenarioRuns, scenarioTable, scenarioList, plot,
    series, granularity, redux, boardPage, agentList, boards, boardSends, role, mode, panels,
    tab, info, queries, scheduleVars, tuningVars, detailsVars, sessionVars>>

PortalSpec == PortalInit /\ [][PortalNext]_portalVars

-----------------------------------------------------------------------------
(* Properties: those of these pages, each where its page is open.  Those   *)
(* of the pages whose modules this one extends are checked as these state  *)
(* them.                                                                   *)

\* Whatever was chosen, edited, gone back from and left in the scenario
\* wizard: the request that Finish sends weighs the engines of its manifest,
\* asks in the manifest for the schedule it names and runs where it is sent
\* to; every step of the manifest has its template (views/CreateWorkflow).
SubmitsWhatWasChosen == area = "wizard" => Wizard!SubmitsWhatWasChosen

\* A comparison of scenarios shows the selected ones and their lines, whichever
\* of the effects and answers came last; and the line of the averages goes
\* through every date that has runs, once, from left to right, at the mean of
\* the scenarios that ran on it (WorkflowComparisonTable and its plot).
ComparesTheSelected ==
    /\ area = "comparison" => Comparison!ComparesTheSelected
    /\ area = "plot" => Plot!PlotsTheAverages

\* Whatever was chosen, gone back from and come back to, a stored dashboard
\* has a name, an agent, a data source and only panels of its own type, and
\* the panels that are sent are those the tabs show (MonitoringDashboards).
DashboardsAsChosen ==
    /\ area = "boards" => Boards!BoardsAsChosen
    /\ area = "panels" => Panels!SendsWhatIsShown
=============================================================================
