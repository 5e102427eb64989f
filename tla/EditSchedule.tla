---------------------------- MODULE EditSchedule ----------------------------
(***************************************************************************)
(* The page that edits the schedule of a stored scenario                   *)
(* (frontend/src/pages/EditSchedule): a summary of the scenario, in whose  *)
(* place the schedule form (module ScheduleForm) is shown, and the         *)
(* mutation that saves what the store then holds.                          *)
(*                                                                         *)
(* A save takes its request from the store when the button is pressed.     *)
(* Nothing keeps the user from editing on, or from saving again, while it  *)
(* is under way; an error is not told.                                     *)
(***************************************************************************)
EXTENDS ScheduleForm, FiniteSets

CONSTANT MaxSaves           \* bound: saves under way

VARIABLES
    stored,     \* the scenario as the server has it (external)
    saves,      \* requests under way
    manifest,   \* the manifest in the store, "" before it is loaded
    view        \* what the page shows

scheduleVars == <<form, sched, stored, saves, manifest, view>>

Scenario(cron) ==
    [manifest |-> [kind |-> IF cron = NoCron THEN "Workflow" ELSE "CronWorkflow",
                   cron |-> cron],
     cronSyntax |-> cron]

NoManifest == [kind |-> "none"]

\* The page is opened: a query for the scenario, and the loader until it is
\* answered (also when the cache has an answer).
OpenPage ==
    /\ view = "away"
    /\ view' = "loading"
    /\ UNCHANGED <<form, sched, stored, saves, manifest>>

\* The effect on [data] copies the scenario into the store.
DetailsAnswer ==
    /\ view = "loading"
    /\ view' = "summary"
    /\ manifest' = stored.manifest
    /\ \E t \in Times, d \in Dates :
         sched' = FreshSched(stored.cronSyntax,
                             IF stored.cronSyntax = NoCron THEN "now" ELSE "recurringSchedule",
                             t, d)
    /\ UNCHANGED <<form, stored, saves>>

\* The form of Schedule.tsx is mounted with what the store has.
MountForm == Open

\* The pencil beside the schedule.
EditForm ==
    /\ view = "summary"
    /\ MountForm
    /\ view' = "form"
    /\ UNCHANGED <<stored, saves, manifest>>

FlushForm == Flush /\ UNCHANGED <<stored, saves, manifest, view>>
ChoiceForm == ClickChoice /\ UNCHANGED <<stored, saves, manifest, view>>
TimeForm == ClickTime /\ UNCHANGED <<stored, saves, manifest, view>>
DayForm == ClickDay /\ UNCHANGED <<stored, saves, manifest, view>>

\* A mutated form of EditYaml: a recurring scenario keeps the cron it had.
EditKind(m) ==
    IF m.kind = "Workflow" /\ sched.once # "now"
    THEN [kind |-> "CronWorkflow", cron |-> sched.cron]
    ELSE IF m.kind = "CronWorkflow" /\ sched.once = "now"
    THEN [kind |-> "Workflow", cron |-> NoCron]
    ELSE m

\* EditYaml of Schedule.tsx, by the button Verify.
EditYaml(m) ==
    CASE m.kind = "Workflow" /\ sched.once # "now" ->
             [kind |-> "CronWorkflow", cron |-> sched.cron]
      [] m.kind = "CronWorkflow" /\ sched.once = "now" ->
             [kind |-> "Workflow", cron |-> NoCron]
      [] m.kind = "CronWorkflow" /\ sched.once # "now" ->
             [m EXCEPT !.cron = sched.cron]
      [] OTHER -> m

Verify ==
    /\ view = "form" /\ Complete
    /\ manifest' = EditYaml(manifest)
    /\ form' = Closed /\ view' = "summary"
    /\ UNCHANGED <<sched, stored, saves>>

\* handleMutation.
Save ==
    /\ view = "summary"
    /\ Cardinality(saves) < MaxSaves        \* bound
    /\ saves' = saves \cup {[manifest |-> manifest, cronSyntax |-> sched.cron]}
    /\ UNCHANGED <<form, sched, stored, manifest, view>>

\* The server stores a request, in whatever order they reach it.  The modal
\* that tells so shows when the summary does; it leads away from the page.
SaveAnswer(request) ==
    /\ request \in saves
    /\ saves' = saves \ {request}
    /\ stored' = request
    /\ view' \in IF view = "summary" THEN {"summary", "away"} ELSE {view}
    /\ UNCHANGED <<form, sched, manifest>>

SaveFails(request) ==
    /\ request \in saves
    /\ saves' = saves \ {request}
    /\ UNCHANGED <<form, sched, stored, manifest, view>>

\* Cancel, Back or the side bar.  The store keeps what was edited.
Leave ==
    /\ view # "away"
    /\ IsOpen => Settled
    /\ view' = "away" /\ form' = Closed
    /\ UNCHANGED <<sched, stored, saves, manifest>>

-----------------------------------------------------------------------------
FirstCron == <<0, 12, Star, Star, Star>>    \* of a scenario stored before

ScheduleInit ==
    /\ form = Closed /\ view = "away" /\ saves = {} /\ manifest = NoManifest
    /\ \E t \in Times, d \in Dates : sched = FreshSched(NoCron, "now", t, d)
    /\ \E cron \in {NoCron, FirstCron} : stored = Scenario(cron)

ScheduleNext ==
    \/ OpenPage \/ DetailsAnswer \/ EditForm
    \/ FlushForm \/ ChoiceForm \/ TimeForm \/ DayForm \/ Verify
    \/ Save \/ \E r \in saves : SaveAnswer(r) \/ SaveFails(r)
    \/ Leave

ScheduleSpec == ScheduleInit /\ [][ScheduleNext]_scheduleVars

-----------------------------------------------------------------------------
(* Properties.                                                             *)

\* The server never stores a scenario whose manifest and cron syntax ask for
\* different schedules, however edits and saves overlap: the two are written
\* to the store at different times, one by the form's effects as the user
\* clicks, one by Verify.
StoredScheduleAgrees ==
    /\ stored.manifest.cron = stored.cronSyntax
    /\ stored.manifest.kind = Scenario(stored.cronSyntax).manifest.kind
=============================================================================
