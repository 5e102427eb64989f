--------------------------- MODULE ScenarioWizard ---------------------------
(***************************************************************************)
(* The wizard that schedules a chaos scenario:                             *)
(* frontend/src/components/WorkflowStepper and the steps under             *)
(* frontend/src/views/CreateWorkflow.                                      *)
(*                                                                         *)
(* One step is mounted at a time and its hooks (ui) are lost when          *)
(* another takes its place.  What the steps hand to each other lies in     *)
(* the redux store and in localforage (store), and outlives the            *)
(* page.  A step reads the store when it is mounted; the answer of a       *)
(* query may come at any time while the step is mounted and is dropped     *)
(* when it comes later.  Reads of localforage settle before the next event *)
(* of the user, so they are part of the mount.                             *)
(*                                                                         *)
(* Times in names, icons, descriptions and the image registry are left     *)
(* out.  What the user types into the YAML editor of the Tune step is a    *)
(* change of an engine's settings.                                         *)
(***************************************************************************)
EXTENDS Manifests

CONSTANTS
    Clusters,       \* the active agents of the project
    Settings,       \* settings of a ChaosEngine, with 0 as the hub has it
    Experiments,    \* the experiments of the hub's charts
    MaxExperiments, \* bound: engines in a custom scenario
    WeightChoices,  \* what the sliders are moved to
    Crons           \* cron values of recurring schedules

VARIABLES
    step,           \* activeStep
    ui,             \* hooks of the mounted step
    store           \* the redux store and localforage

wizardVars == <<step, ui, store>>

NoCluster == "none"
NoDetails == [name |-> "", crd |-> ""]
NoWeights == <<[experimentName |-> <<"none", 0>>, weight |-> 0]>>

\* The names of scenarios: of the hub, of the templates, of a custom and of
\* an uploaded one, and one the user types.
Names == {"", "pre", "tpl", "raw", "custom", "upload", "mine"}

Engine(n) == EngineOf(<<n, 0>>, 0)

\* A predefined scenario of the hub, and what the user's file holds.
Predefined ==
    [kind |-> "Workflow", name |-> "pre", namespace |-> NoCluster, cron |-> NoCron,
     rows |-> <<<<Install>>, <<<<"a", 0>>>>, <<Revert>>>>,
     templates |-> <<InstallTemplate, EngineTemplate(Engine("a")), RevertTemplate>>]

FileCron == <<0, 0, 1, -1, -1>>     \* no cron value of the form
Uploaded(ns) ==
    [kind |-> "CronWorkflow", name |-> "file", namespace |-> ns,
     cron |-> FileCron,
     rows |-> <<<<Install>>, <<<<"b", 0>>>>>>,
     templates |-> <<InstallTemplate, EngineTemplate(Engine("b"))>>]

\* The saved templates: one made from a recurring custom scenario, and one
\* in which no experiment is found.
Templates == {"tpl", "raw"}
TemplateManifest(id) ==
    IF id = "tpl"
    THEN [Uploaded(NoCluster) EXCEPT !.name = "tpl"]
    ELSE Blueprint("raw", NoCluster)

-----------------------------------------------------------------------------
(* The steps.                                                              *)

\* getStepContent: an uploaded scenario is neither tuned nor weighed; an
\* index past the last step shows the first one.
StepAt(n, uploaded) ==
    LET steps == IF uploaded
                 THEN <<"agent", "choose", "settings", "schedule", "verify">>
                 ELSE <<"agent", "choose", "settings", "tune", "score", "schedule", "verify">>
    IN  IF n + 1 \in DOMAIN steps THEN steps[n + 1] ELSE "agent"

LastStep(uploaded) == IF uploaded THEN 4 ELSE 6

\* The memo of the Tune step: whenever the manifest changes it is renamed
\* after the scenario and, in a custom one, loses its trailing revert step.
Tuned(st, m) ==
    LET named == Renamed(m, st.details.name)
    IN  IF st.option = "C" THEN PopRevert(named) ELSE named

\* A new manifest in the Tune step: the memo, and the table's effect, which
\* weighs every engine anew.
WithManifest(st, m) ==
    [st EXCEPT !.manifest = Tuned(st, m), !.weights = tableWeights(Tuned(st, m))]

\* The Tune step's first render fills an empty manifest with the blueprint.
TuneMount(st) ==
    WithManifest(st, IF st.manifest = NoManifest
                     THEN Blueprint(st.details.name, st.namespace)
                     ELSE st.manifest)

\* Defaults of the settings step, unless the user has set a name before.
SettingsMount(st) ==
    [st EXCEPT !.manifest = IF ~ st.hasSet /\ st.option \in {"A", "B"}
                            THEN NoManifest ELSE @]

ChooseMount(st) ==
    [st EXCEPT !.manifest = NoManifest, !.uploaded = FALSE, !.weights = NoWeights]

MountedStore(at, st) ==
    CASE at = "choose"   -> ChooseMount(st)
      [] at = "settings" -> SettingsMount(st)
      [] at = "tune"     -> TuneMount(st)
      [] OTHER           -> st

-----------------------------------------------------------------------------
(* The hooks a step starts with.                                           *)

AgentUi  == [at |-> "agent", listed |-> FALSE]
ChooseUi == [at |-> "choose", radio |-> "", picked |-> FALSE, hubs |-> FALSE]

\* The name is the stored one, a default, or what a query will bring.
SettingsUi(st) ==
    [at |-> "settings",
     name |-> IF st.hasSet THEN st.details.name
              ELSE CASE st.option = "C" -> "custom" [] st.option = "D" -> "upload"
                     [] OTHER -> "",
     crd |-> "",
     waits |-> ~ st.hasSet /\ st.option \in {"A", "B"} /\ st.id # ""]

\* The effect that fetches the manifest still sees it empty, though the
\* first render has stored the blueprint by then.
TuneUi(st) ==
    [at |-> "tune", editing |-> 0, editor |-> FALSE, revert |-> FALSE,
     adding |-> "",
     waits |-> /\ st.manifest = NoManifest
               /\ \/ st.option = "A" /\ st.details.crd # ""
                  \/ st.option = "B" /\ st.id # ""]

ScoreUi(st) ==
    [at |-> "score", weights |-> IF st.weights = NoWeights THEN <<>> ELSE st.weights]

VerifyUi(st) ==
    [at |-> "verify", name |-> st.details.name, modal |-> "none", busy |-> FALSE,
     weights |-> IF st.weights = NoWeights
                 THEN <<[experimentName |-> NoName, weight |-> 0]>> ELSE st.weights]

MountedUi(at, st) ==
    CASE at = "agent"    -> AgentUi
      [] at = "choose"   -> ChooseUi
      [] at = "settings" -> SettingsUi(st)
      [] at = "tune"     -> TuneUi(st)
      [] at = "score"    -> ScoreUi(st)
      [] at = "schedule" -> [at |-> "schedule"]
      [] at = "verify"   -> VerifyUi(st)

\* Show step n with the store st; React keeps a component that is already
\* at this place.
Show(n, st) ==
    LET at == StepAt(n, st.uploaded)
    IN  /\ step' = n
        /\ IF at = ui.at
           THEN store' = st /\ UNCHANGED ui
           ELSE /\ store' = MountedStore(at, st)
                /\ ui' = MountedUi(at, st)

At(name) == ui.at = name

Back ==
    /\ step > 0
    /\ At("verify") => ui.modal = "none"
    /\ Show(step - 1, store)

\* The page is left by the side bar, or reloaded, and opened again: the
\* store is persisted, the hooks are not.
Reopen ==
    /\ step' = 0 /\ ui' = AgentUi
    /\ UNCHANGED store

-----------------------------------------------------------------------------
(* Choose an agent.                                                        *)

\* The list of agents arrives: the selection and the schedule are reset.
AgentsAnswer ==
    /\ At("agent") /\ ~ ui.listed
    /\ ui' = [ui EXCEPT !.listed = TRUE]
    /\ store' = [store EXCEPT !.cluster = NoCluster, !.cron = NoCron]
    /\ UNCHANGED step

PickAgent(c) ==
    /\ At("agent") /\ ui.listed
    /\ store' = [store EXCEPT !.cluster = c, !.namespace = c]
    /\ UNCHANGED <<step, ui>>

AgentNext ==
    /\ At("agent") /\ ui.listed /\ store.cluster # NoCluster
    /\ step < 6                 \* bound: past the steps of an upload
    /\ Show(step + 1, store)

-----------------------------------------------------------------------------
(* Choose a scenario: of the hub (A), a template (B), a custom one (C) or  *)
(* an uploaded file (D).                                                   *)

ChooseRadio(r) ==
    /\ At("choose")
    /\ ui' = [ui EXCEPT !.radio = r]
    /\ store' = [store EXCEPT !.option = r, !.id = "", !.custom = r \in {"C", "D"}]
    /\ UNCHANGED step

\* The hubs arrive: the default one is selected.
HubsAnswer ==
    /\ At("choose") /\ ~ ui.hubs
    /\ ui' = [ui EXCEPT !.hubs = TRUE]
    /\ store' = [store EXCEPT !.hasSet = FALSE]
    /\ UNCHANGED step

Picked(option, id, custom) ==
    /\ ui' = [ui EXCEPT !.picked = TRUE]
    /\ store' = [store EXCEPT !.option = option, !.id = id, !.hasSet = FALSE,
                              !.custom = custom]
    /\ UNCHANGED step

PickPredefined == /\ At("choose") /\ ui.radio = "A" /\ ui.hubs
                  /\ Picked("A", "pre", store.custom)

PickTemplate(id) == /\ At("choose") /\ ui.radio = "B"
                    /\ Picked("B", id, id = "tpl")

PickHub == /\ At("choose") /\ ui.radio = "C" /\ ui.hubs
           /\ store' = [store EXCEPT !.option = "C", !.id = "", !.hasSet = FALSE]
           /\ UNCHANGED <<step, ui>>

\* A file is read: its manifest is stored, or an error leaves none.
Upload(good) ==
    /\ At("choose") /\ ui.radio = "D"
    /\ LET m == Uploaded(store.namespace)
       IN store' = [store EXCEPT !.manifest = IF good THEN m ELSE NoManifest,
                                 !.uploaded = good,
                                 !.weights = IF good THEN addWeights(m) ELSE @,
                                 !.option = "D", !.id = "", !.hasSet = FALSE]
    /\ UNCHANGED <<step, ui>>

ChooseNext ==
    /\ At("choose") /\ ui.radio # ""
    /\ ui.radio \in {"A", "B"} => ui.picked
    /\ ui.radio = "D" => store.manifest # NoManifest
    /\ Show(2, store)

-----------------------------------------------------------------------------
(* Settings.                                                               *)

\* The details of the scenario arrive and replace what was typed meanwhile.
\* A template without experiments is handled as an uploaded file.
SettingsAnswer ==
    /\ At("settings") /\ ui.waits
    /\ ui' = [ui EXCEPT !.waits = FALSE, !.name = store.id, !.crd = store.id]
    /\ store' = IF store.option = "B" /\ Engines(TemplateManifest(store.id)) = <<>>
                THEN [store EXCEPT !.manifest = TemplateManifest(store.id),
                                   !.uploaded = TRUE]
                ELSE store
    /\ UNCHANGED step

TypeName(name) ==
    /\ At("settings") /\ ui.name # name
    /\ ui' = [ui EXCEPT !.name = name]
    /\ store' = [store EXCEPT !.hasSet = TRUE]
    /\ UNCHANGED step

\* The details are stored first.  The manifest of an upload is renamed (if
\* there is none, parsing throws), then an empty name is refused.
SettingsNext ==
    LET st == [store EXCEPT
                 !.details = [name |-> ui.name, crd |-> ui.crd],
                 !.manifest = IF store.uploaded /\ @ # NoManifest
                              THEN Renamed(@, ui.name) ELSE @]
    IN  /\ At("settings")
        /\ IF ui.name = "" \/ (store.uploaded /\ store.manifest = NoManifest)
           THEN store' = st /\ UNCHANGED <<step, ui>>
           ELSE Show(3, st)

-----------------------------------------------------------------------------
(* Tune.                                                                   *)

\* The table is on the page while neither the YAML editor nor the wizard of
\* an engine takes its place.
ShowsTable == At("tune") /\ ui.editing = 0 /\ ~ ui.editor

\* The manifest of the hub or of the template arrives.
TuneAnswer ==
    /\ At("tune") /\ ui.waits
    /\ ui' = [ui EXCEPT !.waits = FALSE]
    /\ store' = WithManifest(store,
                    updateNamespace(IF store.option = "A" THEN Predefined
                                    ELSE TemplateManifest(store.id), store.namespace))
    /\ UNCHANGED step

\* Done in the modal that adds an experiment: its manifests are fetched.
AskExperiment(e) ==
    /\ At("tune") /\ ~ ui.editor /\ store.option = "C" /\ ui.adding = ""
    /\ Len(Engines(store.manifest)) < MaxExperiments    \* bound
    /\ ui' = [ui EXCEPT !.adding = e]
    /\ UNCHANGED <<step, store>>

\* They arrive.  The hash makes the name a new one.
ExperimentAnswer ==
    /\ At("tune") /\ ui.adding # ""
    /\ \E n \in 1 .. MaxExperiments :
         LET name == <<ui.adding, n>>
         IN  /\ name \notin ToSet(Steps(store.manifest))
             /\ \A k \in 1 .. n - 1 : <<ui.adding, k>> \in ToSet(Steps(store.manifest))
             /\ ui' = [ui EXCEPT !.adding = ""]
             /\ store' = WithManifest(store,
                            updateCRD(store.manifest, EngineOf(name, 0)))
    /\ UNCHANGED step

ExperimentFails ==
    /\ At("tune") /\ ui.adding # ""
    /\ ui' = [ui EXCEPT !.adding = ""]
    /\ UNCHANGED <<step, store>>

DeleteExperiment(i) ==
    /\ ShowsTable
    /\ store.manifest.templates[i].artifacts # <<>>
    /\ store' = WithManifest(store, deleteExperiment(store.manifest, i))
    /\ UNCHANGED <<step, ui>>

\* The sequence modal: a step other than the install step is dragged to a
\* place outside the install step's row, and saved.
EditSequence(from, i, to, j) ==
    LET rows == store.manifest.rows
    IN  /\ ShowsTable /\ store.manifest.kind = "Workflow"
        /\ rows[from][i] # Install /\ rows[to][1] # Install
        /\ j \in 1 .. Len(rows[to]) + (IF from = to THEN 0 ELSE 1)
        /\ store' = WithManifest(store,
                        SaveRows(store.manifest, reorderSteps(rows, from, i, to, j)))
        /\ UNCHANGED <<step, ui>>

\* The wizard of one engine (module EngineTuning) is opened, and closed with
\* the edited engine put back into the manifest or without.
OpenEngine(i) ==
    /\ ShowsTable
    /\ store.manifest.templates[i].artifacts # <<>>
    /\ ui' = [ui EXCEPT !.editing = i]
    /\ UNCHANGED <<step, store>>

CloseEngine ==
    /\ At("tune") /\ ui.editing > 0
    /\ ui' = [ui EXCEPT !.editing = 0]
    /\ UNCHANGED <<step, store>>

FinishEngine(setting) ==
    /\ At("tune") /\ ui.editing > 0
    /\ LET engine == Head(store.manifest.templates[ui.editing].artifacts)
       IN  store' = WithManifest(store,
                ReplaceEngine(store.manifest, ui.editing, [engine EXCEPT !.setting = setting]))
    /\ ui' = [ui EXCEPT !.editing = 0]
    /\ UNCHANGED step

ToggleRevert ==
    /\ ShowsTable /\ store.option = "C"
    /\ ui' = [ui EXCEPT !.revert = ~ @]
    /\ UNCHANGED <<step, store>>

\* The editor takes the place of the table, whose hooks are lost with it.
OpenEditor ==
    /\ At("tune") /\ ~ ui.editor
    /\ ui' = [ui EXCEPT !.editor = TRUE, !.editing = 0, !.revert = FALSE]
    /\ UNCHANGED <<step, store>>

CloseEditor ==
    /\ At("tune") /\ ui.editor
    /\ ui' = [ui EXCEPT !.editor = FALSE]
    /\ UNCHANGED <<step, store>>

SaveEditor(i, setting) ==
    /\ At("tune") /\ ui.editor
    /\ store.manifest.templates[i].artifacts # <<>>
    /\ LET engine == Head(store.manifest.templates[i].artifacts)
       IN  store' = WithManifest(store,
                ReplaceEngine(store.manifest, i, [engine EXCEPT !.setting = setting]))
    /\ ui' = [ui EXCEPT !.editor = FALSE]
    /\ UNCHANGED step

\* The names, the editor and the table are asked first; the revert step is
\* pushed before the open wizard of an engine refuses, and then popped by
\* the memo again.
TuneNext ==
    /\ At("tune") /\ ~ ui.editor
    /\ validateExperimentNames(store.manifest)
    /\ Engines(store.manifest) # <<>>
    /\ LET m == IF store.custom /\ store.option = "C" /\ ui.revert
                THEN PushRevert(store.manifest) ELSE store.manifest
       IN  IF ui.editing > 0
           THEN store' = WithManifest(store, m) /\ UNCHANGED <<step, ui>>
           ELSE Show(4, [store EXCEPT !.manifest = m])

-----------------------------------------------------------------------------
(* Reliability score.                                                      *)

Slide(i, w) ==
    /\ At("score")
    /\ ui' = [ui EXCEPT !.weights[i].weight = w]
    /\ UNCHANGED <<step, store>>

ScoreNext ==
    /\ At("score")
    /\ Show(5, [store EXCEPT !.weights = ui.weights])

-----------------------------------------------------------------------------
(* Schedule.                                                               *)

\* The form by itself is module ScheduleForm.  Next needs it to be complete,
\* and what it has stored by then is what it shows (StoresWhatItShows there):
\* no cron value for a schedule "now", the shown one for a recurring one.
ScheduleNext(cron) ==
    /\ At("schedule")
    /\ Show(step + 1, [store EXCEPT
            !.cron = cron,
            !.manifest = Rescheduled(@, cron, store.namespace)])

-----------------------------------------------------------------------------
(* Verify and commit.                                                      *)

RenameAtVerify(name) ==
    /\ At("verify") /\ ui.modal = "none" /\ ui.name # name
    /\ ui' = [ui EXCEPT !.name = name]
    /\ store' = [store EXCEPT !.manifest = Renamed(@, name),
                              !.details = [name |-> name,
                                           crd |-> IF store.option = "A" THEN @.crd ELSE ""]]
    /\ UNCHANGED step

\* The icons that go back to the schedule and to the weights: by number,
\* whatever the steps of this scenario are.
GoToStep(n) ==
    /\ At("verify") /\ ui.modal = "none"
    /\ n = 4 => ~ store.uploaded /\ ui.weights # <<>>
    /\ Show(n, store)

\* chaosWorkFlowInputs.
Payload ==
    [workflowManifest |-> store.manifest, cronSyntax |-> store.cron,
     workflowName |-> store.manifest.name, isCustomWorkflow |-> store.custom,
     weightages |-> ui.weights, clusterID |-> store.cluster]

CanSubmit ==
    /\ At("verify") /\ step = LastStep(store.uploaded)
    /\ ui.modal = "none" /\ ~ ui.busy /\ ui.name # ""
    /\ store.uploaded \/ store.manifest.name # ""

Submit ==
    /\ CanSubmit
    /\ ui' = [ui EXCEPT !.busy = TRUE]
    /\ UNCHANGED <<step, store>>

SubmitAnswer(modal) ==
    /\ At("verify") /\ ui.busy
    /\ ui' = [ui EXCEPT !.busy = FALSE, !.modal = modal]
    /\ UNCHANGED <<step, store>>

CloseError ==
    /\ At("verify") /\ ui.modal = "error"
    /\ ui' = [ui EXCEPT !.modal = "none"]
    /\ UNCHANGED <<step, store>>

\* handleFinishModal: the drafts are removed and the page is left; here the
\* wizard is then opened for another scenario.
Finish ==
    /\ At("verify") /\ ui.modal = "finish"
    /\ store' = [store EXCEPT !.manifest = NoManifest, !.details = NoDetails,
                              !.option = "", !.id = "", !.hasSet = FALSE,
                              !.weights = NoWeights]
    /\ step' = 0 /\ ui' = AgentUi

-----------------------------------------------------------------------------
WizardInit ==
    /\ step = 0 /\ ui = AgentUi
    /\ store = [manifest |-> NoManifest, uploaded |-> FALSE, custom |-> FALSE,
                cluster |-> NoCluster, namespace |-> NoCluster, option |-> "", id |-> "", hasSet |-> FALSE,
                details |-> NoDetails, weights |-> NoWeights, cron |-> NoCron]

Rows == DOMAIN store.manifest.rows
Slots == DOMAIN store.manifest.templates

Choosing == \/ \E r \in {"A", "B", "C", "D"} : ChooseRadio(r)
            \/ HubsAnswer \/ PickPredefined \/ PickHub
            \/ \E id \in Templates : PickTemplate(id)
            \/ \E good \in BOOLEAN : Upload(good)
            \/ ChooseNext

Tuning == \/ TuneAnswer \/ ExperimentAnswer \/ ExperimentFails
          \/ \E e \in Experiments : AskExperiment(e)
          \/ At("tune") /\ \E i \in Slots :
                \/ DeleteExperiment(i) \/ OpenEngine(i)
                \/ \E s \in Settings : SaveEditor(i, s)
          \/ At("tune") /\ \E from, to \in Rows : \E i \in DOMAIN store.manifest.rows[from] :
                \E j \in 1 .. Len(store.manifest.rows[to]) + 1 : EditSequence(from, i, to, j)
          \/ \E s \in Settings : FinishEngine(s)
          \/ CloseEngine \/ ToggleRevert \/ OpenEditor \/ CloseEditor
          \/ TuneNext

Verifying == \/ \E name \in {"", "mine"} : RenameAtVerify(name)
             \/ \E n \in {4, 5} : GoToStep(n)
             \/ Submit \/ CloseError \/ Finish
             \/ \E modal \in {"finish", "error"} : SubmitAnswer(modal)

WizardNext ==
    \/ Back \/ Reopen
    \/ AgentsAnswer \/ AgentNext \/ \E c \in Clusters : PickAgent(c)
    \/ Choosing
    \/ SettingsAnswer \/ SettingsNext
    \/ \E name \in {"", "mine"} : TypeName(name)
    \/ Tuning
    \/ At("score") /\ \E i \in DOMAIN ui.weights, w \in WeightChoices : Slide(i, w)
    \/ ScoreNext
    \/ \E cron \in Crons \cup {NoCron} : ScheduleNext(cron)
    \/ Verifying

WizardSpec == WizardInit /\ [][WizardNext]_wizardVars

-----------------------------------------------------------------------------
(* Properties.                                                             *)

\* What Finish would send of a scenario the wizard built itself.
Ready == CanSubmit /\ ~ store.uploaded

WeightsOfScenario ==
    /\ Payload.weightages # <<>>
    /\ [i \in DOMAIN Payload.weightages |-> Payload.weightages[i].experimentName]
         = extractEngineNames(Payload.workflowManifest)

ScheduleAsShown ==
    /\ Payload.workflowManifest.cron = Payload.cronSyntax
    /\ isCronWorkflow(Payload.workflowManifest) <=> Payload.cronSyntax # NoCron

StepsOfScenario ==
    /\ WellFormed(store.manifest)
    /\ store.option = "C" =>
         \A i \in DOMAIN Steps(store.manifest) :
             Steps(store.manifest)[i] = Revert => i = Len(Steps(store.manifest))
    /\ \A i \in DOMAIN store.manifest.templates :
         LET template == store.manifest.templates[i]
         IN  \A k \in DOMAIN template.artifacts :
                 template.artifacts[k].generateName = template.name

\* Whatever was chosen, edited, gone back from and left: the request that Finish sends
\* of a scenario the wizard built weighs exactly the engines of its manifest, asks in
\* the manifest for the schedule it names, and runs in the namespace of the agent it is
\* sent to, if there is one; and from the Tune step on every step of the manifest has
\* its template, each engine is its template's and the revert step is the last
\* (yamlUtils.ts, and the state the steps of CreateWorkflow keep of each other).
SubmitsWhatWasChosen ==
    /\ Ready =>
        /\ WeightsOfScenario /\ ScheduleAsShown
        /\ Payload.clusterID # NoCluster =>
             Payload.workflowManifest.namespace = Payload.clusterID
    /\ ~ store.uploaded /\ (At("tune") \/ At("score") \/ Ready) => StepsOfScenario
=============================================================================
