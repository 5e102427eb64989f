---------------------------- MODULE EngineTuning ----------------------------
(***************************************************************************)
(* The configuration wizard of one chaos engine, which the Tune step shows *)
(* in the place of its table, and the advanced options of the whole        *)
(* workflow: TuneWorkflow/ConfigurationStepper, TuneWorkflowSteps,         *)
(* AddProbe and AdvanceTuning.                                             *)
(*                                                                         *)
(* The engine is copied into the store when its row is opened.  Every step *)
(* works on hooks of its own and writes the engine back to the store with  *)
(* Next; the last one also writes it into the manifest.  The list of       *)
(* probes is one JavaScript array that the steady-state step and the form  *)
(* AddProbe (always mounted beside it) both hold and change in place.      *)
(*                                                                         *)
(* Effects run before the next event of the user, so the form's effect is  *)
(* part of the event that makes it due.  Values that only pass through     *)
(* (names, timeouts, labels) are members of Values, 0 for an empty one;    *)
(* the lists the fields suggest are left out.                              *)
(***************************************************************************)
EXTENDS Naturals, Sequences, FiniteSets, SequencesExt

CONSTANTS Values,       \* what a field may hold, with 0 when it is empty
          ProbeTypes,   \* httpProbe, cmdProbe, k8sProbe, promProbe
          MaxProbes,    \* bound: probes of an engine
          MaxChanges    \* bound: engines and options that were changed before
                        \* an engine is opened

ASSUME BoundAssumption == MaxProbes \in Nat

VARIABLES
    engines,    \* the engines of the manifest in the store, by template
    options,    \* nodeSelector, tolerations and podGC of the manifest
    engineYAML, \* the engine being edited, in the store
    stepper     \* the hooks of what the Tune step shows

tuningVars == <<engines, options, engineYAML, stepper>>

NoTarget == <<>>        \* no spec.appinfo: an infrastructure engine
NoEngine == [appinfo |-> NoTarget]

\* A probe: which one it is, its type and which of the type's inputs it has:
\* the object, the plain fields ("url") and the method of an HTTP probe.
\* Leftover inputs of a type it had before are left out.
BlankProbe == [of |-> 0, type |-> "httpProbe", has |-> {"inputs"}]
CmdProbe == [of |-> 1, type |-> "cmdProbe", has |-> {"inputs", "url"}]

\* The manifest: an engine with and one without a target application.
Engines ==
    <<[appinfo |-> <<1>>, probes |-> <<>>, env |-> 0, advance |-> 0],
      [appinfo |-> NoTarget, probes |-> <<CmdProbe>>, env |-> 0, advance |-> 0]>>

HasTarget(e) == e.appinfo # NoTarget
infraEngine == ~ HasTarget(engineYAML)

-----------------------------------------------------------------------------
(* The pages.  At "table" nothing is edited, "crashed" is what React shows *)
(* of an error thrown by a render or an effect: nothing.                   *)

TuneTable == [at |-> "table", index |-> 0]
Crashed   == [at |-> "crashed", index |-> 0]
AtStep(s) == stepper.at = s

\* getStepContent.
StepAt(n) ==
    IF infraEngine
    THEN <<"steady", "env", "advance">>[n + 1]
    ELSE <<"target", "steady", "env", "advance">>[n + 1]

\* AddProbe's effect on [addButtonState, probesValue]: the form shows the
\* selected probe, or a blank one when it was opened to add.
\* With no probes the form keeps what was typed; a selection past the end
\* throws.
Reload(p) ==
    IF p.probes = <<>> THEN p
    ELSE IF p.selected \notin DOMAIN p.probes THEN Crashed
    ELSE [p EXCEPT !.draft = IF p.adding THEN BlankProbe ELSE p.probes[p.selected]]

\* The form is rendered while it is closed, too.  For an edited HTTP probe
\* that has inputs it reads into their method.
Shown(p) ==
    IF /\ p.at = "steady" /\ p.edit /\ p.draft.type = "httpProbe"
       /\ "inputs" \in p.draft.has /\ "method" \notin p.draft.has
    THEN Crashed ELSE p

\* The hooks of a step, from the engine in the store.  The HTTP fields that
\* the form keeps beside the probe are httpData.
MountedStep(at, i, e) ==
    CASE at = "target"  -> [at |-> "target", index |-> i, value |-> e.appinfo[1]]
      [] at = "env"     -> [at |-> "env", index |-> i, value |-> e.env]
      [] at = "advance" -> [at |-> "advance", index |-> i,
                            on |-> e.advance # 0, value |-> e.advance]
      [] at = "steady"  ->
             Reload([at |-> "steady", index |-> i, probes |-> e.probes, selected |-> 1,
                     open |-> FALSE, edit |-> FALSE, adding |-> FALSE,
                     draft |-> BlankProbe, httpData |-> FALSE])

gotoStep(n, e) == stepper' = MountedStep(StepAt(n), stepper.index, e)

\* What differs from the manifest at first.
Changed == {i \in DOMAIN engines : engines[i] # Engines[i]}
           \cup (IF options # 0 THEN {0} ELSE {})

\* The pencil of a row copies its engine into the store.
OpenEngine(i) ==
    /\ AtStep("table")
    /\ Cardinality(Changed) < MaxChanges     \* bound
    /\ engineYAML' = engines[i]
    /\ stepper' = MountedStep(IF HasTarget(engines[i]) THEN "target" ELSE "steady",
                              i, engines[i])
    /\ UNCHANGED <<engines, options>>

\* closeConfigurationStepper.
CloseStepper ==
    /\ stepper.at \in {"target", "steady", "env", "advance"}
    /\ AtStep("steady") => ~ stepper.open
    /\ engineYAML' = NoEngine /\ stepper' = TuneTable
    /\ UNCHANGED <<engines, options>>

\* An uncaught error unmounts everything; the user loads the page again.
ReloadPage ==
    /\ AtStep("crashed")
    /\ engineYAML' = NoEngine /\ stepper' = TuneTable
    /\ UNCHANGED <<engines, options>>

-----------------------------------------------------------------------------
(* Target application.  A field is shown when the engine has it filled.    *)

EditField(v) ==
    /\ \/ AtStep("target") /\ engineYAML.appinfo # <<0>>
       \/ AtStep("env")
    /\ stepper' = [stepper EXCEPT !.value = v]
    /\ UNCHANGED <<engines, options, engineYAML>>

TargetNext ==
    /\ AtStep("target")
    /\ engineYAML' = [engineYAML EXCEPT !.appinfo = <<stepper.value>>]
    /\ gotoStep(1, engineYAML')
    /\ UNCHANGED <<engines, options>>

-----------------------------------------------------------------------------
(* Steady state.                                                           *)

ShowsProbes == AtStep("steady") /\ ~ stepper.open

\* The probe is spliced out of the shared list and the engine written at
\* once; the form's effect is due when another probe is selected by that.
DeleteProbe(k) ==
    /\ ShowsProbes
    /\ LET left == [stepper EXCEPT !.probes = RemoveAt(@, k)]
           sel(p) == IF p.selected \in DOMAIN p.probes
                     THEN p.probes[p.selected].of ELSE 0
       IN  /\ stepper' = IF sel(left) # sel(stepper) THEN Shown(Reload(left)) ELSE left
           /\ engineYAML' = [engineYAML EXCEPT !.probes = left.probes]
    /\ UNCHANGED <<engines, options>>

\* A mutated form of EditProbe: the form is left as it was last shown.
EditLastProbe(k) ==
    /\ ShowsProbes
    /\ stepper' = Shown([stepper EXCEPT !.edit = TRUE, !.open = TRUE, !.selected = k])
    /\ UNCHANGED <<engines, options, engineYAML>>

\* The pencil of a probe.  The effect is due when another one was selected.
EditProbe(k) ==
    /\ ShowsProbes
    /\ LET p == [stepper EXCEPT !.edit = TRUE, !.open = TRUE, !.selected = k]
       IN  stepper' = Shown(IF k # stepper.selected THEN Reload(p) ELSE p)
    /\ UNCHANGED <<engines, options, engineYAML>>

AddProbe ==
    /\ ShowsProbes
    /\ Len(stepper.probes) < MaxProbes     \* bound
    /\ stepper' = Reload([stepper EXCEPT !.edit = FALSE, !.open = TRUE, !.adding = TRUE])
    /\ UNCHANGED <<engines, options, engineYAML>>

\* The cross and Cancel.  The list of no probes is not a missing value, so
\* the form is not cleared here; the effect is due if it was open to add.
CloseProbe ==
    /\ AtStep("steady") /\ stepper.open
    /\ LET p == [stepper EXCEPT !.open = FALSE, !.adding = FALSE]
       IN  stepper' = IF stepper.adding THEN Shown(Reload(p)) ELSE p
    /\ UNCHANGED <<engines, options, engineYAML>>

\* onTypeChange drops the inputs.
ChangeType(type) ==
    /\ AtStep("steady") /\ stepper.open /\ type # stepper.draft.type
    /\ stepper' = [stepper EXCEPT !.draft.type = type, !.draft.has = {}]
    /\ UNCHANGED <<engines, options, engineYAML>>

\* Typing the plain fields of a type.  A probe that is edited into an HTTP
\* probe has no method yet when the next render reads into it.
TypeInto(type) ==
    /\ AtStep("steady") /\ stepper.open /\ stepper.draft.type = type
    /\ stepper' = Shown([stepper EXCEPT !.draft.has = @ \cup {"inputs", "url"}])
    /\ UNCHANGED <<engines, options, engineYAML>>

handleHttp == TypeInto("httpProbe")
handleCmd  == TypeInto("cmdProbe")
handleK8s  == TypeInto("k8sProbe")
handleProm == TypeInto("promProbe")

\* Typing the criteria and the response code of an HTTP probe, which the
\* form shows from its own httpData when a probe is added.
TypeMethod ==
    /\ AtStep("steady") /\ stepper.open /\ stepper.draft.type = "httpProbe"
    /\ stepper' = [stepper EXCEPT !.draft.has = @ \cup {"inputs", "method"},
                            !.httpData = TRUE]
    /\ UNCHANGED <<engines, options, engineYAML>>

\* The browser submits when every required field on the page is filled.
Filled ==
    /\ "url" \in stepper.draft.has
    /\ stepper.draft.type = "httpProbe" =>
         IF stepper.edit THEN "method" \in stepper.draft.has ELSE stepper.httpData

\* handleAddProbe puts the probe into the shared list and closes the form.
NewProbe == CHOOSE n \in 1 .. MaxProbes + 1 :
                \A k \in DOMAIN stepper.probes : stepper.probes[k].of # n

SubmitProbe ==
    /\ AtStep("steady") /\ stepper.open /\ Filled
    /\ LET closed == [stepper EXCEPT !.open = FALSE, !.adding = FALSE]
       IN  stepper' = IF stepper.edit
                   THEN [closed EXCEPT !.probes[stepper.selected] = stepper.draft]
                   ELSE Shown(Reload([closed EXCEPT
                           !.probes = Append(@, [stepper.draft EXCEPT !.of = NewProbe]),
                           !.draft = BlankProbe]))
    /\ UNCHANGED <<engines, options, engineYAML>>

SteadyNext ==
    /\ ShowsProbes
    /\ engineYAML' = [engineYAML EXCEPT !.probes = stepper.probes]
    /\ gotoStep(IF infraEngine THEN 1 ELSE 2, engineYAML')
    /\ UNCHANGED <<engines, options>>

\* Back of any step: what was changed since its Next is lost.
StepBack ==
    /\ \/ ShowsProbes /\ ~ infraEngine /\ gotoStep(0, engineYAML)
       \/ AtStep("env") /\ gotoStep(IF infraEngine THEN 0 ELSE 1, engineYAML)
       \/ AtStep("advance") /\ gotoStep(IF infraEngine THEN 1 ELSE 2, engineYAML)
    /\ UNCHANGED <<engines, options, engineYAML>>

-----------------------------------------------------------------------------
(* Environment variables and the advanced configuration of the engine.     *)

EnvNext ==
    /\ AtStep("env")
    /\ engineYAML' = [engineYAML EXCEPT !.env = stepper.value]
    /\ gotoStep(IF infraEngine THEN 2 ELSE 3, engineYAML')
    /\ UNCHANGED <<engines, options>>

\* The switches, and the fields they show; also those of the advanced
\* options of the workflow.
Switch ==
    /\ stepper.at \in {"advance", "options"}
    /\ stepper' = [stepper EXCEPT !.on = ~ @]
    /\ UNCHANGED <<engines, options, engineYAML>>

TypeOption(v) ==
    /\ stepper.at \in {"advance", "options"} /\ stepper.on
    /\ stepper' = [stepper EXCEPT !.value = v]
    /\ UNCHANGED <<engines, options, engineYAML>>

\* A mutated form of Finish: the engine replaces the first one.
FinishFirst ==
    /\ AtStep("advance") /\ (stepper.on => stepper.value # 0)
    /\ engines' = [engines EXCEPT ![1] =
                      [engineYAML EXCEPT !.advance = IF stepper.on THEN stepper.value ELSE 0]]
    /\ engineYAML' = NoEngine /\ stepper' = TuneTable
    /\ UNCHANGED options

\* Finish: an option that is switched off is removed from the engine, which
\* then replaces the one in the manifest.
Finish ==
    /\ AtStep("advance") /\ (stepper.on => stepper.value # 0)
    /\ engines' = [engines EXCEPT ![stepper.index] =
                      [engineYAML EXCEPT !.advance = IF stepper.on THEN stepper.value ELSE 0]]
    /\ engineYAML' = NoEngine /\ stepper' = TuneTable
    /\ UNCHANGED options

-----------------------------------------------------------------------------
(* Advanced options of the workflow.                                       *)

OpenOptions ==
    /\ AtStep("table")
    /\ stepper' = [at |-> "options", index |-> 0, on |-> options # 0, value |-> options]
    /\ UNCHANGED <<engines, options, engineYAML>>

CloseOptions ==
    /\ AtStep("options") /\ stepper' = TuneTable
    /\ UNCHANGED <<engines, options, engineYAML>>

SaveOptions ==
    /\ AtStep("options")
    /\ options' = IF stepper.on THEN stepper.value ELSE 0
    /\ stepper' = TuneTable
    /\ UNCHANGED <<engines, engineYAML>>

-----------------------------------------------------------------------------
TuningInit ==
    /\ engines = Engines /\ options = 0
    /\ engineYAML = NoEngine /\ stepper = TuneTable

TuningNext ==
    \/ \E i \in DOMAIN engines : OpenEngine(i)
    \/ CloseStepper \/ ReloadPage
    \/ \E v \in Values : EditField(v) \/ TypeOption(v)
    \/ TargetNext \/ SteadyNext \/ EnvNext \/ StepBack
    \/ AtStep("steady") /\ \E k \in DOMAIN stepper.probes : DeleteProbe(k) \/ EditProbe(k)
    \/ AddProbe \/ CloseProbe \/ TypeMethod \/ SubmitProbe
    \/ handleHttp \/ handleCmd \/ handleK8s \/ handleProm
    \/ \E type \in ProbeTypes : ChangeType(type)
    \/ Switch \/ Finish
    \/ OpenOptions \/ CloseOptions \/ SaveOptions

TuningSpec == TuningInit /\ [][TuningNext]_tuningVars

-----------------------------------------------------------------------------
(* Properties.                                                             *)

\* The form that edits a probe holds that probe and is about to put it back
\* in its place, whatever was added, deleted and cancelled before: the form
\* follows the list by an effect and is never told.
EditsTheSelectedProbe ==
    AtStep("steady") /\ stepper.open /\ stepper.edit =>
        /\ stepper.selected \in DOMAIN stepper.probes
        /\ stepper.draft.of = stepper.probes[stepper.selected].of

\* The wizard implements the abstract edit of one engine.
Edit == INSTANCE EngineEdit WITH open <- stepper.index
EditsOneEngine == Edit!EditSpec
=============================================================================
