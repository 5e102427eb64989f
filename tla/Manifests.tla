----------------------------- MODULE Manifests -----------------------------
(***************************************************************************)
(* The workflow manifest the portal's pages pass around as YAML text, and  *)
(* the functions that read and rewrite it: frontend/src/utils/yamlUtils.ts *)
(* and the helpers of the pages under views/CreateWorkflow.                *)
(*                                                                         *)
(* A manifest keeps what the pages decide by: its kind and name, the       *)
(* namespace and cron schedule, the rows of steps of the entry template    *)
(* (the steps of a row run in parallel) and the other templates in their   *)
(* order, so that templates[i] is the source's templates[i] (the entry     *)
(* template is its templates[0]).  An artifact is a ChaosEngine; what the  *)
(* install and the revert step apply is left out.                          *)
(***************************************************************************)
EXTENDS Integers, Sequences, FiniteSets, SequencesExt

NoManifest == [kind |-> "none"]         \* manifest === ''
NoCron     == <<>>                      \* cronSyntax === ''

\* Names of steps, templates and engines: an experiment and its hash.
Install == <<"install", 0>>
Revert  == <<"revert", 0>>

EngineOf(name, setting) == [generateName |-> name, setting |-> setting]

InstallTemplate == [name |-> Install, artifacts |-> <<>>]
RevertTemplate  == [name |-> Revert, artifacts |-> <<>>]
EngineTemplate(engine) == [name |-> engine.generateName, artifacts |-> <<engine>>]

\* yamlTemplate: the manifest a custom scenario starts from.
Blueprint(name, ns) ==
    [kind |-> "Workflow", name |-> name, namespace |-> ns, cron |-> NoCron,
     rows |-> <<<<Install>>>>, templates |-> <<InstallTemplate>>]

-----------------------------------------------------------------------------
(* Reading.                                                                *)

Steps(m) == FlattenSeq(m.rows)

Engines(m) ==
    FlattenSeq([i \in DOMAIN m.templates |-> m.templates[i].artifacts])

extractEngineNames(m) ==
    LET engines == Engines(m)
    IN  [i \in DOMAIN engines |-> engines[i].generateName]

\* addWeights: every engine of the manifest weighs ten points; a manifest
\* without engines gets one entry for no experiment (NoName, 0).
NoName == <<"", 0>>
addWeights(m) ==
    LET tests == extractEngineNames(m)
    IN  IF tests = <<>> THEN <<[experimentName |-> NoName, weight |-> 0]>>
        ELSE [i \in DOMAIN tests |-> [experimentName |-> tests[i], weight |-> 10]]

\* The table's own addWeights has no entry for an empty manifest.
tableWeights(m) ==
    LET tests == extractEngineNames(m)
    IN  [i \in DOMAIN tests |-> [experimentName |-> tests[i], weight |-> 10]]

validateExperimentNames(m) == IsInjective(Steps(m))

isCronWorkflow(m) == m.kind = "CronWorkflow"

-----------------------------------------------------------------------------
(* Rewriting.                                                              *)

updateNamespace(m, ns) == [m EXCEPT !.namespace = ns]

Renamed(m, name) == [m EXCEPT !.name = name]

\* updateCRD: a step of its own row at the end, and the template of its
\* engine at the end.
updateCRD(m, engine) ==
    [m EXCEPT !.rows = Append(@, <<engine.generateName>>),
              !.templates = Append(@, EngineTemplate(engine))]

\* toggleRevertChaos, with the switch on.
PushRevert(m) ==
    [m EXCEPT !.rows = Append(@, <<Revert>>),
              !.templates = Append(@, RevertTemplate)]

\* The memo of the Tune step takes a trailing revert step off again.
EndsInRevert(m) == Last(m.rows)[1] = Revert
PopRevert(m) ==
    IF EndsInRevert(m)
    THEN [m EXCEPT !.rows = Front(@), !.templates = Front(@)]
    ELSE m

\* forEach over an array from which the callback splices the element it is
\* at: the element that moves up into its place is not visited.
RowWithout(row, name) ==
    FoldLeft(LAMBDA acc, step :
                IF acc.skip \/ step # name
                THEN [out |-> Append(acc.out, step), skip |-> FALSE]
                ELSE [out |-> acc.out, skip |-> TRUE],
             [out |-> <<>>, skip |-> FALSE], row).out

RowsWithout(rows, name) ==
    FoldLeft(LAMBDA acc, row :
                IF acc.skip THEN [out |-> Append(acc.out, row), skip |-> FALSE]
                ELSE IF RowWithout(row, name) = <<>>
                THEN [out |-> acc.out, skip |-> TRUE]
                ELSE [out |-> Append(acc.out, RowWithout(row, name)), skip |-> FALSE],
             [out |-> <<>>, skip |-> FALSE], rows).out

\* deleteExperiment: the steps of the template's name and the template.
deleteExperiment(m, i) ==
    [m EXCEPT !.rows = RowsWithout(@, m.templates[i].name),
              !.templates = RemoveAt(@, i)]

\* The last step of the configuration wizard puts the edited engine back.
ReplaceEngine(m, i, engine) ==
    [m EXCEPT !.templates[i].artifacts[1] = engine]

\* reorderSteps: one step dragged to a place of its own or another row ...
reorderSteps(rows, from, i, to, j) ==
    LET step == rows[from][i]
        left == [rows EXCEPT ![from] = RemoveAt(@, i)]
    IN  [left EXCEPT ![to] = InsertAt(@, j, step)]

\* ... and handleStepsChange, which drops the rows left empty.
SaveRows(m, rows) ==
    [m EXCEPT !.rows = SelectSeq(rows, LAMBDA row : row # <<>>)]

-----------------------------------------------------------------------------
(* EditYaml of the schedule step.  The namespace is set in every branch.   *)

\* A mutated form of Rescheduled: a scenario that was recurring stays so.
RescheduledOnce(m, cron, ns) ==
    IF cron = NoCron THEN [m EXCEPT !.namespace = ns]
    ELSE [m EXCEPT !.kind = "CronWorkflow", !.cron = cron, !.namespace = ns]

Rescheduled(m, cron, ns) ==
    CASE m.kind = "Workflow" /\ cron # NoCron ->
             [m EXCEPT !.kind = "CronWorkflow", !.cron = cron, !.namespace = ns]
      [] m.kind = "CronWorkflow" /\ cron = NoCron ->
             [m EXCEPT !.kind = "Workflow", !.cron = NoCron, !.namespace = ns]
      [] m.kind = "CronWorkflow" /\ cron # NoCron ->
             [m EXCEPT !.cron = cron, !.namespace = ns]
      [] OTHER -> m

-----------------------------------------------------------------------------
\* What every manifest the pages build must be: each step has a template and
\* each engine's template is run by exactly one step.
WellFormed(m) ==
    LET steps == Steps(m)
        names == {m.templates[i].name : i \in DOMAIN m.templates}
    IN  /\ ToSet(steps) = names
        /\ Len(steps) = Len(m.templates)
        /\ IsInjective(steps)
=============================================================================
