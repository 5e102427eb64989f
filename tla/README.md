# LitmusChaos portal: TLA+ models, checks and proofs

This directory is a formal model of the litmus portal (`src/litmus-portal/`):
the servers that people use to run chaos experiments, the agents that run
them in Kubernetes clusters, and the pages in the browser. It holds

- TLA+ modules, one per part of the system (`*.tla`), with an abstract
  specification beside a detailed one where a part makes a promise worth
  writing down (`RunLedger`, `Invitations`, `EngineEdit`);
- TLC instances (`*.cfg`, and `MC*.tla` where a module has to be composed or its
  constants need definitions);
- machine-checked proofs (`*_proofs.tla`);
- `PROJECT.json`, an index: the parts of the system, the runs, the source
  lines each definition stands for, a mutant of the code for each property,
  the findings and the hazards.

To parse, check and prove:

    tlasany GitOps.tla
    tlc -workers 2 -config GitOps_all.cfg GitOps
    tlc -workers 2 -config MCPortal.cfg MCPortal
    tlapm ClusterConnection_proofs.tla

Paths below are relative to `src/litmus-portal/`.

## 1. Inventory

### 1.1 The parts and how they talk

    browser -- GraphQL --> graphql-server --- MongoDB --- authentication <-- REST -- browser
                             |   ^   |  \_____ gRPC _______/
                             |   |   +-- git --> repositories (GitOps, hubs)
            clusterConnect   |   |
            (websocket) -----+   +-- mutations: confirmClusterRegistration,
                 |                   chaosWorkflowRun, podLog, kubeObj,
                 v                   gitopsNotifier
             subscriber (one per agent) -- Kubernetes API -- Argo, ChaosEngines,
             event-tracker                                   event-tracker policies

The GraphQL server has an in-memory data store
(`graphql-server/pkg/data-store/store.go`): maps of Go channels, and one Mutex.
It is what the goroutines of all requests share; everything else they share is
in MongoDB, which makes one call on one document atomic and no more: the code
uses no transaction that has an effect (the one it opens, in
`authentication/pkg/services/transaction_service.go`, does not contain its
updates). So the hard behaviours of this system are interleavings of
read-then-write sequences on documents, blocking sends under the Mutex,
messages over a websocket that has no delivery guarantee and no resend, and
processes that are restarted by Kubernetes between two writes.

The pages (`frontend/src`, React with Apollo, redux and plain `fetch`) are
concurrent in their own way. A page is a function of its hooks; what its parts
tell each other goes through effects that run after a render with that render's
values, through redux and localforage that outlive the page, and through
answers that come when something else is on the screen. What can go wrong is
that a request carries something else than the page shows: a value of an
earlier choice, of another row, of a form that was left, of a list that was
overtaken.

### 1.2 The parts one by one

| part | state | operations | what makes it correct |
|---|---|---|---|
| **Agent connections** `graph/cluster.resolvers.go`, `pkg/cluster/handler`, `pkg/data-store` | `ConnectedCluster`, `ClusterEventPublish`, the Mutex, a channel of capacity 1 per connection and per observer; `is_active` in MongoDB | `clusterConnect` and its clean-up goroutine, `getClusterEvents`, `SendClusterEvent`, `SendRequestToSubscriber` | one connection per cluster at a time; a clean-up never removes a newer connection; an entry of a dead connection goes away; nobody blocks for ever with the Mutex |
| **Agent registration** `pkg/cluster/handler`, `cluster-agents/subscriber/pkg/k8s`, `subscriber.go` | the cluster record (access key, registered, removed), ConfigMap and Secret of the agent, the process's copy of the key | register, fetch and apply a manifest, confirm (rotates the key), reconnect, delete | the two sides agree on the key whenever a subscriber may restart; a deployed agent gets connected |
| **Workflow runs** `pkg/chaos-workflow/{handler,ops}`, `pkg/database/mongodb/workflow` | `workflow_runs`, an array in the document of a workflow | report of an agent, deletion, termination, sync | an accepted report is in the record, once; a completed run stays as it is; it is completed for a reason |
| **Run reports** `cluster-agents/subscriber/pkg/{events,requests,utils}` | the stream channel, `eventMap`, the informer | informer events, requests of the server, posting | a finished run is reported as such; a failed verdict survives its ChaosEngine |
| **GitOps** `pkg/gitops` | the clone on disk, `latest_commit`, the workflows collection, a lock per project and per repository | enable, disable, sync every two minutes, create, update and delete through the API | files and database agree when all is settled; the sync catches up; it never goes back |
| **Project membership** `authentication/api/handlers/rest/project_handler.go`, `pkg/{project,services}` | `members` array and `removed_at` of a project, `deactivated_at` of users | invite, remove, accept, decline, leave, (de)activate | the owner stays; a user has one standing; a project is removed with its owner |
| Agent requests `pkg/chaos-workflow/handler` (pod logs), `pkg/cluster/handler` (kube objects) | one channel per request in `WorkflowLog` / `KubeObjectData` | request, reply, end of the subscription | a reply reaches the one who asked; no goroutine stays behind |
| Workflow templates | a collection | create, read, remove | names are unique |
| MyHub `pkg/myhub` | hub records and their clones on disk | add, update, delete, sync | record and clone agree |
| Project initialisation, creation | project document, default hub, registry, self agent | create in two servers | a project exists in both or in neither |
| Analytics, image registries, usage | collections | queries and CRUD | the aggregates are right |
| Authorization, gRPC, users and login | tokens, users | a check per request | only members with the role get through |
| Event tracker `cluster-agents/event-tracker` | policies and their statuses | informers append, the controller triggers | a change triggers its workflow once |
| Upgrade agent `upgrade-agents/control-plane` | the schema of the database | migration steps | a migration that is interrupted and run again loses nothing |
| **Scenario wizard** `frontend/src/components/WorkflowStepper`, `views/CreateWorkflow` | the hooks of the mounted step; redux (manifest, schedule, alert) and localforage (the chosen scenario, the agent, the weights) | seven steps, back, leave and return, Finish | the request is about the scenario that was composed, on the schedule and agent that were chosen |
| **Experiment configuration** `views/CreateWorkflow/TuneWorkflow` | a copy of one engine in redux, an array of probes shared by two components | open an engine, its steps, probes, advanced options | the manifest changes in the one engine, when its edit is finished; a probe is put back in its place |
| **Schedule form** `views/CreateWorkflow/ScheduleWorkflow`, `pages/EditSchedule` | radio buttons and pickers, the cron value, the stored form | clicks, effects, Verify, save | what is stored is what is shown; manifest and cron syntax agree |
| **Scenario tables, page of a run** `views/ChaosWorkflows`, `pages/WorkflowDetails`, `views/WorkflowDetails` | queries, Apollo's cache, subscriptions, the selected node in redux | filter, page, events, toggle, delete, save as template, select a node | a run is shown once; a row acts on its schedule; the logs are those of the node |
| **Comparison** `views/Observability/WorkflowStatistics` | selection, rows on display, two queries, the plot | select, compare, back, granularity | the selected are shown, the averages are right |
| **Monitoring dashboards** `pages/ChooseAndConfigureDashboards`, `views/Observability/MonitoringDashboard(s)` | redux, the wizard's variables, panels, tabs | create, clone, configure, tune panels | a stored dashboard is the one on the page |
| **Delegates, hubs, GitOps tab, registry** `views/Targets`, `pages/ChaosHub`, `views/Settings/{GitOpsTab,ImageRegistry}` | polled or refetched lists, drawers and dialogs with state of their own | connect, edit, delete, refresh | a form acts on what it names and with what was typed |
| **Teams and users** `views/Settings/{TeamingTab,UserManagementTab}` | lists of several components, rows with state | invite, remove, answer, leave, create, (de)activate | the lists agree with the server, a user is invited as chosen |
| **Session and routes** `containers/app/App.tsx`, `utils`, `pages/{LoginPage,GetStartedPage}` | token, project and role in the address and in the app | sign in and out, type an address, validate, redirect | no page shows more than was granted; redirects end |
| Rest of the frontend, Dex, manifests, monitoring, documentation | | | what a query returned is shown; what Kubernetes restarts |

`PROJECT.json` lists all 34 parts with their files and what becomes of each,
and the hazards, each at the line where it bites with the properties
that watch it.

## 2. The modules

Every module follows one pattern. State is split into what survives a restart
(MongoDB, Kubernetes, git) and what does not. A handler that makes several
calls is several actions, with a stage (`connect`, `call.stage`,
`handler.stage`, `job.step`, `request.stage`) for where it is; everything
between two points where others may come in is one action. Most modules of the
servers and the agent choose in `Init` a rigid variable (`given`, `allowed`, `overlap`) that says which
kinds of trouble may occur in the behaviour: one run then covers the calm
system, for which strong properties are stated, and the troubled one, for which
the weaker ones must still hold. A property that is limited to a circumstance
says so in its formula. Definitions whose comment begins with "Mutant:" are no
part of the specification: each is the form an action would have with a
plausible bug in the code, and shows that a property notices it.

### 2.1 ClusterConnection

The data store and its users. Correspondence:

| TLA+ | code |
|---|---|
| `Subscribe`, `Register`, `MarkActive`, `AnnounceLive` | `ClusterConnect` in `graph/cluster.resolvers.go:116-172`, cut at the Mutex and the call to MongoDB |
| `AnnounceOffline`, `DeleteEntry`, `MarkInactive` | its goroutine that waits for `ctx.Done()` (lines 136-156) |
| `LockForEvent`, `SendEvent`, `UnlockAfterEvent` | `SendClusterEvent` |
| `LookUp`, `SendAction` | `SendRequestToSubscriber`, which sends while it holds the Mutex |
| `DeliverAction`, `DeliverEvent` | `graph/generated/generated.go`, the readers of the two subscriptions, which gqlgen 0.11.3 (external) calls again and again: it starts when the resolver has returned and goes on draining the channel after the context has ended |
| `Restart` | the process ends; only `isActive` survives |

Abstracted: all clusters are in one project (an event goes to all observers);
observers are served in any order (the code's slice has one order); a refused
`VerifyCluster` and a request for a cluster that is not connected change nothing
and are no step. A subscription that is over may be followed by a new one, which
uses the same identity.

Properties. `EntryHasCleanUp`: entries and pending clean-ups correspond one to
one, which is why a clean-up that deletes by cluster id never deletes a newer
connection. `SendsToTheEntry`: a blocked send is on the registered channel.
`ConnectedAgentKeepsEntry`: nobody takes the entry of a connected agent away.
`Frozen` names the one way in which a send never ends;
`FrozenUntilRestart` says that the departure of the agent does not help, and
`LiveSendEnds`, `MutexReleased`, `DeadEntryRemoved` say that everything else
makes progress. `RequestsAreSent` is the promise of the code's comment and does
not hold (finding 1).

Known not to hold, without a run of its own: "a connected agent is recorded as
active". The clean-up of an old connection frees the entry before it writes
`is_active = false`, so the write may come after that of the next connection.

### 2.2 AgentRegistration

The server's record, the manifest on its way, the agent's ConfigMap and Secret,
and the subscriber's start-up.

| TLA+ | code |
|---|---|
| `RegisterCluster` | `RegisterCluster` in `pkg/cluster/handler/handler.go` |
| `ManifestParser`, `GetManifest`, `GetManifestWithClusterID` | `pkg/cluster/util.go`, `pkg/cluster/handler`, `pkg/file-handlers` |
| `Apply` | the manifest is applied resource by resource: by kubectl or by the server's own client (`pkg/k8s`), which goes on after a failed one |
| `StartPod`, `IsClusterConfirmed`, `ReadSecret`, `ReceiveReply`, `ClusterRegister`, `Connect` | `init` and `main` of `subscriber.go`, `pkg/k8s/operations.go`, `pkg/requests/webhook.go` |
| `CompareKey`, `RotateKey` | `ConfirmClusterRegistration`: a read, then an update that does not look at the key again |
| `DeleteClusters`, `SendDelete`, `ProcessDelete` | `DeleteClusters` and the subscriber's handling of the two delete requests |

Choices worth knowing: `is_registered` and `is_cluster_confirmed` are always
written together and are one field here. Keys are numbers, and a new one is
larger than all before, so "not newer" can be said. A subscriber whose
connection is refused is `turnedAway` and listens for ever (`webhook.go` logs
and goes on reading). The first delete request may be lost and the second
delivered. `DeleteClusters` marks one record only, since its filter over many
clusters goes to `UpdateOne`, but asks all of them to clean up, or none when it
cannot read their list (`handler.go:178-181`, which answers without an error). A removed agent
may reconnect: `VerifyCluster` does not look at `is_removed`.

Properties. `ServerKnowsFirst`: nothing on the agent's side is ahead of the
record. `LockedOutForGood`: with faults, an agent can lose its key for good (the
reply with the rotated key is lost, or the process ends between the writes of
ConfigMap and Secret), and then no number of restarts gets it back, only a new
manifest. `RestartSafe`: without faults, a subscriber past its initialisation
can be replaced at any time (a container that ends between the writes of ConfigMap
and Secret is a fault, and starts again with the old key). These three are proved (section 5).
`RegistrationCompletes`, `CleanUpCompletes`: without faults agents get connected
and go away.

### 2.3 WorkflowRuns and RunLedger

The array of runs under reports and users. `Count` and `Push`/`SetFields` are the
two calls of `UpdateWorkflowRun` (`pkg/database/mongodb/workflow/operations.go`);
`DeleteChaosWorkflowRun`/`TerminateChaosWorkflow` read and
`ProcessWorkflowRunDelete` writes the whole array back. Users name runs the lists
have shown them, which by then may have been lost from the array: nothing is
marked then, but the array is written and the agent asked to delete. Reports may
be late:
the agent may report any state the run has been in. `NotAvailable` is
reported only after a sync, of a run that is gone.

`RunLedger` is what users may expect: a run is in the record once, becomes
completed once and stays there. `ImplementsLedger` is refinement under the
mapping `status`/`shown`: it holds when requests do not overlap. When they may,
the mapping leaves the ledger blank and two weaker properties are checked:
`CompletedForAReason` and `ReportsKeepCompleted`. All three are proved (section
5). `AcceptedIsRecorded` does not hold then (finding 2).

### 2.4 RunReports

The subscriber. `RunWorkflow`, `RunEngine`, `Vanish` are the cluster;
`HandleChange`/`TakeEvent` the informer's handler and the consumer of the
stream; `Merge`, `Remember`, `Post` are `SendWorkflowUpdates`, called by two
goroutines on one unlocked map (`Collide` is the Go runtime noticing that);
`Receive`/`WorkflowRequest` the requests of the server; `Crash` a restart, by
kill or by one of the panics of the code. The informer does not resync
(`resyncPeriod` 0) and has no handler for deletions. The verdict is read from
the ChaosEngine when the event is handled, not when the workflow changed. The
engine watcher, whose events take the same stream, and events of workflows that
are ignored are not modelled.

`FailureIsKept` is what `eventMap` is for, and is proved (section 5). It is about
one life of the subscriber: a restart empties the map, and a failure whose
ChaosEngine is gone by then is lost, so of failures reported before a restart
nothing can be said. `FinishedIsRecorded` says when a
finished run is not recorded as such: its one report got lost, or the workflow
was deleted. `SyncIsAnswered` does not hold (finding 3).

### 2.5 GitOps

One project with one repository. The branch is a sequence of commits, each the
whole tree; files are workflow names; a file's content is the `workflow_id` in
it, if any, and a revision. `UserPush` changes one file. `Pull`, `Setup`,
`GetChanges`, `Apply`, `CommitNew`, `PushNew`, `RecordSync` are `SyncDBToGit`
(`pkg/gitops/gitops.go`), run by `GitSyncHelper` and at the start of a request;
`WriteFile`, `Publish`, `Confirm` are `UpsertWorkflowToGit` and
`DeleteWorkflowFromGit`; `WriteToDB` is what the resolver does after the lock is
released. The lock of the project encloses that of the repository, so one lock
is modelled, and it is derived: somebody is at a step that needs it.

What go-git does is external. A pull brings a clone forward when it has no commits
of its own and no tracked file was changed; refused, it leaves everything as it
was, and untracked files stay. (A pull that fails for the network is a job that
did not begin.) A push is refused when it would not be a fast-forward; with the
trouble `push` it may also fail for any other reason, before or after the
repository took it. The commit stays in the clone then, and since pulling into a
clone that is only ahead does nothing, a later sync finds it as the head of the
history and records it as `latest_commit`, although the repository may never get
it; the next push that succeeds brings it there. The index is not modelled.

The clone is in an `emptyDir` (`manifests/cluster-k8s-manifest.yml:601-613`).
`Crash` is a new pod, which starts without one, or a restart of the container,
which finds it as it was left (`LeftBehind`): at any step of a job, with a file
written and not committed (`Written`), or with a clone that was cut short
(`HalfMade`). Files of the commit that is known
already may be examined again, all but one: `GetChanges` counts files while it
walks back to that commit, and takes only the last file it counted out again.

Properties. `InStep`: when everything is settled, each workflow that was changed
in the repository is the same in the database. It holds among users who stay out
of each other's way. Each of the nine kinds of `Trouble` was seen to break it
when allowed alone (seven within four edits, `reuse` and `disable` within six),
which is why the property is limited to
`allowed = {}`: of a failed entry, of a request whose second half fails and of a
crash between a push and its record it says nothing. Under trouble remain
`StoredBeforeAnswered` (a push that fails fails the request), `ForwardOnly` (the
sync never goes back), `CatchesUp`, and in `TypeOK` that the two jobs never work
on the clone at once. `CatchesUp` says when a sync falls behind for good: only
when each one ends `Stuck`, that is, with a commit or a change of a file in the
clone, or a `latest_commit`, that the repository never got. That is how a push
that lost a race, a failed push followed by a push of somebody else, and a
restart with a file written and not committed end; everything else is caught up
with.
All of them but `CatchesUp` are proved (section 5).
`PickedUp` does not hold with such pushes (finding 4).

Not modelled: `UpdateGitOpsDetailsHandler`, `GitOpsNotificationHandler`,
renaming a workflow, several projects on one repository.

### 2.6 ProjectMembership and Invitations

One project. `members` keeps, for each user, the entries in array order. A
request checks the caller's role (`RbacValidator`, its reads merged into
one step), looks the invitation up, and writes; `UpdateState` is the
administrator's (de)activation, which runs outside of its transaction.
Administrators are not members. The rights that are checked are the caller's; the
entry that is looked up and written is that of the user the body of the request
names. Nothing compares the two: any invited user may accept, decline or, as a
member, leave for anybody, also for the owner (`project_handler.go:425/436`,
`460/471`, `495/506`), and an owner may remove himself (519-574). The pages of the
portal never ask for that, so it is a circumstance of its own, `others`. Of what deactivation writes only the user's `deactivated_at` and the
project's `removed_at` are ever read, and only they are kept. Creation and
renaming of a project are not modelled.

`OwnerStays` is therefore in parts. Without `others`, no order of requests,
overlapping or failing, changes or removes the entry of the owner. With them his
entry may be answered for or removed, but nobody else ever becomes an owner, and
without overlaps he never gets another role; with `others` and overlaps he may
(he is removed between the check and the look-up of an invitation of himself).
`Invitations` is the life of everybody's standing, in which an answer needs a
caller with the standing and, with `others`, may be for anybody who has one;
`ImplementsInvitations` is refinement when requests do not overlap, whoever is
named and whatever fails. When they do, a repeated invitation that looked before
its user accepted sets him back to pending. `ProjectFollowsOwner` is the purpose
of the transaction, and holds only when nothing fails. `OneEntryPerUser` does not hold (finding 5); that a user has at
most as many entries as requests overlap is part of `TypeOK`. What holds is
proved (section 5).

### 2.7 Pages: what their modules have in common

Paths in 2.7 to 2.15 are relative to `frontend/src/`. The modules of pages do
not talk to those of the servers: each has, in `stored`, `reached` or `server`,
the little of the server it needs (external), so that a page can be checked
against a server that changes under it.

Two modules compose them, each with a variable `area` for the page that is open;
the variables a page does not have are "off". `Pages` has the ten pages that show
what a server stores: the tables of runs, schedules, delegates, members,
invitations and users, the hubs, the GitOps tab, the image registry and the modal
of invitations. Its constants are the rows and inputs of those pages, its
properties `RunsShownOnce`, `ListsAsStored` and `ActsOnWhatWasNamed`; section 5
proves them. `MCPortal` adds the other pages and is what TLC runs: its behaviours
whose `area` is one of the ten are those of `Pages`. It extends `Pages` and the
modules of the schedule, of the tuning wizard, of the page of a run and of the
session, so that the properties it checks of them are the formulas section 5
proves, and instantiates the others. Thirteen properties of pages are checked
there.

How a page becomes a state machine:

- State is what outlives a render: hooks (`page`, `hooks`, `ui`, `form`, `table`),
  redux and localforage (`store`, `redux`, `selectedNode`; redux-persist keeps all of redux over a
  reload), Apollo's cache, requests under way (`sends`, `asks`, `list`). What
  React derives from it (`Shown`, `Mounted`, rows) is an operator.
- An action is an event of the user or an answer of the server with everything
  it sets off. React 16 flushes the effects that are due before it handles the
  next click, in the order they are declared, each with the values of the render
  it belongs to; the `setState`s of one event are one render. Where an effect
  changes what another effect depends on, the rounds are kept apart
  (`ScheduleForm.Flush`); elsewhere they are composed in the action.
- A closure is a value. A request keeps the values of the render it was sent
  from, when its answer uses them (`closure` in `ChaosHubs`, the filters of a
  subscription in `RunsTable`).
- An unmounted component drops its updates of state; a mutation's `onCompleted`
  and a callback of the parent still run.
- `PageQuery` is a query of @apollo/client 3.3.20 (external): a request for
  other variables makes the answers of older ones ignored, one for the same
  variables shares the answer of the one under way, also across components. A
  page may so be left with data that is older than its own change: `shared`
  says when. `PageFetch` is plain `fetch`: answers in any order, and one that
  was overtaken overwrites (`old`). Data that is equal is the same object.
- A failed request is one the server refused. A change that was applied and
  whose answer got lost is not modelled for pages.
- localforage answers before the user's next event. Icons, descriptions,
  timestamps and layout are left out, as is the arithmetic of colours and
  charts but for `ComparisonPlot`.

### 2.8 Manifests and ScenarioWizard

`Manifests` has the functions of `utils/yamlUtils.ts` and their neighbours on
the structure of a workflow manifest: steps in rows, templates in order, an
engine per template. `ScenarioWizard` is `components/WorkflowStepper` with the
seven steps of `views/CreateWorkflow`:

| TLA+ | code |
|---|---|
| `Show`, `MountedStore`, `MountedUi` | a step is mounted with what redux and localforage hold; the one before it forgets its hooks |
| `AgentsAnswer`, `PickAgent`, `AgentNext` | `ChooseWorkflowAgent` |
| `ChooseRadio`, `Picked`, `Upload`, `ChooseNext` | `ChooseWorkflow` and its four choices |
| actions of Settings, Tune, Score, Schedule, Verify | the steps of these names; the form of Schedule is replaced by what is proved of it (`StoresWhatItShows`) |
| `Payload`, `Ready` | `VerifyCommit`: what Finish sends, and when it can |

`SubmitsWhatWasChosen`: whatever was chosen, edited, gone back from and left
and returned to, the request is about one scenario: the weights are those of the
engines in its manifest, manifest and cron syntax name one schedule, the
namespace is the agent's. From Tune on every step of the manifest has its
template, each engine the one of its template, and the revert step is last.

### 2.9 EngineTuning and EngineEdit

`TuneWorkflow/{ConfigurationStepper,TuneWorkflowSteps,AddProbe,AdvanceTuning}`.
The engine that is opened is copied to redux, every step writes it back with
Next, and the last step writes the manifest. The array of probes is one
JavaScript array, held by the steady-state step and by `AddProbe`, which is
mounted beside it all the time and follows the selected probe by an effect.
`MaxChanges` bounds the changes of a behaviour after which another engine is
opened. Input the code cannot survive (section 6, observation 4) leads to a crash: the
state `crashed` has no step but leaving.

`EngineEdit` is the promise: an edit begins, is cancelled, or is committed, and
then changes one engine, which keeps or lacks its target as before.
`EditsOneEngine` is the refinement, with `open <- stepper.index`.
`EditsTheSelectedProbe` says that a form that edits a probe holds that probe and
puts it back in its place. Both are proved (section 5).

### 2.10 ScheduleForm and EditSchedule

The form is used in the wizard and, nearly line for line, by
`pages/EditSchedule/Schedule.tsx`. `Choose`, `ChoosePeriod` are its radio
buttons, `PickMinute`, `PickTime`, `PickDay`, `PickDate` its pickers; `Flush`
runs the effects on `[valueDef, value]` and on `[cronValue]` that are due
(`form.due`). `EditSchedule` puts it on the page with a summary and a mutation:
`EditYaml` rewrites the manifest from the store when Verify is pressed; saves
may overlap with further edits.

`StoresWhatItShows`: once no effect is due, redux holds the cron value of the
choice on display, and the choice itself. `StoredScheduleAgrees`: the server
never gets a manifest and a cron syntax that ask for different schedules. Both
are proved (section 5).

### 2.11 RunsTable, SchedulesTable and RunDetails

`RunsTable` is `views/ChaosWorkflows/Runs`: each change of the shown data adds a
subscription whose closure keeps the filters of that render, and none is ever
removed. `RunsShownOnce`: a run is nevertheless in the rows once, and the count
covers the rows.

`SchedulesTable` is `BrowseSchedule`: toggle, delete, run again, save as
template, each from what the row shows. `ShowsStored`: when all is answered the
rows are those of the server. `TemplateOfItsRow`: a template is saved with the
manifest of its row and without the labels that tie it to a cluster, although
redux and the modal hand it on from one dialog to the next.

`RunDetails` is `pages/WorkflowDetails`, the graph, the table, the panel of logs.
The selected node is known to the graph, to redux (`selectedNode`) and to the
panel of logs, each by its own effect; the first and the last are `hooks` of the
page. One number (`reached` by the run, `cached` by the client) stands for how far a run is, and gives its nodes, their
chaos data and its phase. A `TypeError` while rendering (`crashed`) is left by a
reload. `LogsOfTheSelected`: the logs on display, the pods they are asked of and
the tab that is open belong to the selected node, across events, late answers
and visits to other runs. This is proved (section 5).

### 2.12 RunComparison and ComparisonPlot

`WorkflowComparisonTable` keeps the rows on display in a state of their own that
two effects write, and starts the query of the runs whose variables then follow
the selection. An answer takes two commits: the first renders it with the data of
the plot as they were, then `onCompleted` sets them (`Answered`). The plot turns
its data into lines when it is mounted and when its granularity changes
(`WorkflowComparisonPlot/index.tsx:347-350`), and at no other time (`Committed`).
`ComparesTheSelected`: a comparison shows none but selected rows, and once the
runs are there the data of the plot are those of the selection, and they are what
is drawn, with one exception (`early`): when Compare is pressed while the runs of
a later selection are loading, the plot is mounted by the first of the two commits
and keeps drawing the lines of the selection before (section 6, observation 8).
`ComparisonPlot` is the grouping by hour, day or month and the line of averages,
checked against the mean for every pair of series of up to two runs each
(`PlotsTheAverages`): once per date, from left to right, and the two extremes
bound the others.

### 2.13 DashboardWizard and DashboardPanels

`pages/ChooseAndConfigureDashboards` with the table, the metadata form, the
choice of metrics and the last step, in its two modes. What the pages tell the
wizard lies in redux; `details` is the form's copy of `vars`, and effects carry
it back; the answer of a save is handled even when the wizard was left.
`BoardsAsChosen`: a stored dashboard has a name, an agent, a data source, and
only panels of its own type. `DashboardPanels` is the last step by itself, with
the aliasing of the arrays of queries between the list, the open tab and the
dashboard (`key`). `SendsWhatIsShown`: each panel is sent once, in the group it
is shown in, with the open tab's changes.

At this commit the routes of these pages are commented out
(`containers/app/App.tsx:178-210`): the modules are about the code of the pages,
which nobody can reach until the routes come back.

### 2.14 TargetsTable, ChaosHubs, GitOpsTab, ImageRegistry

| module | property |
|---|---|
| `TargetsTable`: `views/Targets/BrowseCluster`, a polled list with client-side paging, a dialog per row | `DisconnectsTheNamed`: the delegate whose row the dialog was opened from is disconnected, though rows move under it and the dialog reads its delegate when it is confirmed |
| `ChaosHubs`: `pages/ChaosHub`, one drawer that stays mounted and holds one of two forms | `ConnectsWhatWasTyped`: a git hub is connected with what was typed, an update is of the hub its fields were filled from; `ShowsStored` |
| `GitOpsTab`: the form, the panel and two modals, driven by flags that an effect and two answers set | `FormAgrees`: the form where GitOps is off or edited, the panel where it is on |
| `ImageRegistry`: a list that gives an id, a query for its data, two mutations | `ShowsStored` |

### 2.15 TeamTable, InviteModal, InvitationsTab, UserManagement, PortalSession

`TeamTable` (members and invited, a row component with the role picked in it),
`InvitationsTab` (three components that ask for one list, each for itself) and
`UserManagement` (the administrator's table and forms) have `ShowsStored`. A list
that cannot be fetched is logged and leaves the page as it is. In
`InviteModal` the role of a user is in three places, and
`InvitesWithChosenRole` compares what is sent with the history `picked`.

`PortalSession` is `containers/app/App.tsx` with `utils`, `LoginPage`,
`GetStartedPage`, side bar and header. Project and role are parameters of the
address, which anyone may type, and state of `Routes`; validation asks the
server for the role, a lookup finds the project when there is none, some
redirects drop both. `NoMoreThanGranted`: when the answers are there, address
and state are about one project and show no more than was granted in it; this is
proved (section 5).
`ComesToRest`: redirects and lookups end. Browser back, the expiry of a token
and the first commit's short-lived mount of a page before validation starts are
left out.

What `ListsAsStored` leaves out is in the formula of each `ShowsStored`: a
refetch that had to share an earlier answer (`shared`), a `fetch` answer that
was overtaken or failed (`old`, `stale`), a form left unanswered (`left`), two updates of
the registry at a time (`overlapped`), cards of a tab that was switched while
its change was under way. Under each of these the list can stay behind the
server until it is opened again; all of them were met as counterexamples first.

## 3. The runs

| run | instance | what it shows |
|---|---|---|
| `connections` | 1 cluster, 2 connections, 1 observer, 1 caller | all properties of ClusterConnection but `RequestsAreSent`; 21 thousand states |
| `conn_frozen` | the same | `RequestsAreSent` violated |
| `registration` | 1 agent, 2 pods, 2 calls, 3 keys, 2 manifests, 2 requests; with deletion, or with faults | ServerKnowsFirst, LockedOutForGood, RestartSafe, and the two liveness properties; 152 thousand states |
| `runs` | 2 runs, 2 handlers, 2 users, 3 entries; overlapping (1 run started) or not | CompletedForAReason, ReportsKeepCompleted, the refinement; 1.2 million states |
| `runs_lost` | 2 runs, 1 handler, 1 user, overlapping | `AcceptedIsRecorded` violated |
| `reports` | 1 run, stream of 1, 2 changes behind, 1 restart; calm, or with requests and loss | FailureIsKept, FinishedIsRecorded; 465 thousand states |
| `reports_sync` | 1 run, stream of 2, with requests | `SyncIsAnswered` violated |
| `gitops` | 2 files, 4 edits, 1 crash; calm, everything but crashes, everything but races, races with failing pushes and crashes | all properties of GitOps but `PickedUp`; 2.1 million states |
| `gitops_race` | 1 file, 4 edits, with races | `PickedUp` violated |
| `members` | the owner and 2 users, 2 requests; calm; faults, with others or without; overlap and faults, with others or without | all properties of ProjectMembership but `OneEntryPerUser`; 763 thousand states |
| `members_twice` | the owner and 1 user, 2 requests, overlapping | `OneEntryPerUser` violated |
| `portal` | all pages, one of them open in a behaviour; the bounds are in `MCPortal` | the thirteen properties of section 2.7 to 2.15; 2.1 million states |

Why the bounds are enough:

- `connections`: one cluster with two connections gives a reconnection over a
  pending clean-up and a second agent turned down; the clusters interact only
  through the Mutex, which the caller and the observer already contend for. One
  caller sends twice, which fills the buffer of one. The proofs cover all sizes.
- `registration`: two pods are a rolling update; two calls are a confirmation
  that is overtaken by another; three keys allow a rotation after a rotation;
  two manifests allow a fetch in the middle. With both circumstances at once
  the safety properties were checked too, but the graph is too large for the
  liveness properties; deletion and faults meet only in `configMap` and
  `deployed`, which both can set.
- `runs`: the array has room for both runs and a duplicate. Two runs are needed
  for a write-back that loses another run's entry; with overlap one is enough
  for every interleaving on one entry, and `runs_lost` has two.
- `reports`: the stream of 10 is cut to 1 so that it fills. Runs share the
  stream, the map and nothing else, and the map is keyed by run.
- `gitops`: two files are needed for a sync that applies one change and fails on
  another; four edits for create, change, delete, and a request in between. The
  calm circumstance alone was also checked with six edits.
- `members`: two overlapping requests give an invitation and a second one, or an
  answer, or a removal, in every order of their calls. With two users a caller
  can answer for another user and for the owner. When requests overlap, callers
  and those they name are the owner and one user (`Few`); the proofs are for all
  of them and any number of requests.
- `portal`: two rows, with one of them to a page, are what a dialog can be
  mistaken over; one change under way beside the refetches it causes is what an
  answer can overtake, and in the GitOps tab and the registry, whose two
  mutations the page does not keep apart, there are two; two probes, two engines,
  two crons, two selected scenarios are what can be confused. In the comparison the runs of two selections
  are answered, so that a plot can be of the one before; one change of an engine
  is followed by the opening of another (`MaxChanges`), since two are more than
  12 million states. The pages were also checked one by one, the dashboards with two of them (418 thousand
  states), the users with two requests for the list (580 thousand). With these
  bounds a mutant of the code breaks each of the thirteen properties.

Six runs set `CHECK_DEADLOCK FALSE` (`registration`, `reports`,
`reports_sync`, `gitops`, `gitops_race`, `portal`): every bound reached and
every run, manifest or edit dealt with is a legitimate end there, as is a page
whose renderer has crashed until it is reloaded.

## 4. Fairness

- Goroutines that can run do (weak fairness of each step): the Go scheduler is
  preemptive, and a call to MongoDB returns or fails.
- A goroutine that waits for the Mutex gets it (strong fairness of `Register`,
  `AnnounceLive`, `AnnounceOffline`, `DeleteEntry`): `sync.Mutex` switches to
  starvation mode and hands itself over in FIFO order. Callers are not assumed
  to keep calling.
- Readers of a live subscription go on (weak fairness of `DeliverAction` and
  `DeliverEvent`): gqlgen drains the channel whether the websocket takes the
  messages or breaks.
- The subscriber's goroutines, a manifest that is being applied, the two-minute
  loop of `GitSyncHelper` and a job that has started go on (weak fairness).
- Nobody has to do anything of their own accord: users, agents, Argo, the
  network and restarts have no fairness. Every liveness property starts from
  something that has happened.
- The pages have no fairness: an answer need not come, and what is said of them
  is safety ("once nothing is under way"). That redirects end is stated as a
  bound on their number (`ComesToRest`).

## 5. What is proved

`ClusterConnection_proofs` proves, for any sets of clusters, connections,
observers and callers, with the assumptions `ClusterOfType` and `NoneIsNoValue`:

| theorem | states |
|---|---|
| `TypeCorrect` | `Spec => []TypeOK` |
| `EntryCleanUp` | `Spec => []EntryHasCleanUp` |
| `SendsRegistered` | `Spec => []SendsToTheEntry` |
| `KeepsEntry` | `Spec => ConnectedAgentKeepsEntry` |
| `FrozenForGood` | `Spec => FrozenUntilRestart` |

The inductive invariant is

    IInv == TypeOK /\ EntryOfItsCluster /\ CleanUpInOrder /\ EntryHasCleanUp /\ SendsToTheEntry

`EntryHasCleanUp` alone is not inductive. `DeleteEntry(k)` deletes under
`ClusterOf[k]`; that this is the entry of k, and not one of another connection
of the cluster, needs `EntryHasCleanUp` before the step, for k. `Register(k)`
gives the entry to k; that k has no clean-up pending from before
(`CleanUpInOrder`: a subscription that is new has none, one that is reused has
`disconnect` at "none"), and that the entry it finds empty is the one of its own
cluster (`EntryOfItsCluster`), closes the argument. `SendsToTheEntry` is
inductive because `DeleteEntry` and `Register` need the Mutex, and a sender has
it. The action properties follow from `IInv` step by step: an entry is
overwritten by `Register` only when it is empty, and by `DeleteEntry(k)` only
when the context of k has ended.

`ProjectMembership_proofs` proves, for any users, any finite number of requests
and any circumstances, with the assumptions `OwnerIsNoUser`, `RequestsType`
(requests are finitely many, and there is one), `FewAmongAll` and `GivenType`:

| theorem | states |
|---|---|
| `KeepsOwner` | `Spec => []OwnerStays` |
| `TypeCorrect` | `Spec => []TypeOK`, with its bound on the entries of a user |
| `FollowsOwner` | `Spec => []ProjectFollowsOwner` |
| `Refinement` | `Spec => ImplementsInvitations` |

`KeepsOwner` starts from `IInv == Types /\ OwnEntry /\ Writes`: while callers name
nobody else, the owner's entry is what it was first, and a request past its
look-up which is about to write an entry is about a user and not about the owner.
The owner may invite himself: `LookInvited` finds the accepted entry (this needs
`OwnEntry`) and refuses, so the request never gets to a write. An answer needs a
caller with the role of a member, which the owner does not have (`OwnEntry` again),
and is about its caller. Since one request's write must not spoil what another has
looked up, both parts are needed together. What holds whomever callers name is in
`FullInv`: users never have the owner's role (`RolesOfUsers`), since only an
invitation writes roles and it writes Editor or Viewer. `FullInv` adds what the others need:

- The bound on entries holds because there is room for what is about to be
  added (`RoomForAdders`): the entries of a user and the requests at "add" for
  him are together no more than the requests, and a request gets to "add" only
  if the user has no entry, when there are no more of them than requests.
- The project is closed between the two writes of (de)activation, not at once:
  `ProjectState` says what holds in between, from the request's own operation.
- When requests do not overlap, what one of them has found is still so when it
  writes (`Calm`), and nobody has more than one entry; then each write is the step
  of `Invitations` of the same name, and every other step, a failing call among
  them, a stutter. The same shows that no entry of the owner gets another role:
  once he is removed there is nobody to invite him.

`Portal_proofs` begins with the schedule form. It proves, for any sets of inputs
the pickers offer and any number of saves under way, with the assumption `InputsAssumption` (the inputs
are natural numbers; minute 0 and date 1, which a new schedule starts with, are
among them):

| theorem | states |
|---|---|
| `FormStores` | `FormSpec => []StoresWhatItShows`, for the form by itself |
| `PageStores` | `ScheduleSpec => []StoresWhatItShows`, for the page around it |
| `StoredAgrees` | `ScheduleSpec => []StoredScheduleAgrees` |

`StoresWhatItShows` speaks of a form that is `Complete` and says nothing of the
renders between a click and the last of its effects, so it is not inductive.
`FormInv` adds what holds between: the fields of the pickers are stored at once
(`FieldsStored`); when the effect on the choice is not due, the choice is stored
and a cron value on display is the one derived from it (`ChoiceStored`); when no
effect is due at all, the cron value is stored too (`CronStored`). The one
subtle step is `Flush`: both effects run with the values of the same render, so
the one on `[cronValue]` may store a value that the other is about to replace;
it is then due again. `PageInv` adds for the page that the server's scenario and
every save under way agree in themselves, that a manifest on the page is one
that could be saved with its own schedule, and that on the summary, where the
button to save is, that schedule is the one in the store. This last conjunct is
why it does no harm that the form's effects write the store while the manifest
still has the old schedule: saving needs the summary, and the way there is
Verify, which rewrites the manifest from the store, or a fresh answer, which
sets both.

`AgentRegistration_proofs` proves, for any agents, pods and calls, any bounds and
any circumstances (deletion and faults in the same behaviour included, which the
run keeps apart), with the assumptions `AgentOfType`, `BoundsType` and
`NoneIsNone`:

| theorem | states |
|---|---|
| `TypeCorrect` | `Spec => []TypeOK` |
| `KnowsFirst` | `Spec => []ServerKnowsFirst` |
| `LockedOutStays` | `Spec => LockedOutForGood` |
| `CanRestart` | `Spec => []RestartSafe` |

    IInv == TypeOK /\ ServerKnowsFirst /\ ManifestsBehind /\ CallsBehind /\ CallsAwaited /\ WritersConfirmed

A key gets to the agent by two ways, in a manifest and in the reply to a
confirmation, so what is on the way must be behind the record as well
(`ManifestsBehind`, `CallsBehind`), and a process may only be about to write
that it is confirmed when the record says so (`WritersConfirmed`). The subtle
step is `RotateKey`, which replaces the key without looking at it again: the new
key is newer than all, so nothing is left ahead. For `LockedOutStays` the call
must not be one that a locked-out agent still waits for: `CallsAwaited` says
that a call somebody waits for is the only one of a pod which is still
confirming, with the key it asked with. A call that has been compared with the
record's key while the agent is locked out therefore belongs to a pod that has
gone, and its reply reaches nobody. This is why restarts do not help.

`CanRestart` is about agents nothing fails for, so its invariant (`LifeInv`) may
follow one from its record to its removal: such an agent goes through its life
once, with one pod at a time, and `New`, `InstallingAt`, `Installed`, `Running`
and `Removed` say what there is of its objects, pods and calls at each point.
The key a running pod has got, or the answer it waits for brings, is the one of
the record until it is stored. What makes deletion harmless is
`RequestsToConnected`: a request to clean up is only ever on its way to a pod
that is connected, so the ConfigMap is not taken from one that still has to read
or write it.

`WorkflowRuns_proofs` proves, for any runs, handlers and users, whether requests
overlap or not:

| theorem | states |
|---|---|
| `CompletedHasReason` | `Spec => []CompletedForAReason` |
| `ReportsKeep` | `Spec => ReportsKeepCompleted` |
| `Refinement` | `Spec => ImplementsLedger` |

with `IInv == TypeOK /\ CompletedForAReason /\ CopiesReasoned /\ ReportsTrue`.
An array that a user has read is written over whatever has happened since; the
property survives because the reasons for a completed entry never go away
(`ReasonsGrow`), so that what was reasoned when it was read still is when it is
written. `ReportsKeep` needs that the element `$elemMatch` finds is an element
of the array that is not completed, at the time of the write: the least of a
non-empty set of positions is in the set (`FirstIn`, from the library's theorem
that `<` on the naturals is well-founded). A handler's count may be out of date
by then; whether the run is known is the only thing it decides.

`Refinement` is about requests that do not overlap and adds `InTurn`: one
request is at work, a run is in the array once, what a handler counted is still
so, and a copy that a user holds is the present array with that user's own
change. So a write-back changes the status of one run, a report that of one run
or adds it, and everything else leaves the ledger as it is.

`RunReports_proofs` proves, for any runs, any capacity of the stream and any
bounds, with the assumptions `BoundsType` and `NoneIsNoEvent`:

| theorem | states |
|---|---|
| `TypeCorrect` | `Spec => [](Types /\ Recorded /\ IsFiniteSet(Created))` |
| `FailureKept` | `Spec => FailureIsKept` |

`FailureIsKept` is about what a report does to the record, yet nothing is
compared with the record: the subscriber knows only `eventMap`, which it forgets
when the run ends or when it restarts. So what the property says is made true
earlier, by the order of things (`Unasked`, which holds as long as users ask for
nothing). The last change of a run is its end, so its events are over when the
one that ends it is taken (`Ends`, `TakenInOrder`); in the stream no verdict
goes back from failed to awaited (`Falls`); and until the end was reported the
failed verdict is remembered (`Remembered`). The informer of a restarted
subscriber lists each workflow once, in any order, which starts the order of
things anew; that it lists finitely many is in the invariant. The property
is about one life of the subscriber: a restart empties `eventMap`, and what was
reported before it is forgotten. With requests it is false: a sync passes the
stream by.

`GitOps_proofs` proves, for any files, any number of edits and crashes, and any
circumstances, with the assumptions `GitOpsAssumption`, `NoneIsNoNumber` and
`FileAssumption` (there is a file name):

| theorem | states |
|---|---|
| `TypeCorrect` | `Spec => []TypeOK`, with the lock: the two jobs are never at work together |
| `StoredFirst` | `Spec => []StoredBeforeAnswered` |
| `NeverBack` | `Spec => ForwardOnly` |
| `DatabaseAsRepository` | `Spec => []InStep` |

    IInv == TypeOK /\ Numbers /\ CloneThere /\ Jobs /\ HeadsAhead /\ FileFirst

`Numbers` says that commits are numbered upwards, in the repository and in the
clone; `HeadsAhead` that the commit a job is about to record is not behind the
one recorded, which is all `NeverBack` needs; `FileFirst` follows the file of a
request from the clone ("publish") to the repository ("confirm", "db").
What is in the repository stays in its history, so the conclusion survives the
pushes of others, and a push whose answer is lost. A clone that a restart left
behind is only known to be numbered upwards; that is enough, since a job that has
read it has to push before it writes to the database.

`DatabaseAsRepository` is the longest of the proofs. It is about users who stay
out of each other's way, where one job is at work at a time, and its invariant
(`SyncInv`) says for every step of a job how clone, repository and database
differ: `Stage` by the step, `Target` by what the request is about, `Recorded`
and `Quiet` for the time between jobs, `Unique` of the database. Its centre is
`UpToLatest`: up to the recorded commit, every file touched since GitOps was
enabled is in the database as it was in that commit. A sync reads only the
changes after that commit. That the other files are as they were takes an
argument about histories: if a file differs between two commits there is a first
one after which it does (`Untouched`, from the least-number principle), and that
one touched it.

The rest of `Portal_proofs` is about three more pages, each by its own
specification, for any values of its constants; `MCPortal` extends their modules
and checks the same formulas:

| theorem | states |
|---|---|
| `TuningEditsTheSelected` | `TuningSpec => []EditsTheSelectedProbe` (EngineTuning) |
| `TuningEditsOne` | `TuningSpec => EditsOneEngine`, the refinement of EngineEdit |
| `SessionShowsTheGranted` | `SessionSpec => []NoMoreThanGranted` (PortalSession) |
| `SessionComesToRest` | `SessionSpec => []ComesToRest` (PortalSession) |
| `DetailsLogsOfTheSelected` | `DetailsSpec => []LogsOfTheSelected` (RunDetails) |

The modules assume of their constants that `MaxProbes` is a natural number, that
no project and no run has the empty name (`""` stands for none, and `"crashed"`
for a page that is gone), and that a run has at least one node. `TuningInv` says of the steady-state step: the form of a probe is open
to add one or to edit one (`Opened`), and whenever it is not open to add, and
there are probes, it has the selected one (`Follows`). The subtle steps are
those where the effect that follows the list is not due, such as cancelling, or
deleting a probe after the selected one; and adding a probe, for which a number
that is free must exist (by the pigeonhole principle). For the refinement the
engine in redux has a target exactly if the one in the manifest has.

`SessionInv` follows the state of `Routes` and the address through up to three
redirects per event. Once the role is known, whatever project and role are named
were granted (`Granting`); while it is being asked for, they are either in a
project of the user's own or the ones that were asked for (`OwnOr`), and one
question is under way at a time. Since a redirect only ever names the project
and role that are there, or none, this is kept for an arbitrary set of allowed
pairs (`Within`), and the sets are put in afterwards. `Settled` says that nobody
but the owner stays on the settings of a project.

`ComesToRest` bounds how often a project is looked up before `Routes` is done,
so it speaks about a chain of answers and redirects. `Chase` follows the chain:
one lookup at a time while `Routes` waits (`Waits`), and the lookups made, with
what is still under way, are two at most. What is under way has a `Weight`: a
lookup that will lead back to a page where its user cannot stay costs one more
than one that ends the chain (`InTime`), and while the role is being asked for
there is time left for one (`WhileAsked`). A redirect loses the project at most
once per event (`Loses`), and redirects do not find a lost project again
(`Lost`).

`DetailsInv` says who knows what of the selected node. The graph and the logs are
there only while the run is shown, and then the graph has the node of the store
(`GraphSelects`); the store has the type of its node (`TypeKnown`), and the logs
are those of that node (`LogsSelected`). Two things make it inductive that the
property does not say: the modal is open in the second tab only, where there is
no graph that could disagree with a selection made in it; and a page without
graph or logs (`Blank`) is what every visit begins with, so that the selection
of an earlier visit, which redux keeps, is taken up by neither.

`Pages_proofs` is about the ten pages of `Pages`, for any rows, inputs and page
sizes and any number of requests under way. The one assumption, `RunIDsAssumption`,
is for the runs table: the runs are finitely many, each of a scenario, and a page
has rows.

| theorem | states |
|---|---|
| `ActsOnNamed` | `PagesSpec => []ActsOnWhatWasNamed` |
| `ShowsWhatIsStored` | `PagesSpec => []ListsAsStored` |
| `RunsOnce` | `PagesSpec => []RunsShownOnce` |

Since `area` never changes, a step of `PagesSpec` is a step of the open page or
leaves its variables alone (`PagesStep`), and the theorems come down to an
inductive invariant for each page.

Where a page shows what is stored, the argument is about the requests under way.
Of a query, `Fresh` says that what it has (when nothing is on the wire) or is
about to bring (when an answer is on its way) is what the server has now, unless
it shared an answer; of plain `fetch`, `LastFresh` says it of the request sent
last, unless it was overtaken. Neither survives a change of the server. What
saves the page is that each change is followed, when it is answered, by a refetch.
So the invariants claim freshness only as long as no change that the server has
made waits for its answer (the premise of `SchedulesFresh`, `HubsFresh`,
`TeamFresh`, `TabsFresh`, `UsersFresh`); `ReceivedIsFresh`, `SentIsFresh` and
their neighbours prove of each step of a query or a fetch that it gives or keeps
freshness.

- `SchedulesInv` and `TeamInv` are of this shape; the first adds that a template's
  dialog and the request it sends have the manifest of their row
  (`TemplateDialog`, `TemplateRequest`). `UsersInv` has to leave out the form of
  a new user as well, which stays open after its change, and says who may be in
  that form (`UsersForms`).
- `HubsInv` adds that the form in the drawer is filled exactly when it edits a
  hub (`FilledInEdits`), which makes every hub that is added one that was typed.
- `RegistryInv` has two queries, the second for the id the first brought.
  `IdAfterList` keeps them in this order; while updates do not overlap, a fetch of
  the data that is answered brings what the server has (`OneUpdate`).
- `TabsInv` has three components with a list of requests each. What each of them
  shows is claimed for it alone (`ShownBy`), and the answer of one leaves the
  claims about the other two as they are.
- `TargetsInv` says that an open dialog names the delegate whose row keeps it, and
  that the row is on display (`DialogOfARow`): a dialog goes away with its row.
- `GitOpsInv` follows the page's flags (`PageFollows`): the panel is shown as the
  data says, or GitOps was just enabled and the data does not show it yet.
- `InviteInv` follows the roles: whoever is selected is so with the role last
  picked, also when the rows have forgotten theirs (`SelectedAsPicked`).
- `RunsInv` is about every cached result, every answer on its way and the page's
  number: the rows of a result are of different runs and no more than its total.
  A server's answer has distinct rows because a page is a piece of one sequence
  without repetitions (`RowsOfAPage`); an event keeps this because it replaces a
  row by one of the same run, or puts a run in front that was not there, and then
  counts one more (`EventKeepsResult`).

The proofs are laid out alike: types; one lemma for each group of actions that
disturbs the invariant in the same way; induction; then the theorems by PTL.
Every invariant was checked by TLC on an instance before it was proved.

Only model-checked: liveness (`LiveSendEnds`, `MutexReleased`,
`DeadEntryRemoved`, `RegistrationCompletes`, `CleanUpCompletes`,
`FinishedIsRecorded`, `CatchesUp`) and everything about ENABLED; the properties
of three pages (`SubmitsWhatWasChosen`, `ComparesTheSelected`,
`DashboardsAsChosen`; section 8 says why). No module
uses RECURSIVE, so all of them are open to proofs; what a fold or a recursive
function computes for every input is beyond the provers here, as the library's
induction schemes cannot be used, though a minimal counterexample, by the
well-foundedness of the naturals, often serves instead.

## 6. Findings and observations

Findings, each with a run that shows it:

1. `conn_frozen`: a second request to a cluster that is just connecting, or
   whose `is_active` update failed, blocks for ever while it holds the Mutex
   of the data store, and with it every connection, request and event
   (`pkg/cluster/handler/handler.go:297`).
2. `runs_lost`: a run that was accepted disappears when a deletion or a
   termination of another run writes back the array it had read before
   (`pkg/chaos-workflow/ops/operations.go:201`).
3. `reports_sync`: the sync of a workflow that is gone, with chaos data
   remembered, ends the subscriber with an assignment to a nil map
   (`subscriber/pkg/events/workflow.go:207`).
4. `gitops_race`: after a push that lost a race, the clone has diverged for
   good, and no later change is picked up (`pkg/gitops/gitops.go:556`).
5. `members_twice`: two invitations at the same time add a user twice
   (`rest/project_handler.go:394`).

Each is quoted against the comment or the documentation it contradicts in
`PROJECT.json`.

Observations on the pages: what the code does where no comment, document or
test says otherwise. The models contain this behaviour, and the properties are
stated so that they hold with it; for a reader who wants to strengthen one,
this is what stands in the way.

1. Wizard: the pencil of the schedule on the last step goes to step 5, which for
   an uploaded scenario is past the end and shows the choice of the agent; that
   resets agent and schedule, and Finish can then send no agent at all. After an
   upload, a choice of the other kinds leaves `isUploaded` set, Settings clears
   the manifest and Next has none to work on. Radio B after a pick under A lets
   Next go on without a template. Leaving the last step while the request is
   under way allows a second one.
2. Settings: the answer for a predefined scenario overwrites a name that was
   typed before it came. The schedule step does not write the namespace.
3. Tune: "edit sequence" expects a Workflow and fails on a CronWorkflow; the
   revert switch acts before it is refused because a configuration is open;
   deleting an experiment splices the array it walks over.
4. Probes: deleting the probe that was edited last, when it was the last in the
   list, and then adding one leaves the form without a probe; a second HTTP
   probe is saved without a method, and editing it fails.
5. Runs table: new runs are put in front only when a filter by name is set, and
   by subscriptions with filters of earlier renders.
6. Schedules, delegates: search and filters do not go back to the first page;
   a toggle or a template works on the row's data, which may be out of date; two
   changes close together may share one refetch.
7. Run page: a run without nodes that is opened after another was viewed shows
   no node as selected, and its table fails; a query's answer after an event of
   the subscription takes the page back; a pending run is never subscribed to.
8. Comparison: Compare, pressed while the runs of a changed selection are loading,
   leaves the lines of the selection before in the plot until its granularity is
   changed; the rows of another page that were selected are not shown when
   comparing; a change of the page drops the filters; "select all" forgets the
   selection of other pages.
9. Dashboards: an upload with a map of applications, and a custom card after an
   invalid upload, fail; configuring a dashboard whose list is answered last
   leaves Next disabled; two groups of one update may share an identity;
   the answer of a save that comes after the page was left redirects.
10. Hubs: an answer that comes late closes the drawer of an edit with the state
    of another render, and the next "Connect" edits. GitOps: with SSH, a form
    sent before the key came has an empty key. Registry: the form is usable
    before the id is known.
11. Team: a row of the invited shows its own role, and not the one stored, until
    it leaves the screen; hidden rows that were selected are invited as well; an
    error leaves the loader on.
12. Invitations: an answer that comes after the tabs were switched leaves the
    cards of the other tab as they were.
13. Users: with a filter by state, a second click on Deactivate is for the next
    row, since rows have no keys. A failed creation closes the form.
14. Session: the redirects of '/' and '/getStarted' drop the project and cause a
    second lookup; an unknown project in the address shows pages with the role
    "undefined" when no project is owned; at the path '/' a validation answered
    after the lookup leaves an owner with the role Viewer in their own project.

## 7. What is not modelled, and why

Parsing and formatting (manifests, charts, dashboards, log texts); queries of
the servers without a state of their own (analytics, usage, listings, filters);
CRUD of single documents on the server (image registries, templates, panels);
authorization, tokens and passwords, stateless per request on the server; Dex
and monitoring.

Of the pages: what only shows what a query returned (home, community, usage,
analytics of one scenario, the heat map and the tables of a dashboard), the
widgets, the YAML editor, the graph's layout, and on the modelled pages what the
module headers name. Pages are modelled one at a time: what one leaves in redux
for another (the schedule in the wizard and on the page that edits it, the
workflow manifest) is not followed from page to page.

Between the parts: the modules of the pages have servers of their own, reduced
to what the page needs, and are not composed with the modules of the servers.

## 8. Plan

Done, in this order: ClusterConnection (with proofs), AgentRegistration,
WorkflowRuns with RunLedger, RunReports, GitOps, ProjectMembership with
Invitations (with a first proof); the pages, from Manifests to PortalSession
(with a proof of the schedule form and its page); proofs of AgentRegistration
and of WorkflowRuns; then the safety properties and the refinements of the
servers and the agent that were left, of the wizard of an engine, and of the
session; then those of the page of a run and of the ten pages of `Pages`.

Next modules:

1. **AgentRequests**: pod logs and kube objects; one channel per request in an
   unlocked map, an unbuffered send after a look-up, a second reply
   (`graph/cluster.resolvers.go:183`, `pkg/chaos-workflow/handler/handler.go:791`).
   Properties: a reply reaches its request or nobody; no sender is stuck but in
   the cases named.
2. **WorkflowExecution**: RunReports of the agent composed with WorkflowRuns of
   the server through a network that loses and delays, in place of
   `Reports` of one and `Record` of the other. Property: the record of a
   finished run, end to end.
3. **EventTracker**: informers append to the statuses of a policy while the
   controller triggers and writes back. Properties: a change triggers its
   workflow, and not twice.
4. **ControlPlaneUpgrade**: the steps of v2.4.0 with ignored errors, an
   interruption and a second run (`versions/v2.4.0/auth.go:39,51`; the Job has
   `restartPolicy: Never`, an operator runs it again). Property: no migrated
   data is dropped.
5. **ResiliencyScore**: the arithmetic of `ProcessCompletedWorkflowRun` as
   operators against a reference definition over small inputs.
6. **ProjectCreation** and **HubSync**: a project in two servers; hub record
   and clone under the recurring sync.
7. The left-out handlers of GitOps: `UpdateGitOpsDetailsHandler`,
   `GitOpsNotificationHandler`.

Next proofs, of the three properties of pages that are model-checked only. Each
rests on what a fold, a `SelectSeq` or a recursive function makes of a sequence,
of which the library states nothing and which the provers here cannot derive by
induction:

1. `DashboardsAsChosen` and the part of `ComparesTheSelected` about the table and
   its plot (the other is about averages, sums over a sequence), after these modules have
   been given their filters as functions of positions instead of `SelectSeq`.
2. `SubmitsWhatWasChosen`: the manifest is built step by step by the functions of
   `Manifests`, most of which filter or fold.

A dozen runs keep the project quick to check; a run of a new module takes the
place of a violation run whose finding has been dealt with, or joins the run of
the module it composes with.
