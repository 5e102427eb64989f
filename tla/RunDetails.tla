----------------------------- MODULE RunDetails -----------------------------
(***************************************************************************)
(* The page of one workflow run: frontend/src/pages/WorkflowDetails and    *)
(* the views it is made of, views/WorkflowDetails.                         *)
(*                                                                         *)
(* Which node is selected is known twice: by the graph, while it is on     *)
(* the screen, and by the store, which the table, the modal and the panel  *)
(* of logs read and which outlives the page.  The pods the logs are asked  *)
(* of are the panel's own, set by an effect.                               *)
(***************************************************************************)
EXTENDS Naturals, Sequences

CONSTANTS Runs,
          Types,        \* the types of the nodes of a run, in their order
          MaxVisits     \* bound: how often the page is opened

ASSUME RunsAssumption == {"", "crashed"} \cap Runs = {}
ASSUME TypesAssumption == Types \in Seq(STRING) /\ Types # <<>>

VARIABLES
    reached,      \* how far each run got, on the server
    cached,       \* how far it got as the client's cache has it
    selectedNode, \* redux: the selected node, its type, the tab; persisted
    hooks         \* the hooks of the page and of its views

detailsVars == <<reached, cached, selectedNode, hooks>>

\* Run r got to p: its first p nodes started, those before the last of them
\* have their chaos data.  At 0 it is pending, one past its nodes it is over.
End == Len(Types) + 1
Unread == End + 1
NodesAt(r, p) == {r} \X {i \in DOMAIN Types : i <= p}
TypeOf(node) == Types[node[2]]
Running(p) == p \in DOMAIN Types

NoPod == <<"", 0>>          \* '' : nothing was ever selected
UndefinedPod == <<"", 1>>   \* the first node of a run without nodes
NoLogs == [pod |-> NoPod, chaos |-> NoPod, type |-> "", tab |-> 0]

NoPage == [at |-> "", answer |-> Unread, events |-> Unread, details |-> FALSE, failed |-> FALSE,
           toggled |-> FALSE, graph |-> NoPod, modal |-> FALSE, logs |-> NoLogs]

DetailsInit ==
    /\ reached = [r \in Runs |-> 0]
    /\ cached = [r \in Runs |-> Unread]
    /\ selectedNode = [pod |-> NoPod, type |-> "", tab |-> 0, visits |-> 0]
    /\ hooks = NoPage

-----------------------------------------------------------------------------
(* What is on the screen, and the effects of a commit: p is how far the    *)
(* page's data has the run.                                                *)

RunShown(pg, s) == pg.at \in Runs /\ cached[pg.at] # Unread /\ s.pod # NoPod /\ pg.details

First(r, p) == IF p = 0 THEN UndefinedPod ELSE <<r, 1>>

\* dispatch(selectNode({...node, podName})): of an undefined node only the name.
selectNode(s, node) ==
    [s EXCEPT !.pod = node, !.type = IF node = UndefinedPod THEN @ ELSE TypeOf(node)]

\* The pods of the experiment and of its runner, as chaosData has them.
HasChaos(node, p) == TypeOf(node) = "ChaosEngine" /\ p > node[2]

\* A mutated form of chaosData: a node without chaos data keeps the last one's.
chaosDataKept(old, node, p) == IF HasChaos(node, p) THEN node ELSE old

chaosData(old, node, p) == IF HasChaos(node, p) THEN node ELSE NoPod

\* The panel of logs is below the graph, of a node other than the first, or in the modal.
LogsShown(pg, s, p) ==
    IF s.tab = 0 THEN pg.toggled /\ s.pod # First(pg.at, p) ELSE pg.modal

\* What WorkflowNodeInfo and NodeLogsModal do with a pod the data does not have.
Crashes(pg, s, p) ==
    /\ s.pod \notin NodesAt(pg.at, p)
    /\ s.tab = 1 \/ LogsShown(pg, s, p)

LogsSwitcher(pg, s, p) ==
    IF ~ LogsShown(pg, s, p) THEN NoLogs
    ELSE [pod |-> s.pod, chaos |-> chaosData(pg.logs.chaos, s.pod, p), type |-> TypeOf(s.pod),
          tab |-> IF pg.logs = NoLogs \/ s.type # selectedNode.type THEN 0 ELSE pg.logs.tab]

\* A commit: the graph comes and selects the first node, or goes; then the logs.
Commit(pg, s, p) ==
    LET graphs == s.tab = 0
        comes  == graphs /\ pg.graph = NoPod
        graph  == IF ~ graphs THEN NoPod ELSE IF comes THEN First(pg.at, p) ELSE pg.graph
        chosen == IF graph \notin {NoPod, pg.graph} THEN selectNode(s, graph) ELSE s
        next   == [pg EXCEPT !.graph = graph]
    IN  /\ selectedNode' = chosen
        /\ hooks' = IF Crashes(next, chosen, p) THEN [NoPage EXCEPT !.at = "crashed"]
                   ELSE [next EXCEPT !.logs = LogsSwitcher(next, chosen, p)]

\* While the page waits it selects the first node only when there never was one.
Render(pg, s, p) ==
    LET selects == p # Unread /\ s.pod = NoPod
        first   == IF selects /\ p > 0 THEN selectNode(s, First(pg.at, p)) ELSE s
        next    == [pg EXCEPT !.failed = @ \/ (selects /\ p = 0)]
    IN  IF p # Unread /\ first.pod # NoPod /\ pg.details THEN Commit(next, first, p)
        ELSE selectedNode' = first /\ hooks' = next

-----------------------------------------------------------------------------
(* The run.                                                                *)

Progress(r) ==
    /\ reached[r] < End
    /\ reached' = [reached EXCEPT ![r] = @ + 1]
    /\ UNCHANGED <<cached, selectedNode, hooks>>

\* What the page does with new data, subscribing while the run goes on.
NewData(p) ==
    LET r == hooks.at
        listens == IF hooks.events = Unread /\ Running(p) THEN reached[r] ELSE hooks.events
    IN  /\ cached' = [cached EXCEPT ![r] = p]
        /\ Render([hooks EXCEPT !.answer = Unread, !.events = listens], selectedNode, p)

\* The query's answer was made at some time after it was asked.
WorkflowRunAnswered ==
    /\ hooks.answer # Unread
    /\ \E p \in hooks.answer .. reached[hooks.at] : NewData(p)
    /\ UNCHANGED reached

\* Nothing but the events of this run changes the data; they come in order.
WorkflowEvent ==
    /\ hooks.at \in Runs /\ hooks.events # Unread
    /\ \E p \in hooks.events + 1 .. reached[hooks.at] :
        /\ cached' = [cached EXCEPT ![hooks.at] = p]
        /\ Render([hooks EXCEPT !.events = p], selectedNode, p)
    /\ UNCHANGED reached

\* GET_WORKFLOW_DETAILS: the scenario's description and manifest.
DetailsAnswered ==
    /\ hooks.at \in Runs /\ ~ hooks.details /\ cached[hooks.at] # Unread
    /\ Render([hooks EXCEPT !.details = TRUE], selectedNode, cached[hooks.at])
    /\ UNCHANGED <<reached, cached>>

-----------------------------------------------------------------------------
(* The user.                                                               *)

\* Mounting: the tab is the first again, and what the cache has is shown.
OpenRun(r) ==
    /\ hooks = NoPage /\ selectedNode.visits < MaxVisits
    /\ LET listens == IF Running(cached[r]) THEN reached[r] ELSE Unread
       IN Render([NoPage EXCEPT !.at = r, !.answer = reached[r], !.events = listens],
                 [selectedNode EXCEPT !.tab = 0, !.visits = @ + 1], cached[r])
    /\ UNCHANGED <<reached, cached>>

\* Also the way out of a page that crashed: it is loaded again.
LeaveRun ==
    /\ hooks # NoPage
    /\ hooks' = NoPage
    /\ IF hooks.at = "crashed" THEN cached' = [r \in Runs |-> Unread] ELSE UNCHANGED cached
    /\ UNCHANGED <<reached, selectedNode>>

UserSees == RunShown(hooks, selectedNode)
Present(pg, s) == Commit(pg, s, cached[pg.at]) /\ UNCHANGED <<reached, cached>>

handleChange(tab) ==
    /\ UserSees /\ tab # selectedNode.tab /\ ~ hooks.modal
    /\ Present(hooks, [selectedNode EXCEPT !.tab = tab])

onNodeClick(node) ==
    /\ UserSees /\ selectedNode.tab = 0 /\ node \in NodesAt(hooks.at, cached[hooks.at])
    /\ Present([hooks EXCEPT !.toggled = TRUE, !.graph = node],
               IF node = hooks.graph THEN selectedNode ELSE selectNode(selectedNode, node))

setIsInfoToggled ==
    /\ UserSees /\ selectedNode.tab = 0 /\ hooks.toggled
    /\ Present([hooks EXCEPT !.toggled = FALSE], selectedNode)

\* View Logs, of the rows of chaos engines.
onViewLogsClick(node) ==
    /\ UserSees /\ selectedNode.tab = 1 /\ ~ hooks.modal
    /\ node \in NodesAt(hooks.at, cached[hooks.at]) /\ TypeOf(node) = "ChaosEngine"
    /\ Present([hooks EXCEPT !.modal = TRUE], selectNode(selectedNode, node))

\* The list in the modal leaves out the steps.
changeNodeLogs(node) ==
    /\ UserSees /\ hooks.modal
    /\ node \in NodesAt(hooks.at, cached[hooks.at]) /\ TypeOf(node) # "Steps"
    /\ Present(hooks, selectNode(selectedNode, node))

handleClose ==
    /\ UserSees /\ hooks.modal
    /\ Present([hooks EXCEPT !.modal = FALSE], selectedNode)

\* The second tab is there for a chaos engine only.
LogsTab(tab) ==
    /\ hooks.logs # NoLogs /\ tab # hooks.logs.tab
    /\ tab = 1 => selectedNode.type = "ChaosEngine"
    /\ hooks' = [hooks EXCEPT !.logs.tab = tab]
    /\ UNCHANGED <<reached, cached, selectedNode>>

DetailsNext ==
    \/ \E r \in Runs : Progress(r) \/ OpenRun(r)
    \/ WorkflowRunAnswered \/ WorkflowEvent \/ DetailsAnswered
    \/ LeaveRun \/ setIsInfoToggled \/ handleClose
    \/ \E i \in DOMAIN Types :
        LET node == <<hooks.at, i>>
        IN  onNodeClick(node) \/ onViewLogsClick(node) \/ changeNodeLogs(node)
    \/ \E tab \in {0, 1} : handleChange(tab) \/ LogsTab(tab)

DetailsSpec == DetailsInit /\ [][DetailsNext]_detailsVars

-----------------------------------------------------------------------------
\* The logs on the screen are asked for the selected node, the one the graph has
\* selected while it is there; the chaos pods they are asked of are that node's, if
\* the page's data has them, and no other's; and the tab of chaos results is open
\* for a chaos engine only (LogsSwitcher, ArgoWorkflow, NodeLogsModal).
LogsOfTheSelected ==
    LET p == cached[hooks.at]
        node == selectedNode.pod
    IN  /\ (UserSees /\ selectedNode.tab = 0) => hooks.graph = node
        /\ hooks.logs # NoLogs =>
            /\ hooks.logs.pod = node /\ node \in NodesAt(hooks.at, p)
            /\ hooks.logs.type = TypeOf(node) /\ selectedNode.type = TypeOf(node)
            /\ hooks.logs.chaos = IF HasChaos(node, p) THEN node ELSE NoPod
            /\ hooks.logs.tab = 1 => TypeOf(node) = "ChaosEngine"
=============================================================================
