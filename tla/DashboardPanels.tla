--------------------------- MODULE DashboardPanels ---------------------------
(***************************************************************************)
(* The last step of the dashboard wizard: the panels are tuned in tabs and *)
(* put into groups when they are saved.  frontend/src/views/Observability/ *)
(* MonitoringDashboards/Steps/TuneTheQueries.                              *)
(*                                                                         *)
(* The wizard of the open tab works on a copy of its panel (info) taken    *)
(* when the tab is shown, and its effect puts the copy into the list after *)
(* every change.  The array of a panel's queries is one JavaScript array   *)
(* that the list, the copy and, when a dashboard is configured, the        *)
(* dashboard the page was opened with all hold; a panel has the key of its *)
(* array.                                                                  *)
(*                                                                         *)
(* Whether a query is shown in the preview graph, labels, legends and the  *)
(* options of the graph are left out, and so is the text of a query: of an *)
(* array of queries its length is kept.                                    *)
(***************************************************************************)
EXTENDS Naturals, Sequences, FiniteSets, SequencesExt

CONSTANTS GroupNames,   \* names typed for a group
          PanelNames,   \* names typed for a panel
          MaxPanels,    \* bound: panels of the dashboard
          MaxQueries    \* bound: queries of a panel

VARIABLES
    mode,       \* "create" (of a hub's dashboard), "custom" or "configure"
    panels,     \* selectedPanels
    tab,        \* tabValue
    info,       \* panelInfo of the open tab
    queries     \* the lengths of the arrays of queries, by key

panelVars == <<mode, panels, tab, info, queries>>

\* The dashboard: panelGroups, with the IDs the server gave its panels and
\* groups; those of the hub have none.
Given ==
    <<[gid |-> 1, name |-> "G", panels |-> <<[id |-> 1, name |-> "p"]>>],
      [gid |-> 2, name |-> "H", panels |-> <<[id |-> 2, name |-> "s"]>>]>>

Keys == 1 .. MaxPanels + 3

\* getAllSelectedPanels, getSelectedPanelGroups.
Selected(withID) ==
    FlattenSeq([g \in DOMAIN Given |->
        [k \in DOMAIN Given[g].panels |->
            [id    |-> IF withID THEN Given[g].panels[k].id ELSE 0,
             gid   |-> IF withID THEN Given[g].gid ELSE 0,
             group |-> Given[g].name,
             name  |-> Given[g].panels[k].name,
             key   |-> Given[g].panels[k].id]]])

GivenKeys == {1, 2}
FreshKey == CHOOSE k \in Keys \ GivenKeys :
                /\ \A i \in DOMAIN panels : panels[i].key # k
                /\ \A j \in 1 .. k - 1 : j \in GivenKeys \/ \E i \in DOMAIN panels : panels[i].key = j

\* Only the dashboard being configured keeps the arrays of its panels when
\* no panel of the list holds them.
Kept(qs, ps) ==
    [k \in Keys |-> IF \/ mode = "configure" /\ k \in GivenKeys
                      \/ \E i \in DOMAIN ps : ps[i].key = k
                    THEN qs[k] ELSE 1]

NewPanel(key) ==
    [id |-> 0, gid |-> 0, group |-> "Untitled Panel Group", name |-> "Untitled Panel", key |-> key]

FirstPanels(m) ==
    IF m = "custom" THEN <<NewPanel(3)>> ELSE Selected(m = "configure")

groupList == {panels[i].group : i \in DOMAIN panels} \ {""}

-----------------------------------------------------------------------------
Show(ps, n) == panels' = ps /\ tab' = n /\ info' = ps[n]

\* handleUpdatePanel, the effect of every change of the copy.
Update(new) ==
    /\ info' = new
    /\ panels' = [panels EXCEPT ![tab] = new]
    /\ UNCHANGED <<mode, tab, queries>>

\* A tab is clicked.
SelectTab(n) ==
    /\ n \in DOMAIN panels /\ n # tab
    /\ Show(panels, n)
    /\ UNCHANGED <<mode, queries>>

\* handleChange past the last tab.
handleCreatePanel ==
    /\ Len(panels) < MaxPanels                              \* bound
    /\ Show(Append(panels, NewPanel(FreshKey)), Len(panels) + 1)
    /\ queries' = [queries EXCEPT ![FreshKey] = 1]
    /\ UNCHANGED mode

\* A group of the list keeps the ID of the group the panel comes from ...
SelectGroup(g) == Update([info EXCEPT !.group = g])

\* ... a new name has none.
TypeGroup(g) == Update([info EXCEPT !.group = g, !.gid = 0])

Rename(name) == Update([info EXCEPT !.name = name])

\* The tab before is shown, or the first one is mounted anew.
handleDeletePanel ==
    /\ Len(panels) > 1
    /\ Show(RemoveAt(panels, tab), IF tab > 1 THEN tab - 1 ELSE 1)
    /\ queries' = Kept(queries, panels')
    /\ UNCHANGED mode

\* A panel is found again by its ID when the dashboard is configured; the
\* hub's panels have other field names and are not found at all.
handleDiscardChanges ==
    LET found == {i \in DOMAIN Selected(TRUE) :
                    mode = "configure" /\ Selected(TRUE)[i].id = info.id}
        panel == IF mode = "custom" THEN NewPanel(FreshKey)
                 ELSE IF found = {} THEN panels[tab]
                 ELSE [Selected(TRUE)[CHOOSE i \in found : TRUE] EXCEPT !.key = FreshKey]
    IN  /\ Show([panels EXCEPT ![tab] = panel], tab)
        /\ queries' = Kept(queries, panels')
        /\ UNCHANGED mode

-----------------------------------------------------------------------------
(* The queries of the open tab: their array is changed in place.           *)

ChangeQueries(n) ==
    /\ queries' = [queries EXCEPT ![info.key] = n]
    /\ panels' = [panels EXCEPT ![tab] = info]
    /\ UNCHANGED <<mode, tab, info>>

handleAddQuery ==
    /\ queries[info.key] < MaxQueries                       \* bound
    /\ ChangeQueries(queries[info.key] + 1)

handleDeleteQuery == queries[info.key] > 1 /\ ChangeQueries(queries[info.key] - 1)

handleUpdateQuery == ChangeQueries(queries[info.key])

-----------------------------------------------------------------------------
\* Back and Next again: the panels are those of the dashboard again.  When it
\* is configured they come with the arrays that were changed in place.
Reenter ==
    /\ Show(FirstPanels(mode), 1)
    /\ queries' = [k \in Keys |->
            IF mode = "configure" /\ k \in GivenKeys THEN queries[k] ELSE 1]
    /\ UNCHANGED mode

PanelsInit ==
    /\ mode \in {"create", "custom", "configure"}
    /\ panels = FirstPanels(mode)
    /\ tab \in IF mode = "configure" THEN DOMAIN panels ELSE {1}
    /\ info = panels[tab]
    /\ queries = [k \in Keys |-> 1]

PanelsNext ==
    \/ \E n \in 1 .. MaxPanels : SelectTab(n)
    \/ handleCreatePanel \/ handleDeletePanel \/ handleDiscardChanges
    \/ \E g \in groupList \cup {""} : SelectGroup(g)
    \/ \E g \in GroupNames : TypeGroup(g)
    \/ \E name \in PanelNames : Rename(name)
    \/ handleAddQuery \/ handleDeleteQuery \/ handleUpdateQuery
    \/ Reenter

PanelsSpec == PanelsInit /\ [][PanelsNext]_panelVars

-----------------------------------------------------------------------------
\* getPanelGroups: what a save sends.  A panel joins the group of its name,
\* with that group's ID, or starts it.
getPanelGroups ==
    FoldLeft(LAMBDA groups, panel :
        LET same == {i \in DOMAIN groups : groups[i].name = panel.group}
        IN  IF same = {}
            THEN Append(groups, [gid |-> panel.gid, name |-> panel.group, panels |-> <<panel>>])
            ELSE LET i == CHOOSE i \in same : TRUE
                 IN  [groups EXCEPT ![i].panels =
                        Append(@, IF mode = "configure"
                                  THEN [panel EXCEPT !.gid = groups[i].gid] ELSE panel)],
        <<>>, panels)

(* Properties.                                                             *)

\* What is sent is what the tabs show: every panel once, in the one group of
\* the name it is shown under and with that group's ID, the open one as its
\* copy has it, and no panel the server knows is sent twice.
SendsWhatIsShown ==
    LET groups == getPanelGroups
        sent == FlattenSeq([i \in DOMAIN groups |-> groups[i].panels])
    IN  /\ Len(sent) = Len(panels)
        /\ \A i \in DOMAIN panels : \E k \in DOMAIN sent :
               sent[k].key = panels[i].key /\ sent[k].name = panels[i].name
        /\ \A i, k \in DOMAIN sent : sent[i].key = sent[k].key => i = k
        /\ \A i, k \in DOMAIN sent : sent[i].id = sent[k].id /\ sent[i].id # 0 => i = k
        /\ \A i, k \in DOMAIN groups : groups[i].name = groups[k].name => i = k
        /\ \A i \in DOMAIN groups : \A k \in DOMAIN groups[i].panels :
               groups[i].panels[k].group = groups[i].name
        /\ mode = "configure" =>
             \A i \in DOMAIN groups : \A k \in DOMAIN groups[i].panels :
               groups[i].panels[k].gid = groups[i].gid
        /\ tab \in DOMAIN panels /\ info = panels[tab]
=============================================================================
