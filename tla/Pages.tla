------------------------------- MODULE Pages -------------------------------
(***************************************************************************)
(* Pages of the portal (frontend) that show what a server stores and act   *)
(* on what they show: the tables of runs, schedules, delegates, members,   *)
(* invitations and users, the hubs, the GitOps tab, the image registry and *)
(* the modal of invitations, each over a server of its own.                *)
(*                                                                         *)
(* One of them, area, is open in a behaviour, and the variables it does    *)
(* not have are off.  Variables of one name are shared by the pages that   *)
(* have them, as their modules declare them.                               *)
(***************************************************************************)
EXTENDS Naturals, Sequences, FiniteSets

VARIABLES
    area,       \* the page that is open; it does not change
    server,     \* what the server of the page has
    page, list, sends, table,   \* as each page's module declares them
    fetches,    \* the requests of the pages that fetch
    data,       \* the registry's second query
    hubForm,    \* the form of the hubs' drawer
    rows,       \* the rows of the team
    modal, invites, picked,     \* the modal of invitations
    runs, wire, asked, cache    \* the runs

CONSTANTS
    \* how many requests may be under way, by page
    MaxSendsOf, MaxFetchesOf,
    \* the runs, the schedules, the delegates, the registries and the hubs of a project
    RunIDs, ScenarioOf, RunsPerPage, RunStatuses,
    ScheduleIDs, RecurringIDs, SchedulesPerPage,
    DelegatesByDate, DelegatesByName, DelegateStatuses, DelegatesPerPage,
    CustomRegistries,
    HubsInGit, HubsRemote, HubUrls,
    \* its members, those to invite, the user's other projects, all users
    TeamUsers, TeamPerPage, TeamSearches, TeamRoleFilters, TeamAtFirst,
    Invitees, InviteeSearches,
    GuestOf, HostOf,
    AllUsers, UsersAtFirst, UserSearches, UserStatusFilters, UsersPerPage

\* A project has finitely many runs, each of a scenario, and a page has rows.
ASSUME RunIDsAssumption ==
    IsFiniteSet(RunIDs) /\ RunIDs \subseteq DOMAIN ScenarioOf /\ RunsPerPage \in Nat \ {0}

Table == INSTANCE RunsTable WITH
    Runs <- RunIDs, NameOf <- ScenarioOf, Limit <- RunsPerPage, Statuses <- RunStatuses,
    MaxWire <- MaxSendsOf["events"], MaxAsked <- MaxSendsOf["runs"]
Schedules == INSTANCE SchedulesTable WITH
    stored <- server, Schedules <- ScheduleIDs, Recurring <- RecurringIDs,
    PageSize <- SchedulesPerPage, MaxSends <- MaxSendsOf["schedules"]
Targets == INSTANCE TargetsTable WITH
    stored <- server, ByDate <- DelegatesByDate, ByName <- DelegatesByName,
    Statuses <- DelegateStatuses, RowsPerPage <- DelegatesPerPage,
    MaxSends <- MaxSendsOf["targets"]
GitOps == INSTANCE GitOpsTab WITH
    stored <- server, MaxSends <- MaxSendsOf["gitops"]
Registry == INSTANCE ImageRegistry WITH
    stored <- server, Custom <- CustomRegistries, MaxSends <- MaxSendsOf["registry"]
Hubs == INSTANCE ChaosHubs WITH
    stored <- server, form <- hubForm, GitHubs <- HubsInGit, RemoteHubs <- HubsRemote,
    Urls <- HubUrls, MaxSends <- MaxSendsOf["hubs"]
Team == INSTANCE TeamTable WITH
    stored <- server, ByOrder <- TeamUsers, RowsPerPage <- TeamPerPage,
    Searches <- TeamSearches, RoleFilters <- TeamRoleFilters, FirstMembers <- TeamAtFirst,
    list <- fetches, MaxFetches <- MaxFetchesOf["team"], MaxSends <- MaxSendsOf["team"]
Invite == INSTANCE InviteModal WITH
    Users <- Invitees, Searches <- InviteeSearches
Tabs == INSTANCE InvitationsTab WITH
    stored <- server, asks <- fetches, Projects <- GuestOf, OwnerOf <- HostOf,
    MaxFetches <- MaxFetchesOf["invitations"], MaxSends <- MaxSendsOf["invitations"]
Admin == INSTANCE UserManagement WITH
    stored <- server, asks <- fetches, ByOrder <- AllUsers, Existing <- UsersAtFirst,
    Searches <- UserSearches, StatusFilters <- UserStatusFilters, RowsPerPage <- UsersPerPage,
    MaxFetches <- MaxFetchesOf["users"], MaxSends <- MaxSendsOf["users"]

-----------------------------------------------------------------------------
(* A page's variables are off in the behaviours of the others: at first,   *)
(* and so they stay.                                                       *)

Off(pages, variable) == IF area \in pages THEN TRUE ELSE variable = "off"
Stays(pages, variable) == IF area \in pages THEN TRUE ELSE UNCHANGED variable

WithQuery == {"schedules", "targets", "gitops", "registry", "hubs"}
WithFetch == {"team", "invitations", "users"}

PagesElsewhere(Is(_, _)) ==
    /\ Is(WithQuery \cup WithFetch, server)
    /\ Is((WithQuery \cup WithFetch) \ {"schedules"}, page)
    /\ Is(WithQuery, list) /\ Is(WithFetch, fetches)
    /\ Is(WithQuery \cup WithFetch, sends)
    /\ Is({"runs", "schedules"}, table)
    /\ Is({"registry"}, data) /\ Is({"hubs"}, hubForm) /\ Is({"team"}, rows)
    /\ Is({"invite"}, modal) /\ Is({"invite"}, invites) /\ Is({"invite"}, picked)
    /\ Is({"runs"}, runs) /\ Is({"runs"}, wire) /\ Is({"runs"}, asked) /\ Is({"runs"}, cache)

PageOpened ==
    \/ area = "runs" /\ Table!RunsInit
    \/ area = "schedules" /\ Schedules!SchedulesInit
    \/ area = "targets" /\ Targets!TargetsInit
    \/ area = "gitops" /\ GitOps!GitOpsTabInit
    \/ area = "registry" /\ Registry!RegistryInit
    \/ area = "hubs" /\ Hubs!HubsInit
    \/ area = "team" /\ Team!TeamInit
    \/ area = "invite" /\ Invite!InviteInit
    \/ area = "invitations" /\ Tabs!InvitationsInit
    \/ area = "users" /\ Admin!UsersInit

PageNext ==
    \/ area = "runs" /\ Table!RunsNext
    \/ area = "schedules" /\ Schedules!SchedulesNext
    \/ area = "targets" /\ Targets!TargetsNext
    \/ area = "gitops" /\ GitOps!GitOpsTabNext
    \/ area = "registry" /\ Registry!RegistryNext
    \/ area = "hubs" /\ Hubs!HubsNext
    \/ area = "team" /\ Team!TeamNext
    \/ area = "invite" /\ Invite!InviteNext
    \/ area = "invitations" /\ Tabs!InvitationsNext
    \/ area = "users" /\ Admin!UsersNext

pagesVars == <<area, server, page, list, sends, table, fetches, data, hubForm, rows,
    modal, invites, picked, runs, wire, asked, cache>>

PagesInit == PageOpened /\ PagesElsewhere(Off)
PagesNext == PageNext /\ PagesElsewhere(Stays) /\ UNCHANGED area

PagesSpec == PagesInit /\ [][PagesNext]_pagesVars

-----------------------------------------------------------------------------
(* Properties: those of the pages, each where its page is open.            *)

\* However many subscriptions of the runs table have piled up, and whatever
\* answers overtook their events, a run is shown once and the count covers
\* the rows (updateQuery of WorkflowRunTable).
RunsShownOnce == area = "runs" => Table!RunsShownOnce

\* Once all answers are there, a page shows what its server has stored, in
\* whatever order changes, their answers and the refetches came: the tables of
\* the schedules, the team, the invitations and the users, the cards of the
\* hubs and the image registry (what each leaves out is said in its module).
ListsAsStored ==
    /\ area = "schedules" => Schedules!ShowsStored
    /\ area = "registry" => Registry!ShowsStored
    /\ area = "hubs" => Hubs!ShowsStored
    /\ area = "team" => Team!ShowsStored
    /\ area = "invitations" => Tabs!ShowsStored
    /\ area = "users" => Admin!ShowsStored

\* A form or a dialog acts on the row it was opened from and with what was
\* entered in it, although the rows move under it while it is open and the
\* drawer or the modal it sits in keeps its state from the time before.
ActsOnWhatWasNamed ==
    /\ area = "targets" => Targets!DisconnectsTheNamed
    /\ area = "schedules" => Schedules!TemplateOfItsRow
    /\ area = "hubs" => Hubs!ConnectsWhatWasTyped
    /\ area = "gitops" => GitOps!FormAgrees
    /\ area = "invite" => Invite!InvitesWithChosenRole
=============================================================================
