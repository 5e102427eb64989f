SPECIFICATION PortalSpec
CONSTANTS
    Minutes = {0, 30}
    Times = {540}
    Days = {1, 2}
    Dates = {1}
    MaxSaves = 1
    Values = {0, 1}
    ProbeTypes = {"httpProbe", "cmdProbe", "k8sProbe", "promProbe"}
    MaxProbes = 2
    MaxChanges = 1
    Runs = {"a", "b"}
    Types <- NodeTypes
    MaxVisits = 2
    Projects = {"p", "q"}
    Standings = {"Owner", "Viewer", "stranger", "absent"}
    MaxSendsOf <- Sends
    MaxFetchesOf <- Fetches
    RunIDs = {"r1", "r2"}
    ScenarioOf <- OneScenario
    RunsPerPage = 1
    RunStatuses = {"All"}
    ScheduleIDs <- TwoInOrder
    RecurringIDs = {"a"}
    SchedulesPerPage = 1
    DelegatesByDate <- TwoInOrder
    DelegatesByName <- TwoInOrder
    DelegateStatuses = {"pending", "active"}
    DelegatesPerPage = 1
    CustomRegistries = {"a", "b"}
    HubsInGit = {"g"}
    HubsRemote = {"m"}
    HubUrls = {"u"}
    TeamUsers <- TwoUsers
    TeamPerPage = 1
    TeamSearches = {"u"}
    TeamRoleFilters = {"Editor"}
    TeamAtFirst <- AcceptedAndPending
    Invitees = {"u", "v"}
    InviteeSearches = {"u", ""}
    GuestOf = {"p"}
    HostOf <- Host
    AllUsers <- TwoUsers
    UsersAtFirst = {"u"}
    UserSearches = {""}
    UserStatusFilters = {"active"}
    UsersPerPage = 1
INVARIANT StoresWhatItShows
INVARIANT StoredScheduleAgrees
INVARIANT SubmitsWhatWasChosen
INVARIANT EditsTheSelectedProbe
INVARIANT RunsShownOnce
INVARIANT LogsOfTheSelected
INVARIANT ListsAsStored
INVARIANT ActsOnWhatWasNamed
INVARIANT ComparesTheSelected
INVARIANT DashboardsAsChosen
INVARIANT NoMoreThanGranted
INVARIANT ComesToRest
PROPERTY EditsOneEngine
CHECK_DEADLOCK FALSE
