---------------------------- MODULE PortalSession ----------------------------
(***************************************************************************)
(* Which page of which project a user is on, and in which role: Routes of  *)
(* frontend/src/containers/app/App.tsx with the pages LoginPage and        *)
(* GetStartedPage, the side bar and the header.                            *)
(*                                                                         *)
(* The project and the role are parameters of the URL, and state of        *)
(* Routes, which follows the URL (history.listen).  Anyone may type them:  *)
(* the role of a URL that is loaded is asked for, the project is looked up *)
(* when there is none.  Some redirects drop the parameters.                *)
(*                                                                         *)
(* An action is an event with the renders, redirects and effects it sets   *)
(* off.  The browser's back button and the end of a session by time are    *)
(* left out.                                                               *)
(***************************************************************************)
EXTENDS Naturals, FiniteSets

CONSTANTS Projects,
          Standings     \* what the user may be in each of them at first

VARIABLES
    standing,   \* the server's: Owner, Viewer, stranger, or absent
    token,      \* the cookie: is the user signed in
    url,        \* path, project and role
    app,        \* projectID, projectRole, loading, projectValidation of Routes
    asks,       \* requests under way
    admin,      \* the role of the user in the portal
    lookups     \* history: projects looked up since the user acted

sessionVars == <<standing, token, url, app, asks, admin, lookups>>

Paths == {"", "login", "getStarted", "home", "scenarios", "settings",
          "usage-statistics", "404"}

NoProject == ""

ASSUME ProjectsAssumption == NoProject \notin Projects

At(path, project, role) == [path |-> path, project |-> project, role |-> role]
Bare(path) == At(path, NoProject, "")

Owned(s) == {p \in Projects : s[p] = "Owner"}

Ask(kind, base, project, role) ==
    [kind |-> kind, base |-> base, project |-> project, role |-> role]

-----------------------------------------------------------------------------
(* The routes.                                                             *)

\* The Switch of the pages.  Its redirects for those who are not owners, or
\* not administrators, have no path: they match what comes after them.
PageOf(u, a) ==
    LET everyone == u.path \in {"home", "scenarios"}
        owners   == u.path = "settings" /\ a.role = "Owner"
        admins   == u.path \in {"usage-statistics", "404"} /\ a.role = "Owner" /\ admin
    IN  IF everyone \/ owners \/ admins THEN u
        ELSE IF u.path = "" THEN Bare("home")
        ELSE IF a.role # "Owner" \/ ~ admin THEN At("home", a.project, a.role)
        ELSE IF u.path = "getStarted" THEN Bare("home")
        ELSE Bare("404")

RouteOf(signedIn, u, a) ==
    CASE ~ signedIn ->
            IF u.path = "login" THEN u ELSE Bare("login")
      [] signedIn /\ a.project = NoProject ->
            IF a.loading \/ u.path \in {"login", "getStarted"} THEN u
            ELSE Bare("getStarted")
      [] OTHER ->
            IF a.loading \/ a.validation THEN u ELSE PageOf(u, a)

\* history.listen.
WithParams(u, a) == [a EXCEPT !.project = u.project, !.role = u.role]
Follow(u, a) == IF u.path = "login" THEN a ELSE WithParams(u, a)

\* Routes when it is mounted.
Routes(u) == WithParams(u, [project |-> NoProject, role |-> "", loading |-> FALSE,
                            validation |-> FALSE])

getProjectValidation(u) == Ask("role", u.path, u.project, u.role)

\* A mutated form of Moved: baseRoute is that of the first render.
MovedFromFirst(signedIn, s, u) ==
    LET a == Follow(u, s.app)
    IN  [url |-> u, app |-> a,
         asks |-> IF signedIn /\ s.app.project # NoProject /\ a.project = NoProject
                  THEN s.asks \cup {Ask("owner", "getStarted", NoProject, "")} ELSE s.asks]

\* Losing the project asks for those the user owns; the answer leads back to
\* the page of that render (baseRoute), here the one the project was lost on.
Moved(signedIn, s, u) ==
    LET a == Follow(u, s.app)
    IN  [url |-> u, app |-> a,
         asks |-> IF signedIn /\ s.app.project # NoProject /\ a.project = NoProject
                  THEN s.asks \cup {Ask("owner", u.path, NoProject, "")} ELSE s.asks]

Redirected(signedIn, s) ==
    IF RouteOf(signedIn, s.url, s.app) = s.url THEN s
    ELSE Moved(signedIn, s, RouteOf(signedIn, s.url, s.app))

\* No URL is redirected more than three times.  GetStarted asks for its user
\* when it mounts; the effect that looks for projects unmounts it again.
Landed(signedIn, s) ==
    LET end == Redirected(signedIn, Redirected(signedIn, Redirected(signedIn, s)))
        a   == [end.app EXCEPT !.loading = @ \/ \E r \in end.asks \ s.asks : r.kind = "owner"]
    IN  [end EXCEPT !.app = a,
                    !.asks = IF signedIn /\ a.project = NoProject /\ ~ a.loading
                                /\ end.url.path = "getStarted"
                             THEN @ \cup {Ask("user", "", NoProject, "")} ELSE @]

Becomes(s) == url' = s.url /\ app' = s.app /\ asks' = s.asks

Now(a, remaining) == [url |-> url, app |-> a, asks |-> remaining]

\* A page is loaded: the first render and the effects of mounting.
Load(signedIn, u) ==
    LET s    == Landed(signedIn, [url |-> u, app |-> Routes(u), asks |-> {}])
        asked == CASE ~ signedIn             -> {}
                   [] signedIn /\ u.project = NoProject ->
                                                {Ask("owner", u.path, NoProject, "")}
                   [] OTHER                  -> {getProjectValidation(u)}
    IN  /\ url' = s.url
        /\ app' = [s.app EXCEPT !.loading = @ \/ (signedIn /\ u.project = NoProject),
                                !.validation = signedIn /\ u.project # NoProject]
        /\ asks' = asked \cup {r \in s.asks : r.kind = "owner"}
        /\ lookups' = 0

-----------------------------------------------------------------------------
(* Signing in and out, and addresses typed.                                *)

TypeUrl(u) ==
    /\ Load(token, u)
    /\ UNCHANGED <<standing, token, admin>>

Login ==
    /\ url.path = "login" /\ ~ \E r \in asks : r.kind = "login"
    /\ asks' = asks \cup {Ask("login", "", NoProject, "")}
    /\ UNCHANGED <<standing, token, url, app, admin, lookups>>

setCookie(signedIn) == token' = signedIn

\* setUserDetails and window.location.assign.
LoggedIn(r) ==
    /\ r.kind = "login"
    /\ setCookie(TRUE)
    /\ Load(TRUE, Bare("getStarted"))
    /\ UNCHANGED <<standing, admin>>

LoginRefused(r) ==
    /\ r.kind = "login"
    /\ asks' = asks \ {r}
    /\ UNCHANGED <<standing, token, url, app, admin, lookups>>

logout ==
    /\ setCookie(FALSE)
    /\ Load(FALSE, url)
    /\ UNCHANGED <<standing, admin>>

-----------------------------------------------------------------------------
(* The requests of Routes.                                                 *)

\* getOwnerProjects.
OwnerProjects(r) ==
    /\ r.kind = "owner"
    /\ IF Owned(standing) = {}
       THEN Becomes(Landed(TRUE, Now([app EXCEPT !.loading = FALSE], asks \ {r})))
       ELSE \E p \in Owned(standing) :
              Becomes(Landed(TRUE,
                [url |-> At(r.base, p, "Owner"), asks |-> asks \ {r},
                 app |-> [app EXCEPT !.loading = FALSE, !.project = p, !.role = "Owner"]]))
    /\ lookups' = lookups + 1
    /\ UNCHANGED <<standing, token, admin>>

\* The project is taken from the state, not from the URL.
Cleared(a) == [a EXCEPT !.project = NoProject, !.role = ""]

Forgotten(a, r) ==
    Landed(TRUE, Now(Cleared(a), (asks \ {r}) \cup
        (IF app.project # NoProject THEN {Ask("owner", url.path, NoProject, "")} ELSE {})))

WithLoading(s) ==
    [s EXCEPT !.app.loading = @ \/ \E r \in s.asks : r.kind = "owner"]

\* A mutated form of Granted: the URL keeps the role it was typed with.
GrantedInState(r, role) ==
    Landed(TRUE, Now([app EXCEPT !.role = role, !.validation = FALSE], asks \ {r}))

\* getProjectValidation: the URL follows when it said something else.
Granted(r, role) ==
    LET a == [app EXCEPT !.role = role, !.validation = FALSE]
    IN  IF role = r.role THEN Landed(TRUE, Now(a, asks \ {r}))
        ELSE LET s == Moved(TRUE, Now(a, asks \ {r}), At(r.base, r.project, role))
             IN  Landed(TRUE, s)

ProjectRole(r) ==
    /\ r.kind = "role"
    /\ CASE standing[r.project] \in {"Owner", "Viewer"} ->
              Becomes(Granted(r, standing[r.project]))
         [] standing[r.project] = "stranger" ->          \* N/A
              Becomes(WithLoading(Forgotten([app EXCEPT !.validation = FALSE], r)))
         [] OTHER ->                 \* an error, taken for the role undefined
              LET s == WithLoading(Forgotten([app EXCEPT !.validation = FALSE], r))
              IN  Becomes(Landed(TRUE,
                    Moved(TRUE, s, At(r.base, r.project, "undefined"))))
    /\ UNCHANGED <<standing, token, admin, lookups>>

\* A lost answer leaves projectValidation, and no page is shown any more.
RequestFailed(r) ==
    /\ CASE r.kind = "owner" ->
              Becomes(Landed(TRUE, Now([app EXCEPT !.loading = FALSE], asks \ {r})))
         [] r.kind = "role"  -> Becomes(WithLoading(Forgotten(app, r)))
         [] OTHER            -> FALSE
    /\ UNCHANGED <<standing, token, admin, lookups>>

-----------------------------------------------------------------------------
(* GetStarted.                                                             *)

\* ValidateUser: without an answer, or with an error, the user is signed out.
UserFound(r) ==
    /\ r.kind = "user"
    /\ asks' = asks \ {r}
    /\ UNCHANGED <<standing, token, url, app, admin, lookups>>

UserNotFound(r) ==
    /\ r.kind = "user"
    /\ setCookie(FALSE)
    /\ Load(FALSE, url)
    /\ UNCHANGED <<standing, admin>>

InGetStarted == /\ token /\ url.path = "getStarted"
                /\ app.project = NoProject /\ ~ app.loading

\* Skip, or after the password: nothing keeps from asking twice.
createProject ==
    /\ InGetStarted
    /\ asks' = asks \cup {Ask("create", "", NoProject, ""), Ask("user", "", NoProject, "")}
    /\ UNCHANGED <<standing, token, url, app, admin, lookups>>

Created(r, p) ==
    /\ r.kind = "create" /\ standing[p] = "absent"
    /\ standing' = [standing EXCEPT ![p] = "Owner"]
    /\ Load(TRUE, Bare("home"))
    /\ UNCHANGED <<token, admin>>

NotCreated(r) ==
    /\ r.kind = "create"
    /\ asks' = asks \ {r}
    /\ UNCHANGED <<standing, token, url, app, admin, lookups>>

-----------------------------------------------------------------------------
(* The pages: the side bar and the header's menus.                         *)

Pages == /\ token /\ app.project # NoProject /\ ~ app.loading /\ ~ app.validation
         /\ url.path \notin {"", "login", "getStarted"}

Push(u) == Becomes(Landed(TRUE, Moved(TRUE, Now(app, asks), u)))

\* What the side bar offers depends on the role in the URL.
SideBar(path) ==
    /\ Pages /\ path # url.path
    /\ path \in {"settings", "usage-statistics"} => url.role = "Owner"
    /\ path = "usage-statistics" => admin
    /\ Push(At(path, url.project, url.role))
    /\ lookups' = 0
    /\ UNCHANGED <<standing, token, admin>>

\* ProjectDropdownItems: other projects lead home.
SelectProject(p) ==
    /\ Pages /\ standing[p] \in {"Owner", "Viewer"} /\ p # url.project
    /\ Push(At(IF standing[p] = "Owner" THEN url.path ELSE "home", p, standing[p]))
    /\ lookups' = 0
    /\ UNCHANGED <<standing, token, admin>>

-----------------------------------------------------------------------------
SessionInit ==
    /\ standing \in [Projects -> Standings]
    /\ token = FALSE
    /\ url = Bare("login")
    /\ app = Routes(url)
    /\ asks = {}
    /\ admin \in BOOLEAN
    /\ lookups = 0

Answers(r) == \/ LoggedIn(r) \/ LoginRefused(r) \/ OwnerProjects(r) \/ ProjectRole(r)
              \/ RequestFailed(r) \/ UserFound(r) \/ UserNotFound(r) \/ NotCreated(r)
              \/ \E p \in Projects : Created(r, p)

\* What the user does.
UserActs ==
    \/ \E path \in Paths :
          \/ TypeUrl(Bare(path)) \/ SideBar(path)
          \/ \E p \in Projects, role \in {"Owner", "Viewer"} : TypeUrl(At(path, p, role))
    \/ Login \/ logout \/ createProject
    \/ \E p \in Projects : SelectProject(p)

AnswersCome == \E r \in asks : Answers(r)

SessionNext == UserActs \/ AnswersCome

SessionSpec == SessionInit /\ [][SessionNext]_sessionVars

-----------------------------------------------------------------------------
(* Properties.                                                             *)

AtRest == Pages /\ ~ \E r \in asks : r.kind \in {"owner", "role"}

\* Once the answers are there, the pages, which read the URL, and Routes,
\* which reads its state, are about one project; neither shows more than the
\* user was granted in it, whatever was typed into the address.
NoMoreThanGranted ==
    AtRest => /\ url.project = app.project
              /\ \A role \in {url.role, app.role} :
                   role = "Owner" => standing[app.project] = "Owner"
              /\ url.path = "settings" => standing[app.project] = "Owner"

\* Redirects that lose the project and lookups that lead back to a page do
\* not chase each other: two lookups at most, and the user is on a page.
ComesToRest == lookups <= 2
=============================================================================
