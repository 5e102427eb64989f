------------------------------ MODULE TeamTable ------------------------------
(***************************************************************************)
(* The members of a project and the users it invited:                      *)
(* frontend/src/views/Settings/TeamingTab/Team.                            *)
(*                                                                         *)
(* Each row of the invited is a component: it keeps the role picked in it, *)
(* first that of its user, until the row leaves the screen.  A row whose   *)
(* dialog is open keeps it the same way.  Requests of a row that left are  *)
(* still answered.                                                         *)
(*                                                                         *)
(* The owner, whose row has no buttons, is left out; so are the name of    *)
(* the project and the details of the users.                               *)
(***************************************************************************)
EXTENDS PageFetch, FiniteSets

CONSTANTS ByOrder,          \* the users, in the order of the server's lists
          RowsPerPage,
          FirstMembers,     \* what the users may be at first: functions
          Searches, RoleFilters,    \* what is typed and chosen in the filters
          MaxFetches, MaxSends      \* bounds

VARIABLES
    stored,     \* the server's: role and invitation of each user
    list,       \* requests for the project
    page,       \* what came, tab, filters and the tables' pages
    rows,       \* role and dialog of each row on the screen
    sends       \* invitations and removals under way

teamVars == <<stored, list, page, rows, sends>>

Users == {ByOrder[i] : i \in DOMAIN ByOrder}
Roles == {"Editor", "Viewer"}
Tabs == {"members", "invited"}
NoMember == [role |-> "", invitation |-> "none"]
NoRow == [role |-> "", open |-> FALSE, loading |-> FALSE]

\* getProjectDetails: the first list has those that accepted.
TabOf(member) == IF member.invitation = "Accepted" THEN "members" ELSE "invited"

Filtered(p) ==
    SelectSeq(ByOrder, LAMBDA u : /\ p.members[u] # NoMember
                                  /\ TabOf(p.members[u]) = p.tab
                                  /\ p.search \in {"", u}
                                  /\ p.role \in {"all", p.members[u].role})

OnScreen(p) ==
    {Filtered(p)[i] : i \in {j \in DOMAIN Filtered(p) :
        p.pageNo * RowsPerPage < j /\ j <= (p.pageNo + 1) * RowsPerPage}}

\* Rows that stay keep their hooks, those that come start with the user's role.
Rendered(p) ==
    rows' = [u \in Users |-> IF u \notin OnScreen(p) THEN NoRow
                             ELSE IF rows[u] # NoRow /\ p.tab = page.tab THEN rows[u]
                             ELSE [NoRow EXCEPT !.role = p.members[u].role]]

Shown(p) == page' = p /\ Rendered(p)

-----------------------------------------------------------------------------
(* The list.                                                               *)

Fetch(n) ==
    /\ Len(list) + n <= MaxFetches                         \* bound
    /\ list' = IF n = 2 THEN Sent(Sent(list)) ELSE Sent(list)

Serve(i) ==
    /\ list[i].carried = NoAnswer
    /\ list' = ServedAt(list, i, stored)
    /\ UNCHANGED <<stored, page, rows, sends>>

Receive(i) ==
    /\ list[i].carried # NoAnswer
    /\ list' = Taken(list, i)
    /\ Shown([page EXCEPT !.members = list[i].carried[1], !.loading = FALSE,
                          !.stale = list[i].old])
    /\ UNCHANGED <<stored, sends>>

\* An error is logged: the tables stay, and at first the page keeps loading.
FetchFailed(i) ==
    /\ list' = Taken(list, i)
    /\ page' = [page EXCEPT !.stale = TRUE]
    /\ UNCHANGED <<stored, rows, sends>>

-----------------------------------------------------------------------------
(* The tables.                                                             *)

Open(u) == rows[u].open
Clickable == ~ page.loading /\ \A u \in Users : ~ Open(u)

\* A tab's table is mounted anew, on its first page.
handleLocalChange(tab) ==
    /\ Clickable /\ tab # page.tab
    /\ Shown([page EXCEPT !.tab = tab, !.pageNo = 0])
    /\ UNCHANGED <<stored, list, sends>>

\* The filters reset a page number of TeamingTab that no table reads.
Search(s) ==
    /\ Clickable /\ s # page.search
    /\ Shown([page EXCEPT !.search = s])
    /\ UNCHANGED <<stored, list, sends>>

FilterRole(r) ==
    /\ Clickable /\ r # page.role
    /\ Shown([page EXCEPT !.role = r])
    /\ UNCHANGED <<stored, list, sends>>

ChangePage(n) ==
    /\ Clickable
    /\ n # page.pageNo /\ n * RowsPerPage < Len(Filtered(page))
    /\ Shown([page EXCEPT !.pageNo = n])
    /\ UNCHANGED <<stored, list, sends>>

\* showModal of the page, after the modal to invite users: InviteModal.
ModalClosed ==
    /\ Clickable
    /\ Fetch(1)
    /\ UNCHANGED <<stored, page, rows, sends>>

-----------------------------------------------------------------------------
(* The rows.                                                               *)

setRole(u, role) ==
    /\ Clickable /\ u \in OnScreen(page) /\ page.tab = "invited" /\ role # rows[u].role
    /\ rows' = [rows EXCEPT ![u].role = role]
    /\ UNCHANGED <<stored, list, page, sends>>

SendRequest(kind, u, role) ==
    /\ Cardinality(sends) < MaxSends                         \* bound
    /\ sends' = sends \cup {[kind |-> kind, user |-> u, role |-> role, tab |-> page.tab,
                             done |-> FALSE]}

SendInvite(u) ==
    /\ Clickable /\ u \in OnScreen(page) /\ page.tab = "invited"
    /\ SendRequest("invite", u, rows[u].role)
    /\ UNCHANGED <<stored, list, page, rows>>

OpenRemove(u) ==
    /\ Clickable /\ u \in OnScreen(page)
    /\ page.members[u].invitation \notin {"Exited", "Declined"}
    /\ rows' = [rows EXCEPT ![u].open = TRUE, ![u].loading = FALSE]
    /\ UNCHANGED <<stored, list, page, sends>>

\* Of the invited, both callbacks fetch.
Closing(tab) == IF tab = "invited" THEN 2 ELSE 1

\* The cross and the button No.
handleClose(u) ==
    /\ Open(u)
    /\ rows' = [rows EXCEPT ![u].open = FALSE, ![u].loading = FALSE]
    /\ Fetch(Closing(page.tab))
    /\ UNCHANGED <<stored, page, sends>>

\* The loader takes the place of the buttons.
ButtonsShown(u) == Open(u) /\ ~ rows[u].loading

removeMember(u) ==
    /\ ButtonsShown(u)
    /\ SendRequest("remove", u, page.members[u].role)
    /\ rows' = [rows EXCEPT ![u].loading = TRUE]
    /\ UNCHANGED <<stored, list, page>>

-----------------------------------------------------------------------------
(* The server (external): send_invitation and remove_invitation of         *)
(* authentication, and its answers.                                        *)

Apply(r) ==
    LET was == stored[r.user].invitation
    IN  /\ ~ r.done
        /\ IF r.kind = "invite" THEN was # "Accepted" ELSE was \in {"Accepted", "Pending"}
        /\ stored' = [stored EXCEPT ![r.user] =
                        IF r.kind = "invite"
                        THEN [role |-> r.role, invitation |-> "Pending"] ELSE NoMember]
        /\ sends' = (sends \ {r}) \cup {[r EXCEPT !.done = TRUE]}
        /\ UNCHANGED <<list, page, rows>>

\* fetchData, or showModal and handleClose of the row that is there.
Answered(r) ==
    /\ r.done
    /\ sends' = sends \ {r}
    /\ IF r.kind = "invite"
       THEN Fetch(1) /\ UNCHANGED rows
       ELSE /\ Fetch(Closing(r.tab))
            /\ rows' = [rows EXCEPT ![r.user].open = FALSE, ![r.user].loading = FALSE]
    /\ UNCHANGED <<stored, page>>

\* An error leaves the dialog with its loader.
Failed(r) ==
    /\ ~ r.done
    /\ sends' = sends \ {r}
    /\ UNCHANGED <<stored, list, page, rows>>

-----------------------------------------------------------------------------
TeamInit ==
    /\ stored \in FirstMembers
    /\ list = Sent(NoFetch)
    /\ page = [loading |-> TRUE, members |-> [u \in Users |-> NoMember],
               tab |-> "members", search |-> "", role |-> "all", pageNo |-> 0,
               stale |-> FALSE]
    /\ rows = [u \in Users |-> NoRow]
    /\ sends = {}

TeamNext ==
    \/ \E i \in DOMAIN list : Serve(i) \/ Receive(i) \/ FetchFailed(i)
    \/ \E tab \in Tabs : handleLocalChange(tab)
    \/ \E s \in Searches : Search(s)
    \/ \E r \in RoleFilters : FilterRole(r)
    \/ \E n \in 0 .. Len(ByOrder) : ChangePage(n)
    \/ ModalClosed
    \/ \E u \in Users :
          \/ \E role \in Roles : setRole(u, role)
          \/ SendInvite(u) \/ OpenRemove(u) \/ handleClose(u) \/ removeMember(u)
    \/ \E r \in sends : Apply(r) \/ Answered(r) \/ Failed(r)

TeamSpec == TeamInit /\ [][TeamNext]_teamVars

-----------------------------------------------------------------------------
(* Properties.                                                             *)

\* When nothing is under way and the last answer was neither overtaken by a later
\* one nor failed, the tables show the members that are stored.
ShowsStored == list = NoFetch /\ sends = {} /\ ~ page.stale => page.members = stored
=============================================================================
