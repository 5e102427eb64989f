--------------------------- MODULE UserManagement ---------------------------
(***************************************************************************)
(* The administrator's tab of users: frontend/src/views/Settings/          *)
(* UserManagementTab.                                                      *)
(*                                                                         *)
(* The table is asked for again whenever the form of a new user comes or   *)
(* goes and whenever a user's state was changed, by the row that changed   *)
(* it, which may be off the screen by then.                                *)
(***************************************************************************)
EXTENDS PageFetch, FiniteSets

CONSTANTS ByOrder,      \* the users there may be, in the order they are created in
          Existing,     \* those there are at first
          Searches, StatusFilters, RowsPerPage,
          MaxFetches, MaxSends  \* bounds: requests under way at one time

VARIABLES
    stored,     \* the state of each user, in the authentication service
    asks,       \* requests for the list under way
    page,       \* the hooks of the tab and of its forms
    sends       \* changes under way

usersVars == <<stored, asks, page, sends>>

Users == {ByOrder[i] : i \in DOMAIN ByOrder}
States == {"active", "deactivated"}

NoForm == [user |-> "", password |-> FALSE, modal |-> "closed", loading |-> FALSE]

UsersInit ==
    /\ stored = [u \in Users |-> IF u \in Existing THEN "active" ELSE "absent"]
    /\ asks = Sent(NoFetch)
    /\ page = [show |-> "table", rows |-> <<>>, old |-> FALSE, left |-> FALSE, search |-> "", status |-> "all",
               pageNo |-> 0, menu |-> 0, curr |-> "", form |-> NoForm]
    /\ sends = {}

\* GET /users (external).
Listed(users) ==
    LET row(u) == [name |-> u, state |-> users[u]]
    IN  SelectSeq([i \in DOMAIN ByOrder |-> row(ByOrder[i])], LAMBDA r : r.state # "absent")

filteredData ==
    SelectSeq(page.rows, LAMBDA r : page.search \in {"", r.name} /\ page.status \in {"all", r.state})

\* Rows have no key: the i-th on the page is the i-th whoever it is.
ShownRows ==
    LET from == page.pageNo * RowsPerPage
    IN  [i \in 1 .. RowsPerPage |->
            IF from + i \in DOMAIN filteredData THEN filteredData[from + i]
            ELSE [name |-> "", state |-> "absent"]]

\* The menu goes with its row; who it was opened for (curr) is read from the menu only.
Rendered(pg, rows) ==
    LET shown == SelectSeq(rows, LAMBDA r : pg.search \in {"", r.name} /\ pg.status \in {"all", r.state})
        stays == pg.pageNo * RowsPerPage + pg.menu \in DOMAIN shown
    IN  [pg EXCEPT !.rows = rows,
                   !.menu = IF stays THEN @ ELSE 0, !.curr = IF stays THEN @ ELSE ""]

\* history (left): the list was asked for while a user was being created.
Creating == \E s \in sends : s.do = "create"

fetchUsers == Len(asks) < MaxFetches /\ asks' = Sent(asks)

Table == page.show = "table" /\ page.menu = 0

-----------------------------------------------------------------------------
(* The list.                                                               *)

Serve(i) ==
    /\ asks[i].carried = NoAnswer
    /\ asks' = ServedAt(asks, i, Listed(stored))
    /\ UNCHANGED <<stored, page, sends>>

setRows(i) ==
    /\ asks[i].carried # NoAnswer
    /\ asks' = Taken(asks, i)
    /\ page' = Rendered([page EXCEPT !.old = asks[i].old], asks[i].carried[1])
    /\ UNCHANGED <<stored, sends>>

\* Nothing is shown of it, the rows stay.
FetchFailed(i) ==
    /\ asks' = Taken(asks, i)
    /\ page' = [page EXCEPT !.old = TRUE]
    /\ UNCHANGED <<stored, sends>>

setFilters(search, status) ==
    /\ Table /\ <<search, status>> # <<page.search, page.status>>
    /\ page' = [page EXCEPT !.search = search, !.status = status, !.pageNo = 0]
    /\ UNCHANGED <<stored, asks, sends>>

ChangePage(n) ==
    /\ Table /\ n # page.pageNo /\ n * RowsPerPage < Len(filteredData)
    /\ page' = [page EXCEPT !.pageNo = n]
    /\ UNCHANGED <<stored, asks, sends>>

-----------------------------------------------------------------------------
(* The menu of a row: the administrator's own row has none.                *)

OpenMenu(i) ==
    /\ Table /\ ShownRows[i].name \notin {"", "admin"}
    /\ page' = [page EXCEPT !.menu = i, !.curr = ShownRows[i].name]
    /\ UNCHANGED <<stored, asks, sends>>

CloseMenu ==
    /\ page.menu > 0
    /\ page' = [page EXCEPT !.menu = 0, !.curr = ""]
    /\ UNCHANGED <<stored, asks, sends>>

\* Activate or Deactivate, of the row that is there now; the menu stays open.
handleSubmit ==
    /\ page.menu > 0 /\ ShownRows[page.menu].name # "admin"
    /\ Len(asks) < MaxFetches /\ \A s \in sends : s.id < MaxSends
    /\ LET row == ShownRows[page.menu]
           to  == IF row.state = "active" THEN "deactivated" ELSE "active"
       IN  sends' = sends \cup {[do |-> to, user |-> row.name, done |-> FALSE, mounted |-> TRUE,
                                 id |-> 1 + Cardinality(sends)]}
    /\ UNCHANGED <<stored, asks, page>>

\* The form for another password has its user from the start.
EditUser(u) == [NoForm EXCEPT !.user = u]

handleEditDiv ==
    /\ page.menu > 0
    /\ page' = [page EXCEPT !.show = "edit", !.menu = 0, !.curr = "",
                            !.form = EditUser(page.curr)]
    /\ UNCHANGED <<stored, asks, sends>>

-----------------------------------------------------------------------------
(* The forms: a new user, and another password for one there is.  What is   *)
(* typed while a request is under way is left out.                         *)

setShowDiv ==
    /\ Table /\ fetchUsers
    /\ page' = [page EXCEPT !.show = "create", !.form = NoForm, !.left = Creating]
    /\ UNCHANGED <<stored, sends>>

handleUserChange(u) ==
    /\ page.show = "create" /\ page.form.modal = "closed" /\ ~ page.form.loading /\ u # page.form.user
    /\ page' = [page EXCEPT !.form.user = u]
    /\ UNCHANGED <<stored, asks, sends>>

handleCreatePassword ==
    /\ page.show # "table" /\ page.form.modal = "closed" /\ ~ page.form.loading
    /\ page' = [page EXCEPT !.form.password = ~ @]
    /\ UNCHANGED <<stored, asks, sends>>

\* The button of either form; it is not there to be pressed while a request is under way.
handleClick ==
    /\ page.show # "table" /\ page.form.modal = "closed" /\ ~ page.form.loading
    /\ page.form.user # "" /\ page.form.password /\ \A s \in sends : s.id < MaxSends
    /\ page' = [page EXCEPT !.form.loading = TRUE]
    /\ sends' = sends \cup {[do |-> page.show, user |-> page.form.user, done |-> FALSE,
                             mounted |-> TRUE, id |-> 1 + Cardinality(sends)]}
    /\ UNCHANGED <<stored, asks>>

\* The arrow, or whatever closes the modal of a new user; a new user's form refetches.
handleDiv ==
    /\ page.show # "table"
    /\ IF page.show = "create" THEN fetchUsers ELSE UNCHANGED asks
    /\ page' = [page EXCEPT !.show = "table", !.form = NoForm,
                            !.left = IF page.show = "create" THEN Creating ELSE @]
    /\ sends' = {[s EXCEPT !.mounted = s.do \in States] : s \in sends}
    /\ UNCHANGED stored

\* The modal of a password is closed without leaving the form.
handleClose ==
    /\ page.show = "edit" /\ page.form.modal # "closed"
    /\ page' = [page EXCEPT !.form.modal = "closed"]
    /\ UNCHANGED <<stored, asks, sends>>

-----------------------------------------------------------------------------
(* The answers.                                                            *)

\* The service does what it was asked (external); a name that is taken is refused below.
Apply(s) ==
    /\ ~ s.done
    /\ s.do = "create" => stored[s.user] = "absent"
    /\ stored' = CASE s.do = "create" -> [stored EXCEPT ![s.user] = "active"]
                   [] s.do \in States -> [stored EXCEPT ![s.user] = s.do]
                   [] OTHER -> stored
    /\ sends' = (sends \ {s}) \cup {[s EXCEPT !.done = TRUE]}
    /\ UNCHANGED <<asks, page>>

Finish(outcome) == [page EXCEPT !.form.loading = FALSE, !.form.modal = outcome]

\* A mutated form of Answered: a row that is off the screen does not ask for the list.
AnsweredOnScreen(s) ==
    IF s.do \in States THEN (IF page.show = "table" THEN fetchUsers ELSE UNCHANGED asks) /\ UNCHANGED page
    ELSE /\ page' = IF s.mounted THEN Finish("done") ELSE page
         /\ UNCHANGED asks

\* A row asks for the list again wherever it is; a form that is gone does nothing, and
\* what it created may be missing from the list asked for when it went.
Answered(s) ==
    IF s.do \in States THEN fetchUsers /\ UNCHANGED page
    ELSE /\ page' = IF s.mounted THEN Finish("done") ELSE page
         /\ UNCHANGED asks

Receive(s) ==
    /\ s.done
    /\ Answered(s)
    /\ sends' = sends \ {s}
    /\ UNCHANGED stored

Refuse(s) ==
    /\ ~ s.done
    /\ page' = IF s.do \notin States /\ s.mounted THEN Finish("error") ELSE page
    /\ sends' = sends \ {s}
    /\ UNCHANGED <<stored, asks>>

UsersNext ==
    \/ \E i \in DOMAIN asks : Serve(i) \/ setRows(i) \/ FetchFailed(i)
    \/ \E s \in Searches, status \in {"all"} \cup StatusFilters : setFilters(s, status)
    \/ \E n \in 0 .. Len(ByOrder) : ChangePage(n)
    \/ \E i \in 1 .. RowsPerPage : OpenMenu(i)
    \/ CloseMenu \/ handleSubmit \/ handleEditDiv \/ setShowDiv
    \/ \E u \in Users : handleUserChange(u)
    \/ handleCreatePassword \/ handleClick \/ handleDiv \/ handleClose
    \/ \E s \in sends : Apply(s) \/ Receive(s) \/ Refuse(s)

UsersSpec == UsersInit /\ [][UsersNext]_usersVars

-----------------------------------------------------------------------------
\* When nothing is under way the tab has the users as they are stored, unless the
\* last answer was overtaken or failed, or a new user's form was left unanswered
\* (fetchUsers and its three callers).
ShowsStored ==
    (asks = NoFetch /\ sends = {} /\ page.show # "create") =>
        page.old \/ page.left \/ page.rows = Listed(stored)
=============================================================================
