----------------------------- MODULE InviteModal -----------------------------
(***************************************************************************)
(* The modal that invites users to the project:                            *)
(* frontend/src/views/Settings/TeamingTab/InviteNew.                       *)
(*                                                                         *)
(* The role of a user is in three places: in the row, which forgets it     *)
(* when the search hides the row; in roles, for users not selected yet;    *)
(* and in the selection, which is what is sent.                            *)
(***************************************************************************)
EXTENDS FiniteSets

CONSTANTS Users,        \* those that are not in the project
          Searches        \* what may be typed: a user's name or ""

VARIABLES
    modal,      \* the hooks of the modal and of the rows on the screen
    invites,    \* invitations under way
    picked      \* history: the role last picked for each user in this modal

inviteVars == <<modal, invites, picked>>

Roles == {"Editor", "Viewer"}

Unmounted == [open |-> FALSE, wait |-> "none", rows |-> {}, shown |-> [u \in Users |-> ""],
              roles |-> [u \in Users |-> ""], selected |-> {}, search |-> "",
              success |-> FALSE, loading |-> FALSE, error |-> FALSE]

\* A row that is not on the screen has no role of its own, one that comes is a Viewer's.
Rendered(m) ==
    [m EXCEPT !.shown = [u \in Users |->
        IF u \notin m.rows \/ m.search \notin {"", u} \/ m.success THEN ""
        ELSE IF m.shown[u] = "" THEN "Viewer" ELSE m.shown[u]]]

\* Before the loader, the error or the thanks that follow the button.
Choosing == modal.open /\ ~ modal.success

OnScreen(u) == modal.shown[u] # ""

-----------------------------------------------------------------------------
(* Opening: the project, then the users that are not its members.          *)

Open ==
    /\ ~ modal.open
    /\ modal' = [Unmounted EXCEPT !.open = TRUE, !.wait = "project"]
    /\ picked' = [u \in Users |-> "Viewer"]
    /\ UNCHANGED invites

getProject ==
    /\ modal.wait = "project"
    /\ \E wait \in {"users", "none"} : modal' = [modal EXCEPT !.wait = wait]
    /\ UNCHANGED <<invites, picked>>

ReceiveUsers ==
    /\ modal.wait = "users"
    /\ modal' = Rendered([modal EXCEPT !.wait = "none", !.rows = Users])
    /\ UNCHANGED <<invites, picked>>

\* showModal of the page unmounts the modal; what it sent is still under way.
handleModal ==
    /\ modal.open
    /\ modal' = Unmounted
    /\ invites' = {[i EXCEPT !.mounted = FALSE] : i \in invites}
    /\ UNCHANGED picked

-----------------------------------------------------------------------------
(* The rows.                                                               *)

Search(s) ==
    /\ Choosing /\ s # modal.search
    /\ modal' = Rendered([modal EXCEPT !.search = s])
    /\ UNCHANGED <<invites, picked>>

setUserRole(u, role) ==
    [modal EXCEPT !.shown[u] = role, !.roles[u] = role,
                  !.selected = {IF s.user = u THEN [s EXCEPT !.role = role] ELSE s : s \in @}]

PickRole(u, role) ==
    /\ OnScreen(u)
    /\ modal' = setUserRole(u, role)
    /\ picked' = [picked EXCEPT ![u] = role]
    /\ UNCHANGED invites

handleClick(u) ==
    LET Others == {s \in modal.selected : s.user # u}
    IN  /\ OnScreen(u)
        /\ modal' = [modal EXCEPT !.selected =
               IF Others # modal.selected THEN Others
               ELSE @ \cup {[user |-> u, role |-> IF modal.roles[u] = "" THEN "Viewer"
                                                   ELSE modal.roles[u]]}]
        /\ UNCHANGED <<invites, picked>>

Invitation(s) == [user |-> s.user, role |-> s.role, mounted |-> TRUE]

\* The selected are invited, those the search hides too.
SendInvite ==
    /\ Choosing /\ modal.selected # {}
    /\ invites' = invites \cup {Invitation(s) : s \in modal.selected}
    /\ modal' = Rendered([modal EXCEPT !.success = TRUE, !.loading = TRUE])
    /\ UNCHANGED picked

-----------------------------------------------------------------------------
(* The answers (external).                                                 *)

Answered(i) ==
    /\ invites' = invites \ {i}
    /\ modal' = IF i.mounted THEN [modal EXCEPT !.loading = FALSE, !.error = FALSE] ELSE modal
    /\ UNCHANGED picked

\* An error leaves the loader, unless an answer without error comes too.
Failed(i) ==
    /\ invites' = invites \ {i}
    /\ modal' = IF i.mounted THEN [modal EXCEPT !.error = TRUE] ELSE modal
    /\ UNCHANGED picked

-----------------------------------------------------------------------------
InviteInit ==
    /\ modal = Unmounted
    /\ invites = {}
    /\ picked = [u \in Users |-> "Viewer"]

InviteNext ==
    \/ Open \/ getProject \/ ReceiveUsers \/ handleModal
    \/ \E s \in Searches : Search(s)
    \/ \E u \in Users :
          \/ \E role \in Roles : PickRole(u, role)
          \/ handleClick(u)
    \/ SendInvite
    \/ \E i \in invites : Answered(i) \/ Failed(i)

InviteSpec == InviteInit /\ [][InviteNext]_inviteVars

-----------------------------------------------------------------------------
(* Properties.                                                             *)

\* A user is invited with the role last picked for them in the modal, in
\* whichever order roles were picked, users selected and rows hidden by the
\* search; with none picked, as a Viewer.
InvitesWithChosenRole ==
    \A i \in invites : i.mounted => i.role = picked[i.user]
=============================================================================
