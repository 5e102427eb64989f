--------------------------- MODULE InvitationsTab ---------------------------
(***************************************************************************)
(* The projects the user is a guest of or invited to:                      *)
(* frontend/src/views/Settings/TeamingTab/Invitation, below the team.      *)
(*                                                                         *)
(* Three components ask for the same list of projects, each for itself:    *)
(* the page for the numbers at its head, the tabs for theirs, and the open *)
(* tab for its cards.  What a card sent is answered with the cards of the  *)
(* render it was clicked in.                                               *)
(*                                                                         *)
(* Accepted, Pending... is the user's own invitation in each project; the  *)
(* projects the user owns only add to the first number and are left out.   *)
(***************************************************************************)
EXTENDS PageFetch, FiniteSets

CONSTANTS Projects, OwnerOf,        \* OwnerOf[p]: the user who invites to p
          MaxFetches, MaxSends      \* bounds

VARIABLES
    stored,     \* the server's: the invitation of the user in each project
    asks,       \* requests for the list, by who made them
    page,       \* the open tab, what each component has, and whether it is old
    sends       \* answers to invitations under way

invitationsVars == <<stored, asks, page, sends>>

Askers == {"head", "tabs", "cards"}
Invitations == {"Pending", "Accepted", "Declined", "Exited"}

With(invitation, projects) == {p \in Projects : projects[p] = invitation}

\* The invitation that the cards of each tab are about.
Of(tab) == IF tab = 0 THEN "Accepted" ELSE "Pending"

Numbers(projects) == [other |-> Cardinality(With("Accepted", projects)),
                      invited |-> Cardinality(With("Pending", projects))]

\* The cards of a tab that was opened meanwhile ask for nothing.
AskedBy(askers) ==
    /\ \A k \in askers : Len(asks[k]) < MaxFetches                      \* bound
    /\ asks' = [k \in Askers |->
                  IF k \in askers THEN Sent(asks[k])
                  ELSE [i \in DOMAIN asks[k] |-> [asks[k][i] EXCEPT !.old = TRUE]]]

-----------------------------------------------------------------------------
(* The lists.                                                              *)

Serve(k, i) ==
    /\ asks[k][i].carried = NoAnswer
    /\ asks' = [asks EXCEPT ![k] = ServedAt(@, i, stored)]
    /\ UNCHANGED <<stored, page, sends>>

\* What the page, the tabs and the cards make of the list.
getProjectDetail(pg, projects) == [pg EXCEPT !.head = Numbers(projects)]
fetchProjectData(pg, projects) == [pg EXCEPT !.tabs = Numbers(projects)]
getProjects(pg, projects) ==
    [pg EXCEPT !.cards = With(Of(pg.tab), projects), !.loading = FALSE]

Receive(k, i) ==
    LET fetch == asks[k][i]
        new   == [page EXCEPT !.old[k] = fetch.old]
    IN  /\ fetch.carried # NoAnswer
        /\ asks' = [asks EXCEPT ![k] = Taken(@, i)]
        /\ page' = CASE k = "head" -> getProjectDetail(new, fetch.carried[1])
                     [] k = "tabs" -> fetchProjectData(new, fetch.carried[1])
                     [] OTHER -> getProjects(new, fetch.carried[1])
        /\ UNCHANGED <<stored, sends>>

\* The tabs show no numbers then, the others what they had.
NotReceived(k, i) ==
    /\ asks[k][i].carried = NoAnswer
    /\ asks' = [asks EXCEPT ![k] = Taken(@, i)]
    /\ page' = CASE k = "tabs" -> [page EXCEPT !.old[k] = TRUE,
                                               !.tabs = [other |-> 0, invited |-> 0]]
                 [] k = "head" -> [page EXCEPT !.old[k] = TRUE]
                 [] OTHER -> [page EXCEPT !.old[k] = TRUE, !.loading = FALSE]
    /\ UNCHANGED <<stored, sends>>

-----------------------------------------------------------------------------
(* The tabs and the cards.                                                 *)

\* The other tab's component mounts; this one's answers are dropped.
Mounted(tab, twice) ==
    /\ tab # page.tab
    /\ Len(asks["tabs"]) + (IF twice THEN 2 ELSE 1) <= MaxFetches        \* bound
    /\ asks' = [asks EXCEPT !["cards"] = Sent(NoFetch),
                            !["tabs"] = IF twice THEN Sent(Sent(@)) ELSE Sent(@)]
    /\ page' = [page EXCEPT !.tab = tab, !.cards = {}, !.last = "", !.loading = tab = 1,
                            !.old["cards"] = FALSE]
    /\ sends' = {[r EXCEPT !.mounted = FALSE] : r \in sends}
    /\ UNCHANGED stored

\* A click on a tab fetches itself, and so does the effect of the new tab.
handleChange(tab) == Mounted(tab, TRUE)

\* The button at the head of the page.
InvitationsButton == Mounted(1, FALSE)

\* A request, with the cards and the last click of the render it is made in.
Request(op, p) ==
    [op |-> op, project |-> p, done |-> FALSE, mounted |-> TRUE,
     tab |-> page.tab, cards |-> page.cards, last |-> page.last]

Click(op, p) ==
    /\ p \in page.cards /\ ~ page.loading
    /\ (op = "leave") = (page.tab = 0)
    /\ Cardinality(sends) < MaxSends                                     \* bound
    /\ sends' = sends \cup {Request(op, p)}
    /\ page' = [page EXCEPT !.last = IF op = "leave" THEN p ELSE OwnerOf[p]]
    /\ UNCHANGED <<stored, asks>>

leaveProject(p) == Click("leave", p)
acceptInvite(p) == Click("accept", p)
declineInvite(p) == Click("decline", p)

-----------------------------------------------------------------------------
(* The server (external): authentication's handlers, and their answers.    *)

Apply(r) ==
    /\ ~ r.done
    /\ stored[r.project] = IF r.op = "leave" THEN "Accepted" ELSE "Pending"
    /\ stored' = [stored EXCEPT ![r.project] =
           CASE r.op = "leave" -> "Exited" [] r.op = "accept" -> "Accepted"
             [] OTHER -> "Declined"]
    /\ sends' = (sends \ {r}) \cup {[r EXCEPT !.done = TRUE]}
    /\ UNCHANGED <<asks, page>>

\* The cards of that click, without those of the click before.
CardsLeft(r) ==
    {p \in r.cards : (IF r.tab = 0 THEN p ELSE OwnerOf[p]) # r.last}

Answered(r) ==
    /\ r.done
    /\ sends' = sends \ {r}
    /\ AskedBy(IF r.mounted THEN Askers ELSE {"head", "tabs"})
    /\ page' = IF r.mounted THEN [page EXCEPT !.cards = CardsLeft(r),
                                              !.loading = page.tab = 1]
               ELSE [page EXCEPT !.old["cards"] = TRUE]
    /\ UNCHANGED stored

Refused(r) ==
    /\ ~ r.done
    /\ sends' = sends \ {r}
    /\ UNCHANGED <<stored, asks, page>>

-----------------------------------------------------------------------------
InvitationsInit ==
    /\ stored \in [Projects -> {"Pending", "Accepted"}]
    /\ asks = [k \in Askers |-> Sent(NoFetch)]
    /\ \E tab \in {0, 1} :
         page = [tab |-> tab, head |-> [other |-> 0, invited |-> 0],
                 tabs |-> [other |-> 0, invited |-> 0], cards |-> {}, last |-> "",
                 loading |-> tab = 1, old |-> [k \in Askers |-> FALSE]]
    /\ sends = {}

InvitationsNext ==
    \/ \E k \in Askers : \E i \in DOMAIN asks[k] :
          Serve(k, i) \/ Receive(k, i) \/ NotReceived(k, i)
    \/ \E tab \in {0, 1} : handleChange(tab)
    \/ InvitationsButton
    \/ \E p \in Projects : leaveProject(p) \/ acceptInvite(p) \/ declineInvite(p)
    \/ \E r \in sends : Apply(r) \/ Answered(r) \/ Refused(r)

InvitationsSpec == InvitationsInit /\ [][InvitationsNext]_invitationsVars

-----------------------------------------------------------------------------
(* Properties.                                                             *)

\* When all is answered and nobody was left with an answer that was overtaken,
\* with none, or with cards that changed while the other tab was open, the
\* three components agree with the server and so with each other: the numbers
\* at the head, those of the tabs, and the cards.
ShowsStored ==
    /\ \A k \in Askers : asks[k] = NoFetch /\ ~ page.old[k]
    /\ sends = {}
    => /\ page.head = Numbers(stored) /\ page.tabs = Numbers(stored)
       /\ page.cards = With(Of(page.tab), stored)
=============================================================================
