------------------------- MODULE ProjectMembership -------------------------
(***************************************************************************)
(* The members of one project in the authentication server: the owner      *)
(* invites and removes users, they accept, decline and leave, and an       *)
(* administrator deactivates and reactivates users, the owner among them.  *)
(*                                                                         *)
(* The members are an array in the document of the project.  A request     *)
(* checks the rights of its caller, some look up the invitation there is,  *)
(* and then it writes: three calls to MongoDB that others may come between.*)
(* The entries looked up and written are those of the user the body of the *)
(* request names, who need not be its caller.                              *)
(***************************************************************************)
EXTENDS Naturals, FiniteSets, Sequences

CONSTANTS
  Owner, User,   \* the owner of the project, and other users
  Request,       \* requests the server handles at a time
  Few,           \* those who call and are named when requests overlap (a bound)
  Circumstances  \* of each kind of behaviour to consider, what may happen in it

\* overlap: requests overlap in time; faults: a call to MongoDB fails or the
\* server ends, and with it the request; others: callers answer for somebody
\* else, or remove the owner. The pages of the portal never do: they send the
\* caller's own id with an answer, and offer to remove everybody but the owner.
Happening == {"overlap", "faults", "others"}

ASSUME OwnerIsNoUser == Owner \notin User
ASSUME RequestsType  == IsFiniteSet(Request) /\ Request # {}
ASSUME FewAmongAll   == Few \subseteq User \cup {Owner}
ASSUME GivenType     == Circumstances \subseteq SUBSET Happening

VARIABLES
  given,        \* what may happen in this behaviour
  members,      \* the members array: the entries of each user, in order
  deactivated,  \* users with a deactivated_at
  removed,      \* removed_at of the project is set
  request       \* what each request has seen and is about to do

system == <<members, deactivated, removed, request>>
vars   == <<given, system>>

Person     == User \cup {Owner}
Invitation == {"Pending", "Accepted", "Declined", "Exited"}
Entry      == [role : {"Owner", "Editor", "Viewer"}, invitation : Invitation]

Idle == [stage |-> "idle"]

Init ==
  /\ given \in Circumstances
  /\ members = [p \in Person |->
       IF p = Owner THEN <<[role |-> "Owner", invitation |-> "Accepted"]>> ELSE <<>>]
  /\ deactivated = {}
  /\ removed = FALSE
  /\ request = [q \in Request |-> Idle]

-----------------------------------------------------------------------------
\* The user is not deactivated, and an entry of his has one of the roles and
\* the invitation.
RbacValidator(who, roles, invitation) ==
  /\ who \notin deactivated
  /\ \E i \in DOMAIN members[who] : /\ members[who][i].role \in roles
                                    /\ members[who][i].invitation = invitation

\* The first entry of the user, if there is one.
getInvitation(u) == IF members[u] = <<>> THEN "none" ELSE members[u][1].invitation

Start(q, op, u, role, stage) ==
  /\ request[q] = Idle
  /\ "overlap" \in given \/ \A other \in Request : request[other] = Idle
  /\ request' = [request EXCEPT
       ![q] = [stage |-> stage, op |-> op, user |-> u, role |-> role]]
  /\ UNCHANGED <<members, deactivated, removed>>

Goto(q, stage) == request' = [request EXCEPT ![q].stage = stage]
End(q)         == request' = [request EXCEPT ![q] = Idle]

At(q, op, stage) == request[q].stage = stage /\ request[q].op = op

\* The array filter matches every entry of the user; without one, the update
\* matches the project and changes nothing. The role is part of a new invitation.
UpdateInvite(u, invitation, role) ==
  members' = [members EXCEPT ![u] = [i \in DOMAIN @ |->
    [role |-> IF invitation = "Pending" THEN role ELSE @[i].role,
     invitation |-> invitation]]]

-----------------------------------------------------------------------------
(***************************************************************************)
(* An owner of the project invites and removes.                            *)
(***************************************************************************)
SendInvitation(q, caller, u, role) ==
  /\ RbacValidator(caller, {"Owner"}, "Accepted")
  /\ Start(q, "send", u, role, "look")

\* Mutant: members are invited once more.
InviteAnyone(q) ==
  /\ At(q, "send", "look")
  /\ Goto(q, IF getInvitation(request[q].user) = "none" THEN "add" ELSE "update")
  /\ UNCHANGED <<members, deactivated, removed>>

\* Mutant: nobody is looked up.
AddAnyone(q) ==
  /\ At(q, "send", "look")
  /\ Goto(q, "add")
  /\ UNCHANGED <<members, deactivated, removed>>

LookInvited(q) ==
  LET invitation == getInvitation(request[q].user) IN
  /\ At(q, "send", "look")
  /\ \/ invitation = "Accepted" /\ End(q)
     \/ invitation \in {"Pending", "Declined", "Exited"} /\ Goto(q, "update")
     \/ invitation = "none" /\ Goto(q, "add")
  /\ UNCHANGED <<members, deactivated, removed>>

WriteInvitation(q) ==
  LET r == request[q] IN
  /\ \/ /\ At(q, "send", "update")
        /\ UpdateInvite(r.user, "Pending", r.role)
     \/ /\ At(q, "send", "add")      \* AddMember
        /\ members' = [members EXCEPT ![r.user] =
             Append(@, [role |-> r.role, invitation |-> "Pending"])]
  /\ End(q)
  /\ UNCHANGED <<deactivated, removed>>

RemoveInvitation(q, caller, u) ==
  /\ RbacValidator(caller, {"Owner"}, "Accepted")
  /\ "others" \in given \/ u # Owner
  /\ Start(q, "remove", u, "Viewer", "look")

LookRemoved(q) ==
  LET invitation == getInvitation(request[q].user) IN
  /\ At(q, "remove", "look")
  /\ IF invitation \in {"Accepted", "Pending"} THEN Goto(q, "pull") ELSE End(q)
  /\ UNCHANGED <<members, deactivated, removed>>

\* $pull takes all entries of the user.
Pull(q) ==
  /\ At(q, "remove", "pull")
  /\ members' = [members EXCEPT ![request[q].user] = <<>>]
  /\ End(q)
  /\ UNCHANGED <<deactivated, removed>>

-----------------------------------------------------------------------------
(***************************************************************************)
(* Users accept, decline and leave.                                        *)
(***************************************************************************)
Becomes(op) == CASE op = "accept"  -> "Accepted"
                 [] op = "decline" -> "Declined"
                 [] op = "leave"   -> "Exited"

\* Mutant: an invitation that was turned down may be accepted.
AnswerLate(q, caller, u, op) ==
  /\ \E invitation \in {"Pending", "Declined"} :
       RbacValidator(caller, {"Viewer", "Editor"}, invitation)
  /\ "others" \in given \/ u = caller
  /\ Start(q, op, u, "Viewer", "answer")

\* AcceptInvitation and DeclineInvitation, LeaveProject. What is checked is
\* the caller's invitation, what is written is that of the user named.
Answer(q, caller, u, op) ==
  /\ RbacValidator(caller, {"Viewer", "Editor"},
                   IF op = "leave" THEN "Accepted" ELSE "Pending")
  /\ "others" \in given \/ u = caller
  /\ Start(q, op, u, "Viewer", "answer")

WriteAnswer(q) ==
  LET r == request[q] IN
  /\ r.stage = "answer"
  /\ UpdateInvite(r.user, Becomes(r.op), r.role)
  /\ End(q)
  /\ UNCHANGED <<deactivated, removed>>

-----------------------------------------------------------------------------
(***************************************************************************)
(* UpdateStateTransaction.  The transaction is begun and committed, but    *)
(* the updates do not belong to it: they run without its context.          *)
(***************************************************************************)
UpdateState(q, u, op) ==
  /\ op = "deactivate" => u \notin deactivated
  /\ Start(q, op, u, "Viewer", "user")

UpdateUserState(q) ==
  LET u == request[q].user IN
  /\ request[q].stage = "user"
  /\ deactivated' = IF request[q].op = "deactivate" THEN deactivated \cup {u}
                    ELSE deactivated \ {u}
  /\ Goto(q, "project")
  /\ UNCHANGED <<members, removed>>

\* Mutant: removed_at is never cleared.
RemoveOnly(q) ==
  /\ request[q].stage = "project"
  /\ removed' = (removed \/ request[q].user = Owner)
  /\ End(q)
  /\ UNCHANGED <<members, deactivated>>

\* The projects the user owns are removed, or back again.
UpdateProjectState(q) ==
  LET u == request[q].user IN
  /\ request[q].stage = "project"
  /\ removed' = IF \E i \in DOMAIN members[u] : members[u][i].role = "Owner"
                THEN request[q].op = "deactivate" ELSE removed
  /\ End(q)
  /\ UNCHANGED <<members, deactivated>>

\* A call fails, or the server ends.
Fail(q) ==
  /\ "faults" \in given
  /\ request[q] # Idle
  /\ End(q)
  /\ UNCHANGED <<members, deactivated, removed>>

-----------------------------------------------------------------------------
Involved == IF "overlap" \in given THEN Few ELSE Person

Ask(q) ==
  \/ \E caller, u \in Involved :
       \/ \E role \in {"Editor", "Viewer"} : SendInvitation(q, caller, u, role)
       \/ RemoveInvitation(q, caller, u)
       \/ \E op \in {"accept", "decline", "leave"} : Answer(q, caller, u, op)
  \/ \E u \in Involved, op \in {"deactivate", "activate"} : UpdateState(q, u, op)

Handle(q) == \/ LookInvited(q) \/ WriteInvitation(q)
             \/ LookRemoved(q) \/ Pull(q)
             \/ WriteAnswer(q)
             \/ UpdateUserState(q) \/ UpdateProjectState(q)
             \/ Fail(q)

Next == /\ \E q \in Request : Ask(q) \/ Handle(q)
        /\ UNCHANGED given

Spec == Init /\ [][Next]_vars

-----------------------------------------------------------------------------
(***************************************************************************)
(* Properties.                                                             *)
(***************************************************************************)
Op == {"send", "remove", "accept", "decline", "leave", "deactivate", "activate"}

\* Types; and a user has at most as many entries as requests overlap.
TypeOK ==
  /\ given \in Circumstances
  /\ members \in [Person -> Seq(Entry)]
  /\ \A p \in Person : Len(members[p]) <= Cardinality(Request)
  /\ deactivated \subseteq Person
  /\ removed \in BOOLEAN
  /\ request \in [Request ->
       [stage : {"look", "update", "add", "pull", "answer", "user", "project"},
        op : Op, user : Person, role : {"Editor", "Viewer"}] \cup {Idle}]

\* The project keeps its owner. While callers name nobody they should not, his
\* entry stays as it is, however requests overlap and fail: also when he
\* invites himself (LookInvited refuses it, and nothing else writes a role).
\* Whomever they name, nobody else becomes an owner; and he never becomes an
\* editor or a viewer as long as requests do not overlap: his invitation may be
\* answered and he may be removed, but then there is nobody to invite him.
OwnerStays ==
  /\ "others" \notin given =>
       members[Owner] = <<[role |-> "Owner", invitation |-> "Accepted"]>>
  /\ \A p \in Person : \A i \in DOMAIN members[p] :
       /\ members[p][i].role = "Owner" => p = Owner
       /\ "overlap" \notin given => (p = Owner => members[p][i].role = "Owner")

\* When requests do not overlap, everybody has the standing he expects. (With
\* overlaps, the life cycle stays where it begins.)
Standings == INSTANCE Invitations
  WITH standing <- [p \in Person |->
                      IF "overlap" \in given
                      THEN IF p = Owner THEN "Accepted" ELSE "none"
                      ELSE IF Len(members[p]) > 1 THEN "duplicated"
                           ELSE getInvitation(p)],
       others   <- "others" \in given

ImplementsInvitations == Standings!Spec

\* The project is removed while its owner is deactivated, and only then, when
\* requests neither overlap nor fail ("Transaction to update state in user
\* and project collection"). A failure in between leaves them apart: the
\* transaction does not contain the updates.
ProjectFollowsOwner ==
  given = {} /\ (\A q \in Request : request[q] = Idle)
    => (removed <=> Owner \in deactivated)

\* A user is in the project once (the comment on SendInvitation). Does not
\* hold: two invitations may both find nobody.
OneEntryPerUser == \A u \in User : Len(members[u]) <= 1
=============================================================================
