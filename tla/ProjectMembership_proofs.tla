----------------------- MODULE ProjectMembership_proofs ---------------------
(***************************************************************************)
(* Proofs about the members of a project, for any users, requests and      *)
(* circumstances: what remains of its owner, and that the state of the     *)
(* project is that of the owner's account; among requests that do not      *)
(* overlap, every step is one of Invitations.  OwnerStays is not inductive:*)
(* a request that has passed its look and is about to write must be known  *)
(* not to be about the owner (while callers do not name others), and, among*)
(* requests that do not overlap, what it has found must still be so.       *)
(***************************************************************************)
EXTENDS ProjectMembership, FiniteSetTheorems, TLAPS

Stage == {"look", "update", "add", "pull", "answer", "user", "project"}

\* The part of TypeOK the argument needs.
Types ==
  /\ members \in [Person -> Seq(Entry)]
  /\ request \in [Request ->
       [stage : Stage, op : Op, user : Person, role : {"Editor", "Viewer"}] \cup {Idle}]

\* The entry of the owner, while callers do not name others.
OwnEntry == "others" \notin given =>
  members[Owner] = <<[role |-> "Owner", invitation |-> "Accepted"]>>

\* Then a request that may write to the members is about another user.
Writes ==
  \A q \in Request : request[q] # Idle =>
    /\ request[q].stage = "answer" => request[q].op \in {"accept", "decline", "leave"}
    /\ "others" \notin given =>
         /\ request[q].op = "remove" => request[q].user \in User
         /\ request[q].stage \in {"update", "add", "pull", "answer"}
              => request[q].user \in User

IInv == Types /\ OwnEntry /\ Writes

-----------------------------------------------------------------------------
\* The invitation found for the owner is the one of his only entry, so the
\* look of an invitation that names him ends it.
LEMMA OwnerIsFound ==
  OwnEntry /\ "others" \notin given => getInvitation(Owner) = "Accepted"
  BY DEF OwnEntry, getInvitation

LEMMA InitInvariant == Init => IInv
<1> SUFFICES ASSUME Init PROVE IInv
  OBVIOUS
<1>1. [role |-> "Owner", invitation |-> "Accepted"] \in Entry
  BY DEF Entry, Invitation
<1>2. Types
  BY <1>1 DEF Init, Types
<1>3. OwnEntry
  BY DEF Init, OwnEntry, Person
<1>4. Writes
  BY DEF Init, Writes
<1> QED BY <1>2, <1>3, <1>4 DEF IInv

\* A new request is a start; it looks first, or is an answer, or changes the
\* state of a user.
LEMMA AskStarts ==
  ASSUME NEW q \in Request, Ask(q)
  PROVE  \E op \in Op, u \in Person, role \in {"Editor", "Viewer"}, stage \in Stage :
           /\ Start(q, op, u, role, stage)
           /\ \/ /\ stage = "look" /\ op \in {"send", "remove"}
                 /\ op = "remove" => ("others" \in given \/ u # Owner)
                 /\ \E c \in Person : RbacValidator(c, {"Owner"}, "Accepted")
              \/ /\ stage = "answer" /\ op \in {"accept", "decline", "leave"}
                 /\ \E c \in Person :
                      /\ RbacValidator(c, {"Viewer", "Editor"},
                                       IF op = "leave" THEN "Accepted" ELSE "Pending")
                      /\ "others" \in given \/ u = c
              \/ stage = "user" /\ op \in {"deactivate", "activate"}
<1>0. Involved \subseteq Person
  BY FewAmongAll DEF Involved, Person
<1>1. CASE \E c, u \in Involved, role \in {"Editor", "Viewer"} : SendInvitation(q, c, u, role)
  BY <1>0, <1>1 DEF SendInvitation, Op, Stage
<1>2. CASE \E c, u \in Involved : RemoveInvitation(q, c, u)
  BY <1>0, <1>2 DEF RemoveInvitation, Op, Stage
<1>3. CASE \E c, u \in Involved, op \in {"accept", "decline", "leave"} : Answer(q, c, u, op)
  BY <1>0, <1>3 DEF Answer, Op, Stage
<1>4. CASE \E u \in Involved, op \in {"deactivate", "activate"} : UpdateState(q, u, op)
  BY <1>0, <1>4 DEF UpdateState, Op, Stage
<1> QED BY <1>1, <1>2, <1>3, <1>4 DEF Ask

\* While nobody names others, the owner does not answer: his only entry is
\* that of an owner.
LEMMA OwnerDoesNotAnswer ==
  ASSUME OwnEntry, "others" \notin given, NEW invitation
  PROVE  ~ RbacValidator(Owner, {"Viewer", "Editor"}, invitation)
<1> DEFINE e == [role |-> "Owner", invitation |-> "Accepted"]
<1>1. members[Owner] = <<e>> /\ e.role = "Owner"
  BY DEF OwnEntry
<1>2. DOMAIN members[Owner] = {1} /\ members[Owner][1] = e
  BY <1>1
<1> QED BY <1>1, <1>2 DEF RbacValidator

\* A new request.
LEMMA AskInvariant ==
  ASSUME IInv, given' = given, NEW q \in Request, Ask(q)
  PROVE  IInv'
<1>1. PICK op \in Op, u \in Person, role \in {"Editor", "Viewer"}, stage \in Stage :
        /\ Start(q, op, u, role, stage)
        /\ stage = "answer" => op \in {"accept", "decline", "leave"}
        /\ stage \in {"look", "answer", "user"}
        /\ op = "remove" => ("others" \in given \/ u # Owner)
        /\ stage = "answer" => \/ "others" \in given
                               \/ \E i : RbacValidator(u, {"Viewer", "Editor"}, i)
  BY AskStarts
<1> DEFINE r == [stage |-> stage, op |-> op, user |-> u, role |-> role]
<1>2. /\ request' = [request EXCEPT ![q] = r]
      /\ members' = members
  BY <1>1 DEF Start
<1>3. r \in [stage : Stage, op : Op, user : Person, role : {"Editor", "Viewer"}]
  OBVIOUS
<1>4. Types'
  BY <1>2, <1>3 DEF IInv, Types
<1>5. OwnEntry'
  BY <1>2 DEF IInv, OwnEntry
<1>6. "others" \notin given =>
        /\ op = "remove" => u \in User
        /\ stage \in {"update", "add", "pull", "answer"} => u \in User
  BY <1>1, OwnerDoesNotAnswer DEF IInv, Person
<1>7. Writes'
  BY <1>1, <1>2, <1>6 DEF IInv, Types, Writes
<1> QED BY <1>4, <1>5, <1>7 DEF IInv

\* A request that goes on or ends without writing to the members.
LEMMA MoveInvariant ==
  ASSUME IInv, given' = given, NEW q \in Request, request[q] # Idle, members' = members,
         \/ End(q)
         \/ \E stage \in Stage :
              /\ Goto(q, stage)
              /\ "others" \notin given /\ stage \in {"update", "add", "pull", "answer"}
                   => request[q].user \in User
              /\ stage # "answer"
  PROVE  IInv'
<1>1. Types' /\ Writes'
  <2>1. CASE End(q)
    BY <2>1 DEF IInv, Types, Writes, End
  <2>2. CASE \E stage \in Stage :
               /\ Goto(q, stage)
               /\ "others" \notin given /\ stage \in {"update", "add", "pull", "answer"}
                    => request[q].user \in User
               /\ stage # "answer"
    BY <2>2 DEF IInv, Types, Writes, Goto
  <2> QED BY <2>1, <2>2
<1>2. OwnEntry'
  BY DEF IInv, OwnEntry
<1> QED BY <1>1, <1>2 DEF IInv

\* A request that writes the entries of a user and ends.
LEMMA WriteInvariant ==
  ASSUME IInv, given' = given, NEW q \in Request, NEW u \in Person, NEW entries \in Seq(Entry),
         "others" \notin given => u \in User,
         members' = [members EXCEPT ![u] = entries], End(q)
  PROVE  IInv'
<1>1. /\ Owner \in Person
      /\ "others" \notin given => u # Owner
  BY OwnerIsNoUser DEF Person
<1>2. Types'
  BY <1>1 DEF IInv, Types, End
<1>3. OwnEntry'
  BY <1>1 DEF IInv, Types, OwnEntry
<1>4. Writes'
  BY DEF IInv, Types, Writes, End
<1> QED BY <1>2, <1>3, <1>4 DEF IInv

\* An update of the entries of a user leaves a sequence of entries.
LEMMA UpdatedEntries ==
  ASSUME Types, NEW u \in Person, NEW invitation \in Invitation,
         NEW role \in {"Editor", "Viewer"}, UpdateInvite(u, invitation, role)
  PROVE  \E entries \in Seq(Entry) : members' = [members EXCEPT ![u] = entries]
<1> DEFINE s == members[u]
           Updated(i) == [role |-> IF invitation = "Pending" THEN role ELSE s[i].role,
                          invitation |-> invitation]
           t == [i \in DOMAIN s |-> Updated(i)]
<1>1. s \in Seq(Entry)
  BY DEF Types
<1>2. DOMAIN s = 1..Len(s) /\ Len(s) \in Nat
  BY <1>1
<1>3. \A i \in DOMAIN s : Updated(i) \in Entry
  <2> SUFFICES ASSUME NEW i \in DOMAIN s PROVE Updated(i) \in Entry
    OBVIOUS
  <2>1. s[i] \in Entry
    BY <1>1
  <2>2. s[i].role \in {"Owner", "Editor", "Viewer"}
    BY <2>1 DEF Entry
  <2> HIDE DEF s
  <2> QED BY <2>2 DEF Entry
<1>4. t \in Seq(Entry)
  <2> HIDE DEF Updated, s
  <2>1. t \in [1..Len(s) -> Entry]
    BY <1>2, <1>3
  <2> QED BY <1>2, <2>1
<1>5. members' = [members EXCEPT ![u] = t]
  BY DEF UpdateInvite
<1> QED BY <1>4, <1>5

\* A step of a request the server is handling.
LEMMA HandleInvariant ==
  ASSUME IInv, given' = given, NEW q \in Request, Handle(q)
  PROVE  IInv'
<1> DEFINE r == request[q]
           u == r.user
<1> USE DEF IInv
<1>0. r # Idle
  <2>1. r.stage # "idle" \/ r # Idle
    BY DEF Handle, LookInvited, WriteInvitation, LookRemoved, Pull, WriteAnswer,
           UpdateUserState, UpdateProjectState, Fail, At
  <2>2. Idle.stage = "idle"
    BY DEF Idle
  <2> QED BY <2>1, <2>2
<1>1. /\ r \in [stage : Stage, op : Op, user : Person, role : {"Editor", "Viewer"}]
      /\ u \in Person
  BY <1>0 DEF Types
<1>2. CASE LookInvited(q)
  <2>1. "others" \notin given /\ u = Owner => getInvitation(u) = "Accepted"
    BY OwnerIsFound
  <2>2. members' = members
    BY <1>2 DEF LookInvited
  <2>3. \/ End(q)
        \/ /\ "others" \in given \/ u # Owner
           /\ Goto(q, "update") \/ Goto(q, "add")
    BY <1>2, <2>1 DEF LookInvited
  <2>4. u # Owner => u \in User
    BY <1>1 DEF Person
  <2>5. "update" \in Stage /\ "add" \in Stage
    BY DEF Stage
  <2> HIDE DEF u
  <2> QED BY <1>0, <2>2, <2>3, <2>4, <2>5, MoveInvariant DEF u
<1>3. CASE WriteInvitation(q)
  <2>1. "others" \notin given => u \in User
    BY <1>0, <1>3 DEF WriteInvitation, At, Writes
  <2>2. r.role \in {"Editor", "Viewer"}
    BY <1>1
  <2>3. members[u] \in Seq(Entry)
    BY <1>1 DEF Types
  <2>4. CASE At(q, "send", "update")
    <3>1. UpdateInvite(u, "Pending", r.role) /\ End(q)
      BY <1>3, <2>4 DEF WriteInvitation, At
    <3>2. PICK entries \in Seq(Entry) : members' = [members EXCEPT ![u] = entries]
      BY <1>1, <2>2, <3>1, UpdatedEntries DEF Invitation
    <3> QED BY <1>1, <2>1, <3>1, <3>2, WriteInvariant
  <2>5. CASE At(q, "send", "add")
    <3> DEFINE entry == [role |-> r.role, invitation |-> "Pending"]
    <3>1. entry \in Entry
      BY <2>2 DEF Entry, Invitation
    <3>2. Append(members[u], entry) \in Seq(Entry)
      BY <2>3, <3>1
    <3>3. members' = [members EXCEPT ![u] = Append(members[u], entry)] /\ End(q)
      BY <1>3, <2>5 DEF WriteInvitation, At
    <3> QED BY <1>1, <2>1, <3>2, <3>3, WriteInvariant
  <2> QED BY <1>3, <2>4, <2>5 DEF WriteInvitation
<1>4. CASE LookRemoved(q)
  <2>1. "others" \notin given => u \in User
    BY <1>0, <1>4 DEF LookRemoved, At, Writes
  <2>2. members' = members /\ (End(q) \/ Goto(q, "pull"))
    BY <1>4 DEF LookRemoved
  <2> QED BY <1>0, <2>1, <2>2, MoveInvariant DEF Stage
<1>5. CASE Pull(q)
  <2>1. "others" \notin given => u \in User
    BY <1>0, <1>5 DEF Pull, At, Writes
  <2>2. members' = [members EXCEPT ![u] = <<>>] /\ End(q)
    BY <1>5 DEF Pull
  <2>3. <<>> \in Seq(Entry)
    OBVIOUS
  <2> QED BY <1>1, <2>1, <2>2, <2>3, WriteInvariant
<1>6. CASE WriteAnswer(q)
  <2>1. "others" \notin given => u \in User
    BY <1>0, <1>6 DEF WriteAnswer, Writes
  <2>2. Becomes(r.op) \in Invitation
    BY <1>0, <1>6 DEF WriteAnswer, Writes, Becomes, Invitation
  <2>3. UpdateInvite(u, Becomes(r.op), r.role) /\ End(q)
    BY <1>6 DEF WriteAnswer
  <2>4. PICK entries \in Seq(Entry) : members' = [members EXCEPT ![u] = entries]
    BY <1>1, <2>2, <2>3, UpdatedEntries
  <2> QED BY <1>1, <2>1, <2>3, <2>4, WriteInvariant
<1>7. CASE UpdateUserState(q)
  BY <1>0, <1>7, MoveInvariant DEF UpdateUserState, Stage
<1>8. CASE UpdateProjectState(q)
  BY <1>0, <1>8, MoveInvariant DEF UpdateProjectState
<1>9. CASE Fail(q)
  BY <1>0, <1>9, MoveInvariant DEF Fail
<1> QED BY <1>2, <1>3, <1>4, <1>5, <1>6, <1>7, <1>8, <1>9 DEF Handle

-----------------------------------------------------------------------------
\* IInv holds in every reachable state.
THEOREM Invariance == Spec => []IInv
<1>1. IInv /\ [Next]_vars => IInv'
  <2> SUFFICES ASSUME IInv, [Next]_vars PROVE IInv'
    OBVIOUS
  <2>1. CASE UNCHANGED vars
    BY <2>1 DEF IInv, Types, OwnEntry, Writes, vars, system
  <2>2. CASE Next
    BY <2>2, AskInvariant, HandleInvariant DEF Next
  <2> QED BY <2>1, <2>2
<1> QED BY InitInvariant, <1>1, PTL DEF Spec

-----------------------------------------------------------------------------
(***************************************************************************)
(* The parts of the invariant that the other theorems need.                *)
(***************************************************************************)
\* Only the owner has the role.
RolesOfUsers ==
  \A u \in User : \A i \in DOMAIN members[u] : members[u][i].role # "Owner"

\* Requests that are about to add an entry for p. There is room for what they
\* will add.
Adders(p) == {q \in Request : At(q, "send", "add") /\ request[q].user = p}

RoomForAdders ==
  \A p \in Person : Len(members[p]) + Cardinality(Adders(p)) <= Cardinality(Request)

\* When requests do not overlap, what one of them has found is still so when
\* it writes, everybody has one entry, and the owner's has his role.
Alone == \A q1, q2 \in Request : request[q1] # Idle /\ request[q2] # Idle => q1 = q2

Found(r, u) ==
  /\ r.stage = "update" => getInvitation(u) \in {"Pending", "Declined", "Exited"}
  /\ r.stage = "add"    => members[u] = <<>>
  /\ r.stage = "pull"   => getInvitation(u) \in {"Accepted", "Pending"}
  /\ r.stage \in {"look", "update", "add", "pull"} => getInvitation(Owner) = "Accepted"
  /\ r.stage = "answer" =>
       \E c \in User :
         /\ getInvitation(c) = IF r.op = "leave" THEN "Accepted" ELSE "Pending"
         /\ "others" \in given \/ u = c

OwnersRole == \A i \in DOMAIN members[Owner] : members[Owner][i].role = "Owner"

Calm ==
  "overlap" \notin given =>
    /\ Alone
    /\ \A p \in Person : Len(members[p]) <= 1
    /\ OwnersRole
    /\ \A q \in Request : request[q] # Idle => Found(request[q], request[q].user)

StateOps ==
  \A q \in Request : request[q].stage \in {"user", "project"}
                       => request[q].op \in {"deactivate", "activate"}

\* The state of the project is that of its owner, unless a request is between
\* its two writes; then the state of the owner is the one asked for.
Between(q) == request[q].stage = "project" /\ request[q].user = Owner

ProjectState ==
  given = {} =>
    /\ \A q \in Request :
         Between(q) => (Owner \in deactivated <=> request[q].op = "deactivate")
    /\ (\A q \in Request : ~ Between(q)) => (removed <=> Owner \in deactivated)

-----------------------------------------------------------------------------
(* What the steps of a request do to it, and to the members.               *)

RequestType == [stage : Stage, op : Op, user : Person, role : {"Editor", "Viewer"}]

LEMMA RequestIsNotIdle == \A r \in RequestType : r # Idle /\ r.stage # "idle"
<1>1. \A r \in RequestType : r.stage \in Stage
  BY DEF RequestType
<1>2. "idle" \notin Stage /\ Idle.stage = "idle"
  BY DEF Stage, Idle
<1> QED
  BY <1>1, <1>2

LEMMA IdleStage == Idle.stage = "idle"
BY DEF Idle

LEMMA StartEffect ==
  ASSUME Types, NEW q \in Request, NEW op \in Op, NEW u \in Person,
         NEW role \in {"Editor", "Viewer"}, NEW stage \in Stage,
         Start(q, op, u, role, stage)
  PROVE  /\ UNCHANGED <<members, deactivated, removed>>
         /\ request[q] = Idle
         /\ "overlap" \in given \/ \A o \in Request : request[o] = Idle
         /\ request'[q].stage = stage /\ request'[q].op = op
         /\ request'[q].user = u /\ request'[q] # Idle
         /\ \A o \in Request : o # q => request'[o] = request[o]
<1> DEFINE r == [stage |-> stage, op |-> op, user |-> u, role |-> role]
<1>1. r \in RequestType
  BY DEF RequestType
<1>2. request' = [request EXCEPT ![q] = r]
  BY DEF Start
<1>3. request'[q] = r
  BY <1>2 DEF Types
<1>4. \A o \in Request : o # q => request'[o] = request[o]
  BY <1>2 DEF Types
<1> QED
  BY <1>1, <1>3, <1>4, RequestIsNotIdle DEF Start

LEMMA GotoEffect ==
  ASSUME Types, NEW q \in Request, request[q] # Idle, NEW stage \in Stage,
         Goto(q, stage)
  PROVE  /\ request'[q].stage = stage
         /\ request'[q].op = request[q].op
         /\ request'[q].user = request[q].user
         /\ request'[q] # Idle
         /\ \A o \in Request : o # q => request'[o] = request[o]
<1>1. request[q] \in RequestType
  BY DEF Types, RequestType
<1>2. request'[q] = [request[q] EXCEPT !.stage = stage]
  BY DEF Types, Goto
<1>3. request'[q] \in RequestType
  BY <1>1, <1>2 DEF RequestType
<1>4. \A o \in Request : o # q => request'[o] = request[o]
  BY DEF Types, Goto
<1> QED
  BY <1>1, <1>2, <1>3, <1>4, RequestIsNotIdle DEF RequestType

LEMMA EndEffect ==
  ASSUME Types, NEW q \in Request, End(q)
  PROVE  /\ request'[q] = Idle
         /\ \A o \in Request : o # q => request'[o] = request[o]
BY DEF Types, End

\* A request that is being handled.
LEMMA Handled ==
  ASSUME Types, NEW q \in Request, request[q].stage # "idle" \/ request[q] # Idle
  PROVE  /\ request[q] # Idle
         /\ request[q] \in RequestType
         /\ request[q].user \in Person
         /\ request[q].role \in {"Editor", "Viewer"}
         /\ request[q].op \in Op
<1>1. request[q] # Idle
  BY IdleStage
<1>2. request[q] \in RequestType
  BY <1>1 DEF Types, RequestType
<1> QED
  BY <1>1, <1>2 DEF RequestType

\* A new request is one of these.
LEMMA AskEffect ==
  ASSUME Types, NEW q \in Request, Ask(q)
  PROVE  /\ UNCHANGED <<members, deactivated, removed>>
         /\ request[q] = Idle
         /\ "overlap" \in given \/ \A o \in Request : request[o] = Idle
         /\ request'[q] # Idle
         /\ \A o \in Request : o # q => request'[o] = request[o]
         /\ \/ /\ request'[q].stage = "look"
               /\ \E c \in Person : RbacValidator(c, {"Owner"}, "Accepted")
            \/ /\ request'[q].stage = "answer"
               /\ \E c \in Person :
                    /\ RbacValidator(c, {"Viewer", "Editor"},
                                     IF request'[q].op = "leave" THEN "Accepted" ELSE "Pending")
                    /\ "others" \in given \/ request'[q].user = c
            \/ /\ request'[q].stage = "user"
               /\ request'[q].op \in {"deactivate", "activate"}
<1>1. PICK op \in Op, u \in Person, role \in {"Editor", "Viewer"}, stage \in Stage :
        /\ Start(q, op, u, role, stage)
        /\ \/ /\ stage = "look"
              /\ \E c \in Person : RbacValidator(c, {"Owner"}, "Accepted")
           \/ /\ stage = "answer"
              /\ \E c \in Person :
                   /\ RbacValidator(c, {"Viewer", "Editor"},
                                    IF op = "leave" THEN "Accepted" ELSE "Pending")
                   /\ "others" \in given \/ u = c
           \/ stage = "user" /\ op \in {"deactivate", "activate"}
  BY AskStarts
<1>2. /\ UNCHANGED <<members, deactivated, removed>>
      /\ request[q] = Idle
      /\ "overlap" \in given \/ \A o \in Request : request[o] = Idle
      /\ request'[q].stage = stage /\ request'[q].op = op
      /\ request'[q].user = u /\ request'[q] # Idle
      /\ \A o \in Request : o # q => request'[o] = request[o]
  BY <1>1, StartEffect
<1> QED
  BY <1>1, <1>2

LEMMA UpdateEffect ==
  ASSUME Types, NEW u \in Person, NEW invitation, NEW role,
         UpdateInvite(u, invitation, role)
  PROVE  /\ \A p \in Person : p # u => members'[p] = members[p]
         /\ Len(members'[u]) = Len(members[u])
         /\ DOMAIN members'[u] = DOMAIN members[u]
         /\ \A i \in DOMAIN members[u] :
              /\ members'[u][i].invitation = invitation
              /\ members'[u][i].role \in {role, members[u][i].role}
              /\ invitation # "Pending" => members'[u][i].role = members[u][i].role
<1> DEFINE s == members[u]
           t == [i \in DOMAIN s |->
                   [role |-> IF invitation = "Pending" THEN role ELSE s[i].role,
                    invitation |-> invitation]]
<1>1. members' = [members EXCEPT ![u] = t]
  BY DEF UpdateInvite
<1>2. members'[u] = t /\ \A p \in Person : p # u => members'[p] = members[p]
  BY <1>1 DEF Types
<1>3. s \in Seq(Entry) /\ DOMAIN s = 1 .. Len(s) /\ Len(s) \in Nat
  BY DEF Types
<1>4. Len(t) = Len(s) /\ DOMAIN t = DOMAIN s
  <2> HIDE DEF s
  <2> QED
    BY <1>3
<1>5. \A i \in DOMAIN s : /\ t[i].invitation = invitation
                          /\ t[i].role \in {role, s[i].role}
                          /\ invitation # "Pending" => t[i].role = s[i].role
  OBVIOUS
<1> QED
  BY <1>2, <1>4, <1>5

\* What the handling of a request does to the members: nothing, or one of the
\* three writes, after which the request has ended.
LEMMA MembersEffect ==
  ASSUME IInv, NEW q \in Request, Handle(q)
  PROVE  \/ members' = members
         \/ /\ request[q].user \in Person /\ request'[q] = Idle
            /\ \/ /\ At(q, "send", "update")
                  /\ UpdateInvite(request[q].user, "Pending", request[q].role)
               \/ /\ At(q, "send", "add")
                  /\ members' = [members EXCEPT ![request[q].user] =
                       Append(@, [role |-> request[q].role, invitation |-> "Pending"])]
               \/ /\ At(q, "remove", "pull")
                  /\ members' = [members EXCEPT ![request[q].user] = <<>>]
               \/ /\ request[q].stage = "answer"
                  /\ UpdateInvite(request[q].user, Becomes(request[q].op), request[q].role)
<1> USE DEF IInv
<1>1. CASE LookInvited(q) \/ LookRemoved(q) \/ UpdateUserState(q)
           \/ UpdateProjectState(q) \/ Fail(q)
  BY <1>1 DEF LookInvited, LookRemoved, UpdateUserState, UpdateProjectState, Fail
<1>2. CASE WriteInvitation(q) \/ Pull(q) \/ WriteAnswer(q)
  <2>1. /\ request[q].stage \in {"update", "add", "pull", "answer"}
        /\ End(q)
    BY <1>2 DEF WriteInvitation, Pull, WriteAnswer, At
  <2>2. request[q].user \in Person /\ request'[q] = Idle
    BY <2>1, Handled, EndEffect
  <2> QED
    BY <1>2, <2>2 DEF WriteInvitation, Pull, WriteAnswer
<1> QED
  BY <1>1, <1>2 DEF Handle

\* What it does to the request.
LEMMA HandleEffect ==
  ASSUME Types, NEW q \in Request, Handle(q)
  PROVE  /\ request[q] # Idle
         /\ \A o \in Request : o # q => request'[o] = request[o]
         /\ \/ request'[q] = Idle
            \/ /\ request'[q].op = request[q].op
               /\ request'[q].user = request[q].user
               /\ members' = members
               /\ \/ LookInvited(q) /\ request'[q].stage = "update"
                     /\ getInvitation(request[q].user) \in {"Pending", "Declined", "Exited"}
                  \/ LookInvited(q) /\ request'[q].stage = "add"
                     /\ getInvitation(request[q].user) = "none"
                  \/ LookRemoved(q) /\ request'[q].stage = "pull"
                     /\ getInvitation(request[q].user) \in {"Accepted", "Pending"}
                  \/ UpdateUserState(q) /\ request'[q].stage = "project"
<1>1. request[q] # Idle
  BY IdleStage DEF Handle, LookInvited, WriteInvitation, LookRemoved, Pull, WriteAnswer,
         UpdateUserState, UpdateProjectState, Fail, At
<1>2. CASE End(q)
  BY <1>1, <1>2, EndEffect
<1>3. CASE ~ End(q) /\ LookInvited(q)
  BY <1>1, <1>3, GotoEffect DEF LookInvited, Stage
<1>4. CASE ~ End(q) /\ LookRemoved(q)
  BY <1>1, <1>4, GotoEffect DEF LookRemoved, Stage
<1>5. CASE ~ End(q) /\ UpdateUserState(q)
  BY <1>1, <1>5, GotoEffect DEF UpdateUserState, Stage
<1> QED
  BY <1>2, <1>3, <1>4, <1>5
     DEF Handle, WriteInvitation, Pull, WriteAnswer, UpdateProjectState, Fail

-----------------------------------------------------------------------------
(* Roles of users, room for their entries.                                 *)

LEMMA UsersRoles ==
  ASSUME IInv, RolesOfUsers, [Next]_vars
  PROVE  RolesOfUsers'
<1> USE DEF IInv
<1>1. CASE members' = members
  BY <1>1 DEF RolesOfUsers
<1>2. ASSUME NEW q \in Request, Handle(q), members' # members
      PROVE  RolesOfUsers'
  <2> DEFINE u == request[q].user
  <2>1. request[q] # Idle /\ u \in Person /\ request[q].role # "Owner"
    BY <1>2, MembersEffect, HandleEffect, Handled
  <2>2. ASSUME NEW invitation, UpdateInvite(u, invitation, request[q].role)
        PROVE  RolesOfUsers'
    <3> HIDE DEF u
    <3> QED
      BY <2>1, <2>2, UpdateEffect DEF RolesOfUsers, Person
  <2>3. ASSUME NEW s \in Seq(Entry), u \in User => \A i \in DOMAIN s : s[i].role # "Owner",
               members' = [members EXCEPT ![u] = s]
        PROVE  RolesOfUsers'
    <3> HIDE DEF u
    <3> QED
      BY <2>1, <2>3 DEF RolesOfUsers, Types, Person
  <2>4. <<>> \in Seq(Entry) /\ DOMAIN <<>> = {}
    OBVIOUS
  <2>5. CASE members' = [members EXCEPT ![u] =
                Append(@, [role |-> request[q].role, invitation |-> "Pending"])]
    <3> DEFINE e == [role |-> request[q].role, invitation |-> "Pending"]
               s == members[u]
    <3>1. e \in Entry /\ e.role # "Owner"
      BY <2>1, Handled DEF Entry, Invitation
    <3>2. s \in Seq(Entry) /\ (u \in User => \A i \in DOMAIN s : s[i].role # "Owner")
      BY <2>1 DEF Types, RolesOfUsers
    <3>3. members' = [members EXCEPT ![u] = Append(s, e)]
      BY <2>5
    <3> HIDE DEF u, s, e
    <3>4. Append(s, e) \in Seq(Entry)
      BY <3>1, <3>2
    <3>5. u \in User => \A i \in DOMAIN Append(s, e) : Append(s, e)[i].role # "Owner"
      BY <3>1, <3>2
    <3> QED
      BY <2>3, <3>3, <3>4, <3>5
  <2> QED
    BY <1>2, <2>2, <2>3, <2>4, <2>5, MembersEffect
<1>3. ASSUME NEW q \in Request, Ask(q)
      PROVE  members' = members
  BY <1>3, AskEffect
<1> QED
  BY <1>1, <1>2, <1>3 DEF Next, vars, system

LEMMA SizeOfRequests == Cardinality(Request) \in Nat
BY RequestsType, FS_CardinalityType

LEMMA SomeRequest == Cardinality(Request) >= 1
<1>1. Cardinality(Request) # 0
  BY RequestsType, FS_EmptySet
<1> QED
  BY <1>1, SizeOfRequests

LEMMA SizeOfAdders ==
  \A p : /\ Cardinality(Adders(p)) \in Nat
         /\ Cardinality(Adders(p)) <= Cardinality(Request)
         /\ IsFiniteSet(Adders(p))
BY RequestsType, FS_Subset, FS_CardinalityType DEF Adders

\* Sets of requests that do not grow do not get larger.
LEMMA FewerRequests ==
  ASSUME NEW S, NEW T, S \subseteq T, T \subseteq Request
  PROVE  /\ Cardinality(S) \in Nat /\ Cardinality(T) \in Nat
         /\ Cardinality(S) <= Cardinality(T)
         /\ Cardinality(T) <= Cardinality(Request)
BY RequestsType, FS_Subset, FS_CardinalityType

LEMMA RoomStays ==
  ASSUME IInv, RoomForAdders, [Next]_vars
  PROVE  RoomForAdders'
<1> USE DEF IInv
<1> DEFINE N == Cardinality(Request)
           Later(p) == {q \in Request : /\ request'[q].stage = "add"
                                        /\ request'[q].op = "send"
                                        /\ request'[q].user = p}
<1>1. SUFFICES ASSUME NEW p \in Person
               PROVE  Len(members'[p]) + Cardinality(Later(p)) <= N
  BY DEF RoomForAdders, Adders, At
<1>2. /\ Len(members[p]) + Cardinality(Adders(p)) <= N
      /\ Len(members[p]) \in Nat /\ members[p] \in Seq(Entry) /\ N \in Nat
  BY SizeOfRequests DEF RoomForAdders, Types
<1>3. ASSUME Len(members'[p]) = Len(members[p]), Later(p) \subseteq Adders(p)
      PROVE  Len(members'[p]) + Cardinality(Later(p)) <= N
  <2>1. Adders(p) \subseteq Request
    BY DEF Adders
  <2> HIDE DEF Later
  <2> QED
    BY <1>2, <1>3, <2>1, FewerRequests
<1>4. ASSUME members'[p] = <<>>
      PROVE  Len(members'[p]) + Cardinality(Later(p)) <= N
  <2>1. Later(p) \subseteq Request
    OBVIOUS
  <2> HIDE DEF Later
  <2> QED
    BY <1>2, <1>4, <2>1, FewerRequests
<1>5. CASE UNCHANGED vars
  BY <1>3, <1>5 DEF vars, system, Adders, At
<1>6. ASSUME NEW q \in Request, Ask(q)
      PROVE  Len(members'[p]) + Cardinality(Later(p)) <= N
  <2>1. Later(p) \subseteq Adders(p)
    BY <1>6, AskEffect DEF Adders, At
  <2> QED
    BY <1>3, <1>6, <2>1, AskEffect
<1>7. ASSUME NEW q \in Request, Handle(q)
      PROVE  Len(members'[p]) + Cardinality(Later(p)) <= N
  <2> DEFINE u == request[q].user
  <2>1. u \in Person /\ request[q] # Idle
    BY <1>7, HandleEffect, Handled
  <2>2. CASE request'[q] # Idle /\ request'[q].stage = "add" /\ u = p
    <3>1. getInvitation(p) = "none" /\ members' = members
      BY <1>7, <2>2, HandleEffect DEF LookRemoved, UpdateUserState, Goto, Types
    <3>2. members[p] = <<>>
      <4>1. CASE members[p] # <<>>
        <5>1. members[p][1] \in Entry
          BY <1>2, <4>1
        <5> QED
          BY <3>1, <4>1, <5>1 DEF getInvitation, Entry, Invitation
      <4> QED
        BY <4>1
    <3> QED
      BY <1>4, <3>1, <3>2
  <2>3. CASE ~ (request'[q] # Idle /\ request'[q].stage = "add" /\ u = p)
    <3>1. Later(p) \subseteq Adders(p) \ {q}
      BY <1>7, <2>3, HandleEffect, IdleStage DEF Adders, At
    <3>2. CASE members'[p] = <<>>
      BY <1>4, <3>2
    <3>3. CASE Len(members'[p]) = Len(members[p])
      BY <1>3, <3>1, <3>3
    <3>4. CASE /\ At(q, "send", "add") /\ u = p
               /\ members' = [members EXCEPT ![u] =
                    Append(@, [role |-> request[q].role, invitation |-> "Pending"])]
      <4> DEFINE e == [role |-> request[q].role, invitation |-> "Pending"]
      <4>1. members'[p] = Append(members[p], e)
        BY <3>4 DEF Types
      <4>2. e \in Entry
        BY <2>1, Handled DEF Entry, Invitation
      <4> HIDE DEF e
      <4>3. Len(members'[p]) = Len(members[p]) + 1
        BY <1>2, <4>1, <4>2
      <4>4. q \in Adders(p)
        BY <3>4 DEF Adders
      <4>5. Cardinality(Adders(p) \ {q}) = Cardinality(Adders(p)) - 1
        BY <4>4, SizeOfAdders, FS_RemoveElement
      <4>6. Adders(p) \ {q} \subseteq Request
        BY DEF Adders
      <4> HIDE DEF Later
      <4>7. Cardinality(Later(p)) \in Nat /\ Cardinality(Later(p)) <= Cardinality(Adders(p) \ {q})
        BY <3>1, <4>6, FewerRequests
      <4> QED
        BY <1>2, <4>3, <4>5, <4>7, SizeOfAdders
    <3>5. CASE u # p /\ members'[p] # members[p]
      <4>1. \A invitation : ~ UpdateInvite(u, invitation, request[q].role)
        BY <2>1, <3>5, UpdateEffect
      <4> QED
        BY <1>7, <2>1, <3>5, <4>1, MembersEffect DEF Types
    <3>6. CASE u = p /\ \E invitation : UpdateInvite(u, invitation, request[q].role)
      BY <2>1, <3>3, <3>6, UpdateEffect
    <3>7. CASE u = p /\ members' = [members EXCEPT ![u] = <<>>]
      BY <3>2, <3>7 DEF Types
    <3> QED
      BY <1>7, <3>2, <3>3, <3>4, <3>5, <3>6, <3>7, MembersEffect
  <2> QED
    BY <2>2, <2>3
<1> QED
  BY <1>5, <1>6, <1>7 DEF Next

-----------------------------------------------------------------------------
(* Requests that do not overlap.                                           *)

LEMMA Entries ==
  ASSUME Types, NEW p \in Person
  PROVE  /\ members[p] \in Seq(Entry) /\ Len(members[p]) \in Nat
         /\ DOMAIN members[p] = 1 .. Len(members[p])
         /\ members[p] = <<>> <=> Len(members[p]) = 0
         /\ \A i \in DOMAIN members[p] : members[p][i].invitation \in Invitation
<1>1. members[p] \in Seq(Entry)
  BY DEF Types
<1>2. \A i \in DOMAIN members[p] : members[p][i] \in Entry
  BY <1>1
<1>3. \A e \in Entry : e.invitation \in Invitation
  BY DEF Entry
<1> QED
  BY <1>1, <1>2, <1>3

LEMMA NobodyFound ==
  ASSUME Types, NEW p \in Person, getInvitation(p) = "none"
  PROVE  members[p] = <<>>
<1>1. CASE members[p] # <<>>
  <2>1. 1 \in DOMAIN members[p]
    BY <1>1, Entries
  <2>2. members[p][1].invitation \in Invitation
    BY <2>1, Entries
  <2> QED
    BY <1>1, <2>2 DEF getInvitation, Invitation
<1> QED
  BY <1>1

\* Of somebody with one entry, the rights say what the invitation is.
LEMMA OneInvitation ==
  ASSUME Types, NEW p \in Person, Len(members[p]) <= 1,
         NEW roles, NEW invitation, RbacValidator(p, roles, invitation)
  PROVE  getInvitation(p) = invitation
<1>1. PICK i \in DOMAIN members[p] : members[p][i].invitation = invitation
  BY DEF RbacValidator
<1>2. i = 1 /\ members[p] # <<>>
  BY <1>1, Entries
<1> QED
  BY <1>1, <1>2 DEF getInvitation

LEMMA AppendOne ==
  ASSUME NEW e
  PROVE  Append(<<>>, e) = <<e>> /\ Len(<<e>>) = 1
OBVIOUS

LEMMA CalmEntries ==
  ASSUME IInv, Calm, "overlap" \notin given, [Next]_vars, NEW v \in Person
  PROVE  Len(members'[v]) <= 1
<1> USE DEF IInv
<1>1. Len(members[v]) <= 1
  BY DEF Calm
<1>2. CASE members' = members
  BY <1>1, <1>2
<1>3. ASSUME NEW q \in Request, Handle(q), members' # members
      PROVE  Len(members'[v]) <= 1
  <2> DEFINE u == request[q].user
  <2>1. u \in Person /\ request[q] # Idle
    BY <1>3, MembersEffect, HandleEffect, Handled
  <2>2. CASE \E invitation : UpdateInvite(u, invitation, request[q].role)
    BY <1>1, <2>1, <2>2, UpdateEffect
  <2>3. CASE members' = [members EXCEPT ![u] = <<>>]
    BY <1>1, <2>1, <2>3 DEF Types
  <2>4. CASE /\ At(q, "send", "add")
             /\ members' = [members EXCEPT ![u] =
                  Append(@, [role |-> request[q].role, invitation |-> "Pending"])]
    <3>1. members[u] = <<>>
      BY <2>1, <2>4 DEF Calm, Found, At
    <3>2. CASE v = u
      BY <2>1, <2>4, <3>1, <3>2, AppendOne DEF Types
    <3>3. CASE v # u
      BY <1>1, <2>1, <2>4, <3>3 DEF Types
    <3> QED
      BY <3>2, <3>3
  <2> QED
    BY <1>3, <2>2, <2>3, <2>4, MembersEffect
<1>4. ASSUME NEW q \in Request, Ask(q)
      PROVE  members' = members
  BY <1>4, AskEffect
<1> QED
  BY <1>2, <1>3, <1>4 DEF Next, vars, system

\* An update that makes an invitation pending, or a new entry, is not the
\* owner's: his invitation was accepted when the request began, and still is.
LEMMA OwnersRoleStays ==
  ASSUME IInv, Calm, "overlap" \notin given, [Next]_vars
  PROVE  OwnersRole'
<1> USE DEF IInv
<1>1. OwnersRole /\ Owner \in Person
  BY DEF Calm, Person
<1>2. CASE members'[Owner] = members[Owner]
  BY <1>1, <1>2 DEF OwnersRole
<1>3. ASSUME NEW q \in Request, Handle(q), members'[Owner] # members[Owner]
      PROVE  OwnersRole'
  <2> DEFINE u == request[q].user
  <2>1. u \in Person /\ request[q] # Idle
    BY <1>3, MembersEffect, HandleEffect, Handled
  <2>2. Found(request[q], u)
    BY <2>1 DEF Calm
  <2>3. u = Owner
    <3>1. \A invitation : UpdateInvite(u, invitation, request[q].role) => u = Owner
      BY <1>1, <1>3, <2>1, UpdateEffect
    <3> QED
      BY <1>1, <1>3, <2>1, <3>1, MembersEffect DEF Types
  <2>4. ~ At(q, "send", "update") /\ ~ At(q, "send", "add")
    <3>1. CASE At(q, "send", "update")
      BY <2>2, <2>3, <3>1 DEF Found, At
    <3>2. CASE At(q, "send", "add")
      <4>1. members[Owner] = <<>> /\ getInvitation(Owner) = "Accepted"
        BY <2>2, <2>3, <3>2 DEF Found, At
      <4> QED
        BY <4>1 DEF getInvitation
    <3> QED
      BY <3>1, <3>2
  <2>5. CASE members' = [members EXCEPT ![u] = <<>>]
    <3>1. members'[Owner] = <<>>
      BY <1>1, <2>3, <2>5 DEF Types
    <3>2. DOMAIN <<>> = {}
      OBVIOUS
    <3> QED
      BY <3>1, <3>2 DEF OwnersRole
  <2>6. CASE /\ request[q].stage = "answer"
             /\ UpdateInvite(u, Becomes(request[q].op), request[q].role)
    <3>1. Becomes(request[q].op) # "Pending"
      BY <2>1, <2>6 DEF Writes, Becomes
    <3> HIDE DEF u
    <3> QED
      BY <1>1, <2>1, <2>3, <2>6, <3>1, UpdateEffect DEF OwnersRole
  <2> QED
    BY <1>3, <2>4, <2>5, <2>6, MembersEffect
<1>4. ASSUME NEW q \in Request, Ask(q)
      PROVE  members' = members
  BY <1>4, AskEffect
<1> QED
  BY <1>2, <1>3, <1>4 DEF Next, vars, system

LEMMA CalmStays ==
  ASSUME IInv, RolesOfUsers, Calm, [Next]_vars
  PROVE  Calm'
<1> USE DEF IInv
<1>1. given' = given
  BY DEF Next, vars
<1>2. SUFFICES ASSUME "overlap" \notin given
               PROVE  Alone' /\ \A q \in Request :
                                  request'[q] # Idle => Found(request[q], request[q].user)'
  BY <1>1, CalmEntries, OwnersRoleStays DEF Calm
<1>3. Alone /\ \A q \in Request : request[q] # Idle => Found(request[q], request[q].user)
  BY <1>2 DEF Calm
<1>4. CASE UNCHANGED vars
  BY <1>3, <1>4 DEF vars, system, Alone, Found, getInvitation
<1>5. ASSUME NEW q \in Request, Ask(q)
      PROVE  Alone' /\ \A o \in Request :
                         request'[o] # Idle => Found(request[o], request[o].user)'
  <2>1. \A o \in Request : o # q => request'[o] = Idle
    BY <1>2, <1>5, AskEffect
  <2>2. members' = members
    BY <1>5, AskEffect
  <2>3. Found(request[q], request[q].user)'
    <3>1. CASE request'[q].stage = "user"
      BY <3>1 DEF Found
    <3>2. CASE /\ request'[q].stage = "look"
               /\ \E c \in Person : RbacValidator(c, {"Owner"}, "Accepted")
      <4>1. RbacValidator(Owner, {"Owner"}, "Accepted")
        BY <3>2 DEF RbacValidator, RolesOfUsers, Person
      <4>2. Owner \in Person /\ Len(members[Owner]) <= 1
        BY <1>2 DEF Calm, Person
      <4>3. getInvitation(Owner) = "Accepted"
        BY <4>1, <4>2, OneInvitation
      <4> QED
        BY <2>2, <3>2, <4>3 DEF Found, getInvitation
    <3>3. CASE /\ request'[q].stage = "answer"
               /\ \E c \in Person :
                    /\ RbacValidator(c, {"Viewer", "Editor"},
                                     IF request'[q].op = "leave" THEN "Accepted" ELSE "Pending")
                    /\ "others" \in given \/ request'[q].user = c
      <4> DEFINE s == IF request'[q].op = "leave" THEN "Accepted" ELSE "Pending"
      <4>1. PICK c \in Person : /\ RbacValidator(c, {"Viewer", "Editor"}, s)
                                /\ "others" \in given \/ request'[q].user = c
        BY <3>3
      <4>2. c # Owner
        BY <1>2, <4>1 DEF RbacValidator, Calm, OwnersRole
      <4>3. c \in User /\ Len(members[c]) <= 1
        BY <1>2, <4>2 DEF Calm, Person
      <4>4. getInvitation(c) = s
        BY <4>1, <4>3, OneInvitation
      <4>5. getInvitation(c)' = s
        BY <2>2, <4>4 DEF getInvitation
      <4> QED
        BY <1>1, <3>3, <4>1, <4>3, <4>5 DEF Found
    <3> QED
      BY <1>5, <3>1, <3>2, <3>3, AskEffect
  <2> QED
    BY <2>1, <2>3 DEF Alone
<1>6. ASSUME NEW q \in Request, Handle(q)
      PROVE  Alone' /\ \A o \in Request :
                         request'[o] # Idle => Found(request[o], request[o].user)'
  <2>1. \A o \in Request : o # q => request'[o] = Idle
    BY <1>3, <1>6, HandleEffect DEF Alone
  <2>2. request'[q] # Idle => Found(request[q], request[q].user)'
    <3> SUFFICES ASSUME request'[q] # Idle PROVE Found(request[q], request[q].user)'
      OBVIOUS
    <3>1. request'[q].user = request[q].user /\ members' = members
      BY <1>6, HandleEffect
    <3>2. request[q].user \in Person
      BY <1>6, HandleEffect, Handled
    <3>3. /\ request'[q].stage \in {"update", "add", "pull", "project"}
          /\ request'[q].stage = "update"
               => getInvitation(request[q].user) \in {"Pending", "Declined", "Exited"}
          /\ request'[q].stage = "add" => getInvitation(request[q].user) = "none"
          /\ request'[q].stage = "pull"
               => getInvitation(request[q].user) \in {"Accepted", "Pending"}
      BY <1>6, HandleEffect
    <3>4. request'[q].stage # "project" => getInvitation(Owner) = "Accepted"
      BY <1>3, <1>6, HandleEffect DEF LookInvited, LookRemoved, At, Found
    <3>5. request'[q].stage \in {"update", "add", "pull"} => getInvitation(Owner) = "Accepted"
      BY <3>4
    <3> QED
      BY <3>1, <3>2, <3>3, <3>5, NobodyFound DEF Found, getInvitation
  <2> QED
    BY <2>1, <2>2 DEF Alone
<1> QED
  BY <1>4, <1>5, <1>6 DEF Next

LEMMA StateOpsStay ==
  ASSUME IInv, StateOps, [Next]_vars
  PROVE  StateOps'
<1> USE DEF IInv
<1>1. CASE UNCHANGED vars
  BY <1>1 DEF vars, system, StateOps
<1>2. ASSUME NEW q \in Request, Ask(q) PROVE StateOps'
  BY <1>2, AskEffect DEF StateOps
<1>3. ASSUME NEW q \in Request, Handle(q) PROVE StateOps'
  BY <1>3, HandleEffect, IdleStage DEF StateOps, UpdateUserState
<1> QED
  BY <1>1, <1>2, <1>3 DEF Next

\* The owner's entry is found when his state changes, and no other user has
\* one like it.
LEMMA ProjectStateStays ==
  ASSUME IInv, RolesOfUsers, StateOps, Calm, ProjectState, [Next]_vars
  PROVE  ProjectState'
<1> USE DEF IInv
<1>1. given' = given
  BY DEF Next, vars
<1>2. SUFFICES ASSUME given = {} PROVE ProjectState'
  BY <1>1 DEF ProjectState
<1>3. /\ Alone
      /\ \A q \in Request : Between(q) => (Owner \in deactivated <=> request[q].op = "deactivate")
      /\ (\A q \in Request : ~ Between(q)) => (removed <=> Owner \in deactivated)
  BY <1>2 DEF Calm, ProjectState
<1>4. CASE UNCHANGED vars
  BY <1>3, <1>4 DEF vars, system, ProjectState, Between
<1>5. ASSUME NEW q \in Request, Ask(q) PROVE ProjectState'
  <2>1. \A o \in Request : ~ Between(o)
    BY <1>2, <1>5, AskEffect, IdleStage DEF Between
  <2>2. UNCHANGED <<deactivated, removed>>
    BY <1>5, AskEffect
  <2>3. \A o \in Request : ~ Between(o)'
    BY <1>2, <1>5, AskEffect, IdleStage DEF Between
  <2> QED
    BY <1>3, <2>1, <2>2, <2>3 DEF ProjectState
<1>6. ASSUME NEW q \in Request, Handle(q) PROVE ProjectState'
  <2>1. \A o \in Request : o # q => ~ Between(o) /\ ~ Between(o)'
    BY <1>3, <1>6, HandleEffect, IdleStage DEF Alone, Between
  <2>2. request[q] # Idle /\ request[q].user \in Person
    BY <1>6, HandleEffect, Handled
  <2>3. CASE UpdateUserState(q)
    <3>1. /\ request[q].stage = "user" /\ ~ Between(q)
          /\ request[q].op \in {"deactivate", "activate"}
      BY <2>3 DEF UpdateUserState, Between, StateOps
    <3>2. /\ request'[q].op = request[q].op /\ request'[q].user = request[q].user
          /\ request'[q].stage = "project" /\ removed' = removed
      BY <2>2, <2>3, GotoEffect DEF UpdateUserState, Stage
    <3>3. removed <=> Owner \in deactivated
      BY <1>3, <2>1, <3>1
    <3>4. CASE request[q].user = Owner
      <4>1. Owner \in deactivated' <=> request[q].op = "deactivate"
        BY <2>3, <3>1, <3>4 DEF UpdateUserState
      <4> QED
        BY <2>1, <3>2, <3>4, <4>1 DEF ProjectState, Between
    <3>5. CASE request[q].user # Owner
      <4>1. Owner \in deactivated' <=> Owner \in deactivated
        BY <2>3, <3>5 DEF UpdateUserState
      <4> QED
        BY <2>1, <3>2, <3>3, <3>5, <4>1 DEF ProjectState, Between
    <3> QED
      BY <3>4, <3>5
  <2>4. CASE UpdateProjectState(q)
    <3>1. /\ request[q].stage = "project" /\ request'[q] = Idle
          /\ deactivated' = deactivated /\ request[q].op \in {"deactivate", "activate"}
      BY <2>4, EndEffect DEF UpdateProjectState, StateOps
    <3>2. ~ Between(q)'
      BY <3>1, IdleStage DEF Between
    <3>3. CASE request[q].user = Owner
      <4>1. Between(q) /\ (Owner \in deactivated <=> request[q].op = "deactivate")
        BY <1>3, <3>1, <3>3 DEF Between
      <4>2. 1 \in DOMAIN members[Owner] /\ members[Owner][1].role = "Owner"
        BY <1>2 DEF OwnEntry
      <4>3. removed' = (request[q].op = "deactivate")
        BY <2>4, <3>3, <4>2 DEF UpdateProjectState
      <4> QED
        BY <2>1, <3>1, <3>2, <4>1, <4>3 DEF ProjectState
    <3>4. CASE request[q].user # Owner
      <4>1. removed' = removed
        BY <2>2, <2>4, <3>4 DEF UpdateProjectState, RolesOfUsers, Person
      <4>2. ~ Between(q)
        BY <3>4 DEF Between
      <4> QED
        BY <1>3, <2>1, <3>1, <3>2, <4>1, <4>2 DEF ProjectState
    <3> QED
      BY <3>3, <3>4
  <2>5. CASE ~ UpdateUserState(q) /\ ~ UpdateProjectState(q)
    <3>1. UNCHANGED <<deactivated, removed>> /\ request[q].stage # "project"
      BY <1>2, <1>6, <2>5 DEF Handle, LookInvited, WriteInvitation, LookRemoved, Pull,
                              WriteAnswer, Fail, At
    <3>2. ~ Between(q) /\ ~ Between(q)'
      BY <1>6, <2>5, <3>1, HandleEffect, IdleStage DEF Between
    <3> QED
      BY <1>3, <2>1, <3>1, <3>2 DEF ProjectState
  <2> QED
    BY <2>3, <2>4, <2>5
<1> QED
  BY <1>4, <1>5, <1>6 DEF Next

-----------------------------------------------------------------------------
(* The whole invariant, and the theorems that follow from it.              *)

PlainTypes ==
  given \in Circumstances /\ deactivated \subseteq Person /\ removed \in BOOLEAN

FullInv == /\ IInv /\ PlainTypes /\ RolesOfUsers /\ RoomForAdders
           /\ Calm /\ StateOps /\ ProjectState

LEMMA InitFull == Init => FullInv
<1> SUFFICES ASSUME Init PROVE FullInv
  OBVIOUS
<1>1. IInv
  BY InitInvariant
<1>2. \A p \in Person : \/ members[p] = <<>>
                        \/ p = Owner /\ Len(members[p]) = 1
  BY DEF Init
<1>3. \A u \in User : members[u] = <<>>
  BY <1>2, OwnerIsNoUser DEF Person
<1>4. \A q \in Request : request[q] = Idle
  BY DEF Init
<1>5. RoomForAdders
  <2>1. \A p \in Person : Adders(p) = {}
    BY <1>4, IdleStage DEF Adders, At
  <2>2. ASSUME NEW p \in Person PROVE Len(members[p]) \in Nat /\ Len(members[p]) <= 1
    <3>1. Len(members[p]) \in Nat
      BY <1>1, Entries DEF IInv
    <3> QED
      BY <1>1, <1>2, <3>1, Entries DEF IInv
  <2>3. \A p \in Person : Cardinality(Adders(p)) = 0
    BY <2>1, FS_EmptySet
  <2>4. ASSUME NEW p \in Person
        PROVE  Len(members[p]) + Cardinality(Adders(p)) <= Cardinality(Request)
    <3>1. /\ Len(members[p]) \in Nat /\ Len(members[p]) <= 1
          /\ Cardinality(Adders(p)) = 0
      BY <2>2, <2>3
    <3> QED
      BY <3>1, SizeOfRequests, SomeRequest
  <2> QED
    BY <2>4 DEF RoomForAdders
<1>6. PlainTypes /\ RolesOfUsers
  <2>1. PlainTypes
    BY DEF Init, PlainTypes
  <2>2. DOMAIN <<>> = {}
    OBVIOUS
  <2> QED
    BY <1>3, <2>1, <2>2 DEF RolesOfUsers
<1>7. Calm /\ StateOps
  <2>1. OwnersRole
    <3>1. members[Owner] = <<[role |-> "Owner", invitation |-> "Accepted"]>>
      BY DEF Init, Person
    <3> QED
      BY <3>1 DEF OwnersRole
  <2>2. ASSUME NEW p \in Person PROVE Len(members[p]) <= 1
    BY <1>1, <1>2, Entries DEF IInv
  <2> QED
    BY <1>4, <2>1, <2>2, IdleStage DEF Calm, Alone, StateOps
<1>8. ProjectState
  BY <1>4, IdleStage DEF ProjectState, Between, Init
<1> QED
  BY <1>1, <1>5, <1>6, <1>7, <1>8 DEF FullInv

LEMMA PlainTypesStay ==
  ASSUME IInv, PlainTypes, [Next]_vars
  PROVE  PlainTypes'
<1> USE DEF IInv
<1>1. CASE UNCHANGED vars
  BY <1>1 DEF vars, system, PlainTypes
<1>2. ASSUME NEW q \in Request, Ask(q), given' = given PROVE PlainTypes'
  BY <1>2, AskEffect DEF PlainTypes
<1>3. ASSUME NEW q \in Request, Handle(q), given' = given PROVE PlainTypes'
  <2>1. request[q].user \in Person
    BY <1>3, HandleEffect, Handled
  <2>2. CASE UpdateUserState(q)
    BY <1>3, <2>1, <2>2 DEF UpdateUserState, PlainTypes
  <2>3. CASE UpdateProjectState(q)
    BY <1>3, <2>1, <2>3 DEF UpdateProjectState, PlainTypes
  <2> QED
    BY <1>3, <2>2, <2>3 DEF Handle, LookInvited, WriteInvitation, LookRemoved, Pull,
                            WriteAnswer, Fail, PlainTypes
<1> QED
  BY <1>1, <1>2, <1>3 DEF Next

THEOREM FullInvariance == Spec => []FullInv
<1>1. FullInv /\ IInv' /\ [Next]_vars => FullInv'
  BY PlainTypesStay, UsersRoles, RoomStays, CalmStays, StateOpsStay, ProjectStateStays
     DEF FullInv
<1> QED
  BY InitFull, Invariance, <1>1, PTL DEF Spec

\* The members, the users' and the project's state and the requests keep
\* their declared values, and nobody has more entries than there are requests
\* at a time: a request only adds an entry after it has found none.
THEOREM TypeCorrect == Spec => []TypeOK
<1>1. FullInv => TypeOK
  <2> SUFFICES ASSUME FullInv PROVE TypeOK
    OBVIOUS
  <2>1. ASSUME NEW p \in Person PROVE Len(members[p]) <= Cardinality(Request)
    <3>1. Len(members[p]) \in Nat
      BY Entries DEF FullInv, IInv
    <3> QED
      BY <3>1, SizeOfAdders, SizeOfRequests DEF FullInv, RoomForAdders
  <2> QED
    BY <2>1 DEF FullInv, IInv, Types, PlainTypes, TypeOK, Stage
<1> QED
  BY FullInvariance, <1>1, PTL

\* What remains of the owner. While no caller names another, no invitation,
\* removal, answer or change of the state of a user writes his entry, in
\* whatever order the three calls of any number of requests run, and whichever
\* of them fail. Whomever callers name, nobody else gets his role, and among
\* requests that do not overlap no entry of his gets another.
THEOREM KeepsOwner == Spec => []OwnerStays
<1>1. FullInv => OwnerStays
  BY DEF FullInv, IInv, OwnEntry, RolesOfUsers, Calm, OwnersRole, OwnerStays, Person
<1> QED
  BY FullInvariance, <1>1, PTL

\* When requests neither overlap nor fail, and no caller names another, the
\* project is removed exactly while its owner is deactivated:
\* UpdateStateTransaction writes first the user and then the projects with an
\* entry of his that has the role of the owner, which only the owner's has.
THEOREM FollowsOwner == Spec => []ProjectFollowsOwner
<1>1. FullInv => ProjectFollowsOwner
  BY IdleStage DEF FullInv, ProjectState, ProjectFollowsOwner, Between
<1> QED
  BY FullInvariance, <1>1, PTL

-----------------------------------------------------------------------------
(* The refinement.                                                         *)

Standing == [p \in Person |->
               IF "overlap" \in given
               THEN IF p = Owner THEN "Accepted" ELSE "none"
               ELSE IF Len(members[p]) > 1 THEN "duplicated"
                    ELSE getInvitation(p)]

others == "others" \in given

LEMMA StandingIs ==
  ASSUME Calm, "overlap" \notin given, Types, NEW u \in Person
  PROVE  Standing[u] = getInvitation(u)
<1>1. Len(members[u]) <= 1 /\ Len(members[u]) \in Nat
  BY Entries DEF Calm
<1> QED
  BY <1>1 DEF Standing

\* A write to the entries of one user changes the standing of that user.
LEMMA StandingBecomes ==
  ASSUME FullInv, FullInv', "overlap" \notin given, given' = given,
         NEW u \in Person, NEW s, s = getInvitation(u)',
         \A v \in Person : v # u => members'[v] = members[v]
  PROVE  Standing' = [Standing EXCEPT ![u] = s]
<1>1. \A v \in Person : Standing[v] = getInvitation(v)
  BY StandingIs DEF FullInv, IInv
<1>2. \A v \in Person : Standing'[v] = getInvitation(v)'
  <2>1. ASSUME NEW v \in Person PROVE Len(members'[v]) <= 1 /\ Len(members'[v]) \in Nat
    BY DEF FullInv, IInv, Calm, Types
  <2> QED
    BY <2>1 DEF Standing
<1>3. \A v \in Person : v # u => getInvitation(v)' = getInvitation(v)
  BY DEF getInvitation
<1> QED
  BY <1>1, <1>2, <1>3 DEF Standing

LEMMA AnsweredWith ==
  ASSUME Types, NEW u \in Person, NEW invitation, NEW role,
         UpdateInvite(u, invitation, role), members[u] # <<>>
  PROVE  getInvitation(u)' = invitation
<1>1. 1 \in DOMAIN members[u]
  BY Entries
<1>2. 1 \in DOMAIN members'[u] /\ members'[u][1].invitation = invitation
  BY <1>1, UpdateEffect
<1>3. members'[u] # <<>>
  BY <1>2
<1> QED
  BY <1>2, <1>3 DEF getInvitation

LEMMA WriteMaps ==
  ASSUME FullInv, FullInv', "overlap" \notin given, given' = given,
         NEW q \in Request, Handle(q), members' # members,
         NEW u \in Person, u = request[q].user
  PROVE  Standings!Next
<1> USE DEF Standings!Next, Standings!Becomes, Standings!Person, Person
<1>1. /\ IInv /\ Types /\ Owner \in Person
      /\ request[q] # Idle /\ Found(request[q], u)
  BY HandleEffect, Handled DEF FullInv, IInv, Calm
<1>2. \A p \in Person : Standing[p] = getInvitation(p)
  BY <1>1, StandingIs DEF FullInv
<1>3. ASSUME NEW s, getInvitation(u)' = s, \A v \in Person : v # u => members'[v] = members[v]
      PROVE  Standing' = [Standing EXCEPT ![u] = s]
  BY <1>1, <1>3, StandingBecomes
<1>4. getInvitation(u) # "none" => members[u] # <<>>
  BY DEF getInvitation
<1>5. ASSUME NEW invitation, getInvitation(u) # "none",
             UpdateInvite(u, invitation, request[q].role)
      PROVE  Standing' = [Standing EXCEPT ![u] = invitation]
  BY <1>1, <1>3, <1>4, <1>5, AnsweredWith, UpdateEffect
<1>10. request[q].stage \in {"update", "add", "pull"} => Standing[Owner] = "Accepted"
  BY <1>1, <1>2 DEF Found
<1>6. CASE At(q, "send", "update") /\ UpdateInvite(u, "Pending", request[q].role)
  <2>1. getInvitation(u) \in {"Pending", "Declined", "Exited"}
    BY <1>1, <1>6 DEF Found, At
  <2> QED
    BY <1>1, <1>2, <1>5, <1>6, <1>10, <2>1 DEF At, others, Standing, Standings!Invite
<1>7. CASE /\ At(q, "send", "add")
           /\ members' = [members EXCEPT ![u] =
                Append(@, [role |-> request[q].role, invitation |-> "Pending"])]
  <2> DEFINE e == [role |-> request[q].role, invitation |-> "Pending"]
  <2>1. members[u] = <<>>
    BY <1>1, <1>7 DEF Found, At
  <2>2. members'[u] = <<e>>
    BY <1>1, <1>7, <2>1, AppendOne DEF Types
  <2>3. \A v \in Person : v # u => members'[v] = members[v]
    BY <1>1, <1>7 DEF Types
  <2>4. members'[u] # <<>> /\ members'[u][1].invitation = "Pending"
    BY <2>2
  <2>5. getInvitation(u)' = "Pending" /\ getInvitation(u) = "none"
    BY <2>1, <2>4 DEF getInvitation
  <2> QED
    BY <1>1, <1>2, <1>3, <1>7, <1>10, <2>3, <2>5 DEF At, others, Standing, Standings!Invite
<1>8. CASE At(q, "remove", "pull") /\ members' = [members EXCEPT ![u] = <<>>]
  <2>1. getInvitation(u) \in {"Accepted", "Pending"}
    BY <1>1, <1>8 DEF Found, At
  <2>2. getInvitation(u)' = "none" /\ \A v \in Person : v # u => members'[v] = members[v]
    BY <1>1, <1>8 DEF Types, getInvitation
  <2>3. u = Owner => "others" \in given
    BY <1>1, <1>8, OwnerIsNoUser DEF IInv, Writes, At
  <2> QED
    BY <1>1, <1>2, <1>3, <1>8, <1>10, <2>1, <2>2, <2>3 DEF At, others, Standing, Standings!Remove
<1>9. CASE /\ request[q].stage = "answer"
           /\ UpdateInvite(u, Becomes(request[q].op), request[q].role)
  <2> DEFINE s == IF request[q].op = "leave" THEN "Accepted" ELSE "Pending"
  <2>1. request[q].op \in {"accept", "decline", "leave"}
    BY <1>1, <1>9 DEF IInv, Writes
  <2>2. PICK c \in User : getInvitation(c) = s /\ ("others" \in given \/ u = c)
    BY <1>1, <1>9 DEF Found
  <2>3. CASE members[u] = <<>>
    <3>1. /\ \A p \in Person : p # u => members'[p] = members[p]
          /\ Len(members'[u]) = 0
      BY <1>1, <1>9, <2>3, UpdateEffect
    <3>2. members'[u] = <<>> /\ members = [p \in Person |-> members[p]]
          /\ members' = [p \in Person |-> members'[p]]
      BY <1>1, <3>1 DEF FullInv, IInv, Types
    <3> QED
      BY <2>3, <3>1, <3>2
  <2>4. CASE members[u] # <<>>
    <3>1. getInvitation(u) # "none"
      BY <1>1, <2>4, NobodyFound
    <3>2. Standing' = [Standing EXCEPT ![u] = Becomes(request[q].op)]
      BY <1>5, <1>9, <3>1
    <3>3. Standing[u] # "none" /\ Standing[c] = s
      BY <1>2, <2>2, <3>1
    <3>4. Standings!Answered(u, s)
      BY <2>2, <3>3 DEF Standings!Answered, Standing
    <3> QED
      BY <1>1, <2>1, <3>2, <3>4
         DEF Becomes, others, Standing, Standings!Accept, Standings!Decline, Standings!Leave
  <2> QED
    BY <2>3, <2>4
<1> QED
  BY <1>1, <1>6, <1>7, <1>8, <1>9, MembersEffect

\* When requests do not overlap, the arrays of MongoDB, looked up and written
\* in separate calls, implement the life of an invitation that the members of
\* a project expect: everybody has one standing, and it changes as the abstract
\* module says, whomever the callers name. A failing call is a stutter.
THEOREM Refinement == Spec => ImplementsInvitations
<1> DEFINE mapped == <<Standing, others>>
<1>1. Init => Standings!Init
  <2> SUFFICES ASSUME Init PROVE Standings!Init
    OBVIOUS
  <2>1. ASSUME NEW p \in Person
        PROVE  /\ Len(members[p]) <= 1
               /\ getInvitation(p) = IF p = Owner THEN "Accepted" ELSE "none"
    BY <2>1 DEF Init, getInvitation
  <2>2. Standing = [p \in Person |-> IF p = Owner THEN "Accepted" ELSE "none"]
    BY <2>1 DEF Standing
  <2> QED
    BY <2>2 DEF Standing, Standings!Init, Standings!Person, Person
<1>2. FullInv /\ FullInv' /\ [Next]_vars => [Standings!Next]_mapped
  <2> SUFFICES ASSUME FullInv, FullInv', [Next]_vars, mapped' # mapped
               PROVE  Standings!Next
    OBVIOUS
  <2>1. given' = given
    BY DEF Next, vars
  <2>2. "overlap" \notin given /\ members' # members
    BY <2>1 DEF Standing, getInvitation, others
  <2>3. ASSUME NEW q \in Request, Ask(q) PROVE FALSE
    BY <2>2, <2>3, AskEffect DEF FullInv, IInv
  <2>4. PICK q \in Request : Handle(q)
    BY <2>2, <2>3 DEF Next, vars, system
  <2> QED
    BY <2>1, <2>2, <2>4, WriteMaps, MembersEffect DEF FullInv
<1> QED
  BY <1>1, <1>2, FullInvariance, PTL
     DEF Spec, ImplementsInvitations, Standings!Spec, Standings!ledger, Standing, others
=============================================================================
