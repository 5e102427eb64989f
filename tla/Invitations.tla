---------------------------- MODULE Invitations ----------------------------
(***************************************************************************)
(* What the members of a project may expect of its invitations: everybody  *)
(* has one standing in the project. Its owner invites, and removes those   *)
(* who are members or invited. Accepting and declining takes a caller who  *)
(* is invited, leaving one who is a member; he speaks for himself, or, if  *)
(* callers name others, for anybody who has a standing.                    *)
(***************************************************************************)
CONSTANTS Owner, User

VARIABLES
  standing,  \* of everybody
  others     \* whether callers name others

ledger == <<standing, others>>

Person   == User \cup {Owner}
Standing == {"none", "Pending", "Accepted", "Declined", "Exited"}

Init == /\ others \in BOOLEAN
        /\ standing = [p \in Person |-> IF p = Owner THEN "Accepted" ELSE "none"]

Becomes(p, s) == /\ standing' = [standing EXCEPT ![p] = s]
                 /\ UNCHANGED others

Invite(p) == /\ standing[Owner] = "Accepted" /\ standing[p] # "Accepted"
             /\ Becomes(p, "Pending")
Remove(p) == /\ standing[Owner] = "Accepted" /\ standing[p] \in {"Pending", "Accepted"}
             /\ p = Owner => others
             /\ Becomes(p, "none")

\* Somebody with the standing s answers for p.
Answered(p, s) == /\ standing[p] # "none"
                  /\ \E caller \in User : /\ standing[caller] = s
                                          /\ caller = p \/ others

Accept(p)  == Answered(p, "Pending")  /\ Becomes(p, "Accepted")
Decline(p) == Answered(p, "Pending")  /\ Becomes(p, "Declined")
Leave(p)   == Answered(p, "Accepted") /\ Becomes(p, "Exited")

Next == \E p \in Person : \/ Invite(p) \/ Remove(p)
                          \/ Accept(p) \/ Decline(p) \/ Leave(p)

Spec == Init /\ [][Next]_ledger
=============================================================================
