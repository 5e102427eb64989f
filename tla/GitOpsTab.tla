----------------------------- MODULE GitOpsTab -----------------------------
(***************************************************************************)
(* The GitOps settings of a project: frontend/src/views/Settings/GitOpsTab.*)
(*                                                                         *)
(* The radio buttons, the form and the panel with the stored settings are  *)
(* driven by flags of the page's own: an effect sets them when the query   *)
(* brings other data, the mutations' answers set them again, and "Edit"    *)
(* clears them.  The query is asked again when the result is dismissed.    *)
(*                                                                         *)
(* Enabling and updating share what the page does; the URL and the branch  *)
(* go the way of the credentials and are left out.                         *)
(***************************************************************************)
EXTENDS Naturals, FiniteSets, PageQuery

CONSTANT MaxSends    \* bound: mutations under way

VARIABLES
    stored,     \* the server's settings: enabled, and the kind of credentials
    list,       \* the query
    page,       \* value, isGitOpsEnabled, privateHub, sshKey, isOpen, confirmModal
    sends       \* mutations under way

gitOpsTabVars == <<stored, list, page, sends>>

Disabled == [enabled |-> FALSE, auth |-> "none"]

Blocked == page.isOpen
InfoShown == ~ Loading(list) /\ page.value = "enabled" /\ page.isGitOpsEnabled
FormShown == ~ Loading(list) /\ page.value = "enabled" /\ ~ page.isGitOpsEnabled
ConfirmShown == InfoShown /\ page.confirmModal
UnderWay(kinds) == \E r \in sends : r.kind \in kinds

Add(request) ==
    /\ Cardinality(sends) < MaxSends                        \* bound
    /\ request \notin sends
    /\ sends' = sends \cup {request}

-----------------------------------------------------------------------------
(* The query.                                                              *)

Serve ==
    /\ list.wire = "sent"
    /\ list' = Served(list, stored)
    /\ UNCHANGED <<stored, page, sends>>

\* useEffect on [data]: the same data is the same object and has no effect.
Receive ==
    /\ list.wire = "back"
    /\ list' = Received(list)
    /\ page' = IF list.carried = list.data THEN page
               ELSE LET on == Result(list').enabled
                    IN  [page EXCEPT !.value = IF on THEN "enabled" ELSE "disabled",
                                     !.isGitOpsEnabled = on, !.editing = FALSE]
    /\ UNCHANGED <<stored, sends>>

-----------------------------------------------------------------------------
(* What the person does.                                                   *)

handleChange(v) ==
    /\ ~ Loading(list) /\ ~ Blocked /\ ~ ConfirmShown /\ v # page.value
    /\ page' = [page EXCEPT !.value = v]
    /\ UNCHANGED <<stored, list, sends>>

\* The radio buttons for the credentials: "ssh" asks for a new key, "token"
\* forgets the one there is.
SelectAuth(v) ==
    /\ FormShown /\ ~ Blocked /\ v # page.privateHub
    /\ page' = [page EXCEPT !.privateHub = v,
                            !.sshKey = IF v = "token" THEN "" ELSE @]
    /\ IF v = "ssh" THEN Add([kind |-> "generate", state |-> "done"])
       ELSE UNCHANGED sends
    /\ UNCHANGED <<stored, list>>

\* The kind of credentials that is sent, and whether the key was there.
AuthType ==
    LET known == Result(list)
    IN  IF page.privateHub # "" THEN page.privateHub
        ELSE IF known.enabled THEN known.auth ELSE "none"

handleSubmit ==
    /\ FormShown /\ ~ Blocked /\ ~ UnderWay({"enable", "update"})
    /\ Add([kind |-> IF Result(list).enabled THEN "update" ELSE "enable",
            auth |-> AuthType, state |-> "sent"])
    /\ page' = [page EXCEPT !.overlapped = @ \/ UnderWay({"disable"})]
    /\ UNCHANGED <<stored, list>>

disableGitOps ==
    /\ ~ Loading(list) /\ ~ Blocked /\ ~ UnderWay({"disable"})
    /\ page.value = "disabled" /\ Result(list).enabled
    /\ Add([kind |-> "disable", state |-> "sent"])
    /\ page' = [page EXCEPT !.overlapped = @ \/ UnderWay({"enable", "update"})]
    /\ UNCHANGED <<stored, list>>

onEditClicked ==
    /\ InfoShown /\ ~ Blocked /\ ~ page.confirmModal
    /\ page' = [page EXCEPT !.confirmModal = TRUE]
    /\ UNCHANGED <<stored, list, sends>>

onCancelEdit ==
    /\ ConfirmShown /\ ~ Blocked
    /\ page' = [page EXCEPT !.confirmModal = FALSE]
    /\ UNCHANGED <<stored, list, sends>>

onConfirmEdit ==
    /\ ConfirmShown /\ ~ Blocked
    /\ page' = [page EXCEPT !.isGitOpsEnabled = FALSE, !.editing = TRUE,
                            !.privateHub = "", !.sshKey = "", !.confirmModal = FALSE]
    /\ UNCHANGED <<stored, list, sends>>

\* The result is dismissed.
handleClose ==
    /\ Blocked
    /\ page' = [page EXCEPT !.isOpen = FALSE]
    /\ list' = Asked(list)
    /\ UNCHANGED <<stored, sends>>

-----------------------------------------------------------------------------
(* The server (external) and its answers.                                  *)

Apply(r) ==
    /\ r.state = "sent"
    /\ r.kind = "update" => stored.enabled
    /\ stored' = IF r.kind = "disable" THEN Disabled
                 ELSE [enabled |-> TRUE, auth |-> r.auth]
    /\ sends' = (sends \ {r}) \cup {[r EXCEPT !.state = "done"]}
    /\ UNCHANGED <<list, page>>

Refuse(r) ==
    /\ r.state = "sent"
    /\ sends' = (sends \ {r}) \cup {[r EXCEPT !.state = "failed"]}
    /\ UNCHANGED <<stored, list, page>>

\* onCompleted and onError.  An update that is stored ends the edit.
Answered(r) ==
    /\ r.state \in {"done", "failed"}
    /\ sends' = sends \ {r}
    /\ page' =
        CASE r.kind = "generate" -> [page EXCEPT !.sshKey = "key"]
          [] r.state = "failed" -> [page EXCEPT !.isOpen = TRUE]
          [] r.kind = "disable" -> [page EXCEPT !.isOpen = TRUE, !.sshKey = ""]
          [] OTHER -> [page EXCEPT !.isOpen = TRUE, !.isGitOpsEnabled = TRUE,
                                   !.editing = FALSE]
    /\ UNCHANGED <<stored, list>>

-----------------------------------------------------------------------------
GitOpsTabInit ==
    /\ stored \in {Disabled, [enabled |-> TRUE, auth |-> "token"]}
    /\ list = Query("")
    /\ page = [value |-> "disabled", isGitOpsEnabled |-> FALSE, privateHub |-> "token",
               sshKey |-> "", isOpen |-> FALSE, confirmModal |-> FALSE,
               editing |-> FALSE, overlapped |-> FALSE]
    /\ sends = {}

GitOpsTabNext ==
    \/ Serve \/ Receive
    \/ \E v \in {"enabled", "disabled"} : handleChange(v)
    \/ \E v \in {"token", "ssh"} : SelectAuth(v)
    \/ handleSubmit \/ disableGitOps
    \/ onEditClicked \/ onCancelEdit \/ onConfirmEdit \/ handleClose
    \/ \E r \in sends : Apply(r) \/ Refuse(r) \/ Answered(r)

GitOpsTabSpec == GitOpsTabInit /\ [][GitOpsTabNext]_gitOpsTabVars

-----------------------------------------------------------------------------
(* Properties.                                                             *)

AtRest == sends = {} /\ Idle(list) /\ ~ list.shared /\ ~ page.isOpen

\* When nothing is under way the page offers the form where GitOps is off or
\* is being edited, and the panel where it is on, whatever order the answers,
\* the edit and the refetch came in; unless a disabling and an update were
\* under way together, whose answers the page takes in any order.
FormAgrees ==
    AtRest /\ ~ page.overlapped =>
        page.isGitOpsEnabled = (stored.enabled /\ ~ page.editing)
=============================================================================
