--------------------------- MODULE ImageRegistry ---------------------------
(***************************************************************************)
(* The image registry of a project:                                        *)
(* frontend/src/views/Settings/ImageRegistry.                              *)
(*                                                                         *)
(* The answer of the list gives the registry's id and asks for its data;   *)
(* an effect of that answer, and the answers of the updates, set what the  *)
(* page shows.  The loader needs both queries to be loading, which they    *)
(* never are: the form is there from the start, with no id to send.        *)
(*                                                                         *)
(* A registry is its default flag and its custom values as one.  The list  *)
(* that is fetched again after a creation does not call onCompleted, so    *)
(* the id is only known after the next mount.                              *)
(***************************************************************************)
EXTENDS Naturals, FiniteSets, PageQuery

CONSTANTS Custom,      \* what can be typed into the form
          MaxSends     \* bound: mutations under way

VARIABLES
    stored,     \* the server's registry: <<>> or its values
    list,       \* the query of the list
    data,       \* the lazy query of the registry
    page,       \* registry, registryID, isCustomRegistryEnabled, isAvailable, registryData
    sends       \* mutations under way

registryVars == <<stored, list, data, page, sends>>

Default == "default"
NotAsked == [Query("") EXCEPT !.wire = "none"]

UnderWay(kind) == \E r \in sends : r.kind = kind

Send(request) ==
    /\ Cardinality(sends) < MaxSends                         \* bound
    /\ sends' = sends \cup {request}

-----------------------------------------------------------------------------
(* The queries.                                                            *)

ServeList ==
    /\ list.wire = "sent"
    /\ list' = Served(list, stored # <<>>)
    /\ UNCHANGED <<stored, data, page, sends>>

ReceiveList ==
    /\ list.wire = "back"
    /\ list' = Received(list)
    /\ IF Result(list')
       THEN /\ page' = [page EXCEPT !.registryID = "r"]
            /\ data' = Asked(data)
       ELSE /\ page' = [page EXCEPT !.isAvailable = FALSE, !.registry = "disabled"]
            /\ UNCHANGED data
    /\ UNCHANGED <<stored, sends>>

ServeData ==
    /\ data.wire = "sent"
    /\ data' = Served(data, stored[1])
    /\ UNCHANGED <<stored, list, page, sends>>

\* What an effect of [data] and what an update's answer set.
Shows(p, values) ==
    [p EXCEPT !.registry = IF values = Default THEN "disabled" ELSE "enabled",
              !.isCustomRegistryEnabled = values # Default,
              !.registryData = values]

ReceiveData ==
    /\ data.wire = "back"
    /\ data' = Received(data)
    /\ page' = Shows(page, Result(data'))
    /\ UNCHANGED <<stored, list, sends>>

-----------------------------------------------------------------------------
(* What the person does.                                                   *)

SelectRegistry(v) ==
    /\ v # page.registry
    /\ page' = [page EXCEPT !.registry = v]
    /\ UNCHANGED <<stored, list, data, sends>>

TypeValues(c) ==
    /\ page.registry = "enabled" /\ ~ page.isCustomRegistryEnabled
    /\ c # page.typed
    /\ page' = [page EXCEPT !.typed = c]
    /\ UNCHANGED <<stored, list, data, sends>>

Update(values) ==
    /\ Send([kind |-> "update", id |-> page.registryID, values |-> values,
             state |-> "sent"])
    /\ page' = [page EXCEPT !.overlapped = @ \/ UnderWay("update") \/ ~ Idle(data)]
    /\ UNCHANGED <<stored, list, data>>

\* Nothing disables the button while an update is under way.
handleSubmit ==
    /\ page.registry = "enabled" /\ ~ page.isCustomRegistryEnabled
    /\ page.typed # ""
    /\ Update(page.typed)

UseDefault ==
    /\ page.isAvailable
    /\ page.registry = "disabled" /\ page.isCustomRegistryEnabled
    /\ ~ UnderWay("update")
    /\ Update(Default)

createImageRegistry ==
    /\ ~ page.isAvailable /\ ~ UnderWay("update")
    /\ Send([kind |-> "create", state |-> "sent"])
    /\ UNCHANGED <<stored, list, data, page>>

-----------------------------------------------------------------------------
(* The server (external) and its answers.                                  *)

\* An update of no id finds nothing to update.
Apply(r) ==
    /\ r.state = "sent"
    /\ r.kind = "update" => r.id # "" /\ stored # <<>>
    /\ stored' = IF r.kind = "create" THEN <<Default>> ELSE <<r.values>>
    /\ sends' = (sends \ {r}) \cup {[r EXCEPT !.state = "done"]}
    /\ UNCHANGED <<list, data, page>>

Answered(r) ==
    /\ r.state = "done"
    /\ sends' = sends \ {r}
    /\ page' = IF r.kind = "create" THEN [page EXCEPT !.isAvailable = TRUE]
               ELSE Shows(page, r.values)
    /\ UNCHANGED <<stored, list, data>>

\* The server refuses.
Failed(r) ==
    /\ r.state = "sent"
    /\ sends' = sends \ {r}
    /\ page' = IF r.kind = "create" THEN [page EXCEPT !.isAvailable = FALSE] ELSE page
    /\ UNCHANGED <<stored, list, data>>

-----------------------------------------------------------------------------
RegistryInit ==
    /\ stored \in {<<>>, <<Default>>} \cup {<<c>> : c \in Custom}
    /\ list = Query("") /\ data = NotAsked
    /\ page = [registry |-> "enabled", registryID |-> "", typed |-> "",
               isCustomRegistryEnabled |-> FALSE, isAvailable |-> TRUE,
               registryData |-> "", overlapped |-> FALSE]
    /\ sends = {}

RegistryNext ==
    \/ ServeList \/ ReceiveList \/ ServeData \/ ReceiveData
    \/ \E v \in {"enabled", "disabled"} : SelectRegistry(v)
    \/ \E c \in Custom : TypeValues(c)
    \/ handleSubmit \/ UseDefault \/ createImageRegistry
    \/ \E r \in sends : Apply(r) \/ Answered(r) \/ Failed(r)

RegistrySpec == RegistryInit /\ [][RegistryNext]_registryVars

-----------------------------------------------------------------------------
(* Properties.                                                             *)

AtRest == sends = {} /\ Idle(list) /\ Idle(data)

\* When nothing is under way, the custom values are on display exactly when
\* the server has them, and they are the ones it has; unless an update was
\* sent while another one, or the data it changes, was under way: the page
\* shows whichever answer comes last.
ShowsStored ==
    AtRest /\ page.registryID # "" /\ ~ page.overlapped =>
        /\ page.isCustomRegistryEnabled = (stored # <<Default>>)
        /\ page.registryData = stored[1]
=============================================================================
