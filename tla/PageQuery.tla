------------------------------ MODULE PageQuery ------------------------------
(***************************************************************************)
(* A query of a page (external: useQuery of @apollo/client 3.3.20), as a   *)
(* value that the page's module keeps in one of its variables.             *)
(* The server is asked "network-only" or "cache-and-network" everywhere.   *)
(*                                                                         *)
(* A request is on its way to the server ("sent") or on its way back with  *)
(* what the server had ("back").  A request for other variables replaces   *)
(* the one under way.  One for the same variables is deduplicated: it      *)
(* shares the answer of the one under way, which the server may have given *)
(* before.  Until an answer that was not shared comes the data may then be *)
(* older than what the request was made for (shared).                      *)
(***************************************************************************)

NoData == <<>>

\* The first render, or a render with other variables: nothing to show yet.
Query(v) == [for |-> v, wire |-> "sent", carried |-> NoData, data |-> NoData,
             shared |-> FALSE]

WithVariables(q, v) == IF q.for = v THEN q ELSE Query(v)

Served(q, result) == [q EXCEPT !.wire = "back", !.carried = <<result>>]

Received(q) == [q EXCEPT !.wire = "none", !.data = q.carried, !.carried = NoData]

\* refetch, refetchQueries and polling.
Asked(q) == IF q.wire = "none" THEN [q EXCEPT !.wire = "sent", !.shared = FALSE]
            ELSE [q EXCEPT !.shared = TRUE]

Loading(q) == q.data = NoData
Result(q)  == q.data[1]
Idle(q)    == q.wire = "none"
=============================================================================
