------------------------------ MODULE PageFetch ------------------------------
(***************************************************************************)
(* What a page asks for with fetch (external), as a sequence of requests   *)
(* under way that the page's module keeps in one of its variables.  They   *)
(* are served and come back in any order, and nothing tells the page that  *)
(* an answer was overtaken by that of a later request: it is old.          *)
(***************************************************************************)
EXTENDS Naturals, Sequences

NoFetch == <<>>
NoAnswer == <<>>

Sent(fs) == Append(fs, [carried |-> NoAnswer, old |-> FALSE])

ServedAt(fs, i, result) == [fs EXCEPT ![i].carried = <<result>>]

\* The i-th came back and is gone: those before it are old now.
Taken(fs, i) ==
    [j \in 1 .. Len(fs) - 1 |-> IF j < i THEN [fs[j] EXCEPT !.old = TRUE] ELSE fs[j + 1]]
=============================================================================
