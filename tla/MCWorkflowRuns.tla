--------------------------- MODULE MCWorkflowRuns ---------------------------
(* Two runs, two handlers and a user.                                      *)
EXTENDS WorkflowRuns, TLC

CONSTANTS h1, h2, u1, u2

Interchangeable ==
   Permutations({h1, h2}) \cup Permutations({u1, u2})
=============================================================================
