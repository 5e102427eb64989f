----------------------------- MODULE RunLedger -----------------------------
(***************************************************************************)
(* What users may expect of the record of workflow runs: a run that the    *)
(* agent has reported is in the record once, it becomes completed once,    *)
(* and it stays there. Removing a run hides it; a later report shows it    *)
(* again.                                                                  *)
(***************************************************************************)
CONSTANT Run

VARIABLES
  status,  \* of each run
  shown    \* the runs that are not marked as removed

vars == <<status, shown>>

Status == {"absent", "open", "completed"}

Init == /\ status = [r \in Run |-> "absent"]
        /\ shown = {}

\* A report of the agent; the one on a completed run is discarded.
Report(r) ==
  /\ status[r] # "completed"
  /\ \E s \in {"open", "completed"} : status' = [status EXCEPT ![r] = s]
  /\ shown' = shown \cup {r}

\* A user terminates the run.
Terminate(r) ==
  /\ status[r] # "absent"
  /\ status' = [status EXCEPT ![r] = "completed"]
  /\ UNCHANGED shown

\* A user removes the run.
Remove(r) ==
  /\ status[r] # "absent"
  /\ shown' = shown \ {r}
  /\ UNCHANGED status

Next == \E r \in Run : Report(r) \/ Terminate(r) \/ Remove(r)

Spec == Init /\ [][Next]_vars
=============================================================================
