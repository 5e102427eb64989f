----------------------------- MODULE EngineEdit -----------------------------
(***************************************************************************)
(* What the configuration wizard of the Tune step promises: one engine is  *)
(* edited at a time, the manifest changes when the edit is finished and    *)
(* not before, and then in that engine alone, which stays an engine with   *)
(* or without a target application as it was.                              *)
(***************************************************************************)
EXTENDS Naturals, FiniteSets

CONSTANT HasTarget(_)       \* whether an engine names a target application

VARIABLES engines,          \* the manifest's engines, by template
          open              \* the template being edited, or 0

Begin(i) == open = 0 /\ open' = i /\ UNCHANGED engines
Cancel   == open # 0 /\ open' = 0 /\ UNCHANGED engines
Commit ==
    /\ open # 0 /\ open' = 0
    /\ engines' = [engines EXCEPT ![open] = engines'[open]]
    /\ HasTarget(engines'[open]) = HasTarget(engines[open])

EditInit == open = 0
EditNext == \/ \E i \in DOMAIN engines : Begin(i)
            \/ Cancel \/ Commit

EditSpec == EditInit /\ [][EditNext]_<<engines, open>>
=============================================================================
