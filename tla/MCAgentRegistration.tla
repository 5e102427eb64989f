------------------------ MODULE MCAgentRegistration ------------------------
(* One agent with up to two subscriber pods.                               *)
EXTENDS AgentRegistration, TLC

CONSTANTS a1, p1, p2

MCAgentOf == (p1 :> a1) @@ (p2 :> a1)
=============================================================================
