------------------------ MODULE MCProjectMembership ------------------------
(* Two users beside the owner, one of them when requests overlap, and two  *)
(* requests at a time.                                                     *)
EXTENDS ProjectMembership, TLC

CONSTANTS q1, q2, u1, u2

Interchangeable == Permutations({q1, q2})
=============================================================================
