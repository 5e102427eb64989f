----------------------- MODULE MCClusterConnection -----------------------
(* One cluster, whose agent may connect a second time.                     *)
EXTENDS ClusterConnection, TLC

CONSTANTS c1, k1, k2

MCClusterOf == (k1 :> c1) @@ (k2 :> c1)
=============================================================================
