------------------------ MODULE MCUsageRefreshQueue ------------------------
(* UsageRefreshQueue on small sets, without symmetry: the run checks       *)
(* liveness.                                                               *)
EXTENDS UsageRefreshQueue
=============================================================================
