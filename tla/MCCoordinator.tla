--------------------------- MODULE MCCoordinator ---------------------------
(* Coordinator for TLC: two jobs.                                           *)
EXTENDS Coordinator

CONSTANTS j1, j2

TwoJobs == {j1, j2}
InOrder == <<j1, j2>>
=============================================================================
