------------------------ MODULE MCLifecycleRefinement ------------------------
(* Small instances of LifecycleRefinement for TLC. *)
EXTENDS LifecycleRefinement, TLC

CONSTANTS d1, d2, p1
=============================================================================
