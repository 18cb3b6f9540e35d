------------------------------ MODULE MCIdlePool ------------------------------
(* IdlePool for TLC.  Every run checks liveness, so none uses symmetry.      *)
EXTENDS IdlePool
==============================================================================
