---------------------------- MODULE MCCoordinator ----------------------------
(* Coordinator for TLC.  The two handlers run the same code, as do requests. *)
EXTENDS Coordinator, TLC

Symmetry == Permutations(Handlers) \cup Permutations(ApiCalls)
==============================================================================
