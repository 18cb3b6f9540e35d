---------------------------- MODULE MCLifecycle ----------------------------
(* The smallest instances that show the races of start-up and shutdown.     *)
EXTENDS Lifecycle
============================================================================
