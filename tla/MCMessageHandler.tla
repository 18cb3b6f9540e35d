--------------------------- MODULE MCMessageHandler ---------------------------
(* MessageHandler for TLC: requests about one message with two attachments.  *)
EXTENDS MessageHandler, TLC

CONSTANTS inbox, a, b

MCFiles == [m \in {inbox} \X {7} |-> <<a, b>>]

MCFaults == {"db", "dbLost", "s3", "crash"}

Symmetry == Permutations(Callers)
==============================================================================
