------------------------------ MODULE MCIngest ------------------------------
(* Ingest for TLC: two callers, and two messages that share UID 7 in two     *)
(* folders: one with two attachments, one with an attachment of equal name.  *)
EXTENDS Ingest, TLC

CONSTANTS inbox, archive, a, b

MCFiles == [m \in {inbox, archive} \X {7} |->
                IF m[1] = inbox THEN <<a, b>> ELSE <<a>>]
\* One folder, so that no two attachments share a key.
MCOneFolderFiles == [m \in {inbox} \X {7} |-> <<a>>]

MCFaults == {"db", "dbLost", "imap", "s3", "s3Lost", "s3Delete", "crash"}

Symmetry == Permutations(Callers)
=============================================================================
