------------------------------ MODULE MailStore ------------------------------
(***************************************************************************)
(* What internal/ingest promises the rest of letterbox, with the S3 bucket, *)
(* the attachment rows and the order of the remote calls left out: a set of *)
(* stored messages and, per caller of IngestEmail, how far its call has     *)
(* got.  A message is stored by at most one call; only the call that stored *)
(* it may return it without an error; ErrEmailAlreadyExists is returned     *)
(* only for a message that some call has stored.  Module Ingest is shown to *)
(* implement this one, module Coordinator runs its handlers on top of it.   *)
(***************************************************************************)
CONSTANTS Callers,   \* the goroutines that call IngestEmail
          Messages,  \* the messages of one account, a message per folder and UID
          None       \* no message

VARIABLES open,      \* the account row exists
          stored,    \* the messages with a row in table emails
          stage,     \* stage[c]: how far the call of c has got
          subject,   \* subject[c]: the message c is ingesting, or None
          returned   \* the messages some call has returned without an error

vars == <<open, stored, stage, subject, returned>>

Init ==
    /\ open = TRUE
    /\ stored = {}
    /\ stage = [c \in Callers |-> "idle"]
    /\ subject = [c \in Callers |-> None]
    /\ returned = {}

Begin(c, m) ==
    /\ stage[c] = "idle"
    /\ stage' = [stage EXCEPT ![c] = "busy"]
    /\ subject' = [subject EXCEPT ![c] = m]
    /\ UNCHANGED <<open, stored, returned>>

\* The call stores its message: it now owns the email.
Store(c) ==
    /\ stage[c] = "busy"
    /\ open
    /\ subject[c] \notin stored
    /\ stored' = stored \cup {subject[c]}
    /\ stage' = [stage EXCEPT ![c] = "owner"]
    /\ UNCHANGED <<open, subject, returned>>

\* The insert is committed, but the caller only sees a broken connection.
StoreUnseen(c) ==
    /\ stage[c] = "busy"
    /\ open
    /\ subject[c] \notin stored
    /\ stored' = stored \cup {subject[c]}
    /\ stage' = [stage EXCEPT ![c] = "failed"]
    /\ UNCHANGED <<open, subject, returned>>

\* The call finds that the message has been stored before.
FindStored(c) ==
    /\ stage[c] = "busy"
    /\ subject[c] \in stored
    /\ stage' = [stage EXCEPT ![c] = "late"]
    /\ UNCHANGED <<open, stored, subject, returned>>

\* Some step of the call fails; what it has stored stays stored.
Fail(c) ==
    /\ stage[c] = "busy"
    /\ stage' = [stage EXCEPT ![c] = "failed"]
    /\ UNCHANGED <<open, stored, subject, returned>>

Answer(c) ==
    /\ stage' = [stage EXCEPT ![c] = "idle"]
    /\ subject' = [subject EXCEPT ![c] = None]
    /\ UNCHANGED <<open, stored>>

ReturnOk(c) ==
    /\ stage[c] = "owner"
    /\ Answer(c)
    /\ returned' = returned \cup {subject[c]}

\* ErrEmailAlreadyExists
ReturnExists(c) ==
    /\ \/ stage[c] = "late"
       \/ stage[c] = "busy" /\ subject[c] \in stored
    /\ Answer(c)
    /\ UNCHANGED returned

ReturnError(c) ==
    /\ stage[c] \in {"busy", "failed", "owner"}
    /\ Answer(c)
    /\ UNCHANGED returned

\* DELETE /accounts/{id}: the account row goes, and its emails by cascade.
CloseAccount ==
    /\ open
    /\ open' = FALSE
    /\ stored' = {}
    /\ UNCHANGED <<stage, subject, returned>>

\* The process dies: every call is forgotten, the database is not.
Crash ==
    /\ stage' = [c \in Callers |-> "idle"]
    /\ subject' = [c \in Callers |-> None]
    /\ UNCHANGED <<open, stored, returned>>

Next ==
    \/ \E c \in Callers, m \in Messages : Begin(c, m)
    \/ \E c \in Callers :
          \/ Store(c) \/ StoreUnseen(c) \/ FindStored(c) \/ Fail(c)
          \/ ReturnOk(c) \/ ReturnExists(c) \/ ReturnError(c)
    \/ CloseAccount
    \/ Crash

Spec == Init /\ [][Next]_vars
==============================================================================
