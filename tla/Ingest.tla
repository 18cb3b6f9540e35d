-------------------------------- MODULE Ingest --------------------------------
(***************************************************************************)
(* internal/ingest: IngestEmail, one action per call it makes to Postgres,  *)
(* IMAP or S3, run by several callers at once (the sync coordinator's event *)
(* handlers and the API's on-demand GetMessage).  One account.  The state   *)
(* that survives a crash is the database (acct, emails, rows) and the       *)
(* bucket (objects); the rest is the stack of each caller.                  *)
(***************************************************************************)
EXTENDS Integers, Sequences

CONSTANTS Callers,  \* the goroutines that call IngestEmail
          Folders,  \* mailbox folders
          Uids,     \* IMAP UIDs, numbered per folder
          Names,    \* attachment file names after filepath.Base
          Files,    \* Files[m]: the attachment names of message m, in order
          Faults,   \* the faults this instance allows, among FaultKinds
          None      \* no message, no object

Messages == Folders \X Uids

FaultKinds ==
    {"db",       \* a query fails and has no effect
     "dbLost",   \* an insert commits, the caller sees an error
     "imap",     \* the fetch fails, or the bytes do not parse
     "s3",       \* an upload fails and has no effect
     "s3Lost",   \* an upload takes effect, the caller sees an error
     "s3Delete", \* a delete fails
     "crash"}    \* the process dies

ASSUME IngestAssumption ==
    /\ Files \in [Messages -> Seq(Names)]
    /\ Faults \subseteq FaultKinds
    /\ None \notin Messages
    /\ None \notin Messages \X Nat

\* The attachments of message m, by position; all attachments.
PartsOf(m) == {<<m, i>> : i \in 1 .. Len(Files[m])}
Parts == UNION {PartsOf(m) : m \in Messages}

Keys == Uids \X Names

\* {account_id}/{email_uid}/{filename}: neither folder nor position is in it.
AttachmentKey(m, i) == <<m[2], Files[m][i]>>

VARIABLES acct,      \* the account row exists
          emails,    \* messages with a row in table emails
          rows,      \* attachments with a row in table attachments
          objects,   \* objects[k]: the attachment stored under key k, or None
          pc,        \* pc[c]: what c does next
          msg,       \* msg[c]: the message c ingests, or None
          up,        \* up[c] = len(s3Keys): attachments c has uploaded
          idx,       \* idx[c]: index of the cleanup loop or of the rows loop
          res,       \* res[c]: the error to return, then the last call's result
          oks,       \* history: oks[m] calls have returned m without an error
          overlapped,\* history: messages two calls have ingested at one time
          leaked     \* history: a fault has left uploads behind

stack == <<pc, msg, up, idx, res>>
history == <<oks, overlapped, leaked>>
vars == <<acct, emails, rows, objects, stack, history>>

Init ==
    /\ acct = TRUE
    /\ emails = {}
    /\ rows = {}
    /\ objects = [k \in Keys |-> None]
    /\ pc = [c \in Callers |-> "idle"]
    /\ msg = [c \in Callers |-> None]
    /\ up = [c \in Callers |-> 0]
    /\ idx = [c \in Callers |-> 0]
    /\ res = [c \in Callers |-> "none"]
    /\ oks = [m \in Messages |-> 0]
    /\ overlapped = {}
    /\ leaked = FALSE

------------------------------------------------------------------------------

Goto(c, l) ==
    /\ pc' = [pc EXCEPT ![c] = l]
    /\ UNCHANGED <<msg, up, idx, res>>

Return(c, r) ==
    /\ pc' = [pc EXCEPT ![c] = "idle"]
    /\ msg' = [msg EXCEPT ![c] = None]
    /\ up' = [up EXCEPT ![c] = 0]
    /\ idx' = [idx EXCEPT ![c] = 0]
    /\ res' = [res EXCEPT ![c] = r]

\* A plausible bug: the error is returned and the uploads are left behind.
ReturnWithoutCleanup(c, r) == Return(c, r)

\* Leave for the cleanup loop; r is returned when it is through.
CleanupThen(c, r) ==
    /\ pc' = [pc EXCEPT ![c] = "cleanup"]
    /\ res' = [res EXCEPT ![c] = r]
    /\ UNCHANGED <<msg, up, idx>>

Begin(c, m) ==
    /\ pc[c] = "idle"
    /\ pc' = [pc EXCEPT ![c] = "account"]
    /\ msg' = [msg EXCEPT ![c] = m]
    /\ res' = [res EXCEPT ![c] = "none"]
    /\ overlapped' = IF \E d \in Callers : msg[d] = m
                     THEN overlapped \cup {m} ELSE overlapped
    /\ UNCHANGED <<acct, emails, rows, objects, up, idx, oks, leaked>>

GetAccount(c) ==
    /\ pc[c] = "account"
    /\ \/ acct /\ Goto(c, "exists")
       \/ ~acct /\ Return(c, "error")
       \/ "db" \in Faults /\ Return(c, "error")
    /\ UNCHANGED <<acct, emails, rows, objects, history>>

ExistsByUID(c) ==
    /\ pc[c] = "exists"
    /\ \/ msg[c] \in emails /\ Return(c, "exists")
       \/ msg[c] \notin emails /\ Goto(c, "fetch")
       \/ "db" \in Faults /\ Return(c, "error")
    /\ UNCHANGED <<acct, emails, rows, objects, history>>

FetchRaw(c) ==
    /\ pc[c] = "fetch"
    /\ \/ Goto(c, "upload")
       \/ "imap" \in Faults /\ Return(c, "error")
    /\ UNCHANGED <<acct, emails, rows, objects, history>>

PutObject(c) ==
    LET part == <<msg[c], up[c] + 1>>
    IN  objects' = [objects EXCEPT ![AttachmentKey(msg[c], up[c] + 1)] = part]

\* The key is remembered for the cleanup only when the upload is seen to work.
Upload(c) ==
    /\ pc[c] = "upload"
    /\ up[c] < Len(Files[msg[c]])
    /\ \/ /\ PutObject(c)
          /\ up' = [up EXCEPT ![c] = @ + 1]
          /\ UNCHANGED <<pc, msg, idx, res, leaked>>
       \/ /\ "s3" \in Faults
          /\ CleanupThen(c, "error")
          /\ UNCHANGED <<objects, leaked>>
       \/ /\ "s3Lost" \in Faults
          /\ PutObject(c)
          /\ CleanupThen(c, "error")
          /\ leaked' = TRUE
    /\ UNCHANGED <<acct, emails, rows, oks, overlapped>>

\* Plausible bugs, substituted for the definitions below when the runs'
\* properties are tested: an upsert, any constraint error read as a duplicate.
InsertableUpsert(c) == acct
DuplicateAnyConstraint(c) == msg[c] \in emails \/ ~acct

\* Table emails: a foreign key on accounts, unique (account, folder, uid).
Insertable(c) == acct /\ msg[c] \notin emails
Duplicate(c) == msg[c] \in emails

CreateEmail(c) ==
    /\ pc[c] = "upload"
    /\ up[c] = Len(Files[msg[c]])
    /\ \/ /\ Insertable(c)
          /\ emails' = emails \cup {msg[c]}
          /\ \/ Goto(c, "attach")
             \/ "dbLost" \in Faults /\ CleanupThen(c, "error")
       \/ /\ Duplicate(c)
          /\ CleanupThen(c, "exists")
          /\ UNCHANGED emails
       \/ /\ ~acct \/ "db" \in Faults
          /\ CleanupThen(c, "error")
          /\ UNCHANGED emails
    /\ UNCHANGED <<acct, rows, objects, history>>

\* The cleanup loops run on context.Background(), and go on when a delete fails.
DeleteUploaded(c) ==
    /\ pc[c] = "cleanup"
    /\ idx[c] < up[c]
    /\ idx' = [idx EXCEPT ![c] = @ + 1]
    /\ \/ /\ objects' = [objects EXCEPT ![AttachmentKey(msg[c], idx[c] + 1)] = None]
          /\ UNCHANGED leaked
       \/ /\ "s3Delete" \in Faults
          /\ leaked' = TRUE
          /\ UNCHANGED objects
    /\ UNCHANGED <<acct, emails, rows, pc, msg, up, res, oks, overlapped>>

ReturnAfterCleanup(c) ==
    /\ pc[c] = "cleanup"
    /\ idx[c] = up[c]
    /\ Return(c, res[c])
    /\ UNCHANGED <<acct, emails, rows, objects, history>>

\* Plausible bugs: a row too far, going on after a failed row, cleaning up.
RowOffByOne(c) == <<msg[c], idx[c] + 2>>
SkipFailedRow(c) == idx' = [idx EXCEPT ![c] = @ + 1] /\ UNCHANGED <<pc, msg, up, res>>
CleanupAfterFailedRow(c) ==
    pc' = [pc EXCEPT ![c] = "cleanup"] /\ res' = [res EXCEPT ![c] = "error"]
    /\ idx' = [idx EXCEPT ![c] = 0] /\ UNCHANGED <<msg, up>>

RowOf(c) == <<msg[c], idx[c] + 1>>
\* "Email is already stored, attachments are partially stored": no cleanup.
AbandonRows(c) == Return(c, "error")

\* attachmentRepo.Create: a foreign key on emails; an error abandons the rest.
CreateAttachment(c) ==
    /\ pc[c] = "attach"
    /\ idx[c] < Len(Files[msg[c]])
    /\ \/ /\ msg[c] \in emails
          /\ rows' = rows \cup {RowOf(c)}
          /\ \/ /\ idx' = [idx EXCEPT ![c] = @ + 1]
                /\ UNCHANGED <<pc, msg, up, res>>
             \/ "dbLost" \in Faults /\ AbandonRows(c)
       \/ /\ msg[c] \notin emails \/ "db" \in Faults
          /\ AbandonRows(c)
          /\ UNCHANGED rows
    /\ UNCHANGED <<acct, emails, objects, history>>

ReturnEmail(c) ==
    /\ pc[c] = "attach"
    /\ idx[c] = Len(Files[msg[c]])
    /\ Return(c, "ok")
    /\ oks' = [oks EXCEPT ![msg[c]] = @ + 1]
    /\ UNCHANGED <<acct, emails, rows, objects, overlapped, leaked>>

\* DELETE /accounts/{id}: emails and attachments go by cascade, S3 objects stay.
DeleteAccount ==
    /\ acct
    /\ acct' = FALSE
    /\ emails' = {}
    /\ rows' = {}
    /\ UNCHANGED <<objects, stack, history>>

\* The process dies and starts again: every stack is lost, the stores stay.
Crash ==
    /\ "crash" \in Faults
    /\ \E c \in Callers : pc[c] # "idle"
    /\ pc' = [c \in Callers |-> "idle"]
    /\ msg' = [c \in Callers |-> None]
    /\ up' = [c \in Callers |-> 0]
    /\ idx' = [c \in Callers |-> 0]
    /\ res' = [c \in Callers |-> "none"]
    /\ leaked' = (leaked \/ \E c \in Callers : pc[c] \in {"upload", "cleanup"} /\ up[c] > 0)
    /\ UNCHANGED <<acct, emails, rows, objects, oks, overlapped>>

IngestStep(c) ==
    \/ GetAccount(c)
    \/ ExistsByUID(c)
    \/ FetchRaw(c)
    \/ Upload(c)
    \/ CreateEmail(c)
    \/ DeleteUploaded(c)
    \/ ReturnAfterCleanup(c)
    \/ CreateAttachment(c)
    \/ ReturnEmail(c)

Next ==
    \/ \E c \in Callers, m \in Messages : Begin(c, m)
    \/ \E c \in Callers : IngestStep(c)
    \/ DeleteAccount
    \/ Crash

Spec == Init /\ [][Next]_vars

------------------------------------------------------------------------------

Labels == {"idle", "account", "exists", "fetch", "upload", "cleanup", "attach"}
Results == {"none", "ok", "exists", "error"}

StoresOK ==
    /\ acct \in BOOLEAN
    /\ emails \subseteq Messages
    /\ rows \subseteq Parts
    /\ objects \in [Keys -> Parts \cup {None}]

StackOK ==
    /\ pc \in [Callers -> Labels]
    /\ msg \in [Callers -> Messages \cup {None}]
    /\ up \in [Callers -> Nat]
    /\ idx \in [Callers -> Nat]
    /\ res \in [Callers -> Results]

HistoryOK ==
    /\ oks \in [Messages -> Nat]
    /\ overlapped \subseteq Messages
    /\ leaked \in BOOLEAN

\* A caller at work has a message, and its loops stay within the attachments.
CallOK(c) ==
    /\ (pc[c] = "idle") <=> (msg[c] = None)
    /\ msg[c] = None => up[c] = 0 /\ idx[c] = 0
    /\ msg[c] # None => up[c] <= Len(Files[msg[c]])
    /\ msg[c] # None => idx[c] <= Len(Files[msg[c]])

\* Type invariant, with the bounds that tie up and idx to the message.
TypeOK == StoresOK /\ StackOK /\ HistoryOK /\ \A c \in Callers : CallOK(c)

\* However many calls race or are retried, IngestEmail returns a message
\* without an error at most once in its life: the coordinator queues webhooks
\* exactly when it does, so a message cannot be announced twice.
OneOkPerMessage == \A m \in Messages : oks[m] <= 1

\* A message returned without an error has all its attachment rows for as long
\* as its account lives, whatever other calls for it do (ingest.go:153-178).
OkIsComplete ==
    \A m \in Messages : acct /\ oks[m] > 0 => m \in emails /\ PartsOf(m) \subseteq rows

\* The cleanup loops keep the bucket clean: an object belongs to a stored
\* email or to a call still at work, unless a fault hid it from the cleanup
\* (ingest.go:102-112, 137-144) or the account was deleted.
NoOrphanObjects ==
    acct /\ ~leaked /\ (\A c \in Callers : pc[c] = "idle") =>
        \A k \in Keys : objects[k] # None =>
            \E m \in emails : \E i \in 1 .. Len(Files[m]) : AttachmentKey(m, i) = k

\* No other attachment, of this or another message, is stored under its key.
UniqueKey(m, i) ==
    \A p \in Parts : AttachmentKey(p[1], p[2]) = AttachmentKey(m, i) => p = <<m, i>>

\* Every attachment row leads to the object it was written for.
RowHasObject(m, i) == objects[AttachmentKey(m, i)] = <<m, i>>

\* Calls for one message that do not overlap never lose an attachment: after
\* any faults and crashes, a row whose key no other attachment shares still
\* leads to its own bytes.
IntactUnlessOverlapped ==
    \A p \in rows : p[1] \notin overlapped /\ UniqueKey(p[1], p[2]) => RowHasObject(p[1], p[2])

------------------------------------------------------------------------------
(* The abstract view: a caller owns its message between the two inserts.     *)

StageOf(c) ==
    CASE pc[c] = "idle" -> "idle"
      [] pc[c] = "attach" -> "owner"
      [] pc[c] = "cleanup" -> (IF res[c] = "exists" THEN "late" ELSE "failed")
      [] OTHER -> "busy"

Store == INSTANCE MailStore WITH
    open <- acct,
    stored <- emails,
    stage <- [c \in Callers |-> StageOf(c)],
    subject <- msg,
    returned <- {m \in Messages : oks[m] > 0}

\* IngestEmail implements MailStore: the S3 bucket and the attachment rows are
\* hidden, every other step is a step of the abstract store or a stutter.
ImplementsMailStore == Store!Spec
==============================================================================
