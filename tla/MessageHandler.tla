---------------------------- MODULE MessageHandler ----------------------------
(***************************************************************************)
(* internal/api/message_handler.go: GET and POST of messages, one account.  *)
(* Each request is a goroutine of its own, which reads tables emails and    *)
(* attachments and, for a message that is not there, calls IngestEmail.     *)
(* That call is module Ingest, which this one extends, with the requests as *)
(* its callers, step by step, so that a request may read what another one   *)
(* is still storing.                                                        *)
(***************************************************************************)
EXTENDS Ingest

\* Every request may call IngestEmail.
Requests == Callers

CONSTANT SendFaults  \* "smtp": a mail is not sent; "smtpLost": it is, and its
                     \* request sees an error; "s3Get": a download fails

ASSUME MessageHandlerAssumption ==
    /\ SendFaults \subseteq {"smtp", "smtpLost", "s3Get"}
    /\ None \notin Requests

VARIABLES step,     \* step[r]: what the handler of r does next
          kind,     \* kind[r]: what r asks for, one of Kinds, or None
          about,    \* about[r]: the message r names, or None
          atts,     \* atts[r]: attachments of the email r has, as far as read
          todo,     \* todo[r]: those still to download
          got,      \* got[r]: those downloaded
          sent,     \* requests whose mail the SMTP server has accepted
          sentRow,  \* the request whose mail table emails has in folder "Sent"
                    \* under UID 0, or None
          why,      \* history: why[r]: what kept r from reading all rows
          informed  \* history: requests made after an answer with all
                    \* attachments of their message

call == <<stack, history>>
stores == <<acct, emails, rows, objects>>
asked == <<kind, about, informed>>
mail == <<sent, sentRow>>
handlerVars == <<stores, call, step, asked, atts, todo, got, mail, why>>

\* A new mail, an answer, which quotes the original, or a forward with
\* include_attachments.  A forward without them is like an answer.
Kinds == {"get", "send", "reply", "forward"}

\* The kinds whose answer or mail is to have the attachments of the message.
WantsAll(r) == kind[r] \in {"get", "forward"}

Carried(r) == IF kind[r] = "forward" THEN got[r] ELSE atts[r]
Whole(r) == Carried(r) = PartsOf(about[r])

Over == {"idle", "answered", "refused", "lost"}

HandlerInit ==
    /\ Init
    /\ step = [r \in Requests |-> "idle"]
    /\ kind = [r \in Requests |-> None]
    /\ about = [r \in Requests |-> None]
    /\ atts = [r \in Requests |-> {}]
    /\ todo = [r \in Requests |-> {}]
    /\ got = [r \in Requests |-> {}]
    /\ sent = {}
    /\ sentRow = None
    /\ why = [r \in Requests |-> "none"]
    /\ informed = {}

Proceed(r, s) == step' = [step EXCEPT ![r] = s]

\* writeError: the request ends with a status of 4xx or 5xx.
Refuse(r) == Proceed(r, "refused") /\ UNCHANGED <<atts, todo, why>>

------------------------------------------------------------------------------
(* The original: GetMessage, getOriginalEmail.                               *)

Receive(r, k, m) ==
    /\ step[r] = "idle"
    /\ Proceed(r, "account")
    /\ kind' = [kind EXCEPT ![r] = k]
    /\ about' = [about EXCEPT ![r] = IF k = "send" THEN None ELSE m]
    /\ informed' = IF \E q \in Requests : /\ step[q] = "answered"
                                          /\ WantsAll(q)
                                          /\ about[q] = about'[r]
                                          /\ Whole(q)
                   THEN informed \cup {r} ELSE informed
    /\ UNCHANGED <<stores, call, atts, todo, got, mail, why>>

CheckAccount(r) ==
    /\ step[r] = "account"
    /\ \/ /\ acct
          /\ Proceed(r, IF kind[r] = "send" THEN "compose" ELSE "lookup")
          /\ UNCHANGED <<atts, todo, why>>
       \/ /\ ~acct \/ "db" \in Faults
          /\ Refuse(r)
    /\ UNCHANGED <<stores, call, asked, got, mail>>

\* The email is in hand with the attachments A: a GET is answered, a forward
\* goes on to download them.  Presigned URLs are made without a request to S3.
HaveEmail(r, A) ==
    /\ atts' = [atts EXCEPT ![r] = A]
    /\ todo' = [todo EXCEPT ![r] = IF kind[r] = "forward" THEN A ELSE {}]
    /\ Proceed(r, IF kind[r] = "get" THEN "answered" ELSE "compose")

\* A plausible bug: the message is fetched without a look at the database.
AlwaysMissing(r) == TRUE

Missing(r) == about[r] \notin emails

\* emailRepo.GetByUID; without a row IngestEmail is called.
Lookup(r) ==
    /\ step[r] = "lookup"
    /\ \/ /\ ~Missing(r)
          /\ Proceed(r, "attachments")
          /\ UNCHANGED <<stores, call, atts, todo, why>>
       \/ /\ Missing(r)
          /\ Begin(r, about[r])
          /\ Proceed(r, "ingest")
          /\ UNCHANGED <<atts, todo, why>>
       \/ "db" \in Faults /\ Refuse(r) /\ UNCHANGED <<stores, call>>
    /\ UNCHANGED <<asked, got, mail>>

IngestGoesOn(r) ==
    /\ step[r] = "ingest"
    /\ IngestStep(r)
    /\ pc'[r] # "idle"
    /\ UNCHANGED <<step, asked, atts, todo, got, mail, why>>

\* IngestEmail returns the email with all its attachments, or that another
\* call was first, or an error.
IngestReturns(r) ==
    /\ step[r] = "ingest"
    /\ IngestStep(r)
    /\ pc'[r] = "idle"
    /\ \/ res'[r] = "ok" /\ HaveEmail(r, PartsOf(about[r])) /\ UNCHANGED why
       \/ res'[r] = "exists" /\ Proceed(r, "reread") /\ UNCHANGED <<atts, todo, why>>
       \/ res'[r] = "error" /\ Refuse(r)
    /\ UNCHANGED <<asked, got, mail>>

\* After a lost race the row is read again.  GetMessage goes on to read the
\* attachments; getOriginalEmail returns the email as it is, without any.
Reread(r) ==
    /\ step[r] = "reread"
    /\ \/ /\ about[r] \in emails
          /\ kind[r] = "get"
          /\ Proceed(r, "attachments")
          /\ UNCHANGED <<atts, todo, why>>
       \/ /\ about[r] \in emails
          /\ kind[r] # "get"
          /\ HaveEmail(r, {})
          /\ why' = [why EXCEPT ![r] = "raced"]
       \/ /\ about[r] \notin emails \/ "db" \in Faults
          /\ Refuse(r)
    /\ UNCHANGED <<stores, call, asked, got, mail>>

Storing(m) == \E c \in Requests : pc[c] = "attach" /\ msg[c] = m

RowsOf(m) == {p \in rows : p[1] = m}

\* attachmentRepo.GetByEmailID.  A failure ends a GET; getOriginalEmail logs it
\* and returns the email without attachments.
LoadAttachments(r) ==
    /\ step[r] = "attachments"
    /\ \/ /\ HaveEmail(r, RowsOf(about[r]))
          /\ why' = [why EXCEPT ![r] = IF Storing(about[r]) THEN "early" ELSE @]
       \/ /\ "db" \in Faults
          /\ kind[r] = "get"
          /\ Refuse(r)
       \/ /\ "db" \in Faults
          /\ kind[r] # "get"
          /\ HaveEmail(r, {})
          /\ why' = [why EXCEPT ![r] = "unread"]
    /\ UNCHANGED <<stores, call, asked, got, mail>>

------------------------------------------------------------------------------
(* SendMessage, with the original in hand.                                   *)

\* fetchOriginalAttachments: the rows come in no order; what cannot be
\* downloaded is left out, and the rest is tried all the same.
Download(r) ==
    /\ step[r] = "compose"
    /\ \E p \in todo[r] :
          /\ todo' = [todo EXCEPT ![r] = @ \ {p}]
          /\ \/ /\ objects[AttachmentKey(p[1], p[2])] # None
                /\ got' = [got EXCEPT ![r] = @ \cup {p}]
             \/ /\ objects[AttachmentKey(p[1], p[2])] = None \/ "s3Get" \in SendFaults
                /\ UNCHANGED got
    /\ UNCHANGED <<stores, call, step, asked, atts, mail, why>>

\* Plausible bugs: a forward with some of its attachments missing is sent, the
\* mail is stored before it is sent.
AnyDownloaded(r) == TRUE
StoreFirst == "store"

AllDownloaded(r) == kind[r] = "forward" => got[r] = atts[r]
AfterBuild == "smtp"

\* The mail is built; its addresses may be found invalid.
Compose(r) ==
    /\ step[r] = "compose"
    /\ todo[r] = {}
    /\ \/ AllDownloaded(r) /\ Proceed(r, AfterBuild) /\ UNCHANGED <<atts, todo, why>>
       \/ Refuse(r)
    /\ UNCHANGED <<stores, call, asked, got, mail>>

SendEmail(r) ==
    /\ step[r] = "smtp"
    /\ \/ sent' = sent \cup {r} /\ Proceed(r, "store") /\ UNCHANGED <<atts, todo, why>>
       \/ "smtpLost" \in SendFaults /\ sent' = sent \cup {r} /\ Refuse(r)
       \/ "smtp" \in SendFaults /\ Refuse(r) /\ UNCHANGED sent
    /\ UNCHANGED <<stores, call, asked, got, sentRow>>

\* Every sent mail has UID 0 in folder "Sent", so that the unique constraint
\* lets one of them in; whatever happens the request is answered with success.
SentInsertable == acct /\ sentRow = None

StoreSentEmail(r) ==
    /\ step[r] = "store"
    /\ Proceed(r, "answered")
    /\ \/ SentInsertable /\ sentRow' = r
       \/ /\ ~SentInsertable \/ "db" \in Faults
          /\ UNCHANGED sentRow
    /\ UNCHANGED <<stores, call, asked, atts, todo, got, sent, why>>

------------------------------------------------------------------------------

RemoveAccount ==
    /\ DeleteAccount
    /\ sentRow' = None
    /\ UNCHANGED <<step, asked, atts, todo, got, sent, why>>

\* The process dies: every request at work is lost.
CrashHandlers ==
    /\ "crash" \in Faults
    /\ \E r \in Requests : step[r] \notin Over
    /\ \/ Crash
       \/ (\A r \in Requests : pc[r] = "idle") /\ UNCHANGED <<stores, call>>
    /\ step' = [r \in Requests |-> IF step[r] \in Over THEN step[r] ELSE "lost"]
    /\ UNCHANGED <<asked, atts, todo, got, mail, why>>

Handle(r) ==
    \/ CheckAccount(r) \/ Lookup(r) \/ IngestGoesOn(r) \/ IngestReturns(r) \/ Reread(r)
    \/ LoadAttachments(r) \/ Download(r) \/ Compose(r) \/ SendEmail(r) \/ StoreSentEmail(r)

HandlerNext ==
    \/ \E r \in Requests, k \in Kinds, m \in Messages : Receive(r, k, m)
    \/ \E r \in Requests : Handle(r)
    \/ RemoveAccount
    \/ CrashHandlers

HandlerSpec == HandlerInit /\ [][HandlerNext]_handlerVars

------------------------------------------------------------------------------

Steps == {"account", "lookup", "ingest", "reread", "attachments", "compose", "smtp", "store"}

\* Type invariant; the mail in folder "Sent" is one that was sent.
HandlerTypeOK ==
    /\ TypeOK
    /\ step \in [Requests -> Steps \cup Over]
    /\ kind \in [Requests -> Kinds \cup {None}]
    /\ about \in [Requests -> Messages \cup {None}]
    /\ {atts, todo, got} \subseteq [Requests -> SUBSET Parts]
    /\ \A r \in Requests :
          /\ atts[r] \subseteq (IF about[r] = None THEN {} ELSE PartsOf(about[r]))
          /\ todo[r] \subseteq atts[r]
          /\ got[r] \subseteq atts[r]
          /\ (pc[r] # "idle") <=> (step[r] = "ingest")
    /\ sent \subseteq Requests
    /\ sentRow \in sent \cup {None}
    /\ why \in [Requests -> {"none", "early", "raced", "unread"}]
    /\ informed \subseteq Requests

\* The rows of m are incomplete and no call will add to them (ingest.go:165).
Torn(m) == m \in emails /\ ~(PartsOf(m) \subseteq rows) /\ ~Storing(m)

\* A GET is answered, and a forward sent, without some attachment only if the
\* message's own ingestion died half-way, or its rows were read before they were
\* all stored, or (forwards only) they were not read at all: after a lost race or
\* a failing query (message_handler.go:239-375, 798-889).
OmissionsExplained ==
    acct => \A r \in Requests :
        step[r] \in {"answered", "store"} /\ WantsAll(r) /\ ~Whole(r) =>
            \/ Torn(about[r])
            \/ why[r] = "early"
            \/ kind[r] = "forward" /\ why[r] \in {"raced", "unread"}

\* Once a request has been answered with all attachments of a message, those
\* made afterwards for it have them all too, for as long as the account lives
\* and their own queries work, and never fetch the message again.
WholeStaysWhole ==
    acct => \A r \in informed :
        /\ pc[r] = "idle"
        /\ step[r] = "answered" /\ WantsAll(r) /\ why[r] # "unread" => Whole(r)
==============================================================================
