----------------------------- MODULE Coordinator -----------------------------
(***************************************************************************)
(* internal/sync/coordinator.go for the INBOX of one account: the events of *)
(* the IDLE pool and of the poller, the two goroutines that handle them,    *)
(* the last UID kept in memory, and the webhooks queued for each email      *)
(* ingested.  Beside them run the API's on-demand GetMessage, the mail      *)
(* server, and the deletion of the account.  IngestEmail is the abstract    *)
(* MailStore, which module Ingest implements.                               *)
(***************************************************************************)
EXTENDS Integers

CONSTANTS Handlers,   \* processPoolEvents and processPollerEvents
          Uids,       \* the UIDs the server may give out, from 1
          ApiCalls,   \* concurrent GetMessage requests
          Hooks,      \* webhooks registered for the account
          ChanCap,    \* capacity of each event channel (100 in the code)
          MaxFaults   \* bound: failing calls, Close and restarts of a run

ASSUME CoordinatorAssumption ==
    /\ Handlers \cap ApiCalls = {}
    /\ Uids \subseteq Nat \ {0}
    /\ ChanCap \in Nat \ {0}
    /\ MaxFaults \in Nat

\* IngestEmail is called by the handlers and by the requests of the API.
Callers == Handlers \cup ApiCalls

\* UID 0 is no message; lastUIDs[key] is 0 when the key is absent.
NoUid == 0

VARIABLES open, stored, stage, subject, returned,  \* see MailStore
          mailbox,   \* UIDs in the folder on the IMAP server
          uidNext,   \* the UID the next message gets
          silent,    \* callers whose IMAP server has stopped answering
          sources,   \* the handlers whose source (pool, poller) has the account
          events,    \* events[h]: EventNewMessage events in the channel of h
          lastUID,   \* lastUIDs["account:INBOX"]
          closed,    \* Close has been called, the context is cancelled
          pc,        \* pc[h]: what handleEvent does next in h
          from,      \* from[h]: the last UID h has read, until the search
          todo,      \* todo[h]: newUIDs still to ingest
          done,      \* done[h]: lastSuccessUID
          queued,    \* queued[k][u]: rows of webhook_queue for webhook k, message u
          failed,    \* history: UIDs whose ingestion failed in a handler
          missed,    \* history: UIDs stored by a call that queued nothing
          faults     \* history: faults so far

store == <<open, stored, stage, subject, returned>>
server == <<mailbox, uidNext, silent>>
channels == <<sources, events>>
locals == <<pc, from, todo, done>>
history == <<failed, missed, faults>>
vars == <<store, server, channels, lastUID, closed, locals, queued, history>>

Store == INSTANCE MailStore WITH Messages <- Uids, None <- NoUid

Init ==
    /\ Store!Init
    /\ mailbox \in {{}, {1} \cap Uids}
    /\ uidNext = 2
    /\ silent = {}
    /\ sources = {}
    /\ events = [h \in Handlers |-> 0]
    /\ lastUID = NoUid
    /\ closed = FALSE
    /\ pc = [h \in Handlers |-> "idle"]
    /\ from = [h \in Handlers |-> NoUid]
    /\ todo = [h \in Handlers |-> {}]
    /\ done = [h \in Handlers |-> NoUid]
    /\ queued = [k \in Hooks |-> [u \in Uids |-> 0]]
    /\ failed = {}
    /\ missed = {}
    /\ faults = 0

Fault == faults < MaxFaults /\ faults' = faults + 1

------------------------------------------------------------------------------
(* The mail server and the two sources of events.                            *)

Arrive ==
    /\ uidNext \in Uids
    /\ mailbox' = mailbox \cup {uidNext}
    /\ uidNext' = uidNext + 1
    /\ UNCHANGED <<store, silent, channels, lastUID, closed, locals, queued, history>>

Expunge(u) ==
    /\ u \in mailbox
    /\ mailbox' = mailbox \ {u}
    /\ UNCHANGED <<store, uidNext, silent, channels, lastUID, closed, locals, queued, history>>

\* What a caller may be doing with an open connection to the server: the search,
\* or the download at the start of IngestEmail.
AtServer(c) == stage[c] = "busy" \/ (c \in Handlers /\ pc[c] = "search")

\* The context of a call bounds the dial alone: Login, Select, UID SEARCH and
\* FETCH have no deadline, so a server that falls silent holds the caller until
\* the connection breaks, and neither Close nor a deletion helps.
FallSilent(c) ==
    /\ AtServer(c)
    /\ Fault
    /\ silent' = silent \cup {c}
    /\ UNCHANGED <<store, mailbox, uidNext, channels, lastUID, closed, locals, queued,
                   failed, missed>>

\* A plausible bug: the channel is not bounded.
EmitUnbounded(h) ==
    /\ h \in sources
    /\ events[h] <= ChanCap
    /\ events' = [events EXCEPT ![h] = @ + 1]
    /\ UNCHANGED <<store, server, sources, lastUID, closed, locals, queued, history>>

\* IdlePool.forwardEvents and Poller.emitEvent send without blocking: an event
\* is emitted for any reason they see, and dropped when the channel is full.
Emit(h) ==
    /\ h \in sources
    /\ events[h] < ChanCap
    /\ events' = [events EXCEPT ![h] = @ + 1]
    /\ UNCHANGED <<store, server, sources, lastUID, closed, locals, queued, history>>

\* AddAccount: the pool when HasIdleCapability says so, else the poller; each
\* refuses an account it has, not one that the other has.
AddAccount(h) ==
    /\ ~closed
    /\ open
    /\ h \notin sources
    /\ sources' = sources \cup {h}
    /\ UNCHANGED <<store, server, events, lastUID, closed, locals, queued, history>>

\* RemoveAccount, in two halves: the pool and the poller let go of the account,
\* then the last UID is forgotten, also when neither had it.  Events already in
\* a channel, and handlers at work, are not touched.
RemoveSource(h) ==
    /\ h \in sources
    /\ sources' = sources \ {h}
    /\ UNCHANGED <<store, server, events, lastUID, closed, locals, queued, history>>

ForgetLastUID ==
    /\ lastUID' = NoUid
    /\ UNCHANGED <<store, server, channels, closed, locals, queued, history>>

------------------------------------------------------------------------------
(* handleEvent.                                                              *)

\* Calls of a handler are made on the coordinator's context.
Cancelled(c) == c \in Handlers /\ closed

LocalsExceptPc == UNCHANGED <<from, todo, done>>
Jump(h, l) == pc' = [pc EXCEPT ![h] = l]

\* handleEvent returns, and its variables are gone.
Finish(h) ==
    /\ pc' = [pc EXCEPT ![h] = "idle"]
    /\ from' = [from EXCEPT ![h] = NoUid]
    /\ todo' = [todo EXCEPT ![h] = {}]
    /\ done' = [done EXCEPT ![h] = NoUid]

\* processPoolEvents, processPollerEvents: a select between ctx.Done and the
\* channel takes either when both are ready.
Receive(h) ==
    /\ pc[h] = "idle"
    /\ events[h] > 0
    /\ events' = [events EXCEPT ![h] = @ - 1]
    /\ Jump(h, "account")
    /\ LocalsExceptPc
    /\ UNCHANGED <<store, server, sources, lastUID, closed, queued, history>>

\* accountRepo.Get, then the last UID is read under the lock.
GetAccount(h) ==
    /\ pc[h] = "account"
    /\ \/ /\ open /\ ~closed
          /\ from' = [from EXCEPT ![h] = lastUID]
          /\ Jump(h, "search")
          /\ UNCHANGED <<todo, done, faults>>
       \/ (~open \/ closed) /\ Finish(h) /\ UNCHANGED faults
       \/ Fault /\ Finish(h)
    /\ UNCHANGED <<store, server, channels, lastUID, closed, queued, failed, missed>>

\* A plausible bug: one UID too many is left out.
AboveNext(u) == {v \in mailbox : v > u + 1}

Above(u) == {v \in mailbox : v > u}
Highest == {v \in mailbox : \A w \in mailbox : w <= v}

\* UID SEARCH UID u+1:*.  The range n:* always has the highest UID in it, even
\* when that is below n (RFC 3501, 6.4.8); u = 0 asks for all messages.
FetchUIDsAfter(u) == Above(u) \cup Highest

SearchUIDs(h) ==
    /\ pc[h] = "search"
    /\ \/ /\ h \notin silent /\ ~closed
          /\ mailbox # {}
          /\ todo' = [todo EXCEPT ![h] = FetchUIDsAfter(from[h])]
          /\ from' = [from EXCEPT ![h] = NoUid]
          /\ Jump(h, "loop")
          /\ UNCHANGED <<done, faults>>
       \/ h \notin silent /\ (closed \/ mailbox = {}) /\ Finish(h) /\ UNCHANGED faults
       \/ h \notin silent /\ Fault /\ Finish(h)
       \/ h \in silent /\ Finish(h) /\ UNCHANGED faults
    /\ silent' = silent \ {h}
    /\ UNCHANGED <<store, mailbox, uidNext, channels, lastUID, closed, queued, failed, missed>>

\* The next UID in ascending order; a cancelled context ends the handler, and
\* what it has ingested is not added to the last UID.
NextUID(h) ==
    /\ pc[h] = "loop"
    /\ \/ /\ ~closed
          /\ \E u \in todo[h] :
                /\ \A v \in todo[h] : u <= v
                /\ todo' = [todo EXCEPT ![h] = @ \ {u}]
                /\ Store!Begin(h, u)
          /\ Jump(h, "ingest")
          /\ UNCHANGED <<from, done>>
       \/ closed /\ todo[h] # {} /\ Finish(h) /\ UNCHANGED store
    /\ UNCHANGED <<server, channels, lastUID, closed, queued, history>>

\* Plausible bugs: the event handler runs for an email that was there before,
\* or does not run for a new one.
AnnounceExisting(h) == Jump(h, "handler")
SkipHandler(h) == Jump(h, "loop")

AfterOk(h) == Jump(h, "handler")
AfterExists(h) == Jump(h, "loop")

\* IngestEmail returned the email: the UID counts, and the event handler runs.
IngestedOk(h) ==
    /\ pc[h] = "ingest"
    /\ done' = [done EXCEPT ![h] = subject[h]]
    /\ Store!ReturnOk(h)
    /\ AfterOk(h)
    /\ UNCHANGED <<server, channels, lastUID, closed, from, todo, queued, history>>

\* ErrEmailAlreadyExists: the UID counts, no event handler.
IngestedBefore(h) ==
    /\ pc[h] = "ingest"
    /\ h \notin silent
    /\ done' = [done EXCEPT ![h] = subject[h]]
    /\ Store!ReturnExists(h)
    /\ AfterExists(h)
    /\ UNCHANGED <<server, channels, lastUID, closed, from, todo, queued, history>>

\* A call fails by itself when its context is cancelled, its account deleted, its
\* message expunged or a silent connection breaks; otherwise by a fault.
EmailFails(c) ==
    /\ Store!ReturnError(c)
    /\ \/ stage[c] = "failed" /\ UNCHANGED faults
       \/ /\ stage[c] = "busy"
          /\ Cancelled(c) \/ ~open \/ subject[c] \notin mailbox \/ c \in silent
          /\ UNCHANGED faults
       \/ stage[c] = "busy" /\ Fault
    /\ silent' = silent \ {c}

\* Any other error: lastSuccessUID stays, and the loop goes on to the next UID.
IngestFailed(h) ==
    /\ pc[h] = "ingest"
    /\ EmailFails(h)
    /\ failed' = failed \cup {subject[h]}
    /\ Jump(h, "loop")
    /\ LocalsExceptPc
    /\ UNCHANGED <<mailbox, uidNext, channels, lastUID, closed, queued, missed>>

\* The email is stored, an attachment row is not: an error all the same.
AttachmentsFailed(h) ==
    /\ pc[h] = "ingest"
    /\ stage[h] = "owner"
    /\ Store!ReturnError(h)
    /\ failed' = failed \cup {subject[h]}
    /\ missed' = missed \cup {subject[h]}
    /\ \/ (closed \/ ~open) /\ UNCHANGED faults
       \/ Fault
    /\ Jump(h, "loop")
    /\ LocalsExceptPc
    /\ UNCHANGED <<server, channels, lastUID, closed, queued>>

\* safeCallEventHandler runs Producer.QueueForEmail: one row per webhook, those
\* in S fail; under a cancelled context every insert fails; after the account
\* is deleted there is no webhook, and no email to refer to.
QueueForEmail(h) ==
    /\ pc[h] = "handler"
    /\ \E S \in SUBSET Hooks :
          /\ S = (IF closed \/ ~open THEN Hooks ELSE S)
          /\ IF S = {} \/ closed \/ ~open THEN UNCHANGED faults ELSE Fault
          /\ queued' = [k \in Hooks |-> IF k \in S THEN queued[k]
                                        ELSE [queued[k] EXCEPT ![done[h]] = @ + 1]]
          /\ missed' = IF S = {} THEN missed ELSE missed \cup {done[h]}
    /\ Jump(h, "loop")
    /\ LocalsExceptPc
    /\ UNCHANGED <<store, server, channels, lastUID, closed, failed>>

\* A plausible bug: the last UID is set without the comparison.
SetLastUID(h) == done[h]

\* Under the lock the maximum is taken: another handler may have been quicker.
MaxLastUID(h) == IF done[h] > lastUID THEN done[h] ELSE lastUID

UpdateLastUID(h) ==
    /\ pc[h] = "loop"
    /\ todo[h] = {}
    /\ lastUID' = MaxLastUID(h)
    /\ Finish(h)
    /\ UNCHANGED <<store, server, channels, closed, queued, history>>

------------------------------------------------------------------------------
(* IngestEmail at work, in a handler or in a request.                        *)

StoreEmail(c) ==
    /\ ~Cancelled(c) /\ c \notin silent
    /\ Store!Store(c)
    /\ UNCHANGED <<server, channels, lastUID, closed, locals, queued, history>>

StoreUnseen(c) ==
    /\ ~Cancelled(c) /\ c \notin silent
    /\ Store!StoreUnseen(c)
    /\ Fault
    /\ missed' = missed \cup {subject[c]}
    /\ UNCHANGED <<server, channels, lastUID, closed, locals, queued, failed>>

------------------------------------------------------------------------------
(* The API.                                                                  *)

\* GetMessage for a message that is not in the database ingests it.
GetMessage(c, u) ==
    /\ open
    /\ u \in mailbox \ stored
    /\ Store!Begin(c, u)
    /\ UNCHANGED <<server, channels, lastUID, closed, locals, queued, history>>

\* It answers the request; no webhook is queued for what it has stored.
AnswerRequest(c) ==
    /\ missed' = IF stage[c] = "owner" THEN missed \cup {subject[c]} ELSE missed
    /\ \/ /\ Store!ReturnOk(c) \/ Store!ReturnExists(c)
          /\ c \notin silent
          /\ UNCHANGED <<silent, faults>>
       \/ EmailFails(c)
    /\ UNCHANGED <<mailbox, uidNext, channels, lastUID, closed, locals, queued, failed>>

\* DELETE /accounts/{id} goes to the database alone: the coordinator is not
\* told and keeps the account.  The queue's rows go by cascade.
DeleteAccount ==
    /\ Store!CloseAccount
    /\ queued' = [k \in Hooks |-> [u \in Uids |-> 0]]
    /\ UNCHANGED <<server, channels, lastUID, closed, locals, history>>

------------------------------------------------------------------------------

\* Close: the context is cancelled, pool and poller are closed, and Close waits
\* for the handlers.
Close ==
    /\ ~closed
    /\ Fault
    /\ closed' = TRUE
    /\ sources' = {}
    /\ UNCHANGED <<store, server, events, lastUID, locals, queued, failed, missed>>

\* What callers were between storing an email and queueing its webhooks.
InFlight ==
    {subject[c] : c \in {d \in Callers : stage[d] = "owner"}}
        \cup {done[h] : h \in {g \in Handlers : pc[g] = "handler"}}

\* The process ends, by a crash or after Close, and starts again: the database
\* and the mail server are as they were, everything else is new.
Restart ==
    /\ \/ closed /\ (\A h \in Handlers : pc[h] = "idle") /\ UNCHANGED faults
       \/ Fault
    /\ Store!Crash
    /\ silent' = {}
    /\ sources' = {}
    /\ events' = [h \in Handlers |-> 0]
    /\ lastUID' = NoUid
    /\ closed' = FALSE
    /\ pc' = [h \in Handlers |-> "idle"]
    /\ from' = [h \in Handlers |-> NoUid]
    /\ todo' = [h \in Handlers |-> {}]
    /\ done' = [h \in Handlers |-> NoUid]
    /\ missed' = missed \cup InFlight
    /\ UNCHANGED <<mailbox, uidNext, queued, failed>>

HandlerStep(h) ==
    \/ Receive(h) \/ GetAccount(h) \/ SearchUIDs(h) \/ NextUID(h)
    \/ IngestedOk(h) \/ IngestedBefore(h) \/ IngestFailed(h) \/ AttachmentsFailed(h)
    \/ QueueForEmail(h) \/ UpdateLastUID(h)

IngestStep(c) == StoreEmail(c) \/ StoreUnseen(c)

Next ==
    \/ Arrive
    \/ \E u \in Uids : Expunge(u)
    \/ \E h \in Handlers : Emit(h) \/ AddAccount(h) \/ RemoveSource(h) \/ HandlerStep(h)
    \/ ForgetLastUID
    \/ \E c \in Callers : FallSilent(c) \/ IngestStep(c)
    \/ \E c \in ApiCalls : AnswerRequest(c) \/ \E u \in Uids : GetMessage(c, u)
    \/ DeleteAccount
    \/ Close
    \/ Restart

Spec == Init /\ [][Next]_vars

\* The two handler goroutines run, and the calls they make return, unless they
\* wait for a server that has fallen silent.
Fairness == \A h \in Handlers : WF_vars(h \notin silent /\ (HandlerStep(h) \/ IngestStep(h)))

FairSpec == Spec /\ Fairness

------------------------------------------------------------------------------

Labels == {"idle", "account", "search", "loop", "ingest", "handler"}
Stages == {"idle", "busy", "owner", "failed"}

TypeOK ==
    /\ open \in BOOLEAN
    /\ stored \subseteq Uids
    /\ stage \in [Callers -> Stages]
    /\ subject \in [Callers -> Uids \cup {NoUid}]
    /\ returned \subseteq Uids
    /\ mailbox \subseteq Uids
    /\ uidNext \in Nat
    /\ silent \subseteq {c \in Callers : AtServer(c)}
    /\ sources \subseteq Handlers
    /\ events \in [Handlers -> 0 .. ChanCap]
    /\ lastUID \in Uids \cup {NoUid}
    /\ closed \in BOOLEAN
    /\ pc \in [Handlers -> Labels]
    /\ from \in [Handlers -> Uids \cup {NoUid}]
    /\ todo \in [Handlers -> SUBSET Uids]
    /\ done \in [Handlers -> Uids \cup {NoUid}]
    /\ queued \in [Hooks -> [Uids -> Nat]]
    /\ failed \subseteq Uids
    /\ missed \subseteq Uids
    /\ faults \in 0 .. MaxFaults
    /\ \A h \in Handlers : (pc[h] = "ingest") <=> (stage[h] # "idle")

\* However many events, handlers, requests and restarts race, no webhook is
\* queued twice for one email (coordinator.go:342-375).
QueuedAtMostOnce == \A k \in Hooks, u \in Uids : queued[k][u] <= 1

\* The last UID passes over a message only after a handler tried to ingest it
\* and failed: arrivals during the search, stale reads of the last UID and the
\* other handler's updates never make it skip one (coordinator.go:282-385).
SkippedOnlyAfterFailure ==
    open => \A u \in mailbox : u <= lastUID => u \in stored \cup failed

\* coordinator.go:352, "Don't advance lastUID on failure - will retry next
\* time": no message on the server that is not stored is passed over.
FailuresAreRetried == open => \A u \in mailbox : u <= lastUID => u \in stored

\* Short of being forgotten (RemoveAccount, restart) the last UID only grows,
\* although two handlers write it and the search may return an old UID again
\* (coordinator.go:379-385).
LastUIDNeverFalls == [][lastUID' >= lastUID \/ lastUID' = NoUid]_vars

\* An email without its webhook rows was stored by a request of the API, or its
\* handler failed or died half-way: there is no other way to lose one.
UnqueuedOnlyIfMissed ==
    open => \A u \in stored, k \in Hooks :
                queued[k][u] = 0 => u \in missed \cup InFlight

\* With no fault (a failing call, a server that falls silent, Close, a crash), a
\* message in the mailbox when an event waits for a handler is stored, unless it
\* is expunged or the account deleted meanwhile.
EventsLeadToStorage ==
    \A u \in Uids, h \in Handlers :
        u \in mailbox /\ events[h] > 0
            ~> u \in stored \/ u \notin mailbox \/ ~open \/ faults > 0
==============================================================================
