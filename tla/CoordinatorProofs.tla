-------------------------- MODULE CoordinatorProofs --------------------------
(***************************************************************************)
(* Proofs about Coordinator, for any handlers and requests, any UIDs,       *)
(* webhooks, channel capacity and number of faults.                         *)
(***************************************************************************)
EXTENDS Coordinator, TLAPS

\* A call that is at work is about a message, and so is a handler that queues.
SubjectIsUid == \A c \in Callers : stage[c] # "idle" => subject[c] \in Uids
AnnouncedIsUid == \A h \in Handlers : pc[h] = "handler" => done[h] \in Uids

TypeInv == TypeOK /\ SubjectIsUid /\ AnnouncedIsUid

\* The webhooks of u are in the hands of c: it has stored the email and not
\* returned, or it is about to queue them.
Announces(c, u) ==
    \/ stage[c] = "owner" /\ subject[c] = u
    \/ c \in Handlers /\ pc[c] = "handler" /\ done[c] = u

OneAnnouncer ==
    \A c, d \in Callers, u \in Uids : Announces(c, u) /\ Announces(d, u) => c = d

AnnouncedIsNotQueued ==
    \A c \in Callers, u \in Uids : Announces(c, u) => \A k \in Hooks : queued[k][u] = 0

\* A message that is not stored has no rows, and is in nobody's hands.
AbsentIsUntouched ==
    open => \A u \in Uids \ stored :
                /\ \A k \in Hooks : queued[k][u] = 0
                /\ \A c \in Callers : ~Announces(c, u)

OnceInv == OneAnnouncer /\ AnnouncedIsNotQueued /\ AbsentIsUntouched /\ QueuedAtMostOnce

\* Every message up to n has been stored, or its ingestion has failed.
Settled(u) == u \in stored \cup failed
SettledUpTo(n) == \A u \in mailbox : u <= n => Settled(u)

\* Ahead of a handler there is no message it does not have on its list.
TodoIsNext(h) ==
    \A u \in mailbox, w \in todo[h] :
        u <= w => \/ Settled(u)
                  \/ u \in todo[h]
                  \/ pc[h] = "ingest" /\ u = subject[h]

SubjectIsNext(h) ==
    pc[h] = "ingest" =>
        \A u \in mailbox : u <= subject[h] => Settled(u) \/ u = subject[h]

\* What a handler has read, and what it will write, passes nothing over.
PassesNothing(h) ==
    /\ SettledUpTo(from[h]) /\ SettledUpTo(done[h])
    /\ TodoIsNext(h) /\ SubjectIsNext(h)

\* A message that arrives is above everything a handler has seen.
SeenBelow(h, n) ==
    /\ from[h] < n /\ done[h] < n
    /\ \A w \in todo[h] : w < n
    /\ pc[h] = "ingest" => subject[h] < n

SkipInv ==
    /\ \A h \in Handlers : SeenBelow(h, uidNext)
    /\ \A u \in mailbox : u < uidNext
    /\ lastUID < uidNext
    /\ open => \A h \in Handlers : PassesNothing(h)
    /\ SkippedOnlyAfterFailure

\* The inductive invariant is TypeInv with OnceInv and SkipInv; each of the two
\* has its own theorem, as has UnqueuedOnlyIfMissed, which is inductive with
\* TypeInv.

------------------------------------------------------------------------------
(* Type correctness.                                                         *)

\* Handlers and calls as they are when the process starts.
NothingInHand ==
    /\ stage = [c \in Callers |-> "idle"] /\ subject = [c \in Callers |-> NoUid]
    /\ pc = [h \in Handlers |-> "idle"]
    /\ from = [h \in Handlers |-> NoUid] /\ done = [h \in Handlers |-> NoUid]
    /\ todo = [h \in Handlers |-> {}]

\* What TypeInv says of them.
HandsTyped ==
    /\ stage \in [Callers -> Stages]
    /\ subject \in [Callers -> Uids \cup {NoUid}]
    /\ pc \in [Handlers -> Labels]
    /\ from \in [Handlers -> Uids \cup {NoUid}]
    /\ done \in [Handlers -> Uids \cup {NoUid}]
    /\ todo \in [Handlers -> SUBSET Uids]
    /\ \A h \in Handlers : (pc[h] = "ingest") <=> (stage[h] # "idle")
    /\ SubjectIsUid /\ AnnouncedIsUid

\* They are well typed.
LEMMA IdleTyped == NothingInHand => HandsTyped
<1>1. \A h \in Handlers : h \in Callers
  BY DEF Callers
<1> QED
  BY <1>1 DEF NothingInHand, HandsTyped, SubjectIsUid, AnnouncedIsUid, Labels, Stages

\* The initial states are well typed.
LEMMA TypeInit == Init => TypeInv
<1> SUFFICES ASSUME Init
             PROVE  TypeInv
  OBVIOUS
<1>1. 0 \in 0..ChanCap /\ 0 \in 0..MaxFaults
  BY CoordinatorAssumption
<1>2. NothingInHand
  BY DEF Init, Store!Init, NothingInHand
<1>3. queued \in [Hooks -> [Uids -> Nat]]
  BY DEF Init
<1>4. events \in [Handlers -> 0..ChanCap]
  BY <1>1 DEF Init
<1> QED
  BY <1>1, <1>2, <1>3, <1>4, IdleTyped
  DEF Init, Store!Init, HandsTyped, TypeInv, TypeOK

\* A handler that returns has forgotten what it had.
LEMMA FinishTyped ==
    ASSUME TypeInv, NEW h \in Handlers, Finish(h), stage[h] = "idle",
           UNCHANGED <<stage, subject>>
    PROVE  /\ pc' \in [Handlers -> Labels]
           /\ from' \in [Handlers -> Uids \cup {NoUid}]
           /\ todo' \in [Handlers -> SUBSET Uids]
           /\ done' \in [Handlers -> Uids \cup {NoUid}]
           /\ \A g \in Handlers : (pc'[g] = "ingest") <=> (stage'[g] # "idle")
           /\ AnnouncedIsUid'
BY DEF TypeInv, TypeOK, AnnouncedIsUid, Finish, Labels

\* A fault is counted up to the bound.
LEMMA FaultTyped ==
    ASSUME TypeOK, Fault \/ UNCHANGED faults
    PROVE  faults' \in 0..MaxFaults
BY CoordinatorAssumption DEF TypeOK, Fault

\* A step of one caller, which no silent server holds when it is over, leaves
\* those that are held where they are.
LEMMA SilentTyped ==
    ASSUME TypeInv, NEW c \in Callers, silent' \subseteq silent, c \notin silent',
           \A d \in Callers \ {c} : /\ stage'[d] = stage[d]
                                    /\ d \in Handlers => pc'[d] = pc[d]
    PROVE  silent' \subseteq {d \in Callers : AtServer(d)'}
BY DEF TypeInv, TypeOK, AtServer

\* The mail server, the sources of events and the accounts.
LEMMA OutsideTyped ==
    ASSUME TypeInv,
           \/ Arrive \/ ForgetLastUID \/ DeleteAccount \/ Close
           \/ \E u \in Uids : Expunge(u)
           \/ \E h \in Handlers : Emit(h) \/ AddAccount(h) \/ RemoveSource(h)
           \/ \E c \in Callers : FallSilent(c)
    PROVE  TypeInv'
<1> USE DEF TypeInv, TypeOK, SubjectIsUid, AnnouncedIsUid, store, server, channels, locals,
            history, AtServer
<1>1. CASE Arrive
  BY <1>1 DEF Arrive
<1>2. CASE ForgetLastUID
  BY <1>2 DEF ForgetLastUID
<1>3. CASE DeleteAccount
  BY <1>3 DEF DeleteAccount, Store!CloseAccount
<1>4. CASE Close
  BY <1>4, FaultTyped DEF Close
<1>5. ASSUME NEW u \in Uids, Expunge(u)
      PROVE  TypeInv'
  BY <1>5 DEF Expunge
<1>6. ASSUME NEW h \in Handlers, Emit(h)
      PROVE  TypeInv'
  <2>1. events' \in [Handlers -> 0..ChanCap]
    BY <1>6, CoordinatorAssumption DEF Emit
  <2> QED
    BY <1>6, <2>1 DEF Emit
<1>7. ASSUME NEW h \in Handlers, AddAccount(h) \/ RemoveSource(h)
      PROVE  TypeInv'
  BY <1>7 DEF AddAccount, RemoveSource
<1>8. ASSUME NEW c \in Callers, FallSilent(c)
      PROVE  TypeInv'
  BY <1>8, FaultTyped DEF FallSilent
<1> QED
  BY <1>1, <1>2, <1>3, <1>4, <1>5, <1>6, <1>7, <1>8

\* What the steps of a handler before its loop leave alone.
LEMMA SearchTyped ==
    ASSUME TypeInv, NEW h \in Handlers, Receive(h) \/ GetAccount(h) \/ SearchUIDs(h)
    PROVE  TypeInv'
<1> USE DEF TypeInv, TypeOK, SubjectIsUid, AnnouncedIsUid, store, server, channels, locals,
            history, LocalsExceptPc, Jump, Labels, AtServer
<1>1. CASE Receive(h)
  BY <1>1, CoordinatorAssumption DEF Receive
<1>2. CASE GetAccount(h)
  <2>1. faults' \in 0..MaxFaults /\ stage[h] = "idle"
    BY <1>2, FaultTyped DEF GetAccount
  <2>2. CASE Finish(h)
    <3>1. h \notin silent /\ h \in Callers
      BY <1>2, <2>1 DEF GetAccount, Callers
    <3>2. silent' \subseteq {d \in Callers : AtServer(d)'}
      BY <1>2, <2>2, <3>1, SilentTyped DEF GetAccount, Finish
    <3> QED
      BY <1>2, <2>1, <2>2, <3>2, FinishTyped DEF GetAccount
  <2>3. CASE from' = [from EXCEPT ![h] = lastUID] /\ Jump(h, "search") /\ UNCHANGED <<todo, done>>
    BY <1>2, <2>1, <2>3 DEF GetAccount
  <2> QED
    BY <1>2, <2>2, <2>3 DEF GetAccount
<1>3. CASE SearchUIDs(h)
  <2>1. faults' \in 0..MaxFaults /\ stage[h] = "idle"
    BY <1>3, FaultTyped DEF SearchUIDs
  <2>2. CASE Finish(h)
    <3>1. silent' \subseteq {d \in Callers : AtServer(d)'}
      BY <1>3, <2>2, SilentTyped DEF SearchUIDs, Finish, Callers
    <3> QED
      BY <1>3, <2>1, <2>2, <3>1, FinishTyped DEF SearchUIDs
  <2>3. CASE /\ todo' = [todo EXCEPT ![h] = FetchUIDsAfter(from[h])]
             /\ from' = [from EXCEPT ![h] = NoUid]
             /\ Jump(h, "loop") /\ UNCHANGED done
    <3>1. FetchUIDsAfter(from[h]) \subseteq Uids
      BY DEF FetchUIDsAfter, Above, Highest
    <3> QED
      BY <1>3, <2>1, <2>3, <3>1 DEF SearchUIDs
  <2> QED
    BY <1>3, <2>2, <2>3 DEF SearchUIDs
<1> QED
  BY <1>1, <1>2, <1>3

\* A call that returns leaves the others and its own message typed.
LEMMA AnswerTyped ==
    ASSUME TypeInv, NEW c \in Callers, Store!Answer(c)
    PROVE  /\ stage' \in [Callers -> Stages]
           /\ subject' \in [Callers -> Uids \cup {NoUid}]
           /\ SubjectIsUid'
           /\ open' \in BOOLEAN /\ stored' \subseteq Uids
           /\ stage'[c] = "idle"
           /\ \A d \in Callers \ {c} : stage'[d] = stage[d]
BY DEF TypeInv, TypeOK, SubjectIsUid, Store!Answer, Stages

\* The steps of the loop.
LEMMA LoopTyped ==
    ASSUME TypeInv, NEW h \in Handlers,
           \/ NextUID(h) \/ IngestedOk(h) \/ IngestedBefore(h) \/ IngestFailed(h)
           \/ AttachmentsFailed(h) \/ QueueForEmail(h) \/ UpdateLastUID(h)
    PROVE  TypeInv'
<1> USE DEF TypeInv, TypeOK, SubjectIsUid, AnnouncedIsUid, store, server, channels, locals,
            history, LocalsExceptPc, Jump, Labels, AtServer
<1>0. h \in Callers
  BY DEF Callers
<1>1. CASE NextUID(h)
  <2>1. CASE closed /\ todo[h] # {} /\ Finish(h) /\ UNCHANGED store
    <3>1. h \notin silent
      BY <1>1 DEF NextUID
    <3>2. silent' \subseteq {d \in Callers : AtServer(d)'}
      BY <1>0, <1>1, <2>1, <3>1, SilentTyped DEF NextUID, Finish
    <3> QED
      BY <1>1, <2>1, <3>2, FinishTyped DEF NextUID
  <2>2. CASE ~closed
    <3>1. PICK u \in todo[h] : /\ todo' = [todo EXCEPT ![h] = @ \ {u}]
                               /\ Store!Begin(h, u)
                               /\ Jump(h, "ingest")
                               /\ UNCHANGED <<from, done>>
      BY <1>1, <2>2 DEF NextUID
    <3>2. u \in Uids
      OBVIOUS
    <3> QED
      BY <1>0, <1>1, <3>1, <3>2 DEF NextUID, Store!Begin, Stages
  <2> QED
    BY <1>1, <2>1, <2>2 DEF NextUID
<1>2. CASE IngestedOk(h) \/ IngestedBefore(h)
  <2>1. /\ Store!Answer(h) /\ returned' \subseteq Uids
        /\ subject[h] \in Uids
        /\ pc' = [pc EXCEPT ![h] = "handler"] \/ pc' = [pc EXCEPT ![h] = "loop"]
        /\ done' = [done EXCEPT ![h] = subject[h]]
        /\ pc[h] = "ingest" /\ h \notin silent
        /\ UNCHANGED <<server, channels, lastUID, closed, from, todo, queued, history>>
    BY <1>0, <1>2
    DEF IngestedOk, IngestedBefore, AfterOk, AfterExists, Store!ReturnOk, Store!ReturnExists
  <2>2. \A g \in Handlers \ {h} : g \in Callers \ {h}
    BY DEF Callers
  <2>3. silent' \subseteq {d \in Callers : AtServer(d)'}
    BY <1>0, <2>1, AnswerTyped, SilentTyped
  <2> QED
    BY <1>0, <2>1, <2>2, <2>3, AnswerTyped
<1>3. CASE IngestFailed(h) \/ AttachmentsFailed(h)
  <2>1. /\ Store!Answer(h) /\ UNCHANGED returned
        /\ subject[h] \in Uids
        /\ pc' = [pc EXCEPT ![h] = "loop"]
        /\ failed' = failed \cup {subject[h]}
        /\ missed' \subseteq missed \cup {subject[h]}
        /\ Fault \/ UNCHANGED faults
        /\ silent' \subseteq silent /\ h \notin silent'
        /\ UNCHANGED <<mailbox, uidNext, channels, lastUID, closed, from, todo, done, queued>>
    BY <1>0, <1>3
    DEF IngestFailed, AttachmentsFailed, EmailFails, Store!ReturnError
  <2>2. \A g \in Handlers \ {h} : g \in Callers \ {h}
    BY DEF Callers
  <2>3. silent' \subseteq {d \in Callers : AtServer(d)'}
    BY <1>0, <2>1, AnswerTyped, SilentTyped
  <2> QED
    BY <1>0, <2>1, <2>2, <2>3, AnswerTyped, FaultTyped
<1>4. CASE QueueForEmail(h)
  <2>1. PICK S \in SUBSET Hooks :
           /\ queued' = [k \in Hooks |-> IF k \in S THEN queued[k]
                                         ELSE [queued[k] EXCEPT ![done[h]] = @ + 1]]
           /\ missed' = IF S = {} THEN missed ELSE missed \cup {done[h]}
           /\ Fault \/ UNCHANGED faults
    BY <1>4 DEF QueueForEmail
  <2>2. done[h] \in Uids /\ faults' \in 0..MaxFaults
    BY <1>4, <2>1, FaultTyped DEF QueueForEmail
  <2>3. queued' \in [Hooks -> [Uids -> Nat]]
    BY <2>1, <2>2
  <2> QED
    BY <1>4, <2>1, <2>2, <2>3 DEF QueueForEmail
<1>5. CASE UpdateLastUID(h)
  <2>1. h \notin silent
    BY <1>5 DEF UpdateLastUID
  <2>2. silent' \subseteq {d \in Callers : AtServer(d)'}
    BY <1>0, <1>5, <2>1, SilentTyped DEF UpdateLastUID, Finish
  <2> QED
    BY <1>5, <2>2, FinishTyped DEF UpdateLastUID, MaxLastUID
<1> QED
  BY <1>1, <1>2, <1>3, <1>4, <1>5

\* IngestEmail at work, and the requests of the API.
LEMMA CallTyped ==
    ASSUME TypeInv, NEW c \in Callers,
           \/ StoreEmail(c) \/ StoreUnseen(c)
           \/ c \in ApiCalls /\ (AnswerRequest(c) \/ \E u \in Uids : GetMessage(c, u))
    PROVE  TypeInv'
<1> USE DEF TypeInv, TypeOK, SubjectIsUid, AnnouncedIsUid, store, server, channels, locals,
            history, AtServer
<1>1. CASE StoreEmail(c)
  BY <1>1 DEF StoreEmail, Store!Store, Callers, Stages
<1>2. CASE StoreUnseen(c)
  BY <1>2, FaultTyped DEF StoreUnseen, Store!StoreUnseen, Callers, Stages
<1>3. \A h \in Handlers : c \in ApiCalls => h \in Callers \ {c}
  BY CoordinatorAssumption DEF Callers
<1>4. CASE c \in ApiCalls /\ AnswerRequest(c)
  <2>1. /\ Store!Answer(c) /\ returned' \subseteq Uids
        /\ missed' \subseteq Uids
        /\ Fault \/ UNCHANGED faults
        /\ silent' \subseteq silent /\ c \notin silent'
        /\ UNCHANGED <<mailbox, uidNext, channels, lastUID, closed, locals, queued, failed>>
    BY <1>4
    DEF AnswerRequest, EmailFails, Store!ReturnOk, Store!ReturnExists, Store!ReturnError
  <2> QED
    BY <1>3, <1>4, <2>1, AnswerTyped, FaultTyped
<1>5. ASSUME NEW u \in Uids, c \in ApiCalls, GetMessage(c, u)
      PROVE  TypeInv'
  BY <1>3, <1>5 DEF GetMessage, Store!Begin, Stages
<1> QED
  BY <1>1, <1>2, <1>4, <1>5

\* The process starts again with nothing in memory.
LEMMA RestartTyped ==
    ASSUME TypeInv, Restart
    PROVE  TypeInv'
<1>1. InFlight \subseteq Uids
  BY DEF TypeInv, SubjectIsUid, AnnouncedIsUid, InFlight
<1>2. faults' \in 0..MaxFaults
  BY FaultTyped DEF Restart, TypeInv
<1>3. NothingInHand'
  BY DEF Restart, Store!Crash, NothingInHand
<1>4. events' \in [Handlers -> 0..ChanCap]
  BY CoordinatorAssumption DEF Restart
<1>5. HandsTyped'
  BY <1>3, IdleTyped, PTL
<1> QED
  BY <1>1, <1>2, <1>4, <1>5 DEF TypeInv, TypeOK, HandsTyped, Restart, Store!Crash, server

\* Every step leaves a well typed state well typed.
LEMMA TypeStep == TypeInv /\ [Next]_vars => TypeInv'
<1> SUFFICES ASSUME TypeInv, [Next]_vars
             PROVE  TypeInv'
  OBVIOUS
<1>1. CASE Next
  BY <1>1, OutsideTyped, SearchTyped, LoopTyped, CallTyped, RestartTyped
  DEF Next, HandlerStep, IngestStep, Callers
<1>2. CASE UNCHANGED vars
  BY <1>2
  DEF vars, store, server, channels, locals, history, TypeInv, TypeOK, SubjectIsUid,
      AnnouncedIsUid, AtServer
<1> QED
  BY <1>1, <1>2

\* Hence every reachable state is well typed.
LEMMA AlwaysTyped == Spec => []TypeInv
BY TypeInit, TypeStep, PTL DEF Spec

\* Tables, channels and the variables of the handlers keep their types, and a
\* handler has a call of IngestEmail exactly while it waits for it.
THEOREM CoordinatorTypeCorrect == Spec => []TypeOK
<1>1. TypeInv => TypeOK
  BY DEF TypeInv
<1> QED
  BY AlwaysTyped, <1>1, PTL

------------------------------------------------------------------------------
(* No webhook is queued twice.                                               *)

\* A step after which nobody has more in hand than before does no harm.
LEMMA NothingTaken ==
    ASSUME OnceInv, UNCHANGED <<open, stored, queued>>,
           \A c \in Callers, u \in Uids : Announces(c, u)' => Announces(c, u)
    PROVE  OnceInv'
BY DEF OnceInv, OneAnnouncer, AnnouncedIsNotQueued, AbsentIsUntouched, QueuedAtMostOnce

\* A caller that stores an email is the only one to have it in hand.
LEMMA StoreOnce ==
    ASSUME TypeInv, OnceInv, NEW c \in Callers, StoreEmail(c) \/ StoreUnseen(c)
    PROVE  OnceInv'
<1>1. /\ open /\ open' /\ subject[c] \in Uids \ stored
      /\ stored' = stored \cup {subject[c]}
      /\ UNCHANGED <<queued, subject, pc, done>>
      /\ stage' = [stage EXCEPT ![c] = "owner"] \/ stage' = [stage EXCEPT ![c] = "failed"]
  BY DEF StoreEmail, StoreUnseen, Store!Store, Store!StoreUnseen, locals, TypeInv,
         SubjectIsUid
<1>2. ASSUME NEW d \in Callers, NEW u \in Uids, Announces(d, u)'
      PROVE  Announces(d, u) \/ (d = c /\ u = subject[c])
  BY <1>1, <1>2 DEF Announces, TypeInv, TypeOK
<1>3. /\ \A k \in Hooks : queued[k][subject[c]] = 0
      /\ \A d \in Callers : ~Announces(d, subject[c])
  BY <1>1 DEF OnceInv, AbsentIsUntouched
<1> QED
  BY <1>1, <1>2, <1>3
  DEF OnceInv, OneAnnouncer, AnnouncedIsNotQueued, AbsentIsUntouched, QueuedAtMostOnce

\* A handler that queues had the email in hand, and has it no longer.
LEMMA QueueOnce ==
    ASSUME TypeInv, OnceInv, NEW h \in Handlers, QueueForEmail(h)
    PROVE  OnceInv'
<1>1. /\ UNCHANGED <<open, stored, stage, subject, done>>
      /\ pc[h] = "handler" /\ pc' = [pc EXCEPT ![h] = "loop"]
      /\ h \in Callers /\ done[h] \in Uids
  BY DEF QueueForEmail, Jump, LocalsExceptPc, store, Callers, TypeInv, AnnouncedIsUid
<1>2. Announces(h, done[h])
  BY <1>1 DEF Announces
<1>3. ASSUME NEW d \in Callers, NEW u \in Uids, Announces(d, u)'
      PROVE  Announces(d, u) /\ u # done[h]
  <2>1. Announces(d, u)
    BY <1>1, <1>3 DEF Announces, TypeInv, TypeOK
  <2>2. ~Announces(h, done[h])'
    BY <1>1 DEF Announces, TypeInv, TypeOK
  <2>3. ASSUME u = done[h]
        PROVE  FALSE
    <3>1. Announces(d, done[h])
      BY <2>1, <2>3
    <3>2. d = h
      BY <1>1, <1>2, <3>1 DEF OnceInv, OneAnnouncer
    <3>3. Announces(h, done[h])'
      BY <1>1, <1>3, <2>3, <3>2 DEF Announces
    <3> QED
      BY <2>2, <3>3
  <2> QED
    BY <2>1, <2>3
<1>4. queued \in [Hooks -> [Uids -> Nat]]
  BY DEF TypeInv, TypeOK
<1>5. /\ \A k \in Hooks, u \in Uids \ {done[h]} : queued'[k][u] = queued[k][u]
      /\ \A k \in Hooks : queued'[k][done[h]] <= queued[k][done[h]] + 1
  BY <1>1, <1>4 DEF QueueForEmail
<1>6. \A k \in Hooks : queued[k][done[h]] = 0
  BY <1>1, <1>2 DEF OnceInv, AnnouncedIsNotQueued
<1>7. open => done[h] \in stored
  BY <1>1, <1>2 DEF OnceInv, AbsentIsUntouched
<1>8. QueuedAtMostOnce'
  BY <1>4, <1>5, <1>6 DEF OnceInv, QueuedAtMostOnce
<1>9. OneAnnouncer' /\ AnnouncedIsNotQueued' /\ AbsentIsUntouched'
  BY <1>1, <1>3, <1>5, <1>7
  DEF OnceInv, OneAnnouncer, AnnouncedIsNotQueued, AbsentIsUntouched
<1> QED
  BY <1>8, <1>9 DEF OnceInv

\* The other steps of a handler: what it has in hand it had before.
LEMMA HandlerOnce ==
    ASSUME TypeInv, OnceInv, NEW h \in Handlers, HandlerStep(h)
    PROVE  OnceInv'
<1>0. h \in Callers
  BY DEF Callers
<1>1. CASE QueueForEmail(h)
  BY <1>1, QueueOnce
<1>2. CASE IngestedOk(h)
  <2>1. /\ UNCHANGED <<open, stored, queued>>
        /\ stage[h] = "owner" /\ stage' = [stage EXCEPT ![h] = "idle"]
        /\ subject' = [subject EXCEPT ![h] = NoUid]
        /\ pc' = [pc EXCEPT ![h] = "handler"]
        /\ done' = [done EXCEPT ![h] = subject[h]]
    BY <1>2 DEF IngestedOk, AfterOk, Jump, Store!ReturnOk, Store!Answer
  <2>2. ASSUME NEW c \in Callers, NEW u \in Uids, Announces(c, u)'
        PROVE  Announces(c, u)
    BY <1>0, <2>1, <2>2 DEF Announces, TypeInv, TypeOK
  <2> QED
    BY <2>1, <2>2, NothingTaken
<1>3. CASE IngestedBefore(h) \/ IngestFailed(h) \/ AttachmentsFailed(h)
  <2>1. /\ UNCHANGED <<open, stored, queued>>
        /\ stage' = [stage EXCEPT ![h] = "idle"]
        /\ subject' = [subject EXCEPT ![h] = NoUid]
        /\ pc' = [pc EXCEPT ![h] = "loop"]
        /\ \A g \in Handlers \ {h} : done'[g] = done[g]
    BY <1>3
    DEF IngestedBefore, IngestFailed, AttachmentsFailed, AfterExists, EmailFails, Jump,
        LocalsExceptPc, Store!ReturnExists, Store!ReturnError, Store!Answer, TypeInv, TypeOK
  <2>2. ASSUME NEW c \in Callers, NEW u \in Uids, Announces(c, u)'
        PROVE  Announces(c, u)
    BY <1>0, <2>1, <2>2 DEF Announces, TypeInv, TypeOK
  <2> QED
    BY <2>1, <2>2, NothingTaken
<1>4. CASE NextUID(h) /\ ~(UNCHANGED store)
  <2>1. /\ UNCHANGED <<open, stored, queued, done>>
        /\ stage' = [stage EXCEPT ![h] = "busy"]
        /\ \A c \in Callers \ {h} : subject'[c] = subject[c]
        /\ pc' = [pc EXCEPT ![h] = "ingest"]
    BY <1>4 DEF NextUID, Store!Begin, Jump, TypeInv, TypeOK
  <2>2. ASSUME NEW c \in Callers, NEW u \in Uids, Announces(c, u)'
        PROVE  Announces(c, u)
    BY <1>0, <2>1, <2>2 DEF Announces, TypeInv, TypeOK
  <2> QED
    BY <2>1, <2>2, NothingTaken
<1>5. CASE \/ Receive(h) \/ GetAccount(h) \/ SearchUIDs(h) \/ UpdateLastUID(h)
           \/ NextUID(h) /\ UNCHANGED store
  <2>1. /\ UNCHANGED <<open, stored, queued, stage, subject>>
        /\ \E l \in Labels \ {"handler"} : pc' = [pc EXCEPT ![h] = l]
        /\ \A g \in Handlers \ {h} : done'[g] = done[g]
    BY <1>5
    DEF Receive, GetAccount, SearchUIDs, UpdateLastUID, NextUID, Finish, Jump, LocalsExceptPc,
        store, Labels, TypeInv, TypeOK, Store!Begin
  <2>2. ASSUME NEW c \in Callers, NEW u \in Uids, Announces(c, u)'
        PROVE  Announces(c, u)
    BY <1>0, <2>1, <2>2 DEF Announces, TypeInv, TypeOK
  <2> QED
    BY <2>1, <2>2, NothingTaken
<1> QED
  BY <1>1, <1>2, <1>3, <1>4, <1>5 DEF HandlerStep

\* The requests of the API, which queue nothing.
LEMMA RequestOnce ==
    ASSUME TypeInv, OnceInv, NEW c \in ApiCalls,
           AnswerRequest(c) \/ \E u \in Uids : GetMessage(c, u)
    PROVE  OnceInv'
<1>1. /\ UNCHANGED <<open, stored, queued, pc, done>>
      /\ stage' = [stage EXCEPT ![c] = "idle"] \/ stage' = [stage EXCEPT ![c] = "busy"]
      /\ \A d \in Callers \ {c} : subject'[d] = subject[d]
      /\ c \in Callers
  BY DEF AnswerRequest, EmailFails, GetMessage, Store!Begin, Store!ReturnOk,
         Store!ReturnExists, Store!ReturnError, Store!Answer, Callers, locals, TypeInv, TypeOK
<1>2. ASSUME NEW d \in Callers, NEW u \in Uids, Announces(d, u)'
      PROVE  Announces(d, u)
  BY <1>1, <1>2 DEF Announces, TypeInv, TypeOK
<1> QED
  BY <1>1, <1>2, NothingTaken

\* The end of the account takes the queue with it, that of the process what was
\* in hand.
LEMMA EndOnce ==
    ASSUME TypeInv, OnceInv, DeleteAccount \/ Restart
    PROVE  OnceInv'
<1>1. CASE DeleteAccount
  <2>1. /\ UNCHANGED <<stage, subject, pc, done>>
        /\ ~open'
        /\ \A k \in Hooks, u \in Uids : queued'[k][u] = 0
    BY <1>1 DEF DeleteAccount, Store!CloseAccount, locals
  <2> QED
    BY <2>1
    DEF OnceInv, OneAnnouncer, AnnouncedIsNotQueued, AbsentIsUntouched, QueuedAtMostOnce,
        Announces
<1>2. CASE Restart
  <2>1. /\ UNCHANGED <<open, stored, queued>>
        /\ \A c \in Callers : stage'[c] = "idle"
        /\ \A h \in Handlers : pc'[h] = "idle"
    BY <1>2 DEF Restart, Store!Crash
  <2>2. \A c \in Callers, u \in Uids : ~Announces(c, u)'
    BY <2>1 DEF Announces
  <2> QED
    BY <2>1, <2>2, NothingTaken
<1> QED
  BY <1>1, <1>2

\* Every step keeps webhooks from being queued twice.
LEMMA OnceStep == TypeInv /\ OnceInv /\ [Next]_vars => OnceInv'
<1> SUFFICES ASSUME TypeInv, OnceInv, [Next]_vars
             PROVE  OnceInv'
  OBVIOUS
<1>1. CASE \/ Arrive \/ ForgetLastUID \/ Close
           \/ \E u \in Uids : Expunge(u)
           \/ \E h \in Handlers : Emit(h) \/ AddAccount(h) \/ RemoveSource(h)
           \/ \E c \in Callers : FallSilent(c)
           \/ UNCHANGED vars
  <2>1. UNCHANGED <<open, stored, queued, stage, subject, pc, done>>
    BY <1>1
    DEF Arrive, ForgetLastUID, Close, Expunge, Emit, AddAccount, RemoveSource, FallSilent,
        vars, store, locals
  <2>2. \A c \in Callers, u \in Uids : Announces(c, u)' => Announces(c, u)
    BY <2>1 DEF Announces
  <2> QED
    BY <2>1, <2>2, NothingTaken
<1> QED
  BY <1>1, StoreOnce, HandlerOnce, RequestOnce, EndOnce DEF Next, IngestStep

\* However many events, handlers, requests and restarts race, no webhook is
\* queued twice for one email.
THEOREM WebhooksAreQueuedOnce == Spec => []QueuedAtMostOnce
<1>1. Init => OnceInv
  BY DEF Init, Store!Init, OnceInv, OneAnnouncer, AnnouncedIsNotQueued, AbsentIsUntouched,
         QueuedAtMostOnce, Announces
<1>2. OnceInv => QueuedAtMostOnce
  BY DEF OnceInv
<1> QED
  BY AlwaysTyped, <1>1, <1>2, OnceStep, PTL DEF Spec

------------------------------------------------------------------------------
(* An email without webhook rows has a cause.                                *)

\* What is in flight is in somebody's hands.
LEMMA InFlightIsAnnounced ==
    \A u : u \in InFlight <=> \E c \in Callers : Announces(c, u)
BY DEF InFlight, Announces, Callers

\* A step that drops nothing unnoticed does no harm.
LEMMA NothingDropped ==
    ASSUME UnqueuedOnlyIfMissed, open' => open, UNCHANGED <<stored, queued>>,
           missed \subseteq missed',
           \A c \in Callers, u \in Uids : Announces(c, u) => Announces(c, u)' \/ u \in missed',
           stored \subseteq Uids
    PROVE  UnqueuedOnlyIfMissed'
<1> SUFFICES ASSUME open', NEW u \in stored, NEW k \in Hooks, queued[k][u] = 0
             PROVE  u \in missed' \cup InFlight'
  BY DEF UnqueuedOnlyIfMissed
<1>1. u \in missed \cup InFlight
  BY DEF UnqueuedOnlyIfMissed
<1>2. \A v : v \in InFlight' <=> \E c \in Callers : Announces(c, v)'
  BY DEF InFlight, Announces, Callers
<1> QED
  BY <1>1, <1>2, InFlightIsAnnounced

\* A caller that stores an email has it in hand, or is said to have missed it.
LEMMA StoreNoticed ==
    ASSUME TypeInv, UnqueuedOnlyIfMissed, NEW c \in Callers, StoreEmail(c) \/ StoreUnseen(c)
    PROVE  UnqueuedOnlyIfMissed'
<1>1. /\ open /\ subject[c] \notin stored
      /\ stored' = stored \cup {subject[c]}
      /\ UNCHANGED <<queued, subject, pc, done>>
      /\ stage[c] = "busy"
      /\ \/ stage' = [stage EXCEPT ![c] = "owner"] /\ UNCHANGED missed
         \/ stage' = [stage EXCEPT ![c] = "failed"] /\ missed' = missed \cup {subject[c]}
  BY DEF StoreEmail, StoreUnseen, Store!Store, Store!StoreUnseen, locals, history
<1>2. \A d \in Callers, u \in Uids : Announces(d, u) => Announces(d, u)'
  BY <1>1 DEF Announces, TypeInv, TypeOK
<1>3. \A u : u = subject[c] => Announces(c, u)' \/ u \in missed'
  BY <1>1 DEF Announces, TypeInv, TypeOK
<1>4. \A v : v \in InFlight' <=> \E d \in Callers : Announces(d, v)'
  BY DEF InFlight, Announces, Callers
<1> SUFFICES ASSUME NEW u \in stored', NEW k \in Hooks, queued[k][u] = 0
             PROVE  u \in missed' \cup InFlight'
  BY <1>1 DEF UnqueuedOnlyIfMissed
<1>5. CASE u = subject[c]
  BY <1>3, <1>4, <1>5
<1>6. CASE u \in stored
  <2>1. u \in missed \cup InFlight /\ u \in Uids
    BY <1>1, <1>6 DEF UnqueuedOnlyIfMissed, TypeInv, TypeOK
  <2> QED
    BY <1>1, <1>2, <1>4, <2>1, InFlightIsAnnounced
<1> QED
  BY <1>1, <1>5, <1>6

\* A handler has queued what it had in hand, or is said to have missed it.
LEMMA QueueNoticed ==
    ASSUME TypeInv, UnqueuedOnlyIfMissed, NEW h \in Handlers, QueueForEmail(h)
    PROVE  UnqueuedOnlyIfMissed'
<1>1. PICK S \in SUBSET Hooks :
         /\ queued' = [k \in Hooks |-> IF k \in S THEN queued[k]
                                       ELSE [queued[k] EXCEPT ![done[h]] = @ + 1]]
         /\ missed' = IF S = {} THEN missed ELSE missed \cup {done[h]}
  BY DEF QueueForEmail
<1>2. /\ UNCHANGED <<open, stored, stage, subject, done>>
      /\ pc[h] = "handler" /\ pc' = [pc EXCEPT ![h] = "loop"]
      /\ h \in Callers /\ done[h] \in Uids
  BY DEF QueueForEmail, Jump, LocalsExceptPc, store, Callers, TypeInv, AnnouncedIsUid
<1> SUFFICES ASSUME open, NEW u \in stored, NEW k \in Hooks, queued'[k][u] = 0
             PROVE  u \in missed' \cup InFlight'
  BY <1>2 DEF UnqueuedOnlyIfMissed
<1>3. u \in Uids /\ queued \in [Hooks -> [Uids -> Nat]]
  BY DEF TypeInv, TypeOK
<1>4. CASE u = done[h]
  <2>1. k \in S
    BY <1>1, <1>2, <1>3, <1>4
  <2> QED
    BY <1>1, <1>4, <2>1
<1>5. CASE u # done[h]
  <2>1. queued[k][u] = 0
    BY <1>1, <1>2, <1>3, <1>5
  <2>2. u \in missed \cup InFlight
    BY <2>1 DEF UnqueuedOnlyIfMissed
  <2>3. \A c \in Callers : Announces(c, u) => Announces(c, u)'
    BY <1>2, <1>5 DEF Announces, TypeInv, TypeOK
  <2>4. \A v : v \in InFlight' <=> \E c \in Callers : Announces(c, v)'
    BY DEF InFlight, Announces, Callers
  <2> QED
    BY <1>1, <2>2, <2>3, <2>4, InFlightIsAnnounced
<1> QED
  BY <1>4, <1>5

\* The other steps of a handler keep what they have in hand, or had nothing.
LEMMA HandlerNoticed ==
    ASSUME TypeInv, UnqueuedOnlyIfMissed, NEW h \in Handlers, HandlerStep(h)
    PROVE  UnqueuedOnlyIfMissed'
<1>0. h \in Callers /\ stored \subseteq Uids
  BY DEF Callers, TypeInv, TypeOK
<1>1. CASE QueueForEmail(h)
  BY <1>1, QueueNoticed
<1>2. CASE IngestedOk(h)
  <2>1. /\ UNCHANGED <<open, stored, queued, missed>>
        /\ stage[h] = "owner" /\ stage' = [stage EXCEPT ![h] = "idle"]
        /\ subject' = [subject EXCEPT ![h] = NoUid]
        /\ pc[h] = "ingest" /\ pc' = [pc EXCEPT ![h] = "handler"]
        /\ done' = [done EXCEPT ![h] = subject[h]]
    BY <1>2 DEF IngestedOk, AfterOk, Jump, Store!ReturnOk, Store!Answer, history
  <2>2. \A c \in Callers, u \in Uids : Announces(c, u) => Announces(c, u)'
    BY <1>0, <2>1 DEF Announces, TypeInv, TypeOK
  <2> QED
    BY <1>0, <2>1, <2>2, NothingDropped
<1>3. CASE IngestedBefore(h) \/ IngestFailed(h) \/ AttachmentsFailed(h)
  <2>1. /\ UNCHANGED <<open, stored, queued>>
        /\ missed \subseteq missed'
        /\ stage' = [stage EXCEPT ![h] = "idle"]
        /\ subject' = [subject EXCEPT ![h] = NoUid]
        /\ pc[h] = "ingest" /\ pc' = [pc EXCEPT ![h] = "loop"]
        /\ \A g \in Handlers \ {h} : done'[g] = done[g]
    BY <1>3
    DEF IngestedBefore, IngestFailed, AttachmentsFailed, AfterExists, EmailFails, Jump,
        LocalsExceptPc, history, Store!ReturnExists, Store!ReturnError, Store!Answer, TypeInv,
        TypeOK
  <2>2. stage[h] = "owner" => subject[h] \in missed'
    BY <1>3 DEF IngestedBefore, IngestFailed, AttachmentsFailed, EmailFails, Store!ReturnExists
  <2>3. \A c \in Callers, u \in Uids : Announces(c, u) => Announces(c, u)' \/ u \in missed'
    BY <1>0, <2>1, <2>2 DEF Announces, TypeInv, TypeOK
  <2> QED
    BY <1>0, <2>1, <2>3, NothingDropped
<1>4. CASE \/ Receive(h) \/ GetAccount(h) \/ SearchUIDs(h) \/ NextUID(h) \/ UpdateLastUID(h)
  <2>1. /\ UNCHANGED <<open, stored, queued, missed>>
        /\ pc[h] # "handler" /\ \A g \in Handlers \ {h} : pc'[g] = pc[g] /\ done'[g] = done[g]
    BY <1>4
    DEF Receive, GetAccount, SearchUIDs, UpdateLastUID, NextUID, Finish, Jump, LocalsExceptPc,
        store, history, TypeInv, TypeOK, Store!Begin
  <2>2. \A c \in Callers : stage[c] = "owner" => stage'[c] = "owner" /\ subject'[c] = subject[c]
    BY <1>4
    DEF Receive, GetAccount, SearchUIDs, UpdateLastUID, NextUID, store, TypeInv, TypeOK,
        Store!Begin
  <2>3. \A c \in Callers, u \in Uids : Announces(c, u) => Announces(c, u)'
    BY <1>0, <2>1, <2>2 DEF Announces
  <2> QED
    BY <1>0, <2>1, <2>3, NothingDropped
<1> QED
  BY <1>1, <1>2, <1>3, <1>4 DEF HandlerStep

\* A request is said to have missed what it has stored.
LEMMA RequestNoticed ==
    ASSUME TypeInv, UnqueuedOnlyIfMissed, NEW c \in ApiCalls,
           AnswerRequest(c) \/ \E u \in Uids : GetMessage(c, u)
    PROVE  UnqueuedOnlyIfMissed'
<1>0. c \in Callers /\ c \notin Handlers /\ stored \subseteq Uids
  BY CoordinatorAssumption DEF Callers, TypeInv, TypeOK
<1>1. /\ UNCHANGED <<open, stored, queued, pc, done>>
      /\ missed \subseteq missed'
      /\ \A d \in Callers \ {c} : stage'[d] = stage[d] /\ subject'[d] = subject[d]
  BY DEF AnswerRequest, EmailFails, GetMessage, Store!Begin, Store!ReturnOk,
         Store!ReturnExists, Store!ReturnError, Store!Answer, locals, history, TypeInv, TypeOK
<1>2. stage[c] = "owner" => subject[c] \in missed'
  BY DEF AnswerRequest, GetMessage, Store!Begin
<1>3. \A d \in Callers, u \in Uids : Announces(d, u) => Announces(d, u)' \/ u \in missed'
  BY <1>0, <1>1, <1>2 DEF Announces
<1> QED
  BY <1>0, <1>1, <1>3, NothingDropped

\* No step loses an email's webhooks unnoticed.
LEMMA NoticedStep == TypeInv /\ UnqueuedOnlyIfMissed /\ [Next]_vars => UnqueuedOnlyIfMissed'
<1> SUFFICES ASSUME TypeInv, UnqueuedOnlyIfMissed, [Next]_vars
             PROVE  UnqueuedOnlyIfMissed'
  OBVIOUS
<1>0. stored \subseteq Uids
  BY DEF TypeInv, TypeOK
<1>1. CASE \/ Arrive \/ ForgetLastUID \/ Close
           \/ \E u \in Uids : Expunge(u)
           \/ \E h \in Handlers : Emit(h) \/ AddAccount(h) \/ RemoveSource(h)
           \/ \E c \in Callers : FallSilent(c)
           \/ UNCHANGED vars
  <2>1. UNCHANGED <<open, stored, queued, stage, subject, pc, done, missed>>
    BY <1>1
    DEF Arrive, ForgetLastUID, Close, Expunge, Emit, AddAccount, RemoveSource, FallSilent,
        vars, store, locals, history
  <2>2. \A c \in Callers, u \in Uids : Announces(c, u) => Announces(c, u)'
    BY <2>1 DEF Announces
  <2> QED
    BY <1>0, <2>1, <2>2, NothingDropped
<1>2. CASE DeleteAccount
  BY <1>2 DEF DeleteAccount, Store!CloseAccount, UnqueuedOnlyIfMissed
<1>3. CASE Restart
  <2>1. UNCHANGED <<open, stored, queued>> /\ missed' = missed \cup InFlight
    BY <1>3 DEF Restart, Store!Crash
  <2> QED
    BY <2>1 DEF UnqueuedOnlyIfMissed
<1> QED
  BY <1>1, <1>2, <1>3, StoreNoticed, HandlerNoticed, RequestNoticed DEF Next, IngestStep

\* An email without its webhook rows was stored by a request of the API, or by
\* a handler that failed or died half-way.
THEOREM UnqueuedAreExplained == Spec => []UnqueuedOnlyIfMissed
<1>1. Init => UnqueuedOnlyIfMissed
  BY DEF Init, Store!Init, UnqueuedOnlyIfMissed
<1> QED
  BY AlwaysTyped, <1>1, NoticedStep, PTL DEF Spec

------------------------------------------------------------------------------
(* Nothing is passed over unless its ingestion failed.                       *)

\* What was settled stays so, while no message arrives.
LEMMA SettledStays ==
    ASSUME mailbox' \subseteq mailbox, stored \subseteq stored', failed \subseteq failed',
           NEW m, SettledUpTo(m)
    PROVE  \A u \in mailbox' : u <= m => Settled(u)'
BY DEF SettledUpTo, Settled

\* The handlers that do not move still pass nothing over.
LEMMA StillPassesNothing ==
    ASSUME NEW h \in Handlers, PassesNothing(h),
           mailbox' \subseteq mailbox, stored \subseteq stored', failed \subseteq failed',
           from'[h] = from[h], done'[h] = done[h], todo'[h] = todo[h], pc'[h] = pc[h],
           pc[h] = "ingest" => subject'[h] = subject[h]
    PROVE  PassesNothing(h)'
BY DEF PassesNothing, SettledUpTo, Settled, TodoIsNext, SubjectIsNext

\* A step beside the handlers, other than an arrival.
LEMMA BesideSkip ==
    ASSUME TypeInv, SkipInv,
           UNCHANGED <<pc, from, todo, done, uidNext>>,
           mailbox' \subseteq mailbox, failed \subseteq failed',
           open' => open /\ stored \subseteq stored',
           lastUID' \in {lastUID, NoUid},
           \A h \in Handlers : pc[h] = "ingest" => subject'[h] = subject[h]
    PROVE  SkipInv'
<1>1. /\ \A h \in Handlers : SeenBelow(h, uidNext)'
      /\ \A u \in mailbox' : u < uidNext'
  BY DEF SkipInv, SeenBelow
<1>2. lastUID' < uidNext'
  <2>1. lastUID \in Nat /\ uidNext \in Nat
    BY CoordinatorAssumption DEF TypeInv, TypeOK, NoUid
  <2> QED
    BY <2>1 DEF SkipInv, NoUid
<1>3. ASSUME open', NEW h \in Handlers
      PROVE  PassesNothing(h)'
  BY <1>3, StillPassesNothing DEF SkipInv
<1>4. \A u \in mailbox : ~(u <= NoUid)
  BY CoordinatorAssumption DEF TypeInv, TypeOK, NoUid
<1>5. SkippedOnlyAfterFailure'
  <2>1. CASE lastUID' = lastUID
    BY <2>1 DEF SkipInv, SkippedOnlyAfterFailure
  <2>2. CASE lastUID' = NoUid
    BY <1>4, <2>2 DEF SkippedOnlyAfterFailure
  <2> QED
    BY <2>1, <2>2
<1> QED
  BY <1>1, <1>2, <1>3, <1>5 DEF SkipInv

\* A message that arrives is above what anybody has seen.
LEMMA ArriveSkip ==
    ASSUME TypeInv, SkipInv, Arrive
    PROVE  SkipInv'
<1>1. /\ mailbox' = mailbox \cup {uidNext} /\ uidNext' = uidNext + 1 /\ uidNext \in Nat
      /\ UNCHANGED <<open, stored, subject, pc, from, todo, done, lastUID, failed>>
  BY DEF Arrive, store, locals, history, TypeInv, TypeOK
<1>2. /\ \A u \in Uids : u \in Nat
      /\ mailbox \subseteq Uids /\ lastUID \in Nat
      /\ \A h \in Handlers : /\ from[h] \in Nat /\ done[h] \in Nat /\ todo[h] \subseteq Uids
                             /\ pc[h] = "ingest" => subject[h] \in Nat
  <2>1. \A h \in Handlers : pc[h] = "ingest" => subject[h] \in Uids
    BY DEF TypeInv, TypeOK, SubjectIsUid, Callers
  <2>2. \A u \in Uids : u \in Nat
    BY CoordinatorAssumption
  <2>3. Uids \cup {NoUid} \subseteq Nat
    BY <2>2 DEF NoUid
  <2>4. /\ mailbox \subseteq Uids /\ lastUID \in Uids \cup {NoUid}
        /\ \A h \in Handlers : /\ from[h] \in Uids \cup {NoUid}
                               /\ done[h] \in Uids \cup {NoUid}
                               /\ todo[h] \subseteq Uids
    BY DEF TypeInv, TypeOK
  <2> QED
    BY <2>1, <2>2, <2>3, <2>4
<1>3. ASSUME NEW h \in Handlers
      PROVE  SeenBelow(h, uidNext)'
  <2>1. SeenBelow(h, uidNext)
    BY DEF SkipInv
  <2>2. \A w \in todo[h] : w \in Nat
    BY <1>2
  <2> QED
    BY <1>1, <1>2, <2>1, <2>2 DEF SeenBelow
<1>4. /\ \A u \in mailbox' : u < uidNext'
      /\ lastUID' < uidNext'
  BY <1>1, <1>2 DEF SkipInv
<1>5. ASSUME open, NEW h \in Handlers
      PROVE  PassesNothing(h)'
  <2>1. PassesNothing(h) /\ SeenBelow(h, uidNext)
    BY <1>5 DEF SkipInv
  <2>2. /\ ~(uidNext <= from[h]) /\ ~(uidNext <= done[h])
        /\ \A w \in todo[h] : ~(uidNext <= w)
        /\ pc[h] = "ingest" => ~(uidNext <= subject[h])
    <3>1. \A w \in todo[h] : w \in Nat
      BY <1>2
    <3> QED
      BY <1>1, <1>2, <2>1, <3>1 DEF SeenBelow
  <2> QED
    BY <1>1, <2>1, <2>2
    DEF PassesNothing, SettledUpTo, Settled, TodoIsNext, SubjectIsNext
<1>6. SkippedOnlyAfterFailure'
  <2>1. ~(uidNext <= lastUID)
    BY <1>1, <1>2 DEF SkipInv
  <2> QED
    BY <1>1, <2>1 DEF SkipInv, SkippedOnlyAfterFailure
<1> QED
  BY <1>1, <1>3, <1>4, <1>5, <1>6 DEF SkipInv

\* A step of one handler, which leaves the others where they are.
LEMMA HandlerSkip ==
    ASSUME TypeInv, SkipInv, NEW h \in Handlers,
           UNCHANGED <<open, stored, mailbox, uidNext>>, failed \subseteq failed',
           \A g \in Handlers \ {h} : /\ from'[g] = from[g] /\ done'[g] = done[g]
                                     /\ todo'[g] = todo[g] /\ pc'[g] = pc[g]
                                     /\ subject'[g] = subject[g],
           SeenBelow(h, uidNext)',
           open => PassesNothing(h)',
           lastUID' = lastUID \/ (lastUID' < uidNext /\ (open => SettledUpTo(lastUID')))
    PROVE  SkipInv'
<1>1. ASSUME NEW g \in Handlers \ {h}
      PROVE  SeenBelow(g, uidNext)' /\ (open => PassesNothing(g)')
  <2>1. SeenBelow(g, uidNext)'
    BY DEF SkipInv, SeenBelow
  <2>2. open => PassesNothing(g)'
    BY StillPassesNothing DEF SkipInv
  <2> QED
    BY <2>1, <2>2
<1>2. lastUID' < uidNext' /\ \A u \in mailbox' : u < uidNext'
  BY DEF SkipInv
<1>3. SkippedOnlyAfterFailure'
  BY DEF SkipInv, SkippedOnlyAfterFailure, SettledUpTo, Settled
<1> QED
  BY <1>1, <1>2, <1>3 DEF SkipInv

\* UIDs are positive numbers.
LEMMA UidsArePositive ==
    ASSUME TypeInv
    PROVE  /\ Uids \cup {NoUid} \subseteq Nat /\ mailbox \subseteq Uids
           /\ \A u \in Uids : ~(u <= NoUid)
           /\ SkipInv => NoUid < uidNext
<1>1. /\ Uids \cup {NoUid} \subseteq Nat
      /\ \A u \in Uids : ~(u <= NoUid)
  BY CoordinatorAssumption DEF NoUid
<1>2. lastUID \in Nat /\ uidNext \in Nat /\ mailbox \subseteq Uids
  BY <1>1 DEF TypeInv, TypeOK
<1> QED
  BY <1>1, <1>2 DEF SkipInv, NoUid

\* A handler that has returned has nothing to pass over.
LEMMA FinishSkip ==
    ASSUME TypeInv, SkipInv, NEW h \in Handlers, Finish(h), UNCHANGED <<mailbox, uidNext>>
    PROVE  /\ SeenBelow(h, uidNext)' /\ PassesNothing(h)'
           /\ \A g \in Handlers \ {h} : /\ from'[g] = from[g] /\ done'[g] = done[g]
                                        /\ todo'[g] = todo[g] /\ pc'[g] = pc[g]
<1>1. /\ from'[h] = NoUid /\ done'[h] = NoUid /\ todo'[h] = {} /\ pc'[h] = "idle"
      /\ \A g \in Handlers \ {h} : /\ from'[g] = from[g] /\ done'[g] = done[g]
                                   /\ todo'[g] = todo[g] /\ pc'[g] = pc[g]
  BY DEF Finish, TypeInv, TypeOK
<1>2. \A u \in mailbox : ~(u <= NoUid)
  BY UidsArePositive
<1>3. PassesNothing(h)'
  BY <1>1, <1>2 DEF PassesNothing, SettledUpTo, TodoIsNext, SubjectIsNext
<1>4. SeenBelow(h, uidNext)'
  BY <1>1, UidsArePositive DEF SeenBelow
<1> QED
  BY <1>1, <1>3, <1>4

\* Up to the last UID, which is read together with the account.
LEMMA ReadSkip ==
    ASSUME TypeInv, SkipInv, NEW h \in Handlers, Receive(h) \/ GetAccount(h)
    PROVE  SkipInv'
<1>1. /\ UNCHANGED <<open, stored, subject, mailbox, uidNext, failed, lastUID>>
      /\ pc[h] # "ingest"
  BY DEF Receive, GetAccount, store, server, history
<1>2. CASE Finish(h)
  BY <1>1, <1>2, FinishSkip, HandlerSkip
<1>3. CASE ~Finish(h)
  <2>1. /\ UNCHANGED <<todo, done>>
        /\ pc' = [pc EXCEPT ![h] = "account"] \/ pc' = [pc EXCEPT ![h] = "search"]
        /\ UNCHANGED from \/ (open /\ from' = [from EXCEPT ![h] = lastUID])
    BY <1>3 DEF Receive, GetAccount, Jump, LocalsExceptPc
  <2>2. /\ \A g \in Handlers \ {h} : /\ from'[g] = from[g] /\ done'[g] = done[g]
                                     /\ todo'[g] = todo[g] /\ pc'[g] = pc[g]
        /\ todo'[h] = todo[h] /\ done'[h] = done[h] /\ pc'[h] # "ingest"
        /\ from'[h] = from[h] \/ (open /\ from'[h] = lastUID)
    BY <2>1 DEF TypeInv, TypeOK
  <2>3. SeenBelow(h, uidNext)'
    BY <1>1, <2>2 DEF SkipInv, SeenBelow
  <2>4. ASSUME open
        PROVE  PassesNothing(h)'
    <3>1. SettledUpTo(lastUID) /\ PassesNothing(h)
      BY <2>4 DEF SkipInv, SkippedOnlyAfterFailure, SettledUpTo, Settled
    <3> QED
      BY <1>1, <2>2, <3>1
      DEF PassesNothing, SettledUpTo, Settled, TodoIsNext, SubjectIsNext
  <2> QED
    BY <1>1, <2>2, <2>3, <2>4, HandlerSkip
<1> QED
  BY <1>2, <1>3

\* The search finds whatever is above the UID it was given.
LEMMA SearchSkip ==
    ASSUME TypeInv, SkipInv, NEW h \in Handlers, SearchUIDs(h)
    PROVE  SkipInv'
<1>1. UNCHANGED <<open, stored, subject, mailbox, uidNext, failed, lastUID>>
  BY DEF SearchUIDs, store, server, history
<1>2. CASE Finish(h)
  BY <1>1, <1>2, FinishSkip, HandlerSkip
<1>3. CASE ~Finish(h)
  <2>1. /\ UNCHANGED done
        /\ pc' = [pc EXCEPT ![h] = "loop"]
        /\ from' = [from EXCEPT ![h] = NoUid]
        /\ todo' = [todo EXCEPT ![h] = FetchUIDsAfter(from[h])]
    BY <1>3 DEF SearchUIDs, Jump
  <2>2. /\ \A g \in Handlers \ {h} : /\ from'[g] = from[g] /\ done'[g] = done[g]
                                     /\ todo'[g] = todo[g] /\ pc'[g] = pc[g]
        /\ todo'[h] = FetchUIDsAfter(from[h])
        /\ done'[h] = done[h] /\ pc'[h] # "ingest" /\ from'[h] = NoUid
    BY <2>1 DEF TypeInv, TypeOK
  <2>3. SeenBelow(h, uidNext)'
    <3>1. \A w \in FetchUIDsAfter(from[h]) : w < uidNext
      BY DEF FetchUIDsAfter, Above, Highest, SkipInv
    <3>2. NoUid < uidNext
      BY UidsArePositive
    <3> QED
      BY <1>1, <2>2, <3>1, <3>2 DEF SkipInv, SeenBelow
  <2>4. ASSUME open
        PROVE  PassesNothing(h)'
    <3>1. PassesNothing(h)
      BY <2>4 DEF SkipInv
    <3>2. \A u \in mailbox : u \in FetchUIDsAfter(from[h]) \/ Settled(u)
      <4>1. from[h] \in Uids \cup {NoUid}
        BY DEF TypeInv, TypeOK
      <4>2. from[h] \in Nat /\ \A u \in mailbox : u \in Nat
        BY <4>1, UidsArePositive
      <4>3. \A u \in mailbox : u > from[h] \/ u <= from[h]
        BY <4>2
      <4> QED
        BY <3>1, <4>3 DEF FetchUIDsAfter, Above, PassesNothing, SettledUpTo
    <3>3. \A u \in mailbox : ~(u <= NoUid)
      BY UidsArePositive
    <3> QED
      BY <1>1, <2>2, <3>1, <3>2, <3>3
      DEF PassesNothing, SettledUpTo, Settled, TodoIsNext, SubjectIsNext
  <2> QED
    BY <1>1, <2>2, <2>3, <2>4, HandlerSkip
<1> QED
  BY <1>2, <1>3

\* The lowest message on the list is the next one that is not settled.
LEMMA NextSkip ==
    ASSUME TypeInv, SkipInv, NEW h \in Handlers, NextUID(h)
    PROVE  SkipInv'
<1>1. CASE UNCHANGED store /\ Finish(h)
  <2>1. UNCHANGED <<open, stored, subject, mailbox, uidNext, failed, lastUID>>
    BY <1>1 DEF NextUID, store, server, history
  <2> QED
    BY <1>1, <2>1, FinishSkip, HandlerSkip
<1>2. ASSUME NEW u \in todo[h],
             \A v \in todo[h] : u <= v,
             todo' = [todo EXCEPT ![h] = @ \ {u}],
             Store!Begin(h, u), Jump(h, "ingest"), UNCHANGED <<from, done>>
      PROVE  SkipInv'
  <2>1. /\ UNCHANGED <<open, stored, mailbox, uidNext, failed, lastUID>>
        /\ pc[h] = "loop"
    BY <1>2 DEF NextUID, server, history, Store!Begin
  <2>2. /\ \A g \in Handlers \ {h} : /\ from'[g] = from[g] /\ done'[g] = done[g]
                                     /\ todo'[g] = todo[g] /\ pc'[g] = pc[g]
                                     /\ subject'[g] = subject[g]
        /\ todo'[h] = todo[h] \ {u} /\ done'[h] = done[h] /\ from'[h] = from[h]
        /\ subject'[h] = u
    BY <1>2 DEF Jump, Store!Begin, Callers, TypeInv, TypeOK
  <2>3. SeenBelow(h, uidNext)'
    BY <2>1, <2>2 DEF SkipInv, SeenBelow
  <2>4. ASSUME open
        PROVE  PassesNothing(h)'
    <3>1. PassesNothing(h)
      BY <2>4 DEF SkipInv
    <3>2. \A v \in mailbox : v \in todo[h] /\ v <= u => v = u
      <4>1. \A v \in todo[h] : v \in Nat
        BY UidsArePositive DEF TypeInv, TypeOK
      <4> QED
        BY <1>2, <4>1
    <3>3. \A v \in mailbox : v <= u => Settled(v) \/ v = u
      BY <2>1, <3>1, <3>2 DEF PassesNothing, TodoIsNext
    <3>4. SubjectIsNext(h)'
      BY <2>1, <2>2, <3>3 DEF SubjectIsNext, Settled
    <3>5. TodoIsNext(h)'
      <4>1. pc'[h] = "ingest"
        BY <1>2 DEF Jump, TypeInv, TypeOK
      <4> QED
        BY <2>1, <2>2, <3>1, <4>1 DEF PassesNothing, TodoIsNext, Settled
    <3> QED
      BY <2>1, <2>2, <3>1, <3>4, <3>5 DEF PassesNothing, SettledUpTo, Settled
  <2> QED
    BY <2>1, <2>2, <2>3, <2>4, HandlerSkip
<1> QED
  BY <1>1, <1>2 DEF NextUID

\* A call that has returned has stored its message, found it, or failed.
LEMMA IngestSkip ==
    ASSUME TypeInv, OnceInv, SkipInv, NEW h \in Handlers,
           IngestedOk(h) \/ IngestedBefore(h) \/ IngestFailed(h) \/ AttachmentsFailed(h)
    PROVE  SkipInv'
<1>1. /\ UNCHANGED <<open, stored, mailbox, uidNext, lastUID, from, todo>>
      /\ failed \subseteq failed'
      /\ pc[h] = "ingest"
      /\ pc' = [pc EXCEPT ![h] = "loop"] \/ pc' = [pc EXCEPT ![h] = "handler"]
      /\ subject' = [subject EXCEPT ![h] = NoUid]
      /\ UNCHANGED done \/ done' = [done EXCEPT ![h] = subject[h]]
  BY DEF IngestedOk, IngestedBefore, IngestFailed, AttachmentsFailed, EmailFails, AfterOk,
         AfterExists, Jump, LocalsExceptPc, server, history, Store!ReturnOk,
         Store!ReturnExists, Store!ReturnError, Store!Answer
<1>2. /\ \A g \in Handlers \ {h} : /\ from'[g] = from[g] /\ done'[g] = done[g]
                                   /\ todo'[g] = todo[g] /\ pc'[g] = pc[g]
                                   /\ subject'[g] = subject[g]
      /\ todo'[h] = todo[h] /\ from'[h] = from[h] /\ pc'[h] # "ingest"
      /\ done'[h] \in {done[h], subject[h]}
  BY <1>1 DEF Callers, TypeInv, TypeOK
<1>3. SeenBelow(h, uidNext)'
  BY <1>1, <1>2 DEF SkipInv, SeenBelow
<1>4. open => subject[h] \in stored \cup failed'
  <2>1. h \in Callers /\ subject[h] \in Uids
    BY <1>1 DEF Callers, TypeInv, TypeOK, SubjectIsUid
  <2>2. CASE IngestedOk(h)
    BY <2>1, <2>2 DEF IngestedOk, Store!ReturnOk, OnceInv, AbsentIsUntouched, Announces
  <2>3. CASE IngestedBefore(h)
    BY <2>1, <2>3 DEF IngestedBefore, Store!ReturnExists, TypeInv, TypeOK, Stages
  <2>4. CASE IngestFailed(h) \/ AttachmentsFailed(h)
    BY <2>4 DEF IngestFailed, AttachmentsFailed
  <2> QED
    BY <2>2, <2>3, <2>4
<1>5. ASSUME open
      PROVE  PassesNothing(h)'
  <2>1. PassesNothing(h)
    BY <1>5 DEF SkipInv
  <2> QED
    BY <1>1, <1>2, <1>4, <1>5, <2>1
    DEF PassesNothing, SettledUpTo, Settled, TodoIsNext, SubjectIsNext
<1> QED
  BY <1>1, <1>2, <1>3, <1>5, HandlerSkip

\* The last UID is raised to what was settled, or left.
LEMMA UpdateSkip ==
    ASSUME TypeInv, SkipInv, NEW h \in Handlers, UpdateLastUID(h)
    PROVE  SkipInv'
<1>1. /\ UNCHANGED <<open, stored, subject, mailbox, uidNext, failed>>
      /\ lastUID' \in {lastUID, done[h]} /\ Finish(h)
  BY DEF UpdateLastUID, MaxLastUID, store, server, history
<1>2. done[h] < uidNext /\ (open => SettledUpTo(done[h]))
  BY DEF SkipInv, SeenBelow, PassesNothing
<1> QED
  BY <1>1, <1>2, FinishSkip, HandlerSkip

\* The webhooks do not matter here.
LEMMA QueueSkip ==
    ASSUME TypeInv, SkipInv, NEW h \in Handlers, QueueForEmail(h)
    PROVE  SkipInv'
<1>1. /\ UNCHANGED <<open, stored, subject, mailbox, uidNext, failed, lastUID, from, todo, done>>
      /\ pc[h] = "handler" /\ pc'[h] = "loop"
      /\ \A g \in Handlers \ {h} : pc'[g] = pc[g]
  BY DEF QueueForEmail, Jump, LocalsExceptPc, store, server, TypeInv, TypeOK
<1>2. SeenBelow(h, uidNext)'
  BY <1>1 DEF SkipInv, SeenBelow
<1>3. open => PassesNothing(h)'
  BY <1>1 DEF SkipInv, PassesNothing, SettledUpTo, Settled, TodoIsNext, SubjectIsNext
<1> QED
  BY <1>1, <1>2, <1>3, HandlerSkip

\* The calls at work and the requests of the API.
LEMMA CallSkip ==
    ASSUME TypeInv, SkipInv, NEW c \in Callers,
           \/ StoreEmail(c) \/ StoreUnseen(c)
           \/ c \in ApiCalls /\ (AnswerRequest(c) \/ \E u \in Uids : GetMessage(c, u))
    PROVE  SkipInv'
<1>1. CASE StoreEmail(c) \/ StoreUnseen(c)
  <2>1. /\ UNCHANGED <<open, subject, pc, from, todo, done, mailbox, uidNext, failed, lastUID>>
        /\ stored \subseteq stored'
    BY <1>1 DEF StoreEmail, StoreUnseen, Store!Store, Store!StoreUnseen, locals, server,
                history
  <2> QED
    BY <2>1, BesideSkip
<1>2. CASE c \in ApiCalls /\ (AnswerRequest(c) \/ \E u \in Uids : GetMessage(c, u))
  <2>1. /\ UNCHANGED <<open, stored, pc, from, todo, done, mailbox, uidNext, failed, lastUID>>
        /\ \A d \in Callers \ {c} : subject'[d] = subject[d]
    BY <1>2 DEF AnswerRequest, EmailFails, GetMessage, Store!Begin, Store!ReturnOk,
                Store!ReturnExists, Store!ReturnError, Store!Answer, locals, server, history,
                TypeInv, TypeOK
  <2>2. \A h \in Handlers : subject'[h] = subject[h]
    BY <1>2, <2>1, CoordinatorAssumption DEF Callers
  <2> QED
    BY <2>1, <2>2, BesideSkip
<1> QED
  BY <1>1, <1>2

\* The mail server, the sources of events, the account and the process.
LEMMA OutsideSkip ==
    ASSUME TypeInv, SkipInv,
           \/ ForgetLastUID \/ DeleteAccount \/ Close
           \/ \E u \in Uids : Expunge(u)
           \/ \E h \in Handlers : Emit(h) \/ AddAccount(h) \/ RemoveSource(h)
           \/ \E c \in Callers : FallSilent(c)
           \/ UNCHANGED vars
    PROVE  SkipInv'
<1>1. /\ UNCHANGED <<subject, pc, from, todo, done, uidNext, failed>>
      /\ mailbox' \subseteq mailbox
      /\ open' => open /\ UNCHANGED stored
      /\ lastUID' \in {lastUID, NoUid}
  BY DEF ForgetLastUID, DeleteAccount, Close, Expunge, Emit, AddAccount, RemoveSource,
         FallSilent, vars, store, server, locals, history, Store!CloseAccount
<1> QED
  BY <1>1, BesideSkip

\* A new process has seen nothing.
LEMMA RestartSkip ==
    ASSUME TypeInv, SkipInv, Restart
    PROVE  SkipInv'
<1>1. /\ UNCHANGED <<mailbox, uidNext>> /\ lastUID' = NoUid
      /\ \A h \in Handlers : /\ from'[h] = NoUid /\ done'[h] = NoUid
                             /\ todo'[h] = {} /\ pc'[h] = "idle"
  BY DEF Restart, server
<1>2. NoUid < uidNext /\ \A u \in mailbox : ~(u <= NoUid)
  BY UidsArePositive
<1>3. \A h \in Handlers : SeenBelow(h, uidNext)' /\ PassesNothing(h)'
  BY <1>1, <1>2 DEF SeenBelow, PassesNothing, SettledUpTo, TodoIsNext, SubjectIsNext
<1> QED
  BY <1>1, <1>2, <1>3 DEF SkipInv, SkippedOnlyAfterFailure

\* No step passes a message over.
LEMMA SkipStep == TypeInv /\ OnceInv /\ SkipInv /\ [Next]_vars => SkipInv'
BY ArriveSkip, ReadSkip, SearchSkip, NextSkip, IngestSkip, UpdateSkip, QueueSkip, CallSkip,
   OutsideSkip, RestartSkip
DEF Next, HandlerStep, IngestStep, Callers

\* At first nothing has been seen.
LEMMA SkipInit == Init => SkipInv
<1> SUFFICES ASSUME Init
             PROVE  SkipInv
  OBVIOUS
<1>1. /\ uidNext = 2 /\ lastUID = NoUid /\ mailbox \subseteq {1} \cap Uids
      /\ \A h \in Handlers : /\ from[h] = NoUid /\ done[h] = NoUid
                             /\ todo[h] = {} /\ pc[h] = "idle"
  BY DEF Init
<1>2. NoUid < uidNext /\ \A u \in mailbox : ~(u <= NoUid) /\ u < uidNext
  BY <1>1 DEF NoUid
<1> QED
  BY <1>1, <1>2
  DEF SkipInv, SeenBelow, PassesNothing, SettledUpTo, TodoIsNext, SubjectIsNext,
      SkippedOnlyAfterFailure

\* The last UID passes over a message only after a handler has tried to ingest
\* it and failed.
THEOREM SkippedMessagesHaveFailed == Spec => []SkippedOnlyAfterFailure
<1>1. Init => OnceInv
  BY DEF Init, Store!Init, OnceInv, OneAnnouncer, AnnouncedIsNotQueued, AbsentIsUntouched,
         QueuedAtMostOnce, Announces
<1>2. SkipInv => SkippedOnlyAfterFailure
  BY DEF SkipInv
<1> QED
  BY AlwaysTyped, <1>1, <1>2, OnceStep, SkipInit, SkipStep, PTL DEF Spec

\* Short of being forgotten the last UID only grows, although two handlers
\* write it.
THEOREM LastUIDGrows == Spec => LastUIDNeverFalls
<1> DEFINE Grows == lastUID' >= lastUID \/ lastUID' = NoUid
<1>1. TypeInv /\ [Next]_vars => [Grows]_vars
  <2> SUFFICES ASSUME TypeInv, Next
               PROVE  Grows
    BY DEF vars
  <2>1. lastUID \in Nat /\ \A h \in Handlers : done[h] \in Nat
    BY UidsArePositive DEF TypeInv, TypeOK
  <2>2. CASE UNCHANGED lastUID \/ ForgetLastUID \/ Restart
    BY <2>1, <2>2 DEF ForgetLastUID, Restart
  <2>3. ASSUME NEW h \in Handlers, UpdateLastUID(h)
        PROVE  Grows
    BY <2>1, <2>3 DEF UpdateLastUID, MaxLastUID
  <2> QED
    BY <2>2, <2>3
    DEF Next, HandlerStep, IngestStep, Arrive, Expunge, Emit, AddAccount, RemoveSource,
        FallSilent, Receive, GetAccount, SearchUIDs, NextUID, IngestedOk, IngestedBefore,
        IngestFailed, AttachmentsFailed, QueueForEmail, StoreEmail, StoreUnseen, AnswerRequest,
        GetMessage, DeleteAccount, Close
<1> QED
  BY AlwaysTyped, <1>1, PTL DEF Spec, LastUIDNeverFalls
==============================================================================
