---------------------------- MODULE PollerProofs ----------------------------
(***************************************************************************)
(* Proofs about Poller, for any accounts, entries and capacity, and any     *)
(* number of messages.                                                      *)
(***************************************************************************)
EXTENDS Poller, TLAPS

\* The entry the map holds for an account is that of its goroutine, which was
\* started and not removed.
MembersAreStarted ==
    \A a \in Accounts : accounts[a] # None =>
        /\ owner[accounts[a]] = a
        /\ accounts[a] \notin removed
        /\ pc[accounts[a]] # "new"

\* A goroutine that runs belongs to an account, and has been removed if the map
\* does not hold it and Close does not wait for it.
LiveAreKnown ==
    \A e \in Live :
        /\ owner[e] \in Accounts
        /\ e \in removed \/ (phase = "open" /\ accounts[owner[e]] = e)
                         \/ (phase = "closing" /\ e \in snapshot)

\* Who was removed had been started.
RemovedWereStarted == \A e \in removed : pc[e] # "new"

\* Every message in a folder has taken a UID.
UidsCount == \A a \in Accounts : mailbox[a].numMessages <= mailbox[a].uidNext

\* What an entry knows of its folder is behind by the mail that is unseen, and
\* by expunges.
KnownIsBehind ==
    \A e \in Live : known[e].initialized =>
        LET status == mailbox[owner[e]] IN
        /\ e \in unseen => status.uidNext > known[e].uidNext
        /\ e \notin unseen => /\ status.uidNext = known[e].uidNext
                              /\ status.numMessages <= known[e].numMessages

\* An entry that has not been started knows nothing.
NewKnowNothing == \A e \in Entries : pc[e] = "new" => known[e] = Nothing

\* The inductive invariant.
IInv ==
    /\ TypeOK
    /\ MembersAreStarted
    /\ LiveAreKnown
    /\ RemovedWereStarted
    /\ UidsCount
    /\ KnownIsBehind
    /\ NewKnowNothing

------------------------------------------------------------------------------
(* Type correctness.                                                         *)

\* A goroutine's step leaves the map and the folders alone.
Step(e) == Poll(e) \/ CheckClosed(e) \/ SendEvent(e) \/ Leave(e) \/ Tick(e)

\* It runs, and moves nobody else.
LEMMA StepShape ==
    ASSUME TypeOK, NEW e \in Entries, Step(e)
    PROVE  /\ UNCHANGED <<pool, mailbox, panicked>>
           /\ pc[e] \in {"dial", "commands", "check", "send", "idle"}
           /\ \E l \in {"dial", "commands", "check", "send", "idle", "done"} :
                 pc' = [pc EXCEPT ![e] = l]
BY DEF Step, Poll, Dialled, StatusRead, StatusFails, AfterFailure, CheckClosed, SendEvent,
       Leave, Tick,
       Goto, Running

\* Statuses are what entries remember.
LEMMA StatusTyped ==
    ASSUME TypeOK, NEW a \in Accounts
    PROVE  /\ mailbox[a].uidNext \in 1..MaxUid + 1
           /\ mailbox[a].numMessages \in 0..MaxUid + 1
           /\ MaxUid \in Nat
BY PollerAssumption DEF TypeOK

\* The initial states are well typed.
LEMMA TypeInit == Init => TypeOK /\ UidsCount
<1> SUFFICES ASSUME Init
             PROVE  TypeOK /\ UidsCount
  OBVIOUS
<1>1. /\ 0 \in 0..PollCap /\ 0 \in 0..MaxUid + 1
      /\ {1} \subseteq 1..MaxUid + 1 /\ {0, 1} \subseteq 0..MaxUid + 1
  BY PollerAssumption
<1>2. Nothing \in [uidNext : 0..MaxUid + 1, numMessages : 0..MaxUid + 1,
                   initialized : BOOLEAN, failed : BOOLEAN]
  BY <1>1 DEF Nothing
<1>3. mailbox \in [Accounts -> [uidNext : 1..MaxUid + 1, numMessages : 0..MaxUid + 1]]
  BY <1>1 DEF Init
<1>4. UidsCount
  <2>1. \A a \in Accounts : mailbox[a] \in [uidNext : {1}, numMessages : {0, 1}]
    BY DEF Init
  <2> QED
    BY <2>1 DEF UidsCount
<1> QED
  BY <1>1, <1>2, <1>3, <1>4 DEF Init, TypeOK

\* Only who waits for an answer has a silent server.
LEMMA SilentTyped ==
    ASSUME TypeOK, NEW e \in Entries, Step(e) \/ FallSilent(e)
    PROVE  silent' \subseteq {f \in Entries : pc'[f] = "commands"}
<1>1. CASE Dialled(e) \/ StatusRead(e) \/ StatusFails(e) \/ FallSilent(e)
  BY <1>1 DEF Dialled, StatusRead, StatusFails, FallSilent, Goto, TypeOK
<1>2. CASE CheckClosed(e) \/ SendEvent(e) \/ Leave(e) \/ Tick(e)
  BY <1>2 DEF CheckClosed, SendEvent, Leave, Tick, Goto, TypeOK
<1> QED
  BY <1>1, <1>2 DEF Step, Poll

\* What a poll remembers is well typed.
LEMMA KnownTyped ==
    ASSUME TypeOK, LiveAreKnown, NEW e \in Entries, Step(e)
    PROVE  known' \in [Entries -> [uidNext : 0..MaxUid + 1, numMessages : 0..MaxUid + 1,
                                   initialized : BOOLEAN, failed : BOOLEAN]]
<1> USE DEF TypeOK
<1>1. CASE StatusRead(e)
  <2>1. e \in Live /\ owner[e] \in Accounts
    BY <1>1 DEF StatusRead, Live, LiveAreKnown
  <2>2. /\ mailbox[owner[e]].uidNext \in 0..MaxUid + 1
        /\ mailbox[owner[e]].numMessages \in 0..MaxUid + 1
    BY <2>1, StatusTyped
  <2> QED
    BY <1>1, <2>2, ZenonT(40) DEF StatusRead
<1>2. CASE StatusFails(e)
  <2> DEFINE new == [known[e] EXCEPT !.failed = ~known[e].initialized \/ @]
  <2>1. known' = [known EXCEPT ![e] = new]
    BY <1>2 DEF StatusFails
  <2>2. new = [uidNext |-> known[e].uidNext, numMessages |-> known[e].numMessages,
               initialized |-> known[e].initialized,
               failed |-> ~known[e].initialized \/ known[e].failed]
    OBVIOUS
  <2>3. (~known[e].initialized \/ known[e].failed) \in BOOLEAN
    OBVIOUS
  <2>4. new \in [uidNext : 0..MaxUid + 1, numMessages : 0..MaxUid + 1,
                 initialized : BOOLEAN, failed : BOOLEAN]
    BY <2>2, <2>3
  <2> HIDE DEF new
  <2> QED
    BY <2>1, <2>4
<1>3. CASE Dialled(e) \/ CheckClosed(e) \/ SendEvent(e) \/ Leave(e) \/ Tick(e)
  BY <1>3 DEF Dialled, CheckClosed, SendEvent, Leave, Tick
<1> QED
  BY <1>1, <1>2, <1>3 DEF Step, Poll

\* A message takes a UID, an expunge gives none back.
LEMMA FolderTyped ==
    ASSUME TypeOK, UidsCount, NEW a \in Accounts, Arrive(a) \/ Expunge(a)
    PROVE  /\ mailbox' \in [Accounts -> [uidNext : 1..MaxUid + 1, numMessages : 0..MaxUid + 1]]
           /\ UidsCount'
<1>1. /\ mailbox[a] \in [uidNext : 1..MaxUid + 1, numMessages : 0..MaxUid + 1]
      /\ mailbox[a].numMessages <= mailbox[a].uidNext
      /\ MaxUid \in Nat
  BY PollerAssumption DEF TypeOK, UidsCount
<1>2. \A b \in Accounts \ {a} : mailbox'[b] = mailbox[b]
  BY DEF Arrive, Expunge, TypeOK
<1>3. CASE Arrive(a)
  <2> DEFINE new == [mailbox[a] EXCEPT !.uidNext = @ + 1, !.numMessages = @ + 1]
  <2>1. mailbox' = [mailbox EXCEPT ![a] = new] /\ mailbox[a].uidNext <= MaxUid
    BY <1>3 DEF Arrive, TypeOK
  <2>2. /\ new = [uidNext |-> mailbox[a].uidNext + 1, numMessages |-> mailbox[a].numMessages + 1]
        /\ mailbox[a].uidNext \in 1..MaxUid + 1 /\ mailbox[a].numMessages \in 0..MaxUid + 1
    <3> DEFINE one == [mailbox[a] EXCEPT !.uidNext = @ + 1]
    <3>1. one = [uidNext |-> mailbox[a].uidNext + 1, numMessages |-> mailbox[a].numMessages]
      BY <1>1
    <3>2. new = [one EXCEPT !.numMessages = @ + 1]
      OBVIOUS
    <3> HIDE DEF one, new
    <3>3. new = [uidNext |-> mailbox[a].uidNext + 1, numMessages |-> mailbox[a].numMessages + 1]
      BY <3>1, <3>2
    <3> QED
      BY <1>1, <3>3
  <2>3. /\ mailbox[a].uidNext + 1 \in 1..MaxUid + 1 /\ mailbox[a].numMessages + 1 \in 0..MaxUid + 1
        /\ mailbox[a].numMessages + 1 <= mailbox[a].uidNext + 1
    BY <1>1, <2>1, <2>2
  <2>4. /\ new \in [uidNext : 1..MaxUid + 1, numMessages : 0..MaxUid + 1]
        /\ new.numMessages <= new.uidNext
    BY <2>2, <2>3
  <2> HIDE DEF new
  <2> QED
    BY <1>2, <2>1, <2>4 DEF TypeOK, UidsCount
<1>4. CASE Expunge(a)
  <2> DEFINE new == [mailbox[a] EXCEPT !.numMessages = @ - 1]
  <2>1. mailbox' = [mailbox EXCEPT ![a] = new] /\ mailbox[a].numMessages > 0
    BY <1>4 DEF Expunge, TypeOK
  <2>2. /\ new \in [uidNext : 1..MaxUid + 1, numMessages : 0..MaxUid + 1]
        /\ new.numMessages <= new.uidNext
    BY <1>1, <2>1
  <2> HIDE DEF new
  <2> QED
    BY <1>2, <2>1, <2>2 DEF TypeOK, UidsCount
<1> QED
  BY <1>3, <1>4

\* Every step leaves a well typed state well typed.
LEMMA TypeStep ==
    ASSUME IInv, [Next]_vars
    PROVE  TypeOK' /\ UidsCount'
<1>0. TypeOK /\ UidsCount /\ LiveAreKnown
  BY DEF IInv
<1> USE <1>0, PollerAssumption
<1>1. ASSUME NEW a \in Accounts, NEW e \in Entries, AddAccount(a, e)
      PROVE  TypeOK' /\ UidsCount'
  BY <1>1 DEF AddAccount, Goto, Running, TypeOK, UidsCount
<1>2. ASSUME NEW a \in Accounts, RemoveAccount(a)
      PROVE  TypeOK' /\ UidsCount'
  BY <1>2 DEF RemoveAccount, Running, TypeOK, UidsCount
<1>3. CASE Close \/ CloseEvents \/ Consume \/ \E e \in Entries : CloseStopCh(e)
  BY <1>3 DEF Close, CloseEvents, Consume, CloseStopCh, Running, pool, TypeOK, UidsCount
<1>4. ASSUME NEW e \in Entries, Step(e)
      PROVE  TypeOK' /\ UidsCount'
  <2>1. events' \in 0..PollCap /\ unseen' \subseteq Entries
    <3>1. CASE SendEvent(e)
      BY <3>1 DEF SendEvent, Room, TypeOK
    <3>2. CASE ~SendEvent(e)
      BY <1>4, <3>2
      DEF Step, Poll, Dialled, StatusRead, StatusFails, CheckClosed, Leave, Tick, TypeOK
    <3> QED
      BY <3>1, <3>2
  <2> QED
    BY <1>4, <2>1, StepShape, KnownTyped, SilentTyped DEF pool, TypeOK, UidsCount
<1>5. ASSUME NEW e \in Entries, SendPanics(e)
      PROVE  TypeOK' /\ UidsCount'
  BY <1>5 DEF SendPanics, pool, TypeOK, UidsCount
<1>8. ASSUME NEW e \in Entries, FallSilent(e)
      PROVE  TypeOK' /\ UidsCount'
  BY <1>8, SilentTyped DEF FallSilent, Running, pool, TypeOK, UidsCount
<1>6. ASSUME NEW a \in Accounts, Arrive(a) \/ Expunge(a)
      PROVE  TypeOK' /\ UidsCount'
  <2>1. unseen' \subseteq Entries
    BY <1>6 DEF Arrive, Expunge, Watchers, TypeOK
  <2>2. UNCHANGED <<pool, pc, known, silent, events, panicked>>
    BY <1>6 DEF Arrive, Expunge, Running
  <2> QED
    BY <1>6, <2>1, <2>2, FolderTyped DEF pool, TypeOK
<1>7. CASE UNCHANGED vars
  BY <1>7 DEF vars, pool, TypeOK, UidsCount
<1> QED
  BY <1>1, <1>2, <1>3, <1>4, <1>5, <1>6, <1>7, <1>8 DEF Next, EmitEvent, Step

------------------------------------------------------------------------------
(* Who watches an account, and what it knows.                                *)

\* The parts of the invariant that are about the map and the goroutines.
Watched == MembersAreStarted /\ LiveAreKnown /\ RemovedWereStarted

\* A step that starts nobody and leaves the map alone.
LEMMA NobodyStarts ==
    ASSUME TypeOK, Watched, UNCHANGED pool,
           \A e \in Entries : pc'[e] = pc[e] \/ (pc[e] # "new" /\ pc'[e] # "new" /\ pc[e] # "done")
    PROVE  Watched'
<1>1. Live' \subseteq Live
  BY DEF Live
<1>2. UNCHANGED <<accounts, phase, snapshot, removed, owner>>
  BY DEF pool
<1>3. MembersAreStarted'
  BY <1>2 DEF Watched, MembersAreStarted, TypeOK
<1>4. LiveAreKnown'
  BY <1>1, <1>2 DEF Watched, LiveAreKnown
<1>5. RemovedWereStarted'
  BY <1>2 DEF Watched, RemovedWereStarted, TypeOK
<1> QED
  BY <1>3, <1>4, <1>5 DEF Watched

\* Every step keeps the map and the goroutines in accord.
LEMMA WatchedStep ==
    ASSUME IInv, [Next]_vars
    PROVE  Watched'
<1>0. TypeOK /\ Watched
  BY DEF IInv, Watched
<1>1. ASSUME NEW a \in Accounts, NEW e \in Entries, AddAccount(a, e)
      PROVE  Watched'
  <2>1. /\ phase = "open" /\ accounts[a] = None /\ pc[e] = "new" /\ e \notin removed
        /\ accounts' = [accounts EXCEPT ![a] = e]
        /\ owner' = [owner EXCEPT ![e] = a]
        /\ pc' = [pc EXCEPT ![e] = "dial"]
        /\ UNCHANGED <<phase, snapshot, removed>>
    BY <1>0, <1>1 DEF AddAccount, Vacant, Goto, Watched, RemovedWereStarted
  <2>2. /\ owner'[e] = a /\ accounts'[a] = e /\ pc'[e] = "dial"
        /\ \A f \in Entries \ {e} : owner'[f] = owner[f] /\ pc'[f] = pc[f]
        /\ \A b \in Accounts \ {a} : accounts'[b] = accounts[b]
        /\ e # None
    BY <1>0, <2>1, PollerAssumption DEF TypeOK
  <2>3. \A f \in Live' : f = e \/ (f \in Live /\ f # e)
    BY <2>2 DEF Live
  <2>4. \A f \in Live \ removed : owner[f] # a /\ accounts[owner[f]] = f
    BY <1>0, <2>1, PollerAssumption DEF Watched, LiveAreKnown, Live
  <2>5. MembersAreStarted'
    <3>1. \A b \in Accounts \ {a} : accounts[b] # e
      BY <1>0, <2>1, <2>2 DEF Watched, MembersAreStarted
    <3>2. \A b \in Accounts : accounts[b] \in Entries \cup {None}
      BY <1>0 DEF TypeOK
    <3> QED
      BY <1>0, <2>1, <2>2, <3>1, <3>2 DEF Watched, MembersAreStarted
  <2>6. LiveAreKnown'
    BY <1>0, <2>1, <2>2, <2>3, <2>4 DEF Watched, LiveAreKnown, Live
  <2>7. RemovedWereStarted'
    BY <1>0, <2>1, <2>2 DEF Watched, RemovedWereStarted, TypeOK
  <2> QED
    BY <2>5, <2>6, <2>7 DEF Watched
<1>2. ASSUME NEW a \in Accounts, RemoveAccount(a)
      PROVE  Watched'
  <2>1. /\ phase = "open" /\ accounts[a] \in Entries /\ accounts[a] # None
        /\ removed' = removed \cup {accounts[a]}
        /\ accounts' = [accounts EXCEPT ![a] = None]
        /\ UNCHANGED <<phase, snapshot, owner, pc>>
    BY <1>0, <1>2 DEF RemoveAccount, TypeOK
  <2>2. accounts'[a] = None /\ \A b \in Accounts \ {a} : accounts'[b] = accounts[b]
    BY <1>0, <2>1 DEF TypeOK
  <2>3. \A b \in Accounts \ {a} : accounts[b] = None \/ accounts[b] # accounts[a]
    BY <1>0, <2>1 DEF Watched, MembersAreStarted
  <2>4. MembersAreStarted'
    BY <1>0, <2>1, <2>2, <2>3 DEF Watched, MembersAreStarted
  <2>5. LiveAreKnown'
    BY <1>0, <2>1, <2>2 DEF Watched, LiveAreKnown, Live
  <2>6. RemovedWereStarted'
    BY <1>0, <2>1 DEF Watched, MembersAreStarted, RemovedWereStarted
  <2> QED
    BY <2>4, <2>5, <2>6 DEF Watched
<1>3. CASE Close
  <2>1. Live' = Live /\ UNCHANGED <<removed, owner, pc>>
    BY <1>3 DEF Close, Live
  <2>2. ASSUME NEW e \in Live, e \notin removed
        PROVE  e \in snapshot' /\ phase' = "closing"
    <3>1. owner[e] \in Accounts /\ accounts[owner[e]] = e /\ e # None
      BY <1>0, <1>3, <2>2, PollerAssumption DEF Close, Watched, LiveAreKnown, Live
    <3> QED
      BY <1>3, <3>1 DEF Close
  <2>3. LiveAreKnown'
    BY <1>0, <2>1, <2>2 DEF Watched, LiveAreKnown
  <2>4. MembersAreStarted'
    BY <1>3 DEF Close, MembersAreStarted
  <2>5. RemovedWereStarted'
    BY <1>0, <2>1 DEF Watched, RemovedWereStarted
  <2> QED
    BY <2>3, <2>4, <2>5 DEF Watched
<1>4. CASE CloseEvents
  <2>1. \A e \in Live : e \in removed
    BY <1>0, <1>4 DEF CloseEvents, Awaited, Watched, LiveAreKnown, Live
  <2>2. UNCHANGED <<accounts, removed, owner, pc>>
    BY <1>4 DEF CloseEvents
  <2> QED
    BY <1>0, <2>1, <2>2 DEF Watched, MembersAreStarted, LiveAreKnown, RemovedWereStarted, Live
<1>5. ASSUME NEW e \in Entries, Step(e)
      PROVE  Watched'
  <2>1. PICK l \in {"dial", "commands", "check", "send", "idle", "done"} :
           pc' = [pc EXCEPT ![e] = l]
    BY <1>0, <1>5, StepShape
  <2>2. UNCHANGED pool /\ pc[e] \in {"dial", "commands", "check", "send", "idle"}
    BY <1>0, <1>5, StepShape
  <2>3. \A f \in Entries :
           pc'[f] = pc[f] \/ (pc[f] # "new" /\ pc'[f] # "new" /\ pc[f] # "done")
    BY <1>0, <2>1, <2>2 DEF TypeOK
  <2> QED
    BY <1>0, <2>2, <2>3, NobodyStarts
<1>6. CASE \/ \E a \in Accounts : Arrive(a) \/ Expunge(a)
           \/ \E e \in Entries : SendPanics(e) \/ FallSilent(e)
           \/ Consume
           \/ UNCHANGED vars
  <2>1. UNCHANGED <<pool, pc>>
    BY <1>6 DEF Arrive, Expunge, SendPanics, FallSilent, Consume, vars
  <2> QED
    BY <1>0, <2>1, NobodyStarts
<1>7. ASSUME NEW e \in Entries, CloseStopCh(e)
      PROVE  Watched'
  <2>1. UNCHANGED <<accounts, phase, snapshot, removed, owner, pc>>
    BY <1>7 DEF CloseStopCh
  <2> QED
    BY <1>0, <2>1 DEF Watched, MembersAreStarted, LiveAreKnown, RemovedWereStarted, Live
<1> QED
  BY <1>1, <1>2, <1>3, <1>4, <1>5, <1>6, <1>7 DEF Next, EmitEvent, Step

\* A step that tells nothing new, and starts nobody.
LEMMA NothingLearned ==
    ASSUME KnownIsBehind, NewKnowNothing, UNCHANGED <<known, mailbox, unseen>>,
           \A e \in Entries : pc'[e] = pc[e] \/ (pc[e] # "new" /\ pc'[e] # "new" /\ pc[e] # "done"),
           \A e \in Live : owner'[e] = owner[e]
    PROVE  KnownIsBehind' /\ NewKnowNothing'
<1>1. Live' \subseteq Live
  BY DEF Live
<1>2. \A e \in Live' : owner'[e] = owner[e]
  BY <1>1
<1> QED
  BY <1>1, <1>2 DEF KnownIsBehind, NewKnowNothing

\* The mail of a folder is behind those who watch it.
LEMMA FolderLearned ==
    ASSUME IInv, NEW a \in Accounts, Arrive(a) \/ Expunge(a)
    PROVE  KnownIsBehind' /\ NewKnowNothing'
<1> USE DEF IInv
<1>1. UNCHANGED <<owner, pc, known>> /\ Live' = Live
  BY DEF Arrive, Expunge, pool, Live
<1>2. NewKnowNothing'
  BY <1>1 DEF NewKnowNothing
<1>3. ASSUME NEW e \in Live, known[e].initialized
      PROVE  LET status == mailbox'[owner[e]] IN
             /\ e \in unseen' => status.uidNext > known[e].uidNext
             /\ e \notin unseen' => /\ status.uidNext = known[e].uidNext
                                   /\ status.numMessages <= known[e].numMessages
  <2>1. e \in Entries /\ owner[e] \in Accounts
    BY DEF LiveAreKnown, Live
  <2>2. /\ mailbox[owner[e]].uidNext \in Nat /\ mailbox[owner[e]].numMessages \in Nat
        /\ known[e].uidNext \in Nat /\ known[e].numMessages \in Nat
    <3>1. /\ mailbox[owner[e]] \in [uidNext : 1..MaxUid + 1, numMessages : 0..MaxUid + 1]
          /\ known[e] \in [uidNext : 0..MaxUid + 1, numMessages : 0..MaxUid + 1,
                           initialized : BOOLEAN, failed : BOOLEAN]
          /\ 1..MaxUid + 1 \subseteq Nat /\ 0..MaxUid + 1 \subseteq Nat
      BY <2>1, PollerAssumption DEF TypeOK
    <3> QED
      BY <3>1
  <2>3. LET status == mailbox[owner[e]] IN
        /\ e \in unseen => status.uidNext > known[e].uidNext
        /\ e \notin unseen => /\ status.uidNext = known[e].uidNext
                              /\ status.numMessages <= known[e].numMessages
    BY <1>3 DEF KnownIsBehind
  <2>4. CASE owner[e] # a
    <3>1. mailbox'[owner[e]] = mailbox[owner[e]]
      BY <2>1, <2>4 DEF Arrive, Expunge, TypeOK
    <3>2. e \in unseen' <=> e \in unseen
      BY <2>4 DEF Arrive, Expunge, Watchers
    <3> QED
      BY <2>3, <3>1, <3>2
  <2>5. CASE owner[e] = a /\ Arrive(a)
    <3>1. e \in unseen'
      BY <2>1, <2>5 DEF Arrive, Watchers, Live
    <3>2. mailbox'[a].uidNext = mailbox[a].uidNext + 1
      BY <2>5 DEF Arrive, TypeOK
    <3> QED
      BY <2>2, <2>3, <2>5, <3>1, <3>2
  <2>6. CASE owner[e] = a /\ Expunge(a)
    <3>1. UNCHANGED unseen /\ mailbox'[a].uidNext = mailbox[a].uidNext
      BY <2>6 DEF Expunge, TypeOK
    <3>2. mailbox'[a].numMessages = mailbox[a].numMessages - 1
      BY <2>6 DEF Expunge, TypeOK
    <3> QED
      BY <2>2, <2>3, <2>6, <3>1, <3>2
  <2> QED
    BY <2>4, <2>5, <2>6
<1> QED
  BY <1>1, <1>2, <1>3 DEF KnownIsBehind

\* A poll that succeeds knows everything, one that fails what it knew before.
LEMMA PollLearned ==
    ASSUME IInv, NEW e \in Entries, Poll(e)
    PROVE  KnownIsBehind' /\ NewKnowNothing'
<1> USE DEF IInv
<1>1. /\ UNCHANGED <<owner, mailbox>> /\ pc[e] \in {"dial", "commands"}
      /\ \A f \in Entries \ {e} : /\ pc'[f] = pc[f] /\ known'[f] = known[f]
                                  /\ f \in unseen' <=> f \in unseen
      /\ pc'[e] # "new"
  BY DEF Poll, Dialled, StatusRead, StatusFails, AfterFailure, Goto, pool, TypeOK
<1>2. NewKnowNothing'
  BY <1>1 DEF NewKnowNothing
<1>3. e \in Live /\ Live' \subseteq Live /\ owner[e] \in Accounts
  BY <1>1 DEF Live, LiveAreKnown
<1>4. ASSUME known'[e].initialized
      PROVE  LET status == mailbox[owner[e]] IN
             /\ e \in unseen' => status.uidNext > known'[e].uidNext
             /\ e \notin unseen' => /\ status.uidNext = known'[e].uidNext
                                   /\ status.numMessages <= known'[e].numMessages
  <2>1. CASE StatusRead(e)
    <3>1. /\ known'[e].uidNext = mailbox[owner[e]].uidNext
          /\ known'[e].numMessages = mailbox[owner[e]].numMessages
          /\ e \notin unseen'
      BY <2>1 DEF StatusRead, TypeOK
    <3>2. mailbox[owner[e]].numMessages \in Nat
      <4>1. mailbox[owner[e]].numMessages \in 0..MaxUid + 1 /\ MaxUid \in Nat
        BY <1>3, StatusTyped
      <4> QED
        BY <4>1
    <3> QED
      BY <3>1, <3>2
  <2>2. CASE StatusFails(e)
    <3>1. /\ known'[e].uidNext = known[e].uidNext
          /\ known'[e].numMessages = known[e].numMessages
          /\ known'[e].initialized = known[e].initialized
          /\ UNCHANGED unseen
      BY <2>2 DEF StatusFails, TypeOK
    <3> QED
      BY <1>3, <1>4, <3>1 DEF KnownIsBehind
  <2>3. CASE Dialled(e)
    BY <1>3, <1>4, <2>3 DEF Dialled, KnownIsBehind
  <2> QED
    BY <2>1, <2>2, <2>3 DEF Poll
<1>5. ASSUME NEW f \in Live', known'[f].initialized
      PROVE  LET status == mailbox'[owner'[f]] IN
             /\ f \in unseen' => status.uidNext > known'[f].uidNext
             /\ f \notin unseen' => /\ status.uidNext = known'[f].uidNext
                                   /\ status.numMessages <= known'[f].numMessages
  <2>1. CASE f = e
    BY <1>1, <1>4, <1>5, <2>1
  <2>2. CASE f # e
    <3>1. f \in Live /\ f \in Entries
      BY <1>3 DEF Live
    <3> QED
      BY <1>1, <1>5, <2>2, <3>1 DEF KnownIsBehind
  <2> QED
    BY <2>1, <2>2
<1> QED
  BY <1>2, <1>5 DEF KnownIsBehind

\* Every step keeps what the entries know in accord with the folders.
LEMMA KnownStep ==
    ASSUME IInv, [Next]_vars
    PROVE  KnownIsBehind' /\ NewKnowNothing'
<1>0. TypeOK /\ KnownIsBehind /\ NewKnowNothing
  BY DEF IInv
<1>1. ASSUME NEW a \in Accounts, NEW e \in Entries, AddAccount(a, e)
      PROVE  KnownIsBehind' /\ NewKnowNothing'
  <2>1. /\ UNCHANGED <<known, mailbox, unseen>>
        /\ pc[e] = "new" /\ pc'[e] = "dial" /\ ~known[e].initialized
        /\ \A f \in Entries \ {e} : owner'[f] = owner[f] /\ pc'[f] = pc[f]
    BY <1>0, <1>1 DEF AddAccount, Goto, NewKnowNothing, Nothing, TypeOK
  <2>2. \A f \in Live' : f = e \/ (f \in Live /\ f # e /\ owner'[f] = owner[f])
    BY <2>1 DEF Live
  <2>3. KnownIsBehind'
    BY <1>0, <2>1, <2>2 DEF KnownIsBehind
  <2>4. NewKnowNothing'
    BY <1>0, <2>1 DEF NewKnowNothing
  <2> QED
    BY <2>3, <2>4
<1>2. ASSUME NEW e \in Entries, CheckClosed(e) \/ SendEvent(e) \/ Leave(e) \/ Tick(e)
      PROVE  KnownIsBehind' /\ NewKnowNothing'
  <2>1. PICK l \in {"dial", "commands", "check", "send", "idle", "done"} :
           pc' = [pc EXCEPT ![e] = l]
    BY <1>0, <1>2, StepShape DEF Step
  <2>2. pc[e] \in {"dial", "commands", "check", "send", "idle"}
    BY <1>0, <1>2, StepShape DEF Step
  <2>3. \A f \in Entries :
           pc'[f] = pc[f] \/ (pc[f] # "new" /\ pc'[f] # "new" /\ pc[f] # "done")
    BY <1>0, <2>1, <2>2 DEF TypeOK
  <2>4. UNCHANGED <<known, mailbox, unseen, owner>>
    BY <1>2 DEF CheckClosed, SendEvent, Leave, Tick, pool
  <2> QED
    BY <1>0, <2>3, <2>4, NothingLearned
<1>3. CASE \/ Close \/ CloseEvents \/ Consume
           \/ \E a \in Accounts : RemoveAccount(a)
           \/ \E e \in Entries : SendPanics(e) \/ FallSilent(e) \/ CloseStopCh(e)
           \/ UNCHANGED vars
  <2>1. UNCHANGED <<known, mailbox, unseen, owner, pc>>
    BY <1>3 DEF Close, CloseEvents, Consume, RemoveAccount, SendPanics, FallSilent, CloseStopCh,
                vars, pool
  <2> QED
    BY <1>0, <2>1, NothingLearned
<1> QED
  BY <1>1, <1>2, <1>3, FolderLearned, PollLearned DEF Next, EmitEvent

\* Every step preserves the invariant.
LEMMA InvStep == IInv /\ [Next]_vars => IInv'
BY TypeStep, WatchedStep, KnownStep DEF IInv, Watched

\* Hence it holds in every reachable state.
LEMMA AlwaysIInv == Spec => []IInv
<1>1. Init => IInv
  <2> SUFFICES ASSUME Init
               PROVE  IInv
    OBVIOUS
  <2>1. Live = {} /\ NewKnowNothing
    BY DEF Init, Live, NewKnowNothing
  <2>2. MembersAreStarted /\ RemovedWereStarted
    BY DEF Init, MembersAreStarted, RemovedWereStarted
  <2> QED
    BY <2>1, <2>2, TypeInit DEF IInv, LiveAreKnown, KnownIsBehind
<1> QED
  BY <1>1, InvStep, PTL DEF Spec

\* The map, the channel and what the entries know keep their types; message
\* counts stay within what a folder has had.
THEOREM PollerTypeCorrect == Spec => []TypeOK
<1>1. IInv => TypeOK
  BY DEF IInv
<1> QED
  BY AlwaysIInv, <1>1, PTL

\* A poll of an initialised entry announces mail exactly when some has arrived
\* since the one before.
THEOREM PollsAnnounceWhatArrived == Spec => PollsAnnounceArrivals
<1> DEFINE Exact(e) ==
      known[e].initialized /\ pc[e] = "commands" /\ pc'[e] # "commands"
          => /\ pc'[e] = "check" => e \in unseen
             /\ e \in unseen /\ pc'[e] = "idle" => e \in unseen'
<1>1. IInv /\ [Next]_vars => [\A e \in Entries : Exact(e)]_vars
  <2> SUFFICES ASSUME IInv, Next, NEW e \in Entries,
                      known[e].initialized, pc[e] = "commands", pc'[e] # "commands"
               PROVE  /\ pc'[e] = "check" => e \in unseen
                      /\ e \in unseen /\ pc'[e] = "idle" => e \in unseen'
    BY DEF vars
  <2>1. Poll(e)
    <3>1. ASSUME NEW f \in Entries, CheckClosed(f) \/ SendEvent(f) \/ Leave(f) \/ Tick(f)
          PROVE  FALSE
      BY <3>1 DEF CheckClosed, SendEvent, Leave, Tick, Goto, IInv, TypeOK
    <3>2. ASSUME NEW f \in Entries, Poll(f)
          PROVE  f = e
      BY <3>2 DEF Poll, Dialled, StatusRead, StatusFails, Goto, IInv, TypeOK
    <3>3. ASSUME NEW a \in Accounts, NEW f \in Entries, AddAccount(a, f)
          PROVE  FALSE
      BY <3>3 DEF AddAccount, Goto, IInv, TypeOK
    <3> QED
      BY <3>1, <3>2, <3>3
      DEF Next, EmitEvent, RemoveAccount, CloseStopCh, FallSilent, Arrive, Expunge, Close,
          CloseEvents, SendPanics, Consume
  <2>2. CASE StatusRead(e)
    <3>1. e \in Live /\ owner[e] \in Accounts
      BY <2>2 DEF StatusRead, Live, IInv, LiveAreKnown
    <3> DEFINE status == mailbox[owner[e]]
    <3>2. /\ e \in unseen => status.uidNext > known[e].uidNext
          /\ e \notin unseen => /\ status.uidNext = known[e].uidNext
                                /\ status.numMessages <= known[e].numMessages
      BY <3>1 DEF IInv, KnownIsBehind
    <3>3. /\ status.uidNext \in Nat /\ status.numMessages \in Nat
          /\ known[e].uidNext \in Nat /\ known[e].numMessages \in Nat
      <4>1. /\ status \in [uidNext : 1..MaxUid + 1, numMessages : 0..MaxUid + 1]
            /\ known[e] \in [uidNext : 0..MaxUid + 1, numMessages : 0..MaxUid + 1,
                             initialized : BOOLEAN, failed : BOOLEAN]
            /\ 1..MaxUid + 1 \subseteq Nat /\ 0..MaxUid + 1 \subseteq Nat
        BY <3>1, PollerAssumption DEF IInv, TypeOK
      <4> QED
        BY <4>1
    <3>4. Announces(e, status) <=> e \in unseen
      BY <3>2, <3>3 DEF Announces, Grown
    <3>5. pc'[e] = IF Announces(e, status) THEN "check" ELSE "idle"
      BY <2>2 DEF StatusRead, Goto, IInv, TypeOK
    <3> QED
      BY <3>4, <3>5
  <2>3. CASE StatusFails(e)
    BY <2>3 DEF StatusFails, AfterFailure, Goto, IInv, TypeOK
  <2>4. ~Dialled(e)
    BY DEF Dialled
  <2> QED
    BY <2>1, <2>2, <2>3, <2>4 DEF Poll
<1> QED
  BY AlwaysIInv, <1>1, PTL DEF Spec, PollsAnnounceArrivals

------------------------------------------------------------------------------
(* The poller implements EventSource.                                        *)

\* A goroutine's own step ends it, or emits an event, or is not seen.
LEMMA StepOfEntryRefines ==
    ASSUME TypeOK, NEW e \in Entries, Step(e)
    PROVE  Source!Next \/ UNCHANGED Source!vars
<1>1. PICK l \in {"dial", "commands", "check", "send", "idle", "done"} : pc' = [pc EXCEPT ![e] = l]
  BY StepShape
<1>2. /\ pc[e] \in {"dial", "commands", "check", "send", "idle"}
      /\ UNCHANGED <<accounts, phase, removed, panicked>>
  BY StepShape DEF pool
<1>3. e \in Live /\ Live' = IF l = "done" THEN Live \ {e} ELSE Live
  BY <1>1, <1>2 DEF Live, TypeOK
<1>4. CASE SendEvent(e)
  <2>1. Live' = Live
    BY <1>4 DEF SendEvent, Goto, Live, TypeOK
  <2>2. CASE Room
    <3>1. Source!Emit(e)
      BY <1>2, <1>3, <1>4, <2>1, <2>2 DEF SendEvent, Room, Source!Emit
    <3> QED
      BY <3>1 DEF Source!Next
  <2>3. CASE ~Room
    BY <1>2, <1>4, <2>1, <2>3 DEF SendEvent, Source!vars
  <2> QED
    BY <2>2, <2>3
<1>5. CASE ~SendEvent(e)
  <2>1. UNCHANGED events
    BY <1>5 DEF Step, Poll, Dialled, StatusRead, StatusFails, CheckClosed, Leave, Tick
  <2>2. CASE l = "done"
    <3>1. Source!End(e)
      BY <1>2, <1>3, <2>1, <2>2 DEF Source!End
    <3> QED
      BY <3>1 DEF Source!Next
  <2>3. CASE l # "done"
    BY <1>2, <1>3, <2>1, <2>3 DEF Source!vars
  <2> QED
    BY <2>2, <2>3
<1> QED
  BY <1>4, <1>5

\* Every step is one of the abstract source, or none.
LEMMA StepRefines == IInv /\ [Next]_vars => [Source!Next]_(Source!vars)
<1> SUFFICES ASSUME IInv, [Next]_vars
             PROVE  Source!Next \/ UNCHANGED Source!vars
  OBVIOUS
<1>0. TypeOK
  BY DEF IInv
<1>1. ASSUME NEW a \in Accounts, NEW e \in Entries, AddAccount(a, e)
      PROVE  Source!Next
  <2>1. e \notin Live /\ Live' = Live \cup {e}
    BY <1>0, <1>1 DEF AddAccount, Goto, Live, TypeOK
  <2>2. Source!Add(a, e)
    BY <1>1, <2>1 DEF AddAccount, Running, Vacant, Source!Add
  <2> QED
    BY <2>2 DEF Source!Next
<1>2. ASSUME NEW a \in Accounts, RemoveAccount(a)
      PROVE  Source!Next
  <2>1. Source!Release(a)
    BY <1>2 DEF RemoveAccount, Running, Live, Source!Release
  <2> QED
    BY <2>1 DEF Source!Next
<1>3. CASE Close
  <2>1. Source!CloseBegin
    BY <1>3 DEF Close, Running, Live, Source!CloseBegin
  <2> QED
    BY <2>1 DEF Source!Next
<1>4. CASE CloseEvents
  <2>1. Live \subseteq removed
    BY <1>4 DEF IInv, LiveAreKnown, CloseEvents, Awaited, Live
  <2>2. Source!CloseEnd
    BY <1>4, <2>1 DEF CloseEvents, Running, Live, Source!CloseEnd
  <2> QED
    BY <2>2 DEF Source!Next
<1>5. ASSUME NEW e \in Entries, Step(e)
      PROVE  Source!Next \/ UNCHANGED Source!vars
  BY <1>0, <1>5, StepOfEntryRefines
<1>6. ASSUME NEW e \in Entries, SendPanics(e)
      PROVE  Source!Next
  <2>1. e \in Live \cap removed
    BY <1>6 DEF IInv, LiveAreKnown, SendPanics, Live
  <2>2. Source!SendOnClosed(e)
    BY <1>6, <2>1 DEF SendPanics, pool, Live, Source!SendOnClosed
  <2> QED
    BY <2>2 DEF Source!Next
<1>7. CASE Consume
  <2>1. Source!Consume
    BY <1>7 DEF Consume, Running, pool, Live, Source!Consume
  <2> QED
    BY <2>1 DEF Source!Next
<1>8. CASE \/ \E a \in Accounts : Arrive(a) \/ Expunge(a)
           \/ \E e \in Entries : FallSilent(e) \/ CloseStopCh(e)
           \/ UNCHANGED vars
  BY <1>8 DEF Arrive, Expunge, FallSilent, CloseStopCh, Running, vars, pool, Live, Source!vars
<1> QED
  BY <1>1, <1>2, <1>3, <1>4, <1>5, <1>6, <1>7, <1>8 DEF Next, EmitEvent, Step

\* The poller is an event source like the IDLE pool: only a goroutine being
\* removed can send on the closed channel.
THEOREM PollerImplementsSource == Spec => ImplementsSource
<1>1. Init => Source!Init
  BY DEF Init, Source!Init, Live
<1> QED
  BY AlwaysIInv, <1>1, StepRefines, PTL DEF Spec, ImplementsSource, Source!Spec
=============================================================================
