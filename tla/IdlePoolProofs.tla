--------------------------- MODULE IdlePoolProofs ---------------------------
(***************************************************************************)
(* Proofs about IdlePool, for any accounts, entries and capacities.         *)
(***************************************************************************)
EXTENDS IdlePool, TLAPS

\* The entry the map holds for an account is that of its goroutine, which was
\* started and not removed.
MembersAreStarted ==
    \A a \in Accounts : accounts[a] # None =>
        /\ owner[accounts[a]] = a
        /\ accounts[a] \notin removed
        /\ pc[accounts[a]] # "new"

\* A goroutine that runs belongs to an account, and has been removed if the map
\* does not hold it and Close does not wait for it.
LiveAreKnown ==
    \A e \in Live :
        /\ owner[e] \in Accounts
        /\ e \in removed \/ (phase = "open" /\ accounts[owner[e]] = e)
                         \/ (phase = "closing" /\ e \in snapshot)

\* Who was removed had been started.
RemovedWereStarted == \A e \in removed : pc[e] # "new"

\* Before Close a connection belongs to a goroutine that forwards its events.
OpenAreForwarded ==
    \A e \in Entries :
        conn[e] \in {"up", "dead", "closing"} =>
            phase # "open" \/ pc[e] \in {"forward", "check", "send", "close"}

\* The inductive invariant.
IInv ==
    /\ TypeOK
    /\ MembersAreStarted
    /\ LiveAreKnown
    /\ RemovedWereStarted
    /\ OneWatcher
    /\ OpenAreForwarded

------------------------------------------------------------------------------
(* Type correctness.                                                         *)

\* A goroutine that makes a step runs, and leaves the map and the others alone.
LEMMA RunShape ==
    ASSUME TypeOK, NEW e \in Entries, Run(e) \/ ForwardStopped(e) \/ TakeEvent(e)
    PROVE  /\ UNCHANGED <<pool, panicked>>
           /\ pc[e] \notin {"new", "done"}
           /\ \E l \in Labels \ {"new"} : pc' = [pc EXCEPT ![e] = l]
BY DEF Run, Loop, Dial, Dialled, Connected, NotSupported, DialFails, Wait, WaitStopped, BackoffOver,
       Forward, CheckClosed, SendEvent, ForwardStopped, ConnClosed, TakeEvent, Goto, Running, Labels

\* What such a step does to the connection, its events, and the channel.
LEMMA RunTyped ==
    ASSUME TypeOK, NEW e \in Entries, Run(e) \/ ForwardStopped(e) \/ TakeEvent(e)
    PROVE  /\ conn' \in [Entries -> {"none", "up", "dead", "closing", "closed"}]
           /\ buffer' \in [Entries -> 0..ConnCap]
           /\ retries' \in [Entries -> 0..MaxRetries]
           /\ events' \in 0..PoolCap
           /\ silent' \subseteq {f \in Entries : pc'[f] \in {"connect", "close"}}
<1> USE PoolAssumption DEF TypeOK
<1>1. CASE Loop(e) \/ Dialled(e) \/ NotSupported(e) \/ Wait(e) \/ CheckClosed(e)
  BY <1>1 DEF Loop, Dialled, NotSupported, Wait, WaitStopped, BackoffOver, CheckClosed, Goto
<1>2. CASE Connected(e)
  BY <1>2 DEF Connected, Goto
<1>3. CASE DialFails(e)
  BY <1>3 DEF DialFails, Goto
<1>4. CASE SendEvent(e)
  BY <1>4 DEF SendEvent, Room, Goto
<1>5. CASE ForwardStopped(e) \/ ConnClosed(e)
  BY <1>5 DEF ForwardStopped, ConnClosed, CloseConn, Goto
<1>6. CASE TakeEvent(e)
  BY <1>6 DEF TakeEvent, Goto
<1> QED
  BY <1>1, <1>2, <1>3, <1>4, <1>5, <1>6 DEF Run, Dial, Forward

\* Every step leaves a well typed state well typed.
LEMMA TypeStep == TypeOK /\ [Next]_vars => TypeOK'
<1> SUFFICES ASSUME TypeOK, [Next]_vars
             PROVE  TypeOK'
  OBVIOUS
<1> USE PoolAssumption DEF TypeOK
<1>1. ASSUME NEW a \in Accounts, NEW e \in Entries, AddAccount(a, e)
      PROVE  TypeOK'
  BY <1>1 DEF AddAccount, Goto, Running, Labels
<1>2. ASSUME NEW a \in Accounts, RemoveAccount(a)
      PROVE  TypeOK'
  BY <1>2 DEF RemoveAccount, Running, entry
<1>3. CASE Close \/ CloseEvents \/ Consume \/ \E e \in Entries : CloseStopCh(e)
  BY <1>3 DEF Close, CloseEvents, Consume, CloseStopCh, Running, pool, entry
<1>4. ASSUME NEW e \in Entries, Run(e) \/ ForwardStopped(e) \/ TakeEvent(e)
      PROVE  TypeOK'
  BY <1>4, RunShape, RunTyped DEF pool
<1>5. ASSUME NEW e \in Entries, SendPanics(e) \/ ConnDrops(e) \/ FallSilent(e)
      PROVE  TypeOK'
  BY <1>5 DEF SendPanics, ConnDrops, FallSilent, Running, pool, entry
<1>6. ASSUME NEW e \in Entries, MailboxUpdate(e)
      PROVE  TypeOK'
  BY <1>6 DEF MailboxUpdate, Running, pool
<1>7. CASE UNCHANGED vars
  BY <1>7 DEF vars, pool, entry
<1> QED
  BY <1>1, <1>2, <1>3, <1>4, <1>5, <1>6, <1>7 DEF Next

\* The initial states are well typed.
LEMMA TypeInit == Init => TypeOK
<1>1. 0 \in 0..PoolCap /\ 0 \in 0..ConnCap /\ 0 \in 0..MaxRetries
  BY PoolAssumption
<1> SUFFICES ASSUME Init
             PROVE  TypeOK
  OBVIOUS
<1>2. /\ buffer \in [Entries -> 0 .. ConnCap] /\ retries \in [Entries -> 0 .. MaxRetries]
      /\ events \in 0 .. PoolCap
  BY <1>1 DEF Init
<1>3. /\ pc \in [Entries -> Labels]
      /\ conn \in [Entries -> {"none", "up", "dead", "closing", "closed"}]
      /\ owner \in [Entries -> Accounts \cup {None}]
      /\ accounts \in [Accounts -> Entries \cup {None}]
  BY DEF Init, Labels
<1> QED
  BY <1>2, <1>3 DEF Init, TypeOK

\* The map, the channels and the variables of the goroutines keep their types;
\* the channels stay within their capacities.
THEOREM PoolTypeCorrect == Spec => []TypeOK
BY TypeInit, TypeStep, PTL DEF Spec

------------------------------------------------------------------------------
(* Who watches an account.                                                   *)

\* A step that stops nobody, starts nobody and leaves the map alone.
LEMMA NobodyStarts ==
    ASSUME MembersAreStarted, LiveAreKnown, RemovedWereStarted, OneWatcher,
           UNCHANGED pool,
           \A e \in Entries : pc'[e] = pc[e] \/ (pc[e] # "new" /\ pc'[e] # "new" /\ pc[e] # "done"),
           TypeOK
    PROVE  MembersAreStarted' /\ LiveAreKnown' /\ RemovedWereStarted' /\ OneWatcher'
<1>1. Live' \subseteq Live
  BY DEF Live
<1>2. UNCHANGED <<accounts, phase, snapshot, removed, owner>>
  BY DEF pool
<1>3. MembersAreStarted' /\ RemovedWereStarted'
  BY <1>2 DEF MembersAreStarted, RemovedWereStarted, TypeOK
<1>4. LiveAreKnown'
  BY <1>1, <1>2 DEF LiveAreKnown
<1>5. OneWatcher'
  BY <1>1, <1>2 DEF OneWatcher
<1> QED
  BY <1>3, <1>4, <1>5

\* A new entry is the only one that watches its account and was not stopped.
LEMMA AddWatched ==
    ASSUME IInv, NEW a \in Accounts, NEW e \in Entries, AddAccount(a, e)
    PROVE  MembersAreStarted' /\ LiveAreKnown' /\ RemovedWereStarted' /\ OneWatcher'
<1> USE DEF IInv
<1>1. /\ phase = "open" /\ accounts[a] = None /\ pc[e] = "new" /\ e \notin removed
      /\ accounts' = [accounts EXCEPT ![a] = e]
      /\ owner' = [owner EXCEPT ![e] = a]
      /\ pc' = [pc EXCEPT ![e] = "loop"]
      /\ UNCHANGED <<phase, snapshot, removed>>
  BY DEF AddAccount, Vacant, Goto, RemovedWereStarted
<1>2. /\ owner'[e] = a /\ accounts'[a] = e /\ pc'[e] = "loop"
      /\ \A f \in Entries \ {e} : owner'[f] = owner[f] /\ pc'[f] = pc[f]
      /\ \A b \in Accounts \ {a} : accounts'[b] = accounts[b]
      /\ e # None
  BY <1>1, PoolAssumption DEF TypeOK
<1>3. \A f \in Live' : f = e \/ (f \in Live /\ f # e)
  BY <1>2 DEF Live
<1>4. \A f \in Live \ removed : owner[f] # a /\ accounts[owner[f]] = f
  BY <1>1, PoolAssumption DEF LiveAreKnown, Live
<1>5. MembersAreStarted'
  <2>1. \A b \in Accounts \ {a} : accounts[b] # e
    BY <1>1, <1>2 DEF MembersAreStarted
  <2>2. \A b \in Accounts : accounts[b] \in Entries \cup {None}
    BY DEF TypeOK
  <2> QED
    BY <1>1, <1>2, <2>1, <2>2 DEF MembersAreStarted
<1>6. LiveAreKnown'
  BY <1>1, <1>2, <1>3, <1>4 DEF LiveAreKnown, Live
<1>7. OneWatcher'
  BY <1>1, <1>2, <1>3, <1>4 DEF OneWatcher, Live
<1>8. RemovedWereStarted'
  BY <1>1, <1>2 DEF RemovedWereStarted, TypeOK
<1> QED
  BY <1>5, <1>6, <1>7, <1>8

\* What RemoveAccount takes out of the map it tells to stop.
LEMMA RemoveWatched ==
    ASSUME IInv, NEW a \in Accounts, RemoveAccount(a)
    PROVE  MembersAreStarted' /\ LiveAreKnown' /\ RemovedWereStarted' /\ OneWatcher'
<1> USE DEF IInv
<1>1. /\ phase = "open" /\ accounts[a] \in Entries /\ accounts[a] # None
      /\ removed' = removed \cup {accounts[a]}
      /\ accounts' = [accounts EXCEPT ![a] = None]
      /\ UNCHANGED <<phase, snapshot, owner, pc>>
  BY DEF RemoveAccount, entry, TypeOK
<1>2. accounts'[a] = None /\ \A b \in Accounts \ {a} : accounts'[b] = accounts[b]
  BY <1>1 DEF TypeOK
<1>3. Live' = Live
  BY <1>1 DEF Live
<1>4. \A b \in Accounts \ {a} : accounts[b] = None \/ accounts[b] # accounts[a]
  BY <1>1 DEF MembersAreStarted
<1>5. MembersAreStarted' /\ RemovedWereStarted'
  BY <1>1, <1>2, <1>4 DEF MembersAreStarted, RemovedWereStarted
<1>6. LiveAreKnown'
  BY <1>1, <1>2, <1>3 DEF LiveAreKnown
<1>7. OneWatcher'
  BY <1>1, <1>3 DEF OneWatcher
<1> QED
  BY <1>5, <1>6, <1>7

\* Close waits for the entries of the map, and the channel for them.
LEMMA CloseWatched ==
    ASSUME IInv, Close \/ CloseEvents
    PROVE  MembersAreStarted' /\ LiveAreKnown' /\ RemovedWereStarted' /\ OneWatcher'
<1> USE DEF IInv
<1>1. UNCHANGED <<removed, owner, pc>>
  BY DEF Close, CloseEvents, entry
<1>2. Live' = Live /\ RemovedWereStarted' /\ OneWatcher'
  BY <1>1 DEF Live, RemovedWereStarted, OneWatcher
<1>3. CASE Close
  <2>1. MembersAreStarted'
    BY <1>3 DEF Close, MembersAreStarted
  <2>2. ASSUME NEW e \in Live, e \notin removed
        PROVE  e \in snapshot' /\ phase' = "closing"
    <3>1. owner[e] \in Accounts /\ accounts[owner[e]] = e /\ e # None
      BY <1>3, <2>2, PoolAssumption DEF Close, LiveAreKnown, Live
    <3> QED
      BY <1>3, <3>1 DEF Close
  <2>3. LiveAreKnown'
    BY <1>1, <1>2, <2>2 DEF LiveAreKnown
  <2> QED
    BY <1>2, <2>1, <2>3
<1>4. CASE CloseEvents
  <2>1. \A e \in Live : e \in removed
    BY <1>4 DEF CloseEvents, Awaited, LiveAreKnown, Live
  <2>2. MembersAreStarted'
    BY <1>1, <1>4 DEF CloseEvents, MembersAreStarted
  <2>3. LiveAreKnown'
    BY <1>1, <1>2, <2>1 DEF LiveAreKnown
  <2> QED
    BY <1>2, <2>2, <2>3
<1> QED
  BY <1>3, <1>4

\* Before Close, a connection is closed or forwarded.
LEMMA ConnStep ==
    ASSUME IInv, [Next]_vars
    PROVE  OpenAreForwarded'
<1> USE DEF IInv
<1>1. ASSUME NEW a \in Accounts, NEW e \in Entries, AddAccount(a, e)
      PROVE  OpenAreForwarded'
  BY <1>1 DEF AddAccount, Goto, OpenAreForwarded, TypeOK
<1>2. CASE \/ Close \/ CloseEvents \/ Consume
           \/ \E a \in Accounts : RemoveAccount(a)
           \/ \E e \in Entries : CloseStopCh(e)
           \/ UNCHANGED vars
  BY <1>2
  DEF Close, CloseEvents, Consume, RemoveAccount, CloseStopCh, OpenAreForwarded, vars, pool, entry
<1>3. ASSUME NEW e \in Entries,
             ConnDrops(e) \/ MailboxUpdate(e) \/ SendPanics(e) \/ FallSilent(e)
      PROVE  OpenAreForwarded'
  BY <1>3
  DEF ConnDrops, MailboxUpdate, SendPanics, FallSilent, OpenAreForwarded, TypeOK, pool, entry
<1>4. ASSUME NEW e \in Entries, Run(e) \/ ForwardStopped(e) \/ TakeEvent(e)
      PROVE  OpenAreForwarded'
  <2>1. UNCHANGED phase
    BY <1>4, RunShape DEF pool
  <2>2. ASSUME NEW f \in Entries, f # e
        PROVE  conn'[f] = conn[f] /\ pc'[f] = pc[f]
    BY <1>4, <2>2
    DEF Run, Loop, Dial, Dialled, Connected, NotSupported, DialFails, Wait, WaitStopped,
        BackoffOver, Forward, CheckClosed, SendEvent, ForwardStopped, ConnClosed, TakeEvent, Goto,
        CloseConn, TypeOK
  <2>3. CASE Loop(e) \/ Dialled(e) \/ NotSupported(e) \/ DialFails(e) \/ Wait(e)
    <3>1. pc[e] \in {"loop", "dial", "connect", "wait"} /\ UNCHANGED conn
      BY <2>3 DEF Loop, Dialled, NotSupported, DialFails, Wait, WaitStopped, BackoffOver
    <3> QED
      BY <2>1, <2>2, <3>1 DEF OpenAreForwarded
  <2>4. CASE Connected(e) \/ Forward(e) \/ ForwardStopped(e) \/ ConnClosed(e) \/ TakeEvent(e)
    <3>1. \/ pc'[e] \in {"forward", "check", "send", "close"}
          \/ conn'[e] = "closed"
          \/ phase # "open"
      BY <2>4
      DEF Connected, Forward, CheckClosed, SendEvent, ForwardStopped, ConnClosed, TakeEvent,
          Goto,
        CloseConn, TypeOK
    <3> QED
      BY <2>1, <2>2, <3>1 DEF OpenAreForwarded
  <2> QED
    BY <1>4, <2>3, <2>4 DEF Run, Dial
<1> QED
  BY <1>1, <1>2, <1>3, <1>4 DEF Next

\* Every step preserves the invariant.
LEMMA InvStep == IInv /\ [Next]_vars => IInv'
<1> SUFFICES ASSUME IInv, [Next]_vars
             PROVE  IInv'
  OBVIOUS
<1>1. TypeOK' /\ OpenAreForwarded'
  BY TypeStep, ConnStep DEF IInv
<1>2. CASE \/ \E e \in Entries : \/ Run(e) \/ ForwardStopped(e) \/ TakeEvent(e)
                                 \/ SendPanics(e) \/ MailboxUpdate(e) \/ ConnDrops(e)
                                 \/ FallSilent(e)
           \/ Consume
           \/ UNCHANGED vars
  <2>1. /\ UNCHANGED pool
        /\ \A e \in Entries :
              pc'[e] = pc[e] \/ (pc[e] # "new" /\ pc'[e] # "new" /\ pc[e] # "done")
    <3>1. ASSUME NEW e \in Entries, Run(e) \/ ForwardStopped(e) \/ TakeEvent(e)
          PROVE  /\ UNCHANGED pool
                 /\ \A f \in Entries :
                       pc'[f] = pc[f] \/ (pc[f] # "new" /\ pc'[f] # "new" /\ pc[f] # "done")
      <4>1. PICK l \in Labels \ {"new"} : pc' = [pc EXCEPT ![e] = l]
        BY <3>1, RunShape DEF IInv
      <4>2. UNCHANGED pool /\ pc[e] \notin {"new", "done"}
        BY <3>1, RunShape DEF IInv
      <4> QED
        BY <4>1, <4>2 DEF IInv, TypeOK
    <3>2. CASE \/ \E e \in Entries : \/ SendPanics(e) \/ MailboxUpdate(e) \/ ConnDrops(e)
                                     \/ FallSilent(e)
               \/ Consume
               \/ UNCHANGED vars
      BY <3>2 DEF SendPanics, MailboxUpdate, ConnDrops, FallSilent, Consume, vars, entry
    <3> QED
      BY <1>2, <3>1, <3>2
  <2> QED
    BY <1>1, <2>1, NobodyStarts DEF IInv
<1>3. ASSUME NEW a \in Accounts, NEW e \in Entries, AddAccount(a, e)
      PROVE  IInv'
  BY <1>1, <1>3, AddWatched DEF IInv
<1>4. ASSUME NEW a \in Accounts, RemoveAccount(a)
      PROVE  IInv'
  BY <1>1, <1>4, RemoveWatched DEF IInv
<1>5. CASE Close \/ CloseEvents
  BY <1>1, <1>5, CloseWatched DEF IInv
<1>6. ASSUME NEW e \in Entries, CloseStopCh(e)
      PROVE  IInv'
  <2>1. UNCHANGED <<accounts, phase, snapshot, removed, owner, pc>>
    BY <1>6 DEF CloseStopCh, entry
  <2> QED
    BY <1>1, <2>1
    DEF IInv, MembersAreStarted, LiveAreKnown, RemovedWereStarted, OneWatcher, Live
<1> QED
  BY <1>2, <1>3, <1>4, <1>5, <1>6 DEF Next

\* Hence it holds in every reachable state.
LEMMA AlwaysIInv == Spec => []IInv
<1>1. Init => IInv
  BY TypeInit
  DEF Init, IInv, MembersAreStarted, LiveAreKnown, RemovedWereStarted, OneWatcher,
      OpenAreForwarded, Live
<1> QED
  BY <1>1, InvStep, PTL DEF Spec

\* Of the goroutines that were not removed, one at most watches an account.
THEOREM OneGoroutineWatches == Spec => []OneWatcher
<1>1. IInv => OneWatcher
  BY DEF IInv
<1> QED
  BY AlwaysIInv, <1>1, PTL

\* Outside of Close, a goroutine that ends has closed its connection.
THEOREM LeaksOnlyOnClose == Spec => []LeakOnlyOnClose
<1>1. IInv => LeakOnlyOnClose
  BY DEF IInv, OpenAreForwarded, LeakOnlyOnClose
<1> QED
  BY AlwaysIInv, <1>1, PTL

------------------------------------------------------------------------------
(* The pool implements EventSource.                                          *)

\* A goroutine's own step ends it, or emits an event, or is not seen.
LEMMA RunRefines ==
    ASSUME TypeOK, NEW e \in Entries, Run(e) \/ ForwardStopped(e) \/ TakeEvent(e)
    PROVE  Source!Next \/ UNCHANGED Source!vars
<1>1. PICK l \in Labels \ {"new"} : pc' = [pc EXCEPT ![e] = l]
  BY RunShape
<1>2. /\ pc[e] \notin {"new", "done"}
      /\ UNCHANGED <<accounts, phase, removed, panicked>>
  BY RunShape DEF pool
<1>3. e \in Live /\ Live' = IF l = "done" THEN Live \ {e} ELSE Live
  BY <1>1, <1>2 DEF Live, TypeOK
<1>4. CASE SendEvent(e)
  <2>1. Live' = Live
    BY <1>4 DEF SendEvent, Goto, Live, TypeOK
  <2>2. CASE Room
    <3>1. Source!Emit(e)
      BY <1>2, <1>3, <1>4, <2>1, <2>2 DEF SendEvent, Room, Source!Emit
    <3> QED
      BY <3>1 DEF Source!Next
  <2>3. CASE ~Room
    BY <1>2, <1>4, <2>1, <2>3 DEF SendEvent, Source!vars
  <2> QED
    BY <2>2, <2>3
<1>5. CASE ~SendEvent(e)
  <2>1. UNCHANGED events
    BY <1>5
    DEF Run, Loop, Dial, Dialled, Connected, NotSupported, DialFails, Wait, WaitStopped,
        BackoffOver, Forward, CheckClosed, ForwardStopped, ConnClosed, TakeEvent
  <2>2. CASE l = "done"
    <3>1. Source!End(e)
      BY <1>2, <1>3, <2>1, <2>2 DEF Source!End
    <3> QED
      BY <3>1 DEF Source!Next
  <2>3. CASE l # "done"
    BY <1>2, <1>3, <2>1, <2>3 DEF Source!vars
  <2> QED
    BY <2>2, <2>3
<1> QED
  BY <1>4, <1>5

\* Every step is one of the abstract source, or none.
LEMMA StepRefines == IInv /\ [Next]_vars => [Source!Next]_(Source!vars)
<1> SUFFICES ASSUME IInv, [Next]_vars
             PROVE  Source!Next \/ UNCHANGED Source!vars
  OBVIOUS
<1>0. TypeOK
  BY DEF IInv
<1>1. ASSUME NEW a \in Accounts, NEW e \in Entries, AddAccount(a, e)
      PROVE  Source!Next
  <2>1. e \notin Live /\ Live' = Live \cup {e}
    BY <1>0, <1>1 DEF AddAccount, Goto, Live, TypeOK
  <2>2. Source!Add(a, e)
    BY <1>1, <2>1 DEF AddAccount, Running, Vacant, Source!Add
  <2> QED
    BY <2>2 DEF Source!Next
<1>2. ASSUME NEW a \in Accounts, RemoveAccount(a)
      PROVE  Source!Next
  <2>1. Source!Release(a)
    BY <1>2 DEF RemoveAccount, Running, entry, Live, Source!Release
  <2> QED
    BY <2>1 DEF Source!Next
<1>3. CASE Close
  <2>1. Source!CloseBegin
    BY <1>3 DEF Close, Running, entry, Live, Source!CloseBegin
  <2> QED
    BY <2>1 DEF Source!Next
<1>4. CASE CloseEvents
  <2>1. Live \subseteq removed
    BY <1>4 DEF IInv, LiveAreKnown, CloseEvents, Awaited, Live
  <2>2. Source!CloseEnd
    BY <1>4, <2>1 DEF CloseEvents, Running, entry, Live, Source!CloseEnd
  <2> QED
    BY <2>2 DEF Source!Next
<1>5. ASSUME NEW e \in Entries, Run(e) \/ ForwardStopped(e) \/ TakeEvent(e)
      PROVE  Source!Next \/ UNCHANGED Source!vars
  BY <1>0, <1>5, RunRefines
<1>6. ASSUME NEW e \in Entries, SendPanics(e)
      PROVE  Source!Next
  <2>1. e \in Live \cap removed
    BY <1>6 DEF IInv, LiveAreKnown, SendPanics, Live
  <2>2. Source!SendOnClosed(e)
    BY <1>6, <2>1 DEF SendPanics, pool, entry, Live, Source!SendOnClosed
  <2> QED
    BY <2>2 DEF Source!Next
<1>7. CASE Consume
  <2>1. Source!Consume
    BY <1>7 DEF Consume, Running, pool, entry, Live, Source!Consume
  <2> QED
    BY <2>1 DEF Source!Next
<1>8. CASE \/ \E e \in Entries : \/ MailboxUpdate(e) \/ ConnDrops(e)
                                 \/ FallSilent(e) \/ CloseStopCh(e)
           \/ UNCHANGED vars
  BY <1>8
  DEF MailboxUpdate, ConnDrops, FallSilent, CloseStopCh, Running, vars, pool, entry, Live,
      Source!vars
<1> QED
  BY <1>1, <1>2, <1>3, <1>4, <1>5, <1>6, <1>7, <1>8 DEF Next

\* The pool is an event source: only a goroutine being removed can send on the
\* closed channel, and the channel never holds more than its capacity.
THEOREM PoolImplementsSource == Spec => ImplementsSource
<1>1. Init => Source!Init
  BY DEF Init, Source!Init, Live
<1> QED
  BY AlwaysIInv, <1>1, StepRefines, PTL DEF Spec, ImplementsSource, Source!Spec
=============================================================================
