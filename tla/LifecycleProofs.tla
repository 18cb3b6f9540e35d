--------------------------- MODULE LifecycleProofs ---------------------------
(***************************************************************************)
(* Proofs about Lifecycle, for any clients, keys and faults, and any bounds *)
(* on starts and requests.                                                  *)
(***************************************************************************)
EXTENDS Lifecycle, FiniteSetTheorems, SequenceTheorems, TLAPS

\* A set all of whose elements but one are in another has at most one element
\* more than what the two share.
LEMMA AllButOne ==
    ASSUME NEW S, NEW T, IsFiniteSet(S), \A a, b \in S \ T : a = b
    PROVE  Cardinality(S) <= 1 + Cardinality(S \cap T)
<1> DEFINE C == Cardinality(S \cap T)
<1>1. Cardinality(S) \in Nat
  BY FS_CardinalityType
<1>2. C \in {Cardinality(S), Cardinality(S) - 1}
  <2>1. S \cap T = S \/ \E x \in S : S \cap T = S \ {x}
    OBVIOUS
  <2> QED
    BY <2>1, FS_RemoveElement
<1> HIDE DEF C
<1>3. Cardinality(S) <= 1 + C
  BY <1>1, <1>2
<1> QED
  BY <1>3 DEF C

\* While the process is serving, an account that was there at its start and is
\* not deleted is watched, excused, waiting to be added, or kept from it by an
\* account that cannot be read.
Accounted ==
    phase = "serving" => \A i \in before \cap There :
        \/ loader = "list"
        \/ i \in idle \cup polled \cup excused \cup todo
        \/ i = adding
        \/ \E j \in before : ~Readable(j)

\* The loader ends, or goes on to the next account, with nothing in its hands.
NothingPending ==
    /\ loader \in {"list", "next", "done"} => adding = 0
    /\ phase = "serving" /\ loader \in {"list", "done"} => todo = {}

\* Accounts made since the start of the process have its key.
NewAreReadable == \A i \in There \ before : Readable(i)

\* An account whose 201 was not lost is the one its client was told of, or the
\* one its request is about to answer.
Claimed ==
    \A i \in There \ lost : told[Row(i).box] = i \/ made[Row(i).box] = i

\* A client that was told of an account makes no request.
TellsOnce ==
    \A c \in Clients : /\ req[c] # "none" => told[c] = 0
                       /\ made[c] # 0 => req[c] = "answer"

\* The inductive invariant.
IInv ==
    /\ TypeOK
    /\ QuietAfterClose
    /\ Accounted
    /\ NothingPending
    /\ NewAreReadable
    /\ Claimed
    /\ TellsOnce

------------------------------------------------------------------------------
(* The table.                                                                *)

\* An insert makes a new row and leaves the others alone.
LEMMA InsertedRow ==
    ASSUME accounts \in Seq(Accounts), NEW a \in Accounts, accounts' = Append(accounts, a)
    PROVE  /\ accounts' \in Seq(Accounts)
           /\ Len(accounts) \in Nat /\ Len(accounts') = Len(accounts) + 1
           /\ accounts'[Len(accounts')] = a
           /\ \A i \in Ids : i \in Ids' /\ accounts'[i] = accounts[i]
           /\ Ids' = Ids \cup {Len(accounts')}
BY DEF Ids

\* A deletion leaves the row in its place, and the others alone.
LEMMA DeletedRow ==
    ASSUME accounts \in Seq(Accounts), NEW d \in Ids,
           accounts' = [accounts EXCEPT ![d] = Deleted(Row(d))]
    PROVE  /\ accounts' \in Seq(Accounts)
           /\ Ids' = Ids
           /\ There' = There \ {d}
           /\ \A i \in Ids : /\ accounts'[i].box = accounts[i].box
                             /\ accounts'[i].key = accounts[i].key
<1> DEFINE e == Deleted(Row(d))
<1>1. d \in 1..Len(accounts) /\ Row(d) \in Accounts
  BY DEF Ids, Row
<1>2. e \in Accounts /\ e.box = Row(d).box /\ e.key = Row(d).key /\ e.there = FALSE
  BY <1>1 DEF Accounts, Deleted
<1> HIDE DEF e
<1>3. accounts' = [accounts EXCEPT ![d] = e]
  BY DEF e
<1>4. /\ accounts' \in Seq(Accounts)
      /\ Len(accounts') = Len(accounts)
      /\ \A i \in 1..Len(accounts) : accounts'[i] = IF i = d THEN e ELSE accounts[i]
  BY <1>1, <1>2, <1>3, ExceptSeq
<1> QED
  BY <1>1, <1>2, <1>4 DEF Ids, There, Row

\* Rows are there or not as the table says.
LEMMA SameTable ==
    ASSUME UNCHANGED accounts
    PROVE  Ids' = Ids /\ There' = There
BY DEF Ids, There, Row

\* An account is somebody's, and has a number.
LEMMA RowTyped ==
    ASSUME TypeOK, NEW i \in Ids
    PROVE  Row(i) \in Accounts /\ Row(i).box \in Clients /\ i # 0
<1>1. Row(i) \in Accounts /\ i # 0
  BY DEF TypeOK, Ids, Row
<1> QED
  BY <1>1 DEF Accounts

------------------------------------------------------------------------------
(* Type correctness.                                                         *)

\* The initial states are well typed.
LEMMA TypeInit == Init => TypeOK
BY LifecycleAssumption DEF Init, TypeOK, Ids, Phases, Services

\* What the handler knows after its insert.
LEMMA InsertShape ==
    ASSUME NEW c, Insert(c)
    PROVE  \/ /\ req' = [req EXCEPT ![c] = "answer"]
              /\ made' = [made EXCEPT ![c] = Len(accounts')]
              /\ UNCHANGED lost
           \/ /\ req' = [req EXCEPT ![c] = "none"]
              /\ UNCHANGED made
              /\ UNCHANGED table \/ lost' = lost \cup {Len(accounts')}
BY DEF Insert, AfterInsert

\* An insert leaves a well typed state well typed.
LEMMA InsertTyped ==
    ASSUME TypeOK, NEW c \in Clients, Insert(c)
    PROVE  TypeOK'
<1>1. /\ UNCHANGED <<phase, starts, key, before, loader, todo, adding, excused>>
      /\ UNCHANGED <<idle, polled, running, silent, creates, told>>
      /\ req[c] = "query"
  BY DEF Insert, Handling, proc, load, watch
<1>2. CASE UNCHANGED table
  BY <1>1, <1>2, InsertShape, SameTable DEF TypeOK, table, Insert
<1>3. CASE accounts' = Append(accounts, [box |-> c, key |-> key, there |-> TRUE])
  <2>1. [box |-> c, key |-> key, there |-> TRUE] \in Accounts
    BY <1>1 DEF Accounts, TypeOK
  <2>2. /\ accounts' \in Seq(Accounts)
        /\ Ids' = Ids \cup {Len(accounts')}
        /\ Len(accounts') # 0
    BY <1>3, <2>1, InsertedRow DEF TypeOK
  <2>3. made' \in [Clients -> Ids' \cup {0}] /\ lost' \subseteq Ids'
    BY <2>2, InsertShape DEF TypeOK, table
  <2>4. /\ req' \in [Clients -> {"none", "testing", "tested", "query", "answer"}]
        /\ \A b \in Clients : /\ req'[b] # "none" => phase' # "down"
                              /\ req'[b] = "answer" => made'[b] # 0
    BY <1>1, <2>2, InsertShape DEF TypeOK
  <2>5. phase' # "down" => key' \in Keys
    BY <1>1 DEF TypeOK
  <2> QED
    BY <1>1, <2>2, <2>3, <2>4, <2>5 DEF TypeOK
<1> QED
  BY <1>2, <1>3 DEF Insert

\* Every action leaves a well typed state well typed.
LEMMA TypeStep == TypeOK /\ [Next]_vars => TypeOK'
<1> SUFFICES ASSUME TypeOK, [Next]_vars PROVE TypeOK'
  OBVIOUS
<1> USE LifecycleAssumption DEF TypeOK, proc, table, load, watch, api
<1>1. There \subseteq Ids /\ 0 \notin Ids
  BY DEF There, Ids
<1>2. ASSUME NEW k \in Keys, Start(k) PROVE TypeOK'
  BY <1>1, <1>2, SameTable DEF Start, Phases, DatabaseOpen, ListenerOpen, WorkerOpen,
     PollerOpen, PoolOpen, CoordinatorOpen, Serving
<1>3. CASE MainStep
  BY <1>3, SameTable DEF MainStep, Moves, Signal, CloseCoordinator, ClosePool, ClosePoller,
     AwaitHandlers, StopWorker, Shutdown, CloseDatabase, Phases, DatabaseOpen, ListenerOpen,
     WorkerOpen, PollerOpen, PoolOpen, CoordinatorOpen, Serving
<1>4. CASE Exit \/ Crash
  BY <1>4, SameTable DEF Exit, Crash, Gone, Phases
<1>5. ASSUME NEW i \in idle \cup polled, WatcherStops(i) PROVE TypeOK'
  BY <1>5, SameTable DEF WatcherStops
<1>6. ASSUME NEW s \in running, ServiceStops(s) PROVE TypeOK'
  BY <1>6, SameTable DEF ServiceStops
<1>10. ASSUME NEW c \in Clients, FallSilent(c) PROVE TypeOK'
  BY <1>10, SameTable DEF FallSilent
<1>7. CASE LoaderStep
  <2> USE <1>1, <1>7, SameTable DEF Loading
  <2>1. CASE ListAccounts
    BY <2>1 DEF ListAccounts
  <2>2. CASE NextAccount
    BY <2>2 DEF NextAccount
  <2>3. CASE CheckClosed
    BY <2>3 DEF CheckClosed, FailureLogged, Returned
  <2>4. CASE GetAccount
    BY <2>4 DEF GetAccount, FailureLogged, Returned
  <2>5. CASE Probe
    BY <2>5 DEF Probe
  <2>6. CASE AddToPool
    BY <2>6 DEF AddToPool, Returned
  <2>7. CASE AddToPoller
    BY <2>7 DEF AddToPoller, Returned
  <2> QED
    BY <2>1, <2>2, <2>3, <2>4, <2>5, <2>6, <2>7 DEF LoaderStep
<1>8. ASSUME NEW c \in Clients, Request(c) PROVE TypeOK'
  <2>1. CASE Receive(c)
    BY <2>1, SameTable DEF Receive, ListenerOpen, WorkerOpen, PollerOpen, PoolOpen, CoordinatorOpen, Serving
  <2>2. CASE TestConnections(c)
    BY <2>2, SameTable DEF TestConnections, Handling
  <2>3. CASE Acquire(c)
    BY <2>3, SameTable DEF Acquire, Handling
  <2>4. CASE Insert(c)
    BY <2>4, InsertTyped
  <2>5. CASE Answer(c)
    BY <2>5, SameTable DEF Answer, Handling
  <2>6. CASE Delete(c)
    <3>1. told[c] \in Ids
      BY <2>6 DEF Delete
    <3>2. accounts' \in Seq(Accounts) /\ Ids' = Ids
      BY <2>6, <3>1, DeletedRow DEF Delete
    <3> QED
      BY <2>6, <3>2 DEF Delete
  <2> QED
    BY <1>8, <2>1, <2>2, <2>3, <2>4, <2>5, <2>6 DEF Request
<1>9. CASE UNCHANGED vars
  BY <1>9, SameTable DEF vars
<1> QED
  BY <1>2, <1>3, <1>4, <1>5, <1>6, <1>7, <1>8, <1>9, <1>10 DEF Next

------------------------------------------------------------------------------
(* Shutdown.                                                                 *)

\* What has been closed stays quiet.
LEMMA QuietStep == TypeOK /\ QuietAfterClose /\ [Next]_vars => QuietAfterClose'
<1> SUFFICES ASSUME TypeOK, QuietAfterClose, [Next]_vars PROVE QuietAfterClose'
  OBVIOUS
<1> USE DEF QuietAfterClose, ListenerOpen, WorkerOpen, PollerOpen, PoolOpen, CoordinatorOpen, Serving
<1>1. ASSUME NEW k \in Keys, Start(k) PROVE QuietAfterClose'
  BY <1>1 DEF Start, watch
<1>2. CASE MainStep
  BY <1>2 DEF MainStep, Moves, Signal, CloseCoordinator, ClosePool, ClosePoller,
     AwaitHandlers, StopWorker, Shutdown, CloseDatabase, watch
<1>3. CASE Exit \/ Crash
  BY <1>3 DEF Exit, Crash, Gone
<1>4. ASSUME NEW i \in idle \cup polled, WatcherStops(i) PROVE QuietAfterClose'
  BY <1>4 DEF WatcherStops
<1>5. ASSUME NEW s \in running, ServiceStops(s) PROVE QuietAfterClose'
  BY <1>5 DEF ServiceStops, watch
<1>6. CASE LoaderStep
  BY <1>6 DEF LoaderStep, ListAccounts, NextAccount, CheckClosed, GetAccount, Probe,
     AddToPool, AddToPoller, Loading, Accepts, watch
<1>7. ASSUME NEW c \in Clients, Request(c) PROVE QuietAfterClose'
  BY <1>7 DEF Request, Receive, TestConnections, Acquire, Insert, Answer, Delete, Handling, watch
<1>8. CASE UNCHANGED vars \/ \E c \in Clients : FallSilent(c)
  BY <1>8 DEF vars, FallSilent, watch
<1> QED
  BY <1>1, <1>2, <1>3, <1>4, <1>5, <1>6, <1>7, <1>8 DEF Next

------------------------------------------------------------------------------
(* The accounts.                                                             *)

\* A step that leaves the table, the answers and the requests alone keeps what
\* is said of them.
LEMMA RowsStay ==
    ASSUME NewAreReadable, Claimed, TellsOnce, UNCHANGED <<table, api, key, before>>
    PROVE  NewAreReadable' /\ Claimed' /\ TellsOnce'
BY SameTable DEF NewAreReadable, Claimed, TellsOnce, table, api, Readable, Row

\* The same of a step of a request that leaves the table alone.
LEMMA RowsStayTold ==
    ASSUME NewAreReadable, Claimed, UNCHANGED <<accounts, lost, told, made, key, before>>
    PROVE  NewAreReadable' /\ Claimed'
BY SameTable DEF NewAreReadable, Claimed, Readable, Row

\* Every account keeps its explanation, whatever a request does.
LEMMA RequestStep ==
    ASSUME TypeOK, NewAreReadable, Claimed, TellsOnce, NEW c \in Clients, Request(c)
    PROVE  NewAreReadable' /\ Claimed' /\ TellsOnce'
<1>1. CASE Receive(c)
  BY <1>1, RowsStayTold DEF Receive, TellsOnce, TypeOK, table, proc
<1>2. CASE TestConnections(c)
  BY <1>2, RowsStayTold DEF TestConnections, Handling, TellsOnce, TypeOK, table, proc
<1>3. CASE Acquire(c)
  BY <1>3, RowsStayTold DEF Acquire, Handling, TellsOnce, TypeOK, table, proc
<1>4. CASE Insert(c)
  <2>1. UNCHANGED <<told, key, before>> /\ req[c] = "query" /\ made[c] = 0 /\ told[c] = 0
    BY <1>4 DEF Insert, Handling, proc, TellsOnce, TypeOK
  <2>2. CASE UNCHANGED <<table, made>> /\ req' = [req EXCEPT ![c] = "none"]
    BY <2>1, <2>2, RowsStayTold DEF TellsOnce, TypeOK, table
  <2>3. CASE accounts' = Append(accounts, [box |-> c, key |-> key, there |-> TRUE])
    <3> DEFINE new == Len(accounts')
    <3>1. [box |-> c, key |-> key, there |-> TRUE] \in Accounts
      BY <2>1 DEF TypeOK, Accounts
    <3>2. /\ Len(accounts) \in Nat /\ new = Len(accounts) + 1
          /\ accounts'[new] = [box |-> c, key |-> key, there |-> TRUE]
          /\ \A i \in Ids : accounts'[i] = accounts[i]
          /\ Ids' = Ids \cup {new}
      BY <2>3, <3>1, InsertedRow DEF TypeOK
    <3>3. There' \subseteq There \cup {new} /\ There \subseteq Ids
      BY <3>2 DEF There, Row
    <3> HIDE DEF new
    <3>4. NewAreReadable'
      BY <2>1, <3>2, <3>3 DEF NewAreReadable, Readable, Row
    <3>5. \/ made' = [made EXCEPT ![c] = new] /\ req' = [req EXCEPT ![c] = "answer"]
             /\ UNCHANGED lost
          \/ UNCHANGED made /\ req' = [req EXCEPT ![c] = "none"] /\ lost' = lost \cup {new}
      BY <1>4, <2>3 DEF Insert, AfterInsert, new, table
    <3>6. Claimed'
      <4> SUFFICES ASSUME NEW i \in There' \ lost'
                   PROVE  told'[Row(i)'.box] = i \/ made'[Row(i)'.box] = i
        BY DEF Claimed
      <4>1. CASE i = new
        <5>1. i \notin lost'
          OBVIOUS
        <5>2. made' = [made EXCEPT ![c] = new]
          BY <3>5, <4>1, <5>1
        <5> QED
          BY <3>2, <4>1, <5>2 DEF TypeOK, Row
      <4>2. CASE i # new
        <5>1. i \in There \ lost
          BY <3>3, <3>5, <4>2
        <5>2. Row(i)' = Row(i) /\ i \in Ids
          BY <3>2, <3>3, <5>1 DEF Row
        <5>3. told[Row(i).box] = i \/ made[Row(i).box] = i
          BY <5>1 DEF Claimed
        <5>4. Row(i).box \in Clients /\ i # 0
          BY <5>2, RowTyped
        <5> QED
          BY <2>1, <3>5, <5>2, <5>3, <5>4 DEF TypeOK
      <4> QED
        BY <4>1, <4>2
    <3>7. TellsOnce'
      BY <2>1, <3>5 DEF TellsOnce, TypeOK
    <3> QED
      BY <3>4, <3>6, <3>7
  <2> QED
    BY <1>4, <2>2, <2>3 DEF Insert
<1>5. CASE Answer(c)
  <2>1. /\ UNCHANGED <<accounts, key, before>>
        /\ req[c] = "answer" /\ told[c] = 0
        /\ made' = [made EXCEPT ![c] = 0] /\ req' = [req EXCEPT ![c] = "none"]
    BY <1>5 DEF Answer, Handling, proc, TellsOnce
  <2>2. NewAreReadable'
    BY <2>1, SameTable DEF NewAreReadable, Readable, Row
  <2>3. Claimed'
    <3> SUFFICES ASSUME NEW i \in There' \ lost'
                 PROVE  told'[Row(i)'.box] = i \/ made'[Row(i)'.box] = i
      BY DEF Claimed
    <3>1. i \in There /\ i \in Ids /\ Row(i)' = Row(i)
      BY <2>1, SameTable DEF There, Row
    <3>2. Row(i).box \in Clients /\ i # 0
      BY <3>1, RowTyped
    <3>3. CASE told' = [told EXCEPT ![c] = made[c]] /\ UNCHANGED lost
      <4>1. told[Row(i).box] = i \/ made[Row(i).box] = i
        BY <3>1, <3>3 DEF Claimed
      <4> QED
        BY <2>1, <3>1, <3>2, <3>3, <4>1 DEF TypeOK
    <3>4. CASE UNCHANGED told /\ lost' = lost \cup {made[c]}
      <4>1. i # made[c] /\ i \notin lost
        BY <3>4
      <4>2. told[Row(i).box] = i \/ made[Row(i).box] = i
        BY <3>1, <4>1 DEF Claimed
      <4> QED
        BY <2>1, <3>1, <3>2, <3>4, <4>1, <4>2 DEF TypeOK
    <3> QED
      BY <1>5, <3>3, <3>4 DEF Answer
  <2>4. TellsOnce'
    BY <1>5, <2>1 DEF Answer, TellsOnce, TypeOK
  <2> QED
    BY <2>2, <2>3, <2>4
<1>6. CASE Delete(c)
  <2>1. told[c] \in Ids
    BY <1>6 DEF Delete, TypeOK
  <2>2. /\ There' = There \ {told[c]}
        /\ \A i \in Ids : accounts'[i].box = accounts[i].box /\ accounts'[i].key = accounts[i].key
    BY <1>6, <2>1, DeletedRow DEF Delete, TypeOK
  <2>3. NewAreReadable'
    BY <1>6, <2>2 DEF Delete, NewAreReadable, Readable, Row, There, proc
  <2>4. Claimed'
    BY <1>6, <2>2 DEF Delete, Claimed, TypeOK, Row, There
  <2>5. TellsOnce'
    BY <1>6 DEF Delete, TellsOnce, TypeOK
  <2> QED
    BY <2>3, <2>4, <2>5
<1> QED
  BY <1>1, <1>2, <1>3, <1>4, <1>5, <1>6 DEF Request
\* The end of the process loses the answers it has not sent.
LEMMA GoneRows ==
    ASSUME TypeOK, NewAreReadable, Claimed, TellsOnce, Gone
    PROVE  NewAreReadable' /\ Claimed' /\ TellsOnce'
<1>1. /\ UNCHANGED <<accounts, told, key, before>>
      /\ \A c \in Clients : req'[c] = "none" /\ made'[c] = 0
      /\ \A c \in Clients : made[c] # 0 => made[c] \in lost'
      /\ lost \subseteq lost'
  BY DEF Gone, proc
<1>2. NewAreReadable'
  BY <1>1, SameTable DEF NewAreReadable, Readable, Row
<1>3. Claimed'
  <2> SUFFICES ASSUME NEW i \in There' \ lost'
               PROVE  told'[Row(i)'.box] = i
    BY DEF Claimed
  <2>1. i \in There \ lost /\ i \in Ids /\ Row(i)' = Row(i)
    BY <1>1, SameTable DEF There, Row
  <2>2. Row(i).box \in Clients /\ i # 0
    BY <2>1, RowTyped
  <2>3. made[Row(i).box] # i
    BY <1>1, <2>2
  <2> QED
    BY <1>1, <2>1, <2>3 DEF Claimed
<1>4. TellsOnce'
  BY <1>1 DEF TellsOnce
<1> QED
  BY <1>2, <1>3, <1>4

\* A start takes the accounts that are there for granted.
LEMMA StartRows ==
    ASSUME TypeOK, Claimed, TellsOnce, NEW k \in Keys, Start(k)
    PROVE  NewAreReadable' /\ Claimed' /\ TellsOnce'
<1>1. UNCHANGED <<table, api>> /\ before' = There
  BY DEF Start
<1>2. NewAreReadable'
  BY <1>1, SameTable DEF NewAreReadable, table
<1> QED
  BY <1>1, <1>2, SameTable DEF Claimed, TellsOnce, table, api, Row

------------------------------------------------------------------------------
(* The loading of accounts.                                                  *)

\* What is accounted for stays so while the loader, the watchers and the table
\* of older accounts are left alone.
LEMMA AccountedStays ==
    ASSUME Accounted, NothingPending,
           phase' = "serving" => phase = "serving",
           UNCHANGED <<load, watch, key, before>>,
           (before \cap There)' \subseteq before \cap There,
           \A i \in before : Row(i)'.key = Row(i).key
    PROVE  Accounted' /\ NothingPending'
BY DEF Accounted, NothingPending, load, watch, Readable

\* A request neither adds an older account nor touches the key of one.
LEMMA OlderAccounts ==
    ASSUME TypeOK, NEW c \in Clients, Request(c)
    PROVE  /\ (before \cap There)' \subseteq before \cap There
           /\ \A i \in before : Row(i)'.key = Row(i).key
<1>1. before' = before /\ before \subseteq Ids
  BY DEF TypeOK, Request, Receive, TestConnections, Acquire, Insert, Answer, Delete, Handling, proc
<1>2. CASE UNCHANGED accounts
  BY <1>1, <1>2, SameTable DEF Row
<1>3. CASE Insert(c) /\ accounts' = Append(accounts, [box |-> c, key |-> key, there |-> TRUE])
  <2>1. key \in Keys
    BY <1>3 DEF Insert, Handling, TypeOK
  <2>2. [box |-> c, key |-> key, there |-> TRUE] \in Accounts
    BY <2>1 DEF Accounts
  <2>3. \A i \in Ids : accounts'[i] = accounts[i]
    BY <1>3, <2>2, InsertedRow DEF TypeOK
  <2> QED
    BY <1>1, <2>3 DEF There, Row
<1>4. CASE Delete(c)
  <2>1. told[c] \in Ids
    BY <1>4 DEF Delete, TypeOK
  <2>2. /\ There' = There \ {told[c]}
        /\ \A i \in Ids : accounts'[i].key = accounts[i].key
    BY <1>4, <2>1, DeletedRow DEF Delete, TypeOK
  <2> QED
    BY <1>1, <2>2 DEF Row
<1> QED
  BY <1>2, <1>3, <1>4 DEF Request, Receive, TestConnections, Acquire, Insert, Answer, table

\* No step of the loader leaves an account behind without a reason.
LEMMA LoaderAccounts ==
    ASSUME TypeOK, Accounted, NothingPending, NewAreReadable, LoaderStep
    PROVE  Accounted' /\ NothingPending'
<1>1. /\ UNCHANGED <<phase, key, before, accounts>>
      /\ There' = There /\ 0 \notin There
      /\ \A i : Readable(i)' = Readable(i)
  <2>1. UNCHANGED <<phase, key, before, accounts>>
    BY DEF LoaderStep, ListAccounts, NextAccount, CheckClosed, GetAccount, Probe, AddToPool,
       AddToPoller, Loading, proc, table
  <2> QED
    BY <2>1, SameTable DEF Readable, Row, There, Ids
<1> USE DEF Loading, watch
<1>2. CASE ListAccounts
  <2>1. phase = "serving" => \A i \in There : ~Readable(i) => i \in before
    BY DEF NewAreReadable
  <2> QED
    BY <1>1, <1>2, <2>1 DEF ListAccounts, Cancelled, Serving, Accounted, NothingPending
<1>3. CASE NextAccount
  BY <1>1, <1>3 DEF NextAccount, Cancelled, Serving, Accounted, NothingPending
<1>4. CASE CheckClosed
  BY <1>1, <1>4 DEF CheckClosed, FailureLogged, Returned, CoordinatorOpen, Serving, Accounted, NothingPending
<1>5. CASE GetAccount
  BY <1>1, <1>5 DEF GetAccount, FailureLogged, Returned, Cancelled, Serving, Accounted, NothingPending
<1>6. CASE Probe
  BY <1>1, <1>6 DEF Probe, Accounted, NothingPending
<1>7. CASE AddToPool
  BY <1>1, <1>7 DEF AddToPool, Returned, Accepts, PoolOpen, CoordinatorOpen, Serving, Accounted, NothingPending
<1>8. CASE AddToPoller
  BY <1>1, <1>8 DEF AddToPoller, Returned, Accepts, PollerOpen, PoolOpen, CoordinatorOpen, Serving,
     Accounted, NothingPending
<1> QED
  BY <1>2, <1>3, <1>4, <1>5, <1>6, <1>7, <1>8 DEF LoaderStep

------------------------------------------------------------------------------
(* The inductive invariant.                                                  *)

\* It holds in the initial states.
LEMMA InvInit == Init => IInv
<1> SUFFICES ASSUME Init PROVE IInv
  OBVIOUS
<1>1. There = {}
  BY DEF Init, There, Ids
<1> QED
  BY <1>1, TypeInit DEF Init, IInv, QuietAfterClose, Accounted, NothingPending, NewAreReadable,
     Claimed, TellsOnce

\* Every step preserves it.
LEMMA InvStep == IInv /\ [Next]_vars => IInv'
<1> SUFFICES ASSUME IInv, [Next]_vars PROVE IInv'
  OBVIOUS
<1> DEFINE Loads == Accounted' /\ NothingPending'
           Rows == NewAreReadable' /\ Claimed' /\ TellsOnce'
<1>0. /\ TypeOK /\ Accounted /\ NothingPending
      /\ NewAreReadable /\ Claimed /\ TellsOnce
  BY DEF IInv
<1>1. TypeOK' /\ QuietAfterClose'
  BY TypeStep, QuietStep DEF IInv
<1>2. ASSUME NEW k \in Keys, Start(k) PROVE Loads /\ Rows
  <2>1. Loads
    BY <1>2 DEF Start, Accounted, NothingPending
  <2> QED
    BY <1>0, <1>2, <2>1, StartRows
<1>3. ASSUME MainStep PROVE Loads /\ Rows
  <2>1. /\ UNCHANGED <<load, watch, key, before, table, api>>
        /\ phase' = "serving" => phase = "serving"
    BY <1>3 DEF MainStep, Moves, Signal, CloseCoordinator, ClosePool, ClosePoller, AwaitHandlers,
       StopWorker, Shutdown, CloseDatabase, proc
  <2> QED
    BY <1>0, <2>1, AccountedStays, RowsStay, SameTable DEF table, Row
<1>4. ASSUME Exit \/ Crash PROVE Loads /\ Rows
  <2>1. Gone
    BY <1>4 DEF Exit, Crash
  <2>2. Loads
    BY <2>1 DEF Gone, Accounted, NothingPending
  <2> QED
    BY <1>0, <2>1, <2>2, GoneRows
<1>5. ASSUME NEW i \in idle \cup polled, WatcherStops(i) PROVE Loads /\ Rows
  <2>1. /\ UNCHANGED <<phase, load, key, before, table, api>>
        /\ phase # "serving"
    BY <1>5 DEF WatcherStops, PollerOpen, PoolOpen, CoordinatorOpen, Serving, proc
  <2>2. Loads
    BY <1>0, <2>1 DEF Accounted, NothingPending, load
  <2> QED
    BY <1>0, <2>1, <2>2, RowsStay
<1>6. ASSUME NEW s \in running, ServiceStops(s) PROVE Loads /\ Rows
  <2>1. UNCHANGED <<phase, load, watch, key, before, table, api>>
    BY <1>6 DEF ServiceStops, proc
  <2> QED
    BY <1>0, <2>1, AccountedStays, RowsStay, SameTable DEF table, Row
<1>7. ASSUME LoaderStep PROVE Loads /\ Rows
  <2>1. UNCHANGED <<key, before, table, api>>
    BY <1>7 DEF LoaderStep, ListAccounts, NextAccount, CheckClosed, GetAccount, Probe, AddToPool,
       AddToPoller, Loading, proc
  <2> QED
    BY <1>0, <1>7, <2>1, LoaderAccounts, RowsStay
<1>8. ASSUME NEW c \in Clients, Request(c) PROVE Loads /\ Rows
  <2>1. UNCHANGED <<phase, load, watch, key, before>>
    BY <1>8 DEF Request, Receive, TestConnections, Acquire, Insert, Answer, Delete, Handling, proc
  <2>2. /\ (before \cap There)' \subseteq before \cap There
        /\ \A i \in before : Row(i)'.key = Row(i).key
    BY <1>0, <1>8, OlderAccounts
  <2>3. Loads
    BY <1>0, <2>1, <2>2, AccountedStays
  <2> QED
    BY <1>0, <1>8, <2>3, RequestStep
<1>9. ASSUME UNCHANGED vars \/ \E c \in Clients : FallSilent(c) PROVE Loads /\ Rows
  <2>1. UNCHANGED <<phase, load, watch, key, before, table, api>>
    BY <1>9 DEF vars, FallSilent, proc
  <2> QED
    BY <1>0, <2>1, AccountedStays, RowsStay, SameTable DEF table, Row
<1>10. Loads /\ Rows
  BY <1>2, <1>3, <1>4, <1>5, <1>6, <1>7, <1>8, <1>9 DEF Next
<1> QED
  BY <1>1, <1>10 DEF IInv

\* Every reachable state satisfies it.
LEMMA InvAlways == Spec => []IInv
BY InvInit, InvStep, PTL DEF Spec

------------------------------------------------------------------------------
(* The theorems.                                                             *)

\* main.go, account_handler.go: every reachable state is well typed; a request
\* never outlives its process.
THEOREM LifecycleTypeCorrect == Spec => []TypeOK
<1>1. IInv => TypeOK
  BY DEF IInv
<1> QED
  BY <1>1, InvAlways, PTL

\* coordinator.go:178-208, main.go:146-189: what Close has waited for stays
\* quiet, wherever the loader is.
THEOREM ClosedStaysQuiet == Spec => []QuietAfterClose
<1>1. IInv => QuietAfterClose
  BY DEF IInv
<1> QED
  BY <1>1, InvAlways, PTL

\* main.go:193-225: an account there at the start is watched once the accounts
\* have been loaded, or there is one of the listed reasons.
THEOREM EveryAccountIsWatched == Spec => []UnwatchedExplained
<1>1. IInv => UnwatchedExplained
  <2> SUFFICES ASSUME IInv, phase = "serving", loader = "done", NEW i \in before \cap There
               PROVE  i \in idle \cup polled \/ i \in excused \/ \E j \in before : ~Readable(j)
    BY DEF UnwatchedExplained
  <2>1. todo = {} /\ adding = 0 /\ i # 0
    BY RowTyped DEF IInv, NothingPending, There
  <2> QED
    BY <2>1 DEF IInv, Accounted
<1> QED
  BY <1>1, InvAlways, PTL

\* account_handler.go:132-141: a mailbox has as many accounts more than one as
\* there were lost answers.
THEOREM SecondRowsAreExplained == Spec => []SecondRowExplained
<1>1. IInv => SecondRowExplained
  <2> SUFFICES ASSUME IInv, NEW c \in Clients
               PROVE  LET mine == {i \in There : Row(i).box = c}
                      IN  Cardinality(mine) <= 1 + Cardinality(mine \cap lost)
    BY DEF SecondRowExplained
  <2> DEFINE mine == {i \in There : Row(i).box = c}
  <2>1. Len(accounts) \in Nat
    BY DEF IInv, TypeOK
  <2>2. IsFiniteSet(Ids)
    BY <2>1, FS_Interval DEF Ids
  <2>3. IsFiniteSet(mine)
    BY <2>2, FS_Subset, mine \in SUBSET Ids DEF There
  <2>4. \A a, b \in mine \ lost : a = b
    <3>1. \A a \in mine \ lost : a # 0 /\ (told[c] = a \/ made[c] = a)
      BY RowTyped DEF IInv, Claimed, There
    <3>2. told[c] # 0 => made[c] = 0
      BY DEF IInv, TellsOnce
    <3> QED
      BY <3>1, <3>2
  <2> HIDE DEF mine
  <2>5. Cardinality(mine) <= 1 + Cardinality(mine \cap lost)
    BY <2>3, <2>4, AllButOne
  <2> QED
    BY <2>5 DEF mine
<1> QED
  BY <1>1, InvAlways, PTL
==============================================================================
