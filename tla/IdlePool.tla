------------------------------- MODULE IdlePool -------------------------------
(***************************************************************************)
(* internal/sync/pool.go with the connections of internal/sync/idle.go: one *)
(* goroutine per account connects, forwards what its connection reports to  *)
(* the pool's channel, and ends when the account is removed or the pool is  *)
(* closed.  One action per step between two synchronisations: a select, a   *)
(* lock of p.mu, the dial, the IMAP commands.  Only the dial has a deadline: *)
(* a server that falls silent later holds the goroutine.                     *)
(***************************************************************************)
EXTENDS Integers, FiniteSets

CONSTANTS Accounts,    \* mail accounts
          Entries,     \* accountEntry values, a fresh one per AddAccount
          PoolCap,     \* capacity of p.events (100 in the code)
          ConnCap,     \* capacity of ic.events (100 in the code)
          MaxRetries,  \* bound: failed dials in a row that are counted
          None         \* no entry

ASSUME PoolAssumption ==
    /\ PoolCap \in Nat
    /\ ConnCap \in Nat
    /\ MaxRetries \in Nat
    /\ None \notin Entries

VARIABLES accounts,  \* accounts[a]: the entry p.accounts holds for a, or None
          phase,     \* "open"; "closing": p.closed set and p.ctx cancelled;
                     \* "closed": p.events closed as well
          snapshot,  \* the entries Close waits for
          removed,   \* entries RemoveAccount has deleted from p.accounts
          stopCh,    \* those whose stopCh it has closed as well
          owner,     \* owner[e]: the account of entry e, or None
          pc,        \* pc[e]: what the goroutine of e does next
          conn,      \* conn[e]: its connection: "none", "up", "dead"; "closing":
                     \* ic.closed set and ic.events closed; "closed"
          buffer,    \* buffer[e]: events in ic.events of that connection
          retries,   \* retries[e]: retryCount, which the backoff follows
          silent,    \* entries whose server has fallen silent in a command
          events,    \* events in p.events
          panicked   \* a goroutine has sent on the closed channel

pool == <<accounts, phase, snapshot, removed, stopCh, owner>>
entry == <<pc, conn, buffer, retries, silent>>
vars == <<pool, entry, events, panicked>>

Init ==
    /\ accounts = [a \in Accounts |-> None]
    /\ phase = "open"
    /\ snapshot = {}
    /\ removed = {}
    /\ stopCh = {}
    /\ owner = [e \in Entries |-> None]
    /\ pc = [e \in Entries |-> "new"]
    /\ conn = [e \in Entries |-> "none"]
    /\ buffer = [e \in Entries |-> 0]
    /\ retries = [e \in Entries |-> 0]
    /\ silent = {}
    /\ events = 0
    /\ panicked = FALSE

Goto(e, label) == pc' = [pc EXCEPT ![e] = label]

\* A panic ends the process, and every goroutine with it.
Running == ~panicked /\ UNCHANGED panicked

\* What the selects on entry.stopCh and p.ctx.Done() see.
Stopped(e) == e \in stopCh \/ phase # "open"

\* A plausible bug: an account that is watched can be added.
VacantAlways(a) == TRUE

Vacant(a) == accounts[a] = None

------------------------------------------------------------------------------
(* The callers: AddAccount, RemoveAccount, Close.                            *)

AddAccount(a, e) ==
    /\ Running
    /\ phase = "open"
    /\ Vacant(a)
    /\ pc[e] = "new"
    /\ accounts' = [accounts EXCEPT ![a] = e]
    /\ owner' = [owner EXCEPT ![e] = a]
    /\ Goto(e, "loop")
    /\ UNCHANGED <<phase, snapshot, removed, stopCh, conn, buffer, retries, silent, events>>

\* RemoveAccount under the lock.  When it is released, AddAccount and Close may
\* come before stopCh is closed.
RemoveAccount(a) ==
    /\ Running
    /\ phase = "open"
    /\ accounts[a] # None
    /\ accounts' = [accounts EXCEPT ![a] = None]
    /\ removed' = removed \cup {accounts[a]}
    /\ UNCHANGED <<phase, snapshot, stopCh, owner, entry, events>>

\* It returns once pc[e] is "done".
CloseStopCh(e) ==
    /\ Running
    /\ e \in removed \ stopCh
    /\ stopCh' = stopCh \cup {e}
    /\ UNCHANGED <<accounts, phase, snapshot, removed, owner, entry, events>>

\* Close up to its first wait.  Accounts just removed are not waited for.
Close ==
    /\ Running
    /\ phase = "open"
    /\ phase' = "closing"
    /\ snapshot' = {accounts[a] : a \in Accounts} \ {None}
    /\ accounts' = [a \in Accounts |-> None]
    /\ UNCHANGED <<removed, stopCh, owner, entry, events>>

\* A plausible bug: Close does not wait for the goroutines.
AwaitNone == {}

Awaited == snapshot

CloseEvents ==
    /\ Running
    /\ phase = "closing"
    /\ \A e \in Awaited : pc[e] = "done"
    /\ phase' = "closed"
    /\ UNCHANGED <<accounts, snapshot, removed, stopCh, owner, entry, events>>

------------------------------------------------------------------------------
(* runAccount and forwardEvents, the goroutine of entry e.                   *)

\* A plausible bug: the loop does not look at its stop channels.
LoopBlind(e) == FALSE

LoopExit(e) == Stopped(e)

\* The select at the top of the loop; closeConnection finds entry.conn nil,
\* because forwardEvents has returned before it was ever called.
Loop(e) ==
    /\ Running
    /\ pc[e] = "loop"
    /\ Goto(e, IF LoopExit(e) THEN "done" ELSE "dial")
    /\ UNCHANGED <<pool, conn, buffer, retries, silent, events>>

\* Dial with its context of 30 seconds, which Close cancels.  The greeting and
\* STARTTLS belong to what follows: no context reaches them.
Dialled(e) ==
    /\ Running
    /\ pc[e] = "dial"
    /\ Goto(e, "connect")
    /\ UNCHANGED <<pool, conn, buffer, retries, silent, events>>

\* LOGIN, SELECT and IDLE are answered.
Connected(e) ==
    /\ Running
    /\ pc[e] = "connect"
    /\ e \notin silent
    /\ Goto(e, "forward")
    /\ conn' = [conn EXCEPT ![e] = "up"]
    /\ retries' = [retries EXCEPT ![e] = 0]
    /\ UNCHANGED <<pool, buffer, silent, events>>

\* The server has no IDLE: the goroutine ends, the account stays in the map.
NotSupported(e) ==
    /\ Running
    /\ pc[e] = "connect"
    /\ e \notin silent
    /\ Goto(e, "done")
    /\ UNCHANGED <<pool, conn, buffer, retries, silent, events>>

\* No server, the deadline of the dial or Close, an error answered, or the
\* connection breaks, of a silent server too.
DialFails(e) ==
    /\ Running
    /\ pc[e] \in {"dial", "connect"}
    /\ Goto(e, "wait")
    /\ retries' = [retries EXCEPT ![e] = IF @ < MaxRetries THEN @ + 1 ELSE @]
    /\ silent' = silent \ {e}
    /\ UNCHANGED <<pool, conn, buffer, events>>

WaitStopped(e) ==
    /\ Running
    /\ pc[e] = "wait"
    /\ Stopped(e)
    /\ Goto(e, "done")
    /\ UNCHANGED <<pool, conn, buffer, retries, silent, events>>

BackoffOver(e) ==
    /\ Running
    /\ pc[e] = "wait"
    /\ Goto(e, "loop")
    /\ UNCHANGED <<pool, conn, buffer, retries, silent, events>>

\* forwardEvents, the stop branches: conn.Close() sets ic.closed and closes
\* ic.events before it ends the session.
ForwardStopped(e) ==
    /\ Running
    /\ pc[e] = "forward"
    /\ Stopped(e)
    /\ conn' = [conn EXCEPT ![e] = "closing"]
    /\ Goto(e, "close")
    /\ UNCHANGED <<pool, buffer, retries, silent, events>>

\* A plausible bug: a stopped goroutine leaves its connection open.
LeaveOpen(e) == UNCHANGED conn

CloseConn(e) == conn' = [conn EXCEPT ![e] = "closed"]

\* IDLE is ended and LOGOUT answered, or the connection breaks.
ConnClosed(e) ==
    /\ Running
    /\ pc[e] = "close"
    /\ CloseConn(e)
    /\ Goto(e, "loop")
    /\ silent' = silent \ {e}
    /\ UNCHANGED <<pool, buffer, retries, events>>

TakeEvent(e) ==
    /\ Running
    /\ pc[e] = "forward"
    /\ buffer[e] > 0
    /\ buffer' = [buffer EXCEPT ![e] = @ - 1]
    /\ Goto(e, "check")
    /\ UNCHANGED <<pool, conn, retries, silent, events>>

\* p.closed is read under RLock; the return leaves the connection open.
CheckClosed(e) ==
    /\ Running
    /\ pc[e] = "check"
    /\ Goto(e, IF phase = "open" THEN "send" ELSE "loop")
    /\ UNCHANGED <<pool, conn, buffer, retries, silent, events>>

\* A plausible bug: the channel takes one event too many.
RoomForOneMore == events <= PoolCap

Room == events < PoolCap

\* The select with a default: a full channel drops the event.
SendEvent(e) ==
    /\ Running
    /\ pc[e] = "send"
    /\ phase # "closed"
    /\ events' = IF Room THEN events + 1 ELSE events
    /\ Goto(e, "forward")
    /\ UNCHANGED <<pool, conn, buffer, retries, silent>>

\* A send on a closed channel panics, and nothing recovers.
SendPanics(e) ==
    /\ ~panicked
    /\ pc[e] = "send"
    /\ phase = "closed"
    /\ panicked' = TRUE
    /\ UNCHANGED <<pool, entry, events>>

------------------------------------------------------------------------------
(* The mail server, and the coordinator's processPoolEvents.                 *)

\* handleMailboxUpdate or handleExpunge: one more event, or none if it is full.
MailboxUpdate(e) ==
    /\ Running
    /\ conn[e] = "up"
    /\ buffer[e] < ConnCap
    /\ buffer' = [buffer EXCEPT ![e] = @ + 1]
    /\ UNCHANGED <<pool, pc, conn, retries, silent, events>>

\* The connection breaks.  Nobody is told: only Close closes ic.events, so the
\* branch of forwardEvents for a closed channel is never taken (pool.go:303).
ConnDrops(e) ==
    /\ Running
    /\ conn[e] = "up"
    /\ conn' = [conn EXCEPT ![e] = "dead"]
    /\ UNCHANGED <<pool, pc, buffer, retries, silent, events>>

\* The server falls silent without closing the connection: no command has a
\* deadline, and neither RemoveAccount nor Close interrupts one.
FallSilent(e) ==
    /\ Running
    /\ pc[e] \in {"connect", "close"}
    /\ silent' = silent \cup {e}
    /\ UNCHANGED <<pool, pc, conn, buffer, retries, events>>

Consume ==
    /\ Running
    /\ events > 0
    /\ events' = events - 1
    /\ UNCHANGED <<pool, entry>>

------------------------------------------------------------------------------

Dial(e) == Dialled(e) \/ Connected(e) \/ NotSupported(e) \/ DialFails(e)
Wait(e) == WaitStopped(e) \/ BackoffOver(e)
Forward(e) == CheckClosed(e) \/ SendEvent(e)

Run(e) == Loop(e) \/ Dial(e) \/ Wait(e) \/ Forward(e) \/ ConnClosed(e)

Next ==
    \/ \E a \in Accounts, e \in Entries : AddAccount(a, e)
    \/ \E a \in Accounts : RemoveAccount(a)
    \/ Close
    \/ CloseEvents
    \/ \E e \in Entries : \/ CloseStopCh(e)
                          \/ Run(e)
                          \/ ForwardStopped(e)
                          \/ TakeEvent(e)
                          \/ SendPanics(e)
                          \/ MailboxUpdate(e)
                          \/ ConnDrops(e)
                          \/ FallSilent(e)
    \/ Consume

Spec == Init /\ [][Next]_vars

\* Goroutines run; a dial ends at its deadline, a command if the server has not
\* fallen silent, a backoff when it is over; a select with several ready cases
\* chooses at random, so that a stop is not passed over for ever.
Fairness ==
    /\ \A e \in Entries : /\ WF_vars(e \notin silent /\ Run(e))
                          /\ SF_vars(ForwardStopped(e))
                          /\ WF_vars(SendPanics(e))
                          /\ WF_vars(CloseStopCh(e))
    /\ WF_vars(CloseEvents)

FairSpec == Spec /\ Fairness

------------------------------------------------------------------------------

Labels ==
    {"new", "loop", "dial", "connect", "wait", "forward", "check", "send", "close", "done"}
Live == {e \in Entries : pc[e] \notin {"new", "done"}}

TypeOK ==
    /\ accounts \in [Accounts -> Entries \cup {None}]
    /\ phase \in {"open", "closing", "closed"}
    /\ snapshot \subseteq Entries
    /\ removed \subseteq Entries
    /\ stopCh \subseteq removed
    /\ owner \in [Entries -> Accounts \cup {None}]
    /\ pc \in [Entries -> Labels]
    /\ conn \in [Entries -> {"none", "up", "dead", "closing", "closed"}]
    /\ buffer \in [Entries -> 0 .. ConnCap]
    /\ retries \in [Entries -> 0 .. MaxRetries]
    /\ silent \subseteq {e \in Entries : pc[e] \in {"connect", "close"}}
    /\ events \in 0 .. PoolCap
    /\ panicked \in BOOLEAN

\* Two goroutines watch one account only while RemoveAccount is at one of them,
\* with its stopCh still to be closed or its end to be waited for: an
\* account added again at once has one that lasts (pool.go:76-140).
OneWatcher ==
    \A e, f \in Live \ removed : e # f => owner[e] # owner[f]

\* Outside of Close, a goroutine that ends leaves no connection behind, whatever
\* it was doing when it was stopped (pool.go:226-277); while the pool closes the
\* return at pool.go:316-318 leaves open the connection of an event in hand.
LeakOnlyOnClose ==
    \A e \in Entries : pc[e] = "done" /\ conn[e] \in {"up", "dead", "closing"} => phase # "open"

\* No server holds the goroutine of e in a command for ever.
Answered(e) == []<>(e \notin silent)

\* RemoveAccount and Close return: a stopped goroutine ends whatever it does, and
\* Close gets to close the channel, unless a server is silent for good
\* (pool.go:134-135, 206-214, idle.go:182, 222-246).
StopsReturn ==
    /\ \A e \in Entries : Answered(e) => (e \in removed ~> pc[e] = "done" \/ panicked)
    /\ (\A e \in Entries : Answered(e)) => (phase = "closing" ~> phase = "closed" \/ panicked)

\* "Connection drop -> auto-reconnect" (STORIES.md:353, pool.go:25-27).
Reconnects ==
    \A e \in Entries : conn[e] = "dead" ~> (conn[e] # "dead" \/ Stopped(e) \/ panicked)

Source == INSTANCE EventSource WITH
    Cap <- PoolCap, members <- accounts, alive <- Live, released <- removed, crashed <- panicked

\* The pool is an event source: no goroutine but one being removed can send on
\* the closed channel, and the channel never holds more than its capacity.
ImplementsSource == Source!Spec
==============================================================================
