-------------------------------- MODULE Poller --------------------------------
(***************************************************************************)
(* internal/sync/poller.go: one goroutine per account asks the server for   *)
(* the STATUS of the folder, at once and then at every tick, and emits an    *)
(* event when UIDNEXT or the number of messages has grown.  One action per   *)
(* step between two synchronisations: a select, a lock of p.mu, the dial,    *)
(* the IMAP commands.  Only the dial has a deadline: a server that falls     *)
(* silent later holds the goroutine.                                         *)
(***************************************************************************)
EXTENDS Integers, FiniteSets

CONSTANTS Accounts,  \* mail accounts that do not support IDLE
          Entries,   \* pollerEntry values, a fresh one per AddAccount
          PollCap,   \* capacity of p.events (100 in the code)
          MaxUid,    \* bound: messages that arrive in a folder
          None       \* no entry

ASSUME PollerAssumption ==
    /\ PollCap \in Nat
    /\ MaxUid \in Nat
    /\ None \notin Entries

VARIABLES accounts,  \* accounts[a]: the entry p.accounts holds for a, or None
          phase,     \* "open"; "closing": p.closed set and p.ctx cancelled;
                     \* "closed": p.events closed as well
          snapshot,  \* the entries Close waits for
          removed,   \* entries RemoveAccount has deleted from p.accounts
          stopCh,    \* those whose stopCh it has closed as well
          owner,     \* owner[e]: the account of entry e, or None
          pc,        \* pc[e]: what the goroutine of e does next
          known,     \* known[e]: uidNext, numMessages, initialized, failedPolls > 0
          silent,    \* entries whose server has fallen silent in a command
          mailbox,   \* mailbox[a]: UIDNEXT and the number of messages of the folder
          events,    \* events in p.events
          panicked,  \* a goroutine has sent on the closed channel
          unseen     \* history: entries for whose account mail has arrived since
                     \* their last successful poll

pool == <<accounts, phase, snapshot, removed, stopCh, owner>>
vars == <<pool, pc, known, silent, mailbox, events, panicked, unseen>>

Nothing == [uidNext |-> 0, numMessages |-> 0, initialized |-> FALSE, failed |-> FALSE]

Init ==
    /\ accounts = [a \in Accounts |-> None]
    /\ phase = "open"
    /\ snapshot = {}
    /\ removed = {}
    /\ stopCh = {}
    /\ owner = [e \in Entries |-> None]
    /\ pc = [e \in Entries |-> "new"]
    /\ known = [e \in Entries |-> Nothing]
    /\ silent = {}
    /\ mailbox \in [Accounts -> [uidNext : {1}, numMessages : {0, 1}]]
    /\ events = 0
    /\ panicked = FALSE
    /\ unseen = {}

Goto(e, label) == pc' = [pc EXCEPT ![e] = label]

\* A panic ends the process, and every goroutine with it.
Running == ~panicked /\ UNCHANGED panicked

\* A plausible bug: the loop looks at the context only.
StoppedByCtx(e) == phase # "open"

\* What the selects on entry.stopCh and p.ctx.Done() see.
Stopped(e) == e \in stopCh \/ phase # "open"

Vacant(a) == accounts[a] = None

------------------------------------------------------------------------------
(* The callers: AddAccount, RemoveAccount, Close.                            *)

\* The goroutine polls at once, before it looks at its stop channels.
AddAccount(a, e) ==
    /\ Running
    /\ phase = "open"
    /\ Vacant(a)
    /\ pc[e] = "new"
    /\ accounts' = [accounts EXCEPT ![a] = e]
    /\ owner' = [owner EXCEPT ![e] = a]
    /\ Goto(e, "dial")
    /\ UNCHANGED <<phase, snapshot, removed, stopCh, known, silent, mailbox, events, unseen>>

\* RemoveAccount under the lock.  When it is released, AddAccount and Close may
\* come before stopCh is closed.
RemoveAccount(a) ==
    /\ Running
    /\ phase = "open"
    /\ accounts[a] # None
    /\ accounts' = [accounts EXCEPT ![a] = None]
    /\ removed' = removed \cup {accounts[a]}
    /\ UNCHANGED <<phase, snapshot, stopCh, owner, pc, known, silent, mailbox, events, unseen>>

\* It returns once pc[e] is "done".
CloseStopCh(e) ==
    /\ Running
    /\ e \in removed \ stopCh
    /\ stopCh' = stopCh \cup {e}
    /\ UNCHANGED <<accounts, phase, snapshot, removed, owner, pc, known, silent, mailbox, events,
                   unseen>>

\* Close up to its first wait.  Accounts just removed are not waited for.
Close ==
    /\ Running
    /\ phase = "open"
    /\ phase' = "closing"
    /\ snapshot' = {accounts[a] : a \in Accounts} \ {None}
    /\ accounts' = [a \in Accounts |-> None]
    /\ UNCHANGED <<removed, stopCh, owner, pc, known, silent, mailbox, events, unseen>>

\* A plausible bug: Close does not wait for the goroutines.
AwaitNone == {}

Awaited == snapshot

CloseEvents ==
    /\ Running
    /\ phase = "closing"
    /\ \A e \in Awaited : pc[e] = "done"
    /\ phase' = "closed"
    /\ UNCHANGED <<accounts, snapshot, removed, stopCh, owner, pc, known, silent, mailbox, events,
                   unseen>>

------------------------------------------------------------------------------
(* runPoller, poll and emitEvent, the goroutine of entry e.                  *)

\* A plausible bug: an arrival is missed when a message is expunged.
MoreMessages(old, status) == status.numMessages > old.numMessages

\* The test of a poll that is not the first.
Grown(old, status) ==
    status.uidNext > old.uidNext \/ status.numMessages > old.numMessages

\* Whether a poll that has read status emits an event.
Announces(e, status) ==
    IF known[e].initialized
    THEN Grown(known[e], status)
    ELSE known[e].failed /\ status.numMessages > 0

\* Dial with its context of 30 seconds, which Close cancels.  The greeting and
\* STARTTLS belong to the commands: no context reaches them.
Dialled(e) ==
    /\ Running
    /\ pc[e] = "dial"
    /\ Goto(e, "commands")
    /\ UNCHANGED <<pool, known, silent, mailbox, events, unseen>>

\* LOGIN, STATUS and LOGOUT are answered.  The entry's state belongs to its
\* goroutine, so that it is brought up to date in the same step, whatever becomes
\* of the event.
StatusRead(e) ==
    LET status == mailbox[owner[e]] IN
    /\ Running
    /\ pc[e] = "commands"
    /\ e \notin silent
    /\ known' = [known EXCEPT ![e] =
           [@ EXCEPT !.uidNext = status.uidNext,
                     !.numMessages = status.numMessages,
                     !.initialized = TRUE]]
    /\ Goto(e, IF Announces(e, status) THEN "check" ELSE "idle")
    /\ unseen' = unseen \ {e}
    /\ UNCHANGED <<pool, silent, mailbox, events>>

\* A plausible bug: a failed poll ends the goroutine.
GiveUp == "done"

\* A failed poll is tried again at the next tick.
AfterFailure == "idle"

\* fetchStatus fails: no server, the deadline of the dial or Close, no login,
\* no such folder, or the connection breaks, of a silent server too.
StatusFails(e) ==
    /\ Running
    /\ pc[e] \in {"dial", "commands"}
    /\ known' = [known EXCEPT ![e].failed = ~known[e].initialized \/ @]
    /\ Goto(e, AfterFailure)
    /\ silent' = silent \ {e}
    /\ UNCHANGED <<pool, mailbox, events, unseen>>

\* The server falls silent without closing the connection: no command has a
\* deadline, and neither RemoveAccount nor Close interrupts one.
FallSilent(e) ==
    /\ Running
    /\ pc[e] = "commands"
    /\ silent' = silent \cup {e}
    /\ UNCHANGED <<pool, pc, known, mailbox, events, unseen>>

\* emitEvent: p.closed is read under RLock, and the channel used without it.
CheckClosed(e) ==
    /\ Running
    /\ pc[e] = "check"
    /\ Goto(e, IF phase = "open" THEN "send" ELSE "idle")
    /\ UNCHANGED <<pool, known, silent, mailbox, events, unseen>>

\* A plausible bug: the channel takes one event too many.
RoomForOneMore == events <= PollCap

Room == events < PollCap

\* The select with a default: a full channel drops the event.
SendEvent(e) ==
    /\ Running
    /\ pc[e] = "send"
    /\ phase # "closed"
    /\ events' = IF Room THEN events + 1 ELSE events
    /\ Goto(e, "idle")
    /\ UNCHANGED <<pool, known, silent, mailbox, unseen>>

\* A send on a closed channel panics, and nothing recovers.
SendPanics(e) ==
    /\ ~panicked
    /\ pc[e] = "send"
    /\ phase = "closed"
    /\ panicked' = TRUE
    /\ UNCHANGED <<pool, pc, known, silent, mailbox, events, unseen>>

\* The select of runPoller: a stop ends the goroutine, a tick polls again.
Leave(e) ==
    /\ Running
    /\ pc[e] = "idle"
    /\ Stopped(e)
    /\ Goto(e, "done")
    /\ UNCHANGED <<pool, known, silent, mailbox, events, unseen>>

Tick(e) ==
    /\ Running
    /\ pc[e] = "idle"
    /\ Goto(e, "dial")
    /\ UNCHANGED <<pool, known, silent, mailbox, events, unseen>>

------------------------------------------------------------------------------
(* The mail server, and the coordinator's processPollerEvents.               *)

Watchers(a) == {e \in Entries : owner[e] = a /\ pc[e] # "done"}

\* A message arrives: it takes UIDNEXT.
Arrive(a) ==
    /\ Running
    /\ mailbox[a].uidNext <= MaxUid
    /\ mailbox' = [mailbox EXCEPT ![a].uidNext = @ + 1, ![a].numMessages = @ + 1]
    /\ unseen' = unseen \cup Watchers(a)
    /\ UNCHANGED <<pool, pc, known, silent, events>>

Expunge(a) ==
    /\ Running
    /\ mailbox[a].numMessages > 0
    /\ mailbox' = [mailbox EXCEPT ![a].numMessages = @ - 1]
    /\ UNCHANGED <<pool, pc, known, silent, events, unseen>>

Consume ==
    /\ Running
    /\ events > 0
    /\ events' = events - 1
    /\ UNCHANGED <<pool, pc, known, silent, mailbox, unseen>>

------------------------------------------------------------------------------

Poll(e) == Dialled(e) \/ StatusRead(e) \/ StatusFails(e)
EmitEvent(e) == CheckClosed(e) \/ SendEvent(e) \/ SendPanics(e)

Next ==
    \/ \E a \in Accounts, e \in Entries : AddAccount(a, e)
    \/ \E a \in Accounts : RemoveAccount(a) \/ Arrive(a) \/ Expunge(a)
    \/ Close
    \/ CloseEvents
    \/ \E e \in Entries : \/ CloseStopCh(e)
                          \/ Poll(e) \/ FallSilent(e) \/ EmitEvent(e)
                          \/ Leave(e) \/ Tick(e)
    \/ Consume

Spec == Init /\ [][Next]_vars

\* Goroutines run; a dial ends at its deadline, a command if the server has not
\* fallen silent; dials and commands do not fail for ever; a stop is not passed
\* over for ever in favour of ticks.
Fairness ==
    /\ \A e \in Entries : /\ WF_vars(e \notin silent /\ Poll(e))
                          /\ SF_vars(Dialled(e))
                          /\ SF_vars(StatusRead(e))
                          /\ WF_vars(EmitEvent(e))
                          /\ SF_vars(Leave(e))
                          /\ WF_vars(Tick(e))
                          /\ WF_vars(CloseStopCh(e))
    /\ WF_vars(CloseEvents)

FairSpec == Spec /\ Fairness

------------------------------------------------------------------------------

Live == {e \in Entries : pc[e] \notin {"new", "done"}}

TypeOK ==
    /\ accounts \in [Accounts -> Entries \cup {None}]
    /\ phase \in {"open", "closing", "closed"}
    /\ snapshot \subseteq Entries
    /\ removed \subseteq Entries
    /\ stopCh \subseteq removed
    /\ owner \in [Entries -> Accounts \cup {None}]
    /\ pc \in [Entries -> {"new", "dial", "commands", "check", "send", "idle", "done"}]
    /\ known \in [Entries -> [uidNext : 0 .. MaxUid + 1, numMessages : 0 .. MaxUid + 1,
                              initialized : BOOLEAN, failed : BOOLEAN]]
    /\ silent \subseteq {e \in Entries : pc[e] = "commands"}
    /\ mailbox \in [Accounts -> [uidNext : 1 .. MaxUid + 1, numMessages : 0 .. MaxUid + 1]]
    /\ events \in 0 .. PollCap
    /\ panicked \in BOOLEAN
    /\ unseen \subseteq Entries

\* Once an entry is initialised, a poll announces mail exactly when some has
\* arrived since the poll before, whatever was expunged meanwhile, whether or
\* not that poll failed and its event was dropped (STORIES.md:373-374,
\* poller.go:226-289).
PollsAnnounceArrivals ==
    [][\A e \in Entries :
          known[e].initialized /\ pc[e] = "commands" /\ pc'[e] # "commands"
              => /\ pc'[e] = "check" => e \in unseen
                 /\ e \in unseen /\ pc'[e] = "idle" => e \in unseen']_vars

\* No server holds the commands of e for ever.
Answered(e) == []<>(e \notin silent)

\* Mail that arrives at an account whose folder has been read once is announced
\* by a later poll, or the account is removed or the poller closed first; only a
\* server that is silent for good prevents it (poller.go:196-223, 273-284).  Mail
\* from before the first successful poll may be announced by none.
ArrivalsAreAnnounced ==
    \A e \in Entries :
        Answered(e) =>
            (e \in unseen /\ known[e].initialized
                ~> pc[e] = "check" \/ Stopped(e) \/ e \in removed \/ panicked)

\* RemoveAccount and Close return: a stopped goroutine ends whatever it does, and
\* Close gets to close the channel, unless a server is silent for good
\* (poller.go:142-143, 184-188, 307-318).
StopsReturn ==
    /\ \A e \in Entries : Answered(e) => (e \in removed ~> pc[e] = "done" \/ panicked)
    /\ (\A e \in Entries : Answered(e)) => (phase = "closing" ~> phase = "closed" \/ panicked)

Source == INSTANCE EventSource WITH
    Cap <- PollCap, members <- accounts, alive <- Live, released <- removed, crashed <- panicked

\* The poller is an event source like the IDLE pool: no goroutine but one being
\* removed can send on the closed channel.
ImplementsSource == Source!Spec
==============================================================================
