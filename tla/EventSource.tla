----------------------------- MODULE EventSource -----------------------------
(***************************************************************************)
(* What the coordinator relies on of a source of mailbox events, be it the  *)
(* IDLE pool or the poller: accounts are watched by one goroutine ("entry") *)
(* each, events go through one bounded channel, an account is let go before *)
(* its goroutine has ended, and the channel is closed only when no goroutine *)
(* is left but those of accounts being removed, which may then send on the  *)
(* closed channel and bring the process down.  Modules IdlePool and Poller  *)
(* are shown to implement this one.                                         *)
(***************************************************************************)
EXTENDS Naturals

CONSTANTS Accounts,  \* mail accounts
          Entries,   \* entries, one per successful AddAccount
          Cap,       \* capacity of the event channel
          None       \* no entry

VARIABLES members,   \* members[a]: the entry the account map holds for a, or None
          alive,     \* entries whose goroutine runs
          released,  \* entries RemoveAccount has taken out of the map
          phase,     \* "open", "closing" or "closed" (the channel with it)
          events,    \* events in the channel
          crashed    \* a goroutine has sent on the closed channel

vars == <<members, alive, released, phase, events, crashed>>

Init ==
    /\ members = [a \in Accounts |-> None]
    /\ alive = {}
    /\ released = {}
    /\ phase = "open"
    /\ events = 0
    /\ crashed = FALSE

Add(a, e) ==
    /\ phase = "open"
    /\ members[a] = None
    /\ e \notin alive
    /\ members' = [members EXCEPT ![a] = e]
    /\ alive' = alive \cup {e}
    /\ UNCHANGED <<released, phase, events, crashed>>

Release(a) ==
    /\ phase = "open"
    /\ members[a] # None
    /\ released' = released \cup {members[a]}
    /\ members' = [members EXCEPT ![a] = None]
    /\ UNCHANGED <<alive, phase, events, crashed>>

\* A goroutine ends: told to, or because it gives its account up.
End(e) ==
    /\ e \in alive
    /\ alive' = alive \ {e}
    /\ UNCHANGED <<members, released, phase, events, crashed>>

Emit(e) ==
    /\ e \in alive
    /\ phase # "closed"
    /\ events < Cap
    /\ events' = events + 1
    /\ UNCHANGED <<members, alive, released, phase, crashed>>

SendOnClosed(e) ==
    /\ e \in alive \cap released
    /\ phase = "closed"
    /\ crashed' = TRUE
    /\ UNCHANGED <<members, alive, released, phase, events>>

Consume ==
    /\ events > 0
    /\ events' = events - 1
    /\ UNCHANGED <<members, alive, released, phase, crashed>>

CloseBegin ==
    /\ phase = "open"
    /\ phase' = "closing"
    /\ members' = [a \in Accounts |-> None]
    /\ UNCHANGED <<alive, released, events, crashed>>

CloseEnd ==
    /\ phase = "closing"
    /\ alive \subseteq released
    /\ phase' = "closed"
    /\ UNCHANGED <<members, alive, released, events, crashed>>

Next ==
    \/ \E a \in Accounts, e \in Entries : Add(a, e)
    \/ \E a \in Accounts : Release(a)
    \/ \E e \in Entries : End(e) \/ Emit(e) \/ SendOnClosed(e)
    \/ Consume
    \/ CloseBegin
    \/ CloseEnd

Spec == Init /\ [][Next]_vars
==============================================================================
