----------------------------- MODULE MailTransfer -----------------------------
(***************************************************************************)
(* What the program relies on of the SMTP client (SendMessage in             *)
(* internal/api/message_handler.go): a mail goes to all of its recipients   *)
(* or to none, and a call that returns no error has sent it.  A call that   *)
(* returns one may have sent it all the same.                               *)
(***************************************************************************)
CONSTANT Attempts  \* calls of SendEmail

VARIABLES outcome,   \* outcome[n]: "open", "ok" or "failed"
          taken,     \* taken[n]: whom the server has promised to deliver to
          everyone   \* all recipients of the mail

vars == <<outcome, taken, everyone>>

Init ==
    /\ outcome = [n \in Attempts |-> "open"]
    /\ taken = [n \in Attempts |-> {}]

\* The server takes the mail, and the call may or may not get to know.
Take(n) ==
    /\ outcome[n] = "open"
    /\ taken[n] = {}
    /\ taken' = [taken EXCEPT ![n] = everyone]
    /\ outcome' = [outcome EXCEPT ![n] = "failed"] \/ UNCHANGED outcome
    /\ UNCHANGED everyone

Succeed(n) ==
    /\ outcome[n] = "open"
    /\ taken[n] = everyone
    /\ outcome' = [outcome EXCEPT ![n] = "ok"]
    /\ UNCHANGED <<taken, everyone>>

Fail(n) ==
    /\ outcome[n] = "open"
    /\ outcome' = [outcome EXCEPT ![n] = "failed"]
    /\ UNCHANGED <<taken, everyone>>

Next == \E n \in Attempts : Take(n) \/ Succeed(n) \/ Fail(n)

Spec == Init /\ [][Next]_vars
==============================================================================
