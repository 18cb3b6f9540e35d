------------------------------ MODULE SmtpClient ------------------------------
(***************************************************************************)
(* internal/smtp/client.go, SendEmail, command by command, under the        *)
(* request that composes the mail (internal/composer) and a client of the   *)
(* API that makes the request again when it got no success.  The server may *)
(* refuse a command, break the connection, or fall silent.                  *)
(***************************************************************************)
EXTENDS Integers, Sequences, FiniteSets

CONSTANTS MaxAttempts,  \* bound: requests made for one mail
          Addresses,
          Malformed,    \* addresses mail.ParseAddress refuses
          Mails         \* mails to choose from: the lists to, cc, bcc

ASSUME SmtpAssumption ==
    /\ MaxAttempts \in Nat
    /\ Malformed \subseteq Addresses
    /\ Mails \subseteq [to : Seq(Addresses), cc : Seq(Addresses), bcc : Seq(Addresses)]

Attempts == 1..MaxAttempts

VARIABLES mail,      \* the mail
          implicit,  \* port 465, TLS from the first byte; otherwise STARTTLS
          at,        \* at[n]: where attempt n is, one of Steps or Ended
          conn,      \* conn[n]: its connection: "none", "plain" or "tls"
          rcpt,      \* rcpt[n]: how many recipients it has named
          envelope,  \* envelope[n]: those the server has accepted
          taken,     \* taken[n]: recipients of the mail the server has taken
          stalled,   \* attempts whose server has fallen silent
          gone,      \* attempts whose API client has gone away
          lost       \* history: attempts with the answer to the mail lost

account == <<mail, implicit>>
session == <<at, conn, rcpt, envelope>>
vars == <<account, session, taken, stalled, gone, lost>>

\* ComposeEmail.AllRecipients
AllRecipients == mail.to \o mail.cc \o mail.bcc
ToSet(s) == {s[i] : i \in DOMAIN s}
Everyone == ToSet(AllRecipients)

\* ComposeEmail.Validate, as far as it is about recipients.
Valid == AllRecipients # <<>> /\ Everyone \cap Malformed = {}

Commands == {"greet", "starttls", "auth", "mail", "rcpt", "data", "body", "quit"}
Steps == {"dial", "handshake"} \cup Commands
Returned == {"failed", "ok", "answered"}
Ended == {"refused"} \cup Returned

Init ==
    /\ mail \in Mails
    /\ implicit \in BOOLEAN
    /\ at = [n \in Attempts |-> "idle"]
    /\ conn = [n \in Attempts |-> "none"]
    /\ rcpt = [n \in Attempts |-> 0]
    /\ envelope = [n \in Attempts |-> {}]
    /\ taken = [n \in Attempts |-> {}]
    /\ stalled = {}
    /\ gone = {}
    /\ lost = {}

Goto(n, s) == at' = [at EXCEPT ![n] = s]

\* The deferred client.Close, or the Close on the error path of dial.
Fail(n) ==
    /\ Goto(n, "failed")
    /\ conn' = [conn EXCEPT ![n] = "none"]
    /\ UNCHANGED <<rcpt, envelope>>

\* The server answers the command s of attempt n.
Answers(n, s) ==
    /\ at[n] = s
    /\ n \notin stalled
    /\ UNCHANGED <<account, stalled, gone>>

------------------------------------------------------------------------------
(* The request: SendMessage                                                  *)

\* Build; every attempt makes a Message-ID of its own, so that nothing links
\* the mails of two attempts.
Build(n) ==
    /\ at[n] = "idle"
    /\ n > 1 => at[n - 1] = "failed" \/ n - 1 \in gone
    /\ Goto(n, IF Valid THEN "dial" ELSE "refused")
    /\ UNCHANGED <<account, conn, rcpt, envelope, taken, stalled, gone, lost>>

\* The client of the API gives up waiting, or its connection breaks.
LoseClient(n) ==
    /\ at[n] \in Steps \cup {"ok"}
    /\ gone' = gone \cup {n}
    /\ UNCHANGED <<account, session, taken, stalled, lost>>

AnswerRequest(n) ==
    /\ at[n] = "ok"
    /\ n \notin gone
    /\ Goto(n, "answered")
    /\ UNCHANGED <<account, conn, rcpt, envelope, taken, stalled, gone, lost>>

------------------------------------------------------------------------------
(* dial                                                                      *)

\* A plausible bug: the connection is made without the context.
GuardedHandshakeOnly == {"handshake"}

\* DialContext and HandshakeContext end with the request or after 60 seconds;
\* nothing else in net/smtp has a deadline.
Guarded == {"dial", "handshake"}

Expire(n) ==
    /\ at[n] \in Guarded
    /\ Fail(n)
    /\ stalled' = stalled \ {n}
    /\ UNCHANGED <<account, taken, gone, lost>>

Connect(n) ==
    /\ Answers(n, "dial")
    /\ Goto(n, IF implicit THEN "handshake" ELSE "greet")
    /\ conn' = [conn EXCEPT ![n] = "plain"]
    /\ UNCHANGED <<rcpt, envelope, taken, lost>>

Encrypt(n) ==
    /\ Answers(n, IF implicit THEN "handshake" ELSE "starttls")
    /\ Goto(n, IF implicit THEN "greet" ELSE "auth")
    /\ conn' = [conn EXCEPT ![n] = "tls"]
    /\ UNCHANGED <<rcpt, envelope, taken, lost>>

\* smtp.NewClient, and EHLO.
Greet(n) ==
    /\ Answers(n, "greet")
    /\ Goto(n, IF implicit THEN "auth" ELSE "starttls")
    /\ UNCHANGED <<conn, rcpt, envelope, taken, lost>>

------------------------------------------------------------------------------
(* SendEmail                                                                 *)

Authenticate(n) ==
    /\ Answers(n, "auth")
    /\ Goto(n, "mail")
    /\ UNCHANGED <<conn, rcpt, envelope, taken, lost>>

MailFrom(n) ==
    /\ Answers(n, "mail")
    /\ Goto(n, "rcpt")
    /\ UNCHANGED <<conn, rcpt, envelope, taken, lost>>

NamedAll(n) == rcpt[n] = Len(AllRecipients)

RcptTo(n) ==
    /\ Answers(n, "rcpt")
    /\ ~NamedAll(n)
    /\ rcpt' = [rcpt EXCEPT ![n] = @ + 1]
    /\ envelope' = [envelope EXCEPT ![n] = @ \cup {AllRecipients[rcpt'[n]]}]
    /\ UNCHANGED <<at, conn, taken, lost>>

\* A plausible bug: a recipient the server refuses is left out.
SkipRecipient(n) ==
    /\ rcpt' = [rcpt EXCEPT ![n] = @ + 1]
    /\ UNCHANGED <<at, conn, envelope>>

GiveUp(n) == Fail(n)

RefuseRcpt(n) ==
    /\ Answers(n, "rcpt")
    /\ ~NamedAll(n)
    /\ GiveUp(n)
    /\ UNCHANGED <<taken, lost>>

OpenData(n) ==
    /\ \/ Answers(n, "rcpt") /\ NamedAll(n) /\ Goto(n, "data")
       \/ Answers(n, "data") /\ Goto(n, "body")
    /\ UNCHANGED <<conn, rcpt, envelope, taken, lost>>

\* The dot that ends the text: from here on the server has the mail, whether or
\* not its answer arrives.
SendBody(n) ==
    /\ Answers(n, "body")
    /\ taken' = [taken EXCEPT ![n] = envelope[n]]
    /\ \/ Goto(n, "quit") /\ UNCHANGED <<conn, rcpt, envelope, lost>>
       \/ Fail(n) /\ lost' = lost \cup {n}

\* A plausible bug: an error of QUIT is returned like any other.
QuitMatters == {"ok", "failed"}
AfterQuit == {"ok"}

Quit(n) ==
    /\ Answers(n, "quit")
    /\ \E s \in AfterQuit : Goto(n, s)
    /\ conn' = [conn EXCEPT ![n] = "none"]
    /\ UNCHANGED <<rcpt, envelope, taken, lost>>

\* The server refuses, has no STARTTLS, or the connection breaks.
Break(n) ==
    /\ at[n] \in Steps \ {"quit"}
    /\ Answers(n, at[n])
    /\ Fail(n)
    /\ UNCHANGED <<taken, lost>>

\* The server, or the network, falls silent without closing the connection.
Stall(n) ==
    /\ at[n] \in Steps
    /\ stalled' = stalled \cup {n}
    /\ UNCHANGED <<account, session, taken, gone, lost>>

------------------------------------------------------------------------------

ServerAnswers(n) ==
    \/ Connect(n) \/ Encrypt(n) \/ Greet(n) \/ Authenticate(n) \/ MailFrom(n)
    \/ RcptTo(n) \/ RefuseRcpt(n) \/ OpenData(n) \/ SendBody(n) \/ Quit(n) \/ Break(n)

Next ==
    \E n \in Attempts :
        \/ Build(n) \/ LoseClient(n) \/ AnswerRequest(n)
        \/ Expire(n) \/ ServerAnswers(n) \/ Stall(n)

Spec == Init /\ [][Next]_vars

\* A server that has not fallen silent answers, and time passes.
FairSpec == Spec /\ \A n \in Attempts : WF_vars(ServerAnswers(n)) /\ WF_vars(Expire(n))

------------------------------------------------------------------------------

\* Type invariant.  A call that has returned has closed its connection, and
\* credentials and mail go over TLS only (client.go:163, "STARTTLS is required").
TypeOK ==
    /\ mail \in Mails /\ implicit \in BOOLEAN
    /\ at \in [Attempts -> {"idle"} \cup Steps \cup Ended]
    /\ conn \in [Attempts -> {"none", "plain", "tls"}]
    /\ rcpt \in [Attempts -> 0..Len(AllRecipients)]
    /\ envelope \in [Attempts -> SUBSET Everyone]
    /\ taken \in [Attempts -> SUBSET Everyone]
    /\ stalled \subseteq Attempts /\ gone \subseteq Attempts /\ lost \subseteq Attempts
    /\ \A n \in Attempts :
          /\ at[n] \in Ended => conn[n] = "none"
          /\ at[n] \in Commands \ {"greet", "starttls"} => conn[n] = "tls"

\* The abstract view: what the caller of SendEmail knows.
OutcomeAt(s) ==
    IF s \in {"ok", "answered"} THEN "ok" ELSE IF s = "failed" THEN "failed" ELSE "open"

Outcome == [n \in Attempts |-> OutcomeAt(at[n])]

Transfer == INSTANCE MailTransfer WITH everyone <- Everyone, outcome <- Outcome

\* client.go:69-121: SendEmail implements what SendMessage relies on: the mail
\* is taken for all recipients or none, and success means it was taken.
ImplementsTransfer == Transfer!Spec

\* client.go:110-120, message_handler.go:613-620: a mail is sent more than once
\* only when a server took it and nobody could tell the client: the server's
\* answer was lost, or the client had gone.  A failing QUIT is no reason.
CopiesExplained ==
    LET copies == {n \in Attempts : taken[n] # {}}
    IN Cardinality(copies) <= 1 + Cardinality(copies \cap (lost \cup gone))

\* client.go:80-138: a call ends unless its server falls silent after the
\* connection is made; a silent network before that does not hold it up.
ReturnsOrStalls ==
    \A n \in Attempts :
        at[n] = "dial" ~> at[n] \in Ended \/ (n \in stalled /\ at[n] \in Commands)
==============================================================================
