--------------------------- MODULE SmtpClientProofs ---------------------------
(***************************************************************************)
(* Proofs about SmtpClient, for any number of attempts, any addresses and   *)
(* any mails.                                                               *)
(***************************************************************************)
EXTENDS SmtpClient, FiniteSetTheorems, TLAPS

\* A set all of whose elements but one are in another has at most one element
\* more than what the two share.
LEMMA AllButOne ==
    ASSUME NEW S, NEW T, IsFiniteSet(S), \A a, b \in S \ T : a = b
    PROVE  Cardinality(S) <= 1 + Cardinality(S \cap T)
<1> DEFINE C == Cardinality(S \cap T)
<1>1. Cardinality(S) \in Nat
  BY FS_CardinalityType
<1>2. C \in {Cardinality(S), Cardinality(S) - 1}
  <2>1. S \cap T = S \/ \E x \in S : S \cap T = S \ {x}
    OBVIOUS
  <2> QED
    BY <2>1, FS_RemoveElement
<1> HIDE DEF C
<1>3. Cardinality(S) <= 1 + C
  BY <1>1, <1>2
<1> QED
  BY <1>3 DEF C

\* Before the dial and after the return there is no connection; the greeting of
\* implicit TLS comes after the handshake.
ConnMatches ==
    \A n \in Attempts :
        /\ at[n] \in {"idle", "dial"} \cup Ended => conn[n] = "none"
        /\ implicit /\ at[n] = "greet" => conn[n] = "tls"

\* The envelope holds the recipients named so far, all of them before DATA.
EnvelopeIsNamed ==
    \A n \in Attempts :
        /\ envelope[n] = {AllRecipients[i] : i \in 1..rcpt[n]}
        /\ at[n] \in {"data", "body"} => NamedAll(n)

\* The mail is taken in the answer to its text, and not before.
TakenAtTheDot ==
    \A n \in Attempts :
        /\ at[n] \in {"idle", "refused"} \cup (Steps \ {"quit"}) => taken[n] = {}
        /\ at[n] \in {"quit", "ok", "answered"} => taken[n] = Everyone
        /\ at[n] = "failed" => taken[n] \in {{}, Everyone}

\* An attempt that failed with its mail taken has lost the answer to it.
FailedTakenIsLost ==
    \A n \in Attempts : at[n] = "failed" /\ taken[n] # {} => n \in lost

\* An attempt is made only when all before it have failed or lost their client.
EarlierHaveFailed ==
    \A m, n \in Attempts : m < n /\ at[n] # "idle" => at[m] = "failed" \/ m \in gone

OnlyStartedGone == \A n \in Attempts : n \in gone => at[n] # "idle"

\* The inductive invariant.
IInv ==
    /\ TypeOK
    /\ ConnMatches
    /\ EnvelopeIsNamed
    /\ TakenAtTheDot
    /\ FailedTakenIsLost
    /\ EarlierHaveFailed
    /\ OnlyStartedGone

------------------------------------------------------------------------------
(* The mail.                                                                 *)

\* The recipients are a sequence, and Everyone is what it names.
LEMMA RecipientsAreASequence ==
    ASSUME mail \in Mails
    PROVE  /\ AllRecipients \in Seq(Addresses)
           /\ Len(AllRecipients) \in Nat
           /\ Everyone = {AllRecipients[i] : i \in 1..Len(AllRecipients)}
<1>1. /\ mail.to \in Seq(Addresses)
      /\ mail.cc \in Seq(Addresses)
      /\ mail.bcc \in Seq(Addresses)
  BY SmtpAssumption
<1>2. AllRecipients \in Seq(Addresses)
  BY <1>1 DEF AllRecipients
<1>3. DOMAIN AllRecipients = 1..Len(AllRecipients) /\ Len(AllRecipients) \in Nat
  BY <1>2
<1> QED
  BY <1>2, <1>3 DEF Everyone, ToSet

\* The mail of all attempts stays what it is.
LEMMA MailStays ==
    ASSUME UNCHANGED account
    PROVE  mail' = mail /\ implicit' = implicit
           /\ AllRecipients' = AllRecipients /\ Everyone' = Everyone
BY DEF account, AllRecipients, Everyone

\* Whoever is named is a recipient.
LEMMA NamedAreRecipients ==
    ASSUME mail \in Mails, NEW k \in 0..Len(AllRecipients)
    PROVE  {AllRecipients[i] : i \in 1..k} \subseteq Everyone
BY RecipientsAreASequence

------------------------------------------------------------------------------
(* The inductive invariant.                                                  *)

\* It holds in the initial states.
LEMMA InvInit == Init => IInv
<1> SUFFICES ASSUME Init PROVE IInv
  OBVIOUS
<1>1. mail \in Mails
  BY DEF Init
<1>2. TypeOK
  BY <1>1, RecipientsAreASequence DEF Init, TypeOK, Attempts, Steps, Commands, Ended, Returned
<1>3. EnvelopeIsNamed
  BY DEF Init, EnvelopeIsNamed
<1> QED
  BY <1>2, <1>3 DEF Init, IInv, ConnMatches, TakenAtTheDot, FailedTakenIsLost,
     EarlierHaveFailed, OnlyStartedGone, Steps, Commands, Ended, Returned

\* Every step preserves it.
LEMMA InvStep == IInv /\ [Next]_vars => IInv'
<1> SUFFICES ASSUME IInv, [Next]_vars PROVE IInv'
  OBVIOUS
<1>1. UNCHANGED account
  BY DEF Next, vars, ServerAnswers, Build, LoseClient, AnswerRequest, Expire, Stall, Answers,
     Connect, Encrypt, Greet, Authenticate, MailFrom, RcptTo, RefuseRcpt, OpenData, SendBody,
     Quit, Break
<1>2. /\ mail' = mail /\ mail \in Mails /\ implicit' = implicit
      /\ AllRecipients' = AllRecipients
      /\ Everyone' = Everyone
      /\ Len(AllRecipients) \in Nat
  BY <1>1, MailStays, RecipientsAreASequence DEF IInv, TypeOK
<1> USE <1>2 DEF Steps, Commands, Ended, Returned, Goto
<1>3. ASSUME NEW n \in Attempts, Build(n)
     PROVE  IInv'
  <2> USE <1>3 DEF Build
  <2>1. TypeOK'
    BY DEF IInv, TypeOK, ConnMatches, Attempts
  <2>2. EnvelopeIsNamed'
    <3>1. /\ \A k \in Attempts : at'[k] \in {"data", "body"} => at[k] \in {"data", "body"}
          /\ rcpt' = rcpt /\ envelope' = envelope
      BY DEF IInv, TypeOK
    <3> QED
      BY <3>1 DEF IInv, EnvelopeIsNamed, NamedAll
  <2>3. ConnMatches'
    BY DEF IInv, TypeOK, ConnMatches
  <2>4. TakenAtTheDot' /\ FailedTakenIsLost'
    BY DEF IInv, TypeOK, TakenAtTheDot, FailedTakenIsLost
  <2>6. \A m \in Attempts : m < n => at[m] = "failed" \/ m \in gone
    <3>1. SUFFICES ASSUME NEW m \in Attempts, m < n
                   PROVE  at[m] = "failed" \/ m \in gone
      OBVIOUS
    <3>2. m \in Nat /\ n \in Nat /\ n - 1 \in Attempts /\ n > 1
      BY <3>1, SmtpAssumption DEF Attempts
    <3>3. at[n - 1] = "failed" \/ n - 1 \in gone
      BY <3>2
    <3>4. at[n - 1] # "idle"
      BY <3>2, <3>3 DEF IInv, OnlyStartedGone
    <3>5. m = n - 1 \/ m < n - 1
      BY <3>1, <3>2
    <3> QED
      BY <3>2, <3>3, <3>4, <3>5 DEF IInv, EarlierHaveFailed
  <2>7. \A m \in Attempts : m > n => at[m] = "idle"
    BY SmtpAssumption DEF IInv, EarlierHaveFailed, OnlyStartedGone, Attempts
  <2>8. OnlyStartedGone'
    BY DEF IInv, TypeOK, OnlyStartedGone
  <2>9. \A m \in Attempts : m # n => at'[m] = at[m]
    BY DEF IInv, TypeOK
  <2>10. EarlierHaveFailed'
    <3> SUFFICES ASSUME NEW l \in Attempts, NEW m \in Attempts, l < m, at'[m] # "idle"
                 PROVE  at'[l] = "failed" \/ l \in gone'
      BY DEF EarlierHaveFailed
    <3>1. l \in Nat /\ m \in Nat /\ n \in Nat
      BY SmtpAssumption DEF Attempts
    <3>2. CASE m = n
      BY <2>6, <2>9, <3>1, <3>2
    <3>3. CASE m # n
      <4>1. at[m] # "idle"
        BY <2>9, <3>3
      <4>2. l # n
        BY <2>7, <3>1, <4>1
      <4> QED
        BY <2>9, <4>1, <4>2 DEF IInv, EarlierHaveFailed
    <3> QED
      BY <3>2, <3>3
  <2>5. EarlierHaveFailed' /\ OnlyStartedGone'
    BY <2>8, <2>10
  <2> QED
    BY <2>1, <2>2, <2>3, <2>4, <2>5 DEF IInv
<1>4. ASSUME NEW n \in Attempts, LoseClient(n)
     PROVE  IInv'
  <2> USE <1>4 DEF LoseClient, session
  <2>1. TypeOK'
    BY DEF IInv, TypeOK, ConnMatches, Attempts
  <2>2. EnvelopeIsNamed'
    BY DEF IInv, TypeOK, EnvelopeIsNamed, NamedAll
  <2>3. ConnMatches'
    BY DEF IInv, TypeOK, ConnMatches
  <2>4. TakenAtTheDot' /\ FailedTakenIsLost'
    BY DEF IInv, TypeOK, TakenAtTheDot, FailedTakenIsLost
  <2>5. EarlierHaveFailed' /\ OnlyStartedGone'
    BY DEF IInv, TypeOK, EarlierHaveFailed, OnlyStartedGone, Attempts
  <2> QED
    BY <2>1, <2>2, <2>3, <2>4, <2>5 DEF IInv
<1>5. ASSUME NEW n \in Attempts, AnswerRequest(n)
     PROVE  IInv'
  <2> USE <1>5 DEF AnswerRequest
  <2>1. TypeOK'
    BY DEF IInv, TypeOK, ConnMatches, Attempts
  <2>2. EnvelopeIsNamed'
    <3>1. \A m \in Attempts : at'[m] \in {"data", "body"} => at[m] = at'[m]
      BY DEF IInv, TypeOK
    <3> QED
      BY <3>1 DEF IInv, EnvelopeIsNamed, NamedAll
  <2>3. ConnMatches'
    BY DEF IInv, TypeOK, ConnMatches
  <2>4. TakenAtTheDot' /\ FailedTakenIsLost'
    BY DEF IInv, TypeOK, TakenAtTheDot, FailedTakenIsLost
  <2>5. EarlierHaveFailed' /\ OnlyStartedGone'
    BY DEF IInv, TypeOK, EarlierHaveFailed, OnlyStartedGone, Attempts
  <2> QED
    BY <2>1, <2>2, <2>3, <2>4, <2>5 DEF IInv
<1>6. ASSUME NEW n \in Attempts, Expire(n)
     PROVE  IInv'
  <2> USE <1>6 DEF Expire, Guarded, Fail
  <2>1. TypeOK'
    BY DEF IInv, TypeOK, ConnMatches, Attempts
  <2>2. EnvelopeIsNamed'
    BY DEF IInv, TypeOK, EnvelopeIsNamed, NamedAll
  <2>3. ConnMatches'
    BY DEF IInv, TypeOK, ConnMatches
  <2>4. TakenAtTheDot' /\ FailedTakenIsLost'
    BY DEF IInv, TypeOK, TakenAtTheDot, FailedTakenIsLost
  <2>5. EarlierHaveFailed' /\ OnlyStartedGone'
    BY DEF IInv, TypeOK, EarlierHaveFailed, OnlyStartedGone, Attempts
  <2> QED
    BY <2>1, <2>2, <2>3, <2>4, <2>5 DEF IInv
<1>7. ASSUME NEW n \in Attempts, Connect(n)
     PROVE  IInv'
  <2> USE <1>7 DEF Connect, Answers
  <2>1. TypeOK'
    BY DEF IInv, TypeOK, ConnMatches, Attempts
  <2>2. EnvelopeIsNamed'
    BY DEF IInv, TypeOK, EnvelopeIsNamed, NamedAll
  <2>3. ConnMatches'
    BY DEF IInv, TypeOK, ConnMatches
  <2>4. TakenAtTheDot' /\ FailedTakenIsLost'
    BY DEF IInv, TypeOK, TakenAtTheDot, FailedTakenIsLost
  <2>5. EarlierHaveFailed' /\ OnlyStartedGone'
    BY DEF IInv, TypeOK, EarlierHaveFailed, OnlyStartedGone, Attempts
  <2> QED
    BY <2>1, <2>2, <2>3, <2>4, <2>5 DEF IInv
<1>8. ASSUME NEW n \in Attempts, Encrypt(n)
     PROVE  IInv'
  <2> USE <1>8 DEF Encrypt, Answers
  <2>1. TypeOK'
    BY DEF IInv, TypeOK, ConnMatches, Attempts
  <2>2. EnvelopeIsNamed'
    BY DEF IInv, TypeOK, EnvelopeIsNamed, NamedAll
  <2>3. ConnMatches'
    BY DEF IInv, TypeOK, ConnMatches
  <2>4. TakenAtTheDot' /\ FailedTakenIsLost'
    BY DEF IInv, TypeOK, TakenAtTheDot, FailedTakenIsLost
  <2>5. EarlierHaveFailed' /\ OnlyStartedGone'
    BY DEF IInv, TypeOK, EarlierHaveFailed, OnlyStartedGone, Attempts
  <2> QED
    BY <2>1, <2>2, <2>3, <2>4, <2>5 DEF IInv
<1>9. ASSUME NEW n \in Attempts, Greet(n)
     PROVE  IInv'
  <2> USE <1>9 DEF Greet, Answers
  <2>1. TypeOK'
    BY DEF IInv, TypeOK, ConnMatches, Attempts
  <2>2. EnvelopeIsNamed'
    BY DEF IInv, TypeOK, EnvelopeIsNamed, NamedAll
  <2>3. ConnMatches'
    BY DEF IInv, TypeOK, ConnMatches
  <2>4. TakenAtTheDot' /\ FailedTakenIsLost'
    BY DEF IInv, TypeOK, TakenAtTheDot, FailedTakenIsLost
  <2>5. EarlierHaveFailed' /\ OnlyStartedGone'
    BY DEF IInv, TypeOK, EarlierHaveFailed, OnlyStartedGone, Attempts
  <2> QED
    BY <2>1, <2>2, <2>3, <2>4, <2>5 DEF IInv
<1>10. ASSUME NEW n \in Attempts, Authenticate(n)
     PROVE  IInv'
  <2> USE <1>10 DEF Authenticate, Answers
  <2>1. TypeOK'
    BY DEF IInv, TypeOK, ConnMatches, Attempts
  <2>2. EnvelopeIsNamed'
    BY DEF IInv, TypeOK, EnvelopeIsNamed, NamedAll
  <2>3. ConnMatches'
    BY DEF IInv, TypeOK, ConnMatches
  <2>4. TakenAtTheDot' /\ FailedTakenIsLost'
    BY DEF IInv, TypeOK, TakenAtTheDot, FailedTakenIsLost
  <2>5. EarlierHaveFailed' /\ OnlyStartedGone'
    BY DEF IInv, TypeOK, EarlierHaveFailed, OnlyStartedGone, Attempts
  <2> QED
    BY <2>1, <2>2, <2>3, <2>4, <2>5 DEF IInv
<1>11. ASSUME NEW n \in Attempts, MailFrom(n)
     PROVE  IInv'
  <2> USE <1>11 DEF MailFrom, Answers
  <2>1. TypeOK'
    BY DEF IInv, TypeOK, ConnMatches, Attempts
  <2>2. EnvelopeIsNamed'
    BY DEF IInv, TypeOK, EnvelopeIsNamed, NamedAll
  <2>3. ConnMatches'
    BY DEF IInv, TypeOK, ConnMatches
  <2>4. TakenAtTheDot' /\ FailedTakenIsLost'
    BY DEF IInv, TypeOK, TakenAtTheDot, FailedTakenIsLost
  <2>5. EarlierHaveFailed' /\ OnlyStartedGone'
    BY DEF IInv, TypeOK, EarlierHaveFailed, OnlyStartedGone, Attempts
  <2> QED
    BY <2>1, <2>2, <2>3, <2>4, <2>5 DEF IInv
<1>12. ASSUME NEW n \in Attempts, RcptTo(n)
     PROVE  IInv'
  <2> USE <1>12 DEF RcptTo, Answers
  <2>6. rcpt[n] + 1 \in 0..Len(AllRecipients)
    BY DEF IInv, TypeOK, NamedAll
  <2>7. rcpt' \in [Attempts -> 0..Len(AllRecipients)]
    BY <2>6 DEF IInv, TypeOK
  <2>8. rcpt'[n] = rcpt[n] + 1 /\ AllRecipients[rcpt'[n]] \in Everyone
    BY <2>6, RecipientsAreASequence DEF IInv, TypeOK
  <2>9. envelope' \in [Attempts -> SUBSET Everyone]
    BY <2>8 DEF IInv, TypeOK
  <2>1. TypeOK'
    BY <2>7, <2>9 DEF IInv, TypeOK
  <2>2. EnvelopeIsNamed'
    BY DEF IInv, TypeOK, EnvelopeIsNamed, NamedAll
  <2>3. ConnMatches'
    BY DEF IInv, TypeOK, ConnMatches
  <2>4. TakenAtTheDot' /\ FailedTakenIsLost'
    BY DEF IInv, TypeOK, TakenAtTheDot, FailedTakenIsLost
  <2>5. EarlierHaveFailed' /\ OnlyStartedGone'
    BY DEF IInv, TypeOK, EarlierHaveFailed, OnlyStartedGone, Attempts
  <2> QED
    BY <2>1, <2>2, <2>3, <2>4, <2>5 DEF IInv
<1>13. ASSUME NEW n \in Attempts, RefuseRcpt(n)
     PROVE  IInv'
  <2> USE <1>13 DEF RefuseRcpt, GiveUp, Fail, Answers
  <2>1. TypeOK'
    BY DEF IInv, TypeOK, ConnMatches, Attempts
  <2>2. EnvelopeIsNamed'
    BY DEF IInv, TypeOK, EnvelopeIsNamed, NamedAll
  <2>3. ConnMatches'
    BY DEF IInv, TypeOK, ConnMatches
  <2>4. TakenAtTheDot' /\ FailedTakenIsLost'
    BY DEF IInv, TypeOK, TakenAtTheDot, FailedTakenIsLost
  <2>5. EarlierHaveFailed' /\ OnlyStartedGone'
    BY DEF IInv, TypeOK, EarlierHaveFailed, OnlyStartedGone, Attempts
  <2> QED
    BY <2>1, <2>2, <2>3, <2>4, <2>5 DEF IInv
<1>14. ASSUME NEW n \in Attempts, OpenData(n)
     PROVE  IInv'
  <2> USE <1>14 DEF OpenData, Answers
  <2>1. TypeOK'
    BY ZenonT(40) DEF IInv, TypeOK, ConnMatches, Attempts
  <2>2. EnvelopeIsNamed'
    BY DEF IInv, TypeOK, EnvelopeIsNamed, NamedAll
  <2>3. ConnMatches'
    BY DEF IInv, TypeOK, ConnMatches
  <2>4. TakenAtTheDot' /\ FailedTakenIsLost'
    BY SMTT(30) DEF IInv, TypeOK, TakenAtTheDot, FailedTakenIsLost
  <2>5. EarlierHaveFailed' /\ OnlyStartedGone'
    BY DEF IInv, TypeOK, EarlierHaveFailed, OnlyStartedGone, Attempts
  <2> QED
    BY <2>1, <2>2, <2>3, <2>4, <2>5 DEF IInv
<1>15. ASSUME NEW n \in Attempts, SendBody(n)
     PROVE  IInv'
  <2> USE <1>15 DEF SendBody, Fail, Answers
  <2>1. TypeOK'
    BY ZenonT(40) DEF IInv, TypeOK, ConnMatches, Attempts
  <2>2. EnvelopeIsNamed'
    BY DEF IInv, TypeOK, EnvelopeIsNamed, NamedAll
  <2>3. ConnMatches'
    BY DEF IInv, TypeOK, ConnMatches
  <2>6. envelope[n] = Everyone
    BY RecipientsAreASequence DEF IInv, EnvelopeIsNamed, NamedAll
  <2>4. TakenAtTheDot' /\ FailedTakenIsLost'
    BY <2>6 DEF IInv, TypeOK, TakenAtTheDot, FailedTakenIsLost
  <2>5. EarlierHaveFailed' /\ OnlyStartedGone'
    BY ZenonT(40) DEF IInv, TypeOK, EarlierHaveFailed, OnlyStartedGone, Attempts
  <2> QED
    BY <2>1, <2>2, <2>3, <2>4, <2>5 DEF IInv
<1>16. ASSUME NEW n \in Attempts, Quit(n)
     PROVE  IInv'
  <2> USE <1>16 DEF Quit, AfterQuit, Answers
  <2>1. TypeOK'
    BY DEF IInv, TypeOK, ConnMatches, Attempts
  <2>2. EnvelopeIsNamed'
    BY DEF IInv, TypeOK, EnvelopeIsNamed, NamedAll
  <2>3. ConnMatches'
    BY DEF IInv, TypeOK, ConnMatches
  <2>4. TakenAtTheDot' /\ FailedTakenIsLost'
    BY DEF IInv, TypeOK, TakenAtTheDot, FailedTakenIsLost
  <2>5. EarlierHaveFailed' /\ OnlyStartedGone'
    BY DEF IInv, TypeOK, EarlierHaveFailed, OnlyStartedGone, Attempts
  <2> QED
    BY <2>1, <2>2, <2>3, <2>4, <2>5 DEF IInv
<1>17. ASSUME NEW n \in Attempts, Break(n)
     PROVE  IInv'
  <2> USE <1>17 DEF Break, Fail, Answers
  <2>1. TypeOK'
    BY DEF IInv, TypeOK, ConnMatches, Attempts
  <2>2. EnvelopeIsNamed'
    BY DEF IInv, TypeOK, EnvelopeIsNamed, NamedAll
  <2>3. ConnMatches'
    BY DEF IInv, TypeOK, ConnMatches
  <2>4. TakenAtTheDot' /\ FailedTakenIsLost'
    BY DEF IInv, TypeOK, TakenAtTheDot, FailedTakenIsLost
  <2>5. EarlierHaveFailed' /\ OnlyStartedGone'
    BY DEF IInv, TypeOK, EarlierHaveFailed, OnlyStartedGone, Attempts
  <2> QED
    BY <2>1, <2>2, <2>3, <2>4, <2>5 DEF IInv
<1>18. ASSUME NEW n \in Attempts, Stall(n)
     PROVE  IInv'
  <2> USE <1>18 DEF Stall, session
  <2>1. TypeOK'
    BY DEF IInv, TypeOK, ConnMatches, Attempts
  <2>2. EnvelopeIsNamed'
    BY DEF IInv, TypeOK, EnvelopeIsNamed, NamedAll
  <2>3. ConnMatches'
    BY DEF IInv, TypeOK, ConnMatches
  <2>4. TakenAtTheDot' /\ FailedTakenIsLost'
    BY DEF IInv, TypeOK, TakenAtTheDot, FailedTakenIsLost
  <2>5. EarlierHaveFailed' /\ OnlyStartedGone'
    BY DEF IInv, TypeOK, EarlierHaveFailed, OnlyStartedGone, Attempts
  <2> QED
    BY <2>1, <2>2, <2>3, <2>4, <2>5 DEF IInv
<1>19. CASE UNCHANGED vars
  BY <1>19 DEF vars, session, IInv, TypeOK, ConnMatches, EnvelopeIsNamed, NamedAll, TakenAtTheDot,
     FailedTakenIsLost, EarlierHaveFailed, OnlyStartedGone
<1> QED
  BY <1>3, <1>4, <1>5, <1>6, <1>7, <1>8, <1>9, <1>10, <1>11, <1>12, <1>13, <1>14, <1>15, <1>16, <1>17, <1>18, <1>19 DEF Next, ServerAnswers
\* Every reachable state satisfies the inductive invariant.
LEMMA InvAlways == Spec => []IInv
BY InvInit, InvStep, PTL DEF Spec

\* client.go:69-121: the variables have their types, a call that has returned has
\* closed its connection, and commands from AUTH on go over TLS only.
THEOREM SmtpTypeCorrect == Spec => []TypeOK
<1>1. IInv => TypeOK
  BY DEF IInv
<1> QED
  BY <1>1, InvAlways, PTL

------------------------------------------------------------------------------
(* Copies of a mail.                                                         *)

\* Two attempts whose mails were taken: one of them lost the answer or its client.
LEMMA OneUnexplained ==
    ASSUME IInv, NEW a \in Attempts, NEW b \in Attempts,
           taken[a] # {}, taken[b] # {}, a \notin lost \cup gone, b \notin lost \cup gone
    PROVE  a = b
<1>1. \A n \in Attempts : taken[n] # {} => at[n] # "idle"
  BY DEF IInv, TakenAtTheDot
<1>2. \A n \in {a, b} : at[n] # "failed"
  BY DEF IInv, FailedTakenIsLost
<1>3. ~(a < b) /\ ~(b < a)
  BY <1>1, <1>2 DEF IInv, EarlierHaveFailed
<1> QED
  BY <1>3, SmtpAssumption DEF Attempts

\* client.go:110-120, message_handler.go:613-620: a mail is sent more than once
\* only when the answer of the server was lost or the client had gone.
THEOREM CopiesAreExplained == Spec => []CopiesExplained
<1>1. IInv => CopiesExplained
  <2> SUFFICES ASSUME IInv PROVE CopiesExplained
    OBVIOUS
  <2> DEFINE copies == {n \in Attempts : taken[n] # {}}
  <2>1. IsFiniteSet(Attempts)
    BY FS_Interval, SmtpAssumption DEF Attempts
  <2>2. IsFiniteSet(copies)
    BY <2>1, FS_Subset, copies \in SUBSET Attempts
  <2>3. \A a, b \in copies \ (lost \cup gone) : a = b
    BY OneUnexplained
  <2> HIDE DEF copies
  <2>4. Cardinality(copies) <= 1 + Cardinality(copies \cap (lost \cup gone))
    BY <2>2, <2>3, AllButOne
  <2> QED
    BY <2>4 DEF CopiesExplained, copies
<1> QED
  BY <1>1, InvAlways, PTL

------------------------------------------------------------------------------
(* The refinement.                                                           *)

\* The initial states are those of MailTransfer.
LEMMA InitMaps == Init => Transfer!Init
BY DEF Init, Transfer!Init, Outcome, OutcomeAt

\* A step that changes neither the outcome of an attempt nor what was taken is a
\* stutter of MailTransfer.
LEMMA Stutters ==
    ASSUME UNCHANGED account, UNCHANGED taken, Outcome' = Outcome
    PROVE  UNCHANGED Transfer!vars
BY MailStays DEF Transfer!vars

\* What the abstract view makes of a step of at.
LEMMA OutcomeOf ==
    ASSUME TypeOK, NEW n \in Attempts, NEW s, Goto(n, s)
    PROVE  Outcome' = [Outcome EXCEPT ![n] = OutcomeAt(s)]
BY DEF TypeOK, Outcome, OutcomeAt, Goto

\* A command that is answered as hoped leaves the outcome open.
LEMMA StillOpen ==
    ASSUME TypeOK, NEW n \in Attempts, NEW s, Goto(n, s),
           at[n] \in {"idle"} \cup Steps, s \in {"refused"} \cup Steps
    PROVE  Outcome' = Outcome
<1>1. Outcome[n] = "open" /\ Outcome \in [Attempts -> {"ok", "failed", "open"}]
  BY DEF Outcome, OutcomeAt, Steps, Commands
<1>2. Outcome' = [Outcome EXCEPT ![n] = "open"]
  BY OutcomeOf DEF Steps, Commands, OutcomeAt
<1> QED
  BY <1>1, <1>2

\* An error before the dot is an abstract failure.
LEMMA FailMaps ==
    ASSUME TypeOK, NEW n \in Attempts, Fail(n), at[n] \in Steps,
           UNCHANGED account, UNCHANGED taken
    PROVE  Transfer!Fail(n)
<1>1. Outcome[n] = "open"
  BY DEF Outcome, OutcomeAt, Steps, Commands
<1>2. Outcome' = [Outcome EXCEPT ![n] = "failed"]
  BY OutcomeOf DEF Fail, OutcomeAt
<1> QED
  BY <1>1, <1>2, MailStays DEF Transfer!Fail

\* Every step is one of MailTransfer or a stutter.
LEMMA StepMaps == IInv /\ [Next]_vars => [Transfer!Next]_(Transfer!vars)
<1> SUFFICES ASSUME IInv, [Next]_vars PROVE [Transfer!Next]_(Transfer!vars)
  OBVIOUS
<1>0. TypeOK
  BY DEF IInv
<1> USE <1>0
<1>1. ASSUME NEW n \in Attempts, Build(n)
     PROVE  [Transfer!Next]_(Transfer!vars)
  BY <1>1, StillOpen, Stutters DEF Build, Steps, Commands
<1>2. ASSUME NEW n \in Attempts, LoseClient(n)
     PROVE  [Transfer!Next]_(Transfer!vars)
  BY <1>2, Stutters DEF LoseClient, session, Outcome, OutcomeAt
<1>3. ASSUME NEW n \in Attempts, AnswerRequest(n)
     PROVE  [Transfer!Next]_(Transfer!vars)
  <2>1. Outcome' = [Outcome EXCEPT ![n] = "ok"] /\ Outcome[n] = "ok"
    BY <1>3, OutcomeOf DEF AnswerRequest, Outcome, OutcomeAt
  <2>2. Outcome' = Outcome
    BY <2>1 DEF Outcome, OutcomeAt
  <2> QED
    BY <1>3, <2>2, Stutters DEF AnswerRequest
<1>4. ASSUME NEW n \in Attempts, Expire(n)
     PROVE  [Transfer!Next]_(Transfer!vars)
  BY <1>4, FailMaps DEF Expire, Guarded, Steps, Transfer!Next
<1>5. ASSUME NEW n \in Attempts, Connect(n) \/ Encrypt(n) \/ Greet(n) \/ Authenticate(n) \/ MailFrom(n) \/ OpenData(n)
     PROVE  [Transfer!Next]_(Transfer!vars)
  BY <1>5, StillOpen, Stutters
     DEF Connect, Encrypt, Greet, Authenticate, MailFrom, OpenData, Answers, Steps, Commands
<1>6. ASSUME NEW n \in Attempts, RcptTo(n)
     PROVE  [Transfer!Next]_(Transfer!vars)
  BY <1>6, Stutters DEF RcptTo, Answers, Outcome, OutcomeAt
<1>7. ASSUME NEW n \in Attempts, RefuseRcpt(n) \/ Break(n)
     PROVE  [Transfer!Next]_(Transfer!vars)
  BY <1>7, FailMaps DEF RefuseRcpt, GiveUp, Break, Answers, Steps, Commands, Transfer!Next
<1>8. ASSUME NEW n \in Attempts, SendBody(n)
     PROVE  [Transfer!Next]_(Transfer!vars)
  <2>1. at[n] = "body" /\ Outcome[n] = "open" /\ taken[n] = {}
    BY <1>8 DEF SendBody, Answers, Outcome, OutcomeAt, IInv, TakenAtTheDot, Steps, Commands
  <2>2. envelope[n] = Everyone
    BY <2>1, RecipientsAreASequence DEF TypeOK, IInv, EnvelopeIsNamed, NamedAll
  <2>3. taken' = [taken EXCEPT ![n] = Everyone] /\ Everyone' = Everyone
    BY <1>8, <2>2, MailStays DEF SendBody, Answers
  <2>4. CASE Goto(n, "quit")
    <3>1. Outcome' = Outcome
      BY <2>1, <2>4, StillOpen DEF Steps, Commands
    <3> QED
      BY <2>1, <2>3, <3>1 DEF Transfer!Take, Transfer!Next
  <2>5. CASE Fail(n)
    <3>1. Outcome' = [Outcome EXCEPT ![n] = "failed"]
      BY <2>5, OutcomeOf DEF Fail, OutcomeAt
    <3> QED
      BY <2>1, <2>3, <3>1 DEF Transfer!Take, Transfer!Next
  <2> QED
    BY <1>8, <2>4, <2>5 DEF SendBody
<1>9. ASSUME NEW n \in Attempts, Quit(n)
     PROVE  [Transfer!Next]_(Transfer!vars)
  <2>1. at[n] = "quit" /\ Outcome[n] = "open" /\ taken[n] = Everyone
    BY <1>9 DEF Quit, Answers, Outcome, OutcomeAt, IInv, TakenAtTheDot
  <2>2. Outcome' = [Outcome EXCEPT ![n] = "ok"]
    BY <1>9, OutcomeOf DEF Quit, AfterQuit, OutcomeAt
  <2> QED
    BY <1>9, <2>1, <2>2, MailStays DEF Quit, Answers, Transfer!Succeed, Transfer!Next
<1>10. ASSUME NEW n \in Attempts, Stall(n)
     PROVE  [Transfer!Next]_(Transfer!vars)
  BY <1>10, Stutters DEF Stall, session, Outcome, OutcomeAt
<1>11. CASE UNCHANGED vars
  BY <1>11, Stutters DEF vars, account, session, Outcome, OutcomeAt
<1> QED
  BY <1>1, <1>2, <1>3, <1>4, <1>5, <1>6, <1>7, <1>8, <1>9, <1>10, <1>11 DEF Next, ServerAnswers

\* client.go:69-121: SendEmail implements MailTransfer: a mail is taken for all
\* recipients or none, and success is returned only when it was taken.
THEOREM SmtpImplementsTransfer == Spec => ImplementsTransfer
<1>1. Init => Transfer!Init
  BY InitMaps
<1>2. IInv /\ [Next]_vars => [Transfer!Next]_(Transfer!vars)
  BY StepMaps
<1> QED
  BY <1>1, <1>2, InvAlways, PTL DEF Spec, ImplementsTransfer, Transfer!Spec
==============================================================================
