----------------------------- MODULE IngestProofs -----------------------------
(***************************************************************************)
(* Theorems about IngestEmail (module Ingest), and about the requests of the *)
(* HTTP API that call it (module MessageHandler), for every set of callers,  *)
(* folders, UIDs, attachments and faults.                                   *)
(***************************************************************************)
EXTENDS MessageHandler, TLAPS

\* AttachmentKey yields a key of the bucket for every attachment of a message.
LEMMA KeyOfPart ==
    ASSUME NEW m \in Messages, NEW i \in 1 .. Len(Files[m])
    PROVE  /\ AttachmentKey(m, i) \in Keys
           /\ <<m, i>> \in PartsOf(m)
           /\ <<m, i>> \in Parts
<1>1. Files[m] \in Seq(Names)
  BY IngestAssumption
<1>2. Files[m][i] \in Names
  BY <1>1
<1>3. m[2] \in Uids
  BY DEF Messages
<1>4. <<m, i>> \in PartsOf(m)
  BY DEF PartsOf
<1> QED
  BY <1>2, <1>3, <1>4 DEF AttachmentKey, Keys, Parts

\* A message has finitely many attachments, and is not None.
LEMMA MessageFiles ==
    ASSUME NEW m \in Messages
    PROVE  m # None /\ Files[m] \in Seq(Names) /\ Len(Files[m]) \in Nat
<1>1. Files[m] \in Seq(Names)
  BY IngestAssumption
<1> QED
  BY <1>1, IngestAssumption

\* A caller at work has a message, and its loops are within its attachments.
LEMMA BusyHasMessage ==
    ASSUME TypeOK, NEW c \in Callers, pc[c] # "idle"
    PROVE  /\ msg[c] \in Messages /\ msg[c] # None
           /\ Len(Files[msg[c]]) \in Nat
           /\ up[c] \in 0 .. Len(Files[msg[c]])
           /\ idx[c] \in 0 .. Len(Files[msg[c]])
<1>1. msg[c] \in Messages /\ msg[c] # None
  BY DEF TypeOK, StackOK, CallOK
<1>2. Len(Files[msg[c]]) \in Nat
  BY <1>1, MessageFiles
<1> QED
  BY <1>1, <1>2 DEF TypeOK, StackOK, CallOK

\* Storing a part of the bucket's alphabet under a key, or clearing the key,
\* keeps the bucket well typed.
LEMMA BucketTyped ==
    ASSUME StoresOK, NEW k, NEW p \in Parts \cup {None},
           objects' = [objects EXCEPT ![k] = p]
    PROVE  objects' \in [Keys -> Parts \cup {None}]
BY DEF StoresOK

\* Every action leaves a well typed state well typed.
LEMMA TypeStep == TypeOK /\ [Next]_vars => TypeOK'
<1> SUFFICES ASSUME TypeOK, [Next]_vars
             PROVE  TypeOK'
  OBVIOUS
<1> USE DEF Labels, Results, TypeOK, StackOK, HistoryOK, history, stack
<1>1. ASSUME NEW c \in Callers, NEW m \in Messages, Begin(c, m)
      PROVE  TypeOK'
  <2>1. m # None /\ Len(Files[m]) \in Nat
    BY MessageFiles
  <2>2. StoresOK' /\ StackOK' /\ HistoryOK'
    BY <1>1, <2>1 DEF Begin, StoresOK
  <2>3. ASSUME NEW d \in Callers
        PROVE  CallOK(d)'
    BY <1>1, <2>1 DEF Begin, CallOK
  <2> QED
    BY <2>2, <2>3
<1>2. ASSUME NEW c \in Callers, NEW r \in Results, Return(c, r)
      PROVE  StackOK' /\ \A d \in Callers : CallOK(d)'
  BY <1>2 DEF Return, CallOK
<1>3. ASSUME NEW c \in Callers, NEW r \in Results, CleanupThen(c, r), pc[c] # "idle"
      PROVE  StackOK' /\ \A d \in Callers : CallOK(d)'
  BY <1>3 DEF CleanupThen, CallOK
<1>4. ASSUME NEW c \in Callers, NEW l \in Labels \ {"idle"}, Goto(c, l), pc[c] # "idle"
      PROVE  StackOK' /\ \A d \in Callers : CallOK(d)'
  BY <1>4 DEF Goto, CallOK
<1>5. ASSUME NEW c \in Callers, GetAccount(c)
      PROVE  TypeOK'
  <2>1. StoresOK' /\ HistoryOK'
    BY <1>5 DEF GetAccount, StoresOK
  <2> QED
    BY <1>5, <1>2, <1>4, <2>1 DEF GetAccount
<1>6. ASSUME NEW c \in Callers, ExistsByUID(c)
      PROVE  TypeOK'
  <2>1. StoresOK' /\ HistoryOK'
    BY <1>6 DEF ExistsByUID, StoresOK
  <2> QED
    BY <1>6, <1>2, <1>4, <2>1 DEF ExistsByUID
<1>7. ASSUME NEW c \in Callers, FetchRaw(c)
      PROVE  TypeOK'
  <2>1. StoresOK' /\ HistoryOK'
    BY <1>7 DEF FetchRaw, StoresOK
  <2> QED
    BY <1>7, <1>2, <1>4, <2>1 DEF FetchRaw
<1>8. ASSUME NEW c \in Callers, Upload(c)
      PROVE  TypeOK'
  <2>1. msg[c] # None /\ msg[c] \in Messages /\ up[c] + 1 \in 1 .. Len(Files[msg[c]])
    BY <1>8, BusyHasMessage DEF Upload
  <2>2. objects' \in [Keys -> Parts \cup {None}]
    BY <1>8, <2>1, KeyOfPart DEF Upload, PutObject, StoresOK
  <2>3. StoresOK' /\ HistoryOK'
    BY <1>8, <2>2 DEF Upload, StoresOK
  <2>4. StackOK' /\ \A d \in Callers : CallOK(d)'
    <3>1. CASE /\ up' = [up EXCEPT ![c] = @ + 1]
               /\ UNCHANGED <<pc, msg, idx, res>>
      BY <3>1, <2>1 DEF CallOK
    <3> QED
      BY <1>8, <1>3, <3>1 DEF Upload
  <2> QED
    BY <2>3, <2>4
<1>9. ASSUME NEW c \in Callers, CreateEmail(c)
      PROVE  TypeOK'
  <2>1. msg[c] \in Messages
    BY <1>9, BusyHasMessage DEF CreateEmail
  <2>2. StoresOK' /\ HistoryOK'
    BY <1>9, <2>1 DEF CreateEmail, StoresOK
  <2>3. StackOK' /\ \A d \in Callers : CallOK(d)'
    BY <1>9, <1>3, <1>4 DEF CreateEmail
  <2> QED
    BY <2>2, <2>3
<1>10. ASSUME NEW c \in Callers, DeleteUploaded(c)
       PROVE  TypeOK'
  <2>1. msg[c] \in Messages /\ idx[c] + 1 \in 1 .. Len(Files[msg[c]])
    BY <1>10, BusyHasMessage DEF DeleteUploaded
  <2>2. objects' \in [Keys -> Parts \cup {None}]
    BY <1>10, <2>1, KeyOfPart DEF DeleteUploaded, StoresOK
  <2>3. StoresOK' /\ HistoryOK'
    BY <1>10, <2>2 DEF DeleteUploaded, StoresOK
  <2>4. StackOK' /\ \A d \in Callers : CallOK(d)'
    BY <1>10, <2>1 DEF DeleteUploaded, CallOK
  <2> QED
    BY <2>3, <2>4
<1>11. ASSUME NEW c \in Callers, ReturnAfterCleanup(c)
       PROVE  TypeOK'
  <2>1. StoresOK' /\ HistoryOK'
    BY <1>11 DEF ReturnAfterCleanup, StoresOK
  <2> QED
    BY <1>11, <1>2, <2>1 DEF ReturnAfterCleanup
<1>12. ASSUME NEW c \in Callers, CreateAttachment(c)
       PROVE  TypeOK'
  <2>1. msg[c] # None /\ msg[c] \in Messages /\ idx[c] + 1 \in 1 .. Len(Files[msg[c]])
    BY <1>12, BusyHasMessage DEF CreateAttachment
  <2>2. RowOf(c) \in Parts
    BY <2>1, KeyOfPart DEF RowOf
  <2>3. StoresOK' /\ HistoryOK'
    BY <1>12, <2>2 DEF CreateAttachment, StoresOK
  <2>4. StackOK' /\ \A d \in Callers : CallOK(d)'
    <3>1. CASE /\ idx' = [idx EXCEPT ![c] = @ + 1]
               /\ UNCHANGED <<pc, msg, up, res>>
      BY <3>1, <2>1 DEF CallOK
    <3> QED
      BY <1>12, <1>2, <3>1 DEF CreateAttachment, AbandonRows
  <2> QED
    BY <2>3, <2>4
<1>13. ASSUME NEW c \in Callers, ReturnEmail(c)
       PROVE  TypeOK'
  <2>1. msg[c] \in Messages
    BY <1>13, BusyHasMessage DEF ReturnEmail
  <2>2. StoresOK' /\ HistoryOK'
    BY <1>13, <2>1 DEF ReturnEmail, StoresOK
  <2> QED
    BY <1>13, <1>2, <2>2 DEF ReturnEmail
<1>14. CASE DeleteAccount
  BY <1>14 DEF DeleteAccount, StoresOK, CallOK
<1>15. CASE Crash
  BY <1>15 DEF Crash, StoresOK, CallOK
<1>16. CASE UNCHANGED vars
  BY <1>16 DEF vars, StoresOK, CallOK
<1> QED
  BY <1>1, <1>5, <1>6, <1>7, <1>8, <1>9, <1>10, <1>11, <1>12, <1>13, <1>14,
     <1>15, <1>16 DEF Next, IngestStep

LEMMA InitTyped == Init => TypeOK
<1> SUFFICES ASSUME Init
             PROVE  TypeOK
  OBVIOUS
<1>1. StoresOK
  BY DEF Init, StoresOK
<1>2. StackOK
  BY DEF Init, StackOK, Labels, Results
<1>3. HistoryOK
  BY DEF Init, HistoryOK
<1>4. ASSUME NEW c \in Callers
      PROVE  CallOK(c)
  BY DEF Init, CallOK
<1> QED
  BY <1>1, <1>2, <1>3, <1>4 DEF TypeOK

\* Every reachable state is well typed, and the loops over the attachments stay
\* within the message (ingest.go:95-115, 154-174).
THEOREM TypeCorrect == Spec => []TypeOK
BY InitTyped, TypeStep, PTL DEF Spec

------------------------------------------------------------------------------
(* The strengthening under which "at most one answer without an error" and   *)
(* "an answered message is complete" are inductive: the call that has stored *)
(* a message is the only one at work on its rows, has not answered yet, and  *)
(* has written every row its index has passed; and a message that was        *)
(* answered is still stored, so that no other call can insert it again.      *)

\* Before the rows loop the index is where the loop starts.
IndexReset == \A c \in Callers : pc[c] \notin {"cleanup", "attach"} => idx[c] = 0

\* A message has one owner, the call between its insert and its return.
OneOwner ==
    \A c, d \in Callers :
        pc[c] = "attach" /\ pc[d] = "attach" /\ msg[c] = msg[d] => c = d

\* A message with an owner has not been answered yet.
OwnerHasNotAnswered == \A c \in Callers : pc[c] = "attach" => oks[msg[c]] = 0

\* The owner's message is stored, with the rows its loop has passed.
OwnerHasRows ==
    acct => \A c \in Callers : pc[c] = "attach" =>
                /\ msg[c] \in emails
                /\ \A i \in 1 .. idx[c] : <<msg[c], i>> \in rows

IInv ==
    /\ TypeOK
    /\ IndexReset
    /\ OneOwner
    /\ OwnerHasNotAnswered
    /\ OwnerHasRows
    /\ OneOkPerMessage
    /\ OkIsComplete

\* A step of one call that does not end up in the rows loop, and takes nothing
\* away from the stores, keeps the strengthening.
LEMMA OutsideRowsLoop ==
    ASSUME IInv, TypeOK', NEW c \in Callers,
           \A d \in Callers \ {c} :
               pc'[d] = pc[d] /\ msg'[d] = msg[d] /\ idx'[d] = idx[d],
           pc'[c] # "attach",
           pc'[c] # "cleanup" => idx'[c] = 0,
           emails \subseteq emails', rows \subseteq rows',
           UNCHANGED <<acct, oks>>
    PROVE  IInv'
<1> USE DEF IInv
<1>1. IndexReset'
  BY DEF IndexReset
<1>2. OneOwner'
  BY DEF OneOwner
<1>3. OwnerHasNotAnswered'
  BY DEF OwnerHasNotAnswered
<1>4. OwnerHasRows'
  BY DEF OwnerHasRows
<1>5. OneOkPerMessage'
  BY DEF OneOkPerMessage
<1>6. OkIsComplete'
  BY DEF OkIsComplete
<1> QED
  BY <1>1, <1>2, <1>3, <1>4, <1>5, <1>6

\* The insert makes its call the owner of a message no call owned or answered.
LEMMA InsertKeepsIInv ==
    ASSUME IInv, TypeOK', NEW c \in Callers, pc[c] = "upload",
           Insertable(c), emails' = emails \cup {msg[c]}, Goto(c, "attach"),
           UNCHANGED <<acct, rows, oks>>
    PROVE  IInv'
<1> USE DEF IInv
<1>1. msg[c] \in Messages /\ idx[c] = 0
  BY BusyHasMessage DEF IndexReset
<1>2. pc' = [pc EXCEPT ![c] = "attach"] /\ UNCHANGED <<msg, idx>> /\ pc \in [Callers -> Labels]
  BY DEF Goto, TypeOK, StackOK
<1>3. acct /\ msg[c] \notin emails
  BY DEF Insertable
<1>4. oks[msg[c]] = 0
  BY <1>1, <1>3 DEF OkIsComplete, TypeOK, HistoryOK
<1>5. \A d \in Callers : pc[d] = "attach" => msg[d] # msg[c]
  BY <1>3 DEF OwnerHasRows
<1>6. IndexReset'
  BY <1>2 DEF IndexReset
<1>7. OneOwner'
  BY <1>2, <1>5 DEF OneOwner
<1>8. OwnerHasNotAnswered'
  BY <1>2, <1>4 DEF OwnerHasNotAnswered
<1>9. OwnerHasRows'
  BY <1>1, <1>2 DEF OwnerHasRows
<1>10. OneOkPerMessage'
  BY DEF OneOkPerMessage
<1>11. OkIsComplete'
  BY DEF OkIsComplete
<1> QED
  BY <1>6, <1>7, <1>8, <1>9, <1>10, <1>11

\* A row written moves the owner's index past it.
LEMMA RowKeepsIInv ==
    ASSUME IInv, TypeOK', NEW c \in Callers, pc[c] = "attach",
           rows' = rows \cup {RowOf(c)}, idx' = [idx EXCEPT ![c] = @ + 1],
           UNCHANGED <<acct, emails, oks, pc, msg>>
    PROVE  IInv'
<1> USE DEF IInv
<1>1. idx[c] \in Nat /\ idx'[c] = idx[c] + 1 /\ \A d \in Callers \ {c} : idx'[d] = idx[d]
  BY DEF TypeOK, StackOK
<1>2. IndexReset'
  BY <1>1 DEF IndexReset
<1>3. OneOwner'
  BY DEF OneOwner
<1>4. OwnerHasNotAnswered'
  BY DEF OwnerHasNotAnswered
<1>5. OwnerHasRows'
  <2> SUFFICES ASSUME acct, NEW d \in Callers, pc[d] = "attach",
                      NEW i \in 1 .. idx'[d]
               PROVE  msg[d] \in emails /\ <<msg[d], i>> \in rows'
    BY DEF OwnerHasRows
  <2>1. CASE i \in 1 .. idx[d]
    BY <2>1 DEF OwnerHasRows
  <2>2. CASE i \notin 1 .. idx[d]
    <3>1. d = c /\ i = idx[c] + 1
      BY <1>1, <2>2
    <3> QED
      BY <3>1 DEF OwnerHasRows, RowOf
  <2> QED
    BY <2>1, <2>2
<1>6. OneOkPerMessage'
  BY DEF OneOkPerMessage
<1>7. OkIsComplete'
  BY DEF OkIsComplete
<1> QED
  BY <1>2, <1>3, <1>4, <1>5, <1>6, <1>7

\* The owner's return is the message's first answer, and all its rows are there.
LEMMA ReturnKeepsIInv ==
    ASSUME IInv, TypeOK', NEW c \in Callers, ReturnEmail(c)
    PROVE  IInv'
<1> USE DEF IInv
<1>1. /\ msg[c] \in Messages /\ msg[c] # None
      /\ pc[c] = "attach" /\ idx[c] = Len(Files[msg[c]])
      /\ oks' = [oks EXCEPT ![msg[c]] = @ + 1]
      /\ UNCHANGED <<acct, emails, rows>>
  BY BusyHasMessage DEF ReturnEmail
<1>2. /\ pc'[c] = "idle" /\ idx'[c] = 0
      /\ \A d \in Callers \ {c} : pc'[d] = pc[d] /\ msg'[d] = msg[d] /\ idx'[d] = idx[d]
  BY DEF ReturnEmail, Return, TypeOK, StackOK
<1>3. oks[msg[c]] = 0
  BY <1>1 DEF OwnerHasNotAnswered
<1>4. /\ oks'[msg[c]] = 1
      /\ \A m \in Messages \ {msg[c]} : oks'[m] = oks[m]
  BY <1>1, <1>3 DEF TypeOK, HistoryOK
<1>5. \A d \in Callers : pc'[d] = "attach" => d # c /\ msg'[d] # msg[c]
  BY <1>1, <1>2 DEF OneOwner
<1>6. IndexReset'
  BY <1>2 DEF IndexReset
<1>7. OneOwner'
  BY <1>2 DEF OneOwner
<1>8. OwnerHasNotAnswered'
  <2> SUFFICES ASSUME NEW d \in Callers, pc'[d] = "attach"
               PROVE  oks'[msg'[d]] = 0
    BY DEF OwnerHasNotAnswered
  <2>1. d # c /\ msg'[d] = msg[d] /\ pc[d] = "attach" /\ msg[d] # msg[c]
    BY <1>2, <1>5
  <2>2. msg[d] \in Messages
    BY <2>1, BusyHasMessage
  <2> QED
    BY <1>4, <2>1, <2>2 DEF OwnerHasNotAnswered
<1>9. OwnerHasRows'
  BY <1>1, <1>2, <1>5 DEF OwnerHasRows
<1>10. OneOkPerMessage'
  BY <1>4 DEF OneOkPerMessage
<1>11. OkIsComplete'
  <2> SUFFICES ASSUME acct, NEW m \in Messages, oks'[m] > 0
               PROVE  m \in emails /\ PartsOf(m) \subseteq rows
    BY <1>1 DEF OkIsComplete
  <2>1. CASE m = msg[c]
    BY <1>1, <2>1 DEF OwnerHasRows, PartsOf
  <2>2. CASE m # msg[c]
    BY <1>4, <2>2 DEF OkIsComplete
  <2> QED
    BY <2>1, <2>2
<1> QED
  BY <1>6, <1>7, <1>8, <1>9, <1>10, <1>11

\* Every action keeps the strengthening.
LEMMA IInvStep == IInv /\ [Next]_vars => IInv'
<1> SUFFICES ASSUME IInv, [Next]_vars
             PROVE  IInv'
  OBVIOUS
<1>1. TypeOK'
  BY TypeStep DEF IInv
<1>2. StackOK
  BY DEF IInv, TypeOK
<1> USE <1>1, <1>2 DEF StackOK, stack, history
<1>3. ASSUME NEW c \in Callers, NEW m \in Messages, Begin(c, m)
      PROVE  IInv'
  <2>1. pc[c] = "idle" /\ idx[c] = 0
    BY <1>3 DEF Begin, IInv, IndexReset
  <2> QED
    BY <1>3, <2>1, OutsideRowsLoop DEF Begin
<1>4. ASSUME NEW c \in Callers, NEW r, Return(c, r),
             emails \subseteq emails', rows \subseteq rows', UNCHANGED <<acct, oks>>
      PROVE  IInv'
  <2>1. /\ pc'[c] = "idle" /\ idx'[c] = 0
        /\ \A d \in Callers \ {c} : pc'[d] = pc[d] /\ msg'[d] = msg[d] /\ idx'[d] = idx[d]
    BY <1>4 DEF Return
  <2> QED
    BY <1>4, <2>1, OutsideRowsLoop
<1>5. ASSUME NEW c \in Callers, NEW r, CleanupThen(c, r),
             emails \subseteq emails', UNCHANGED <<acct, rows, oks>>
      PROVE  IInv'
  <2>1. /\ pc'[c] = "cleanup"
        /\ \A d \in Callers \ {c} : pc'[d] = pc[d] /\ msg'[d] = msg[d] /\ idx'[d] = idx[d]
    BY <1>5 DEF CleanupThen
  <2> QED
    BY <1>5, <2>1, OutsideRowsLoop
<1>6. ASSUME NEW c \in Callers, NEW l \in {"exists", "fetch", "upload"}, Goto(c, l),
             pc[c] \in {"account", "exists", "fetch"}, UNCHANGED <<acct, emails, rows, oks>>
      PROVE  IInv'
  <2>1. /\ pc'[c] = l /\ idx'[c] = idx[c] /\ idx[c] = 0
        /\ \A d \in Callers \ {c} : pc'[d] = pc[d] /\ msg'[d] = msg[d] /\ idx'[d] = idx[d]
    BY <1>6 DEF Goto, IInv, IndexReset
  <2> QED
    BY <1>6, <2>1, OutsideRowsLoop
<1>7. ASSUME NEW c \in Callers, GetAccount(c)
      PROVE  IInv'
  BY <1>7, <1>4, <1>6 DEF GetAccount
<1>8. ASSUME NEW c \in Callers, ExistsByUID(c)
      PROVE  IInv'
  BY <1>8, <1>4, <1>6 DEF ExistsByUID
<1>9. ASSUME NEW c \in Callers, FetchRaw(c)
      PROVE  IInv'
  BY <1>9, <1>4, <1>6 DEF FetchRaw
<1>10. ASSUME NEW c \in Callers, Upload(c)
       PROVE  IInv'
  <2>1. CASE UNCHANGED <<pc, msg, idx>>
    <3>1. pc[c] = "upload" /\ idx[c] = 0
      BY <1>10 DEF Upload, IInv, IndexReset
    <3> QED
      BY <1>10, <2>1, <3>1, OutsideRowsLoop DEF Upload
  <2> QED
    BY <1>10, <1>5, <2>1 DEF Upload
<1>11. ASSUME NEW c \in Callers, CreateEmail(c)
       PROVE  IInv'
  BY <1>11, <1>5, InsertKeepsIInv DEF CreateEmail
<1>12. ASSUME NEW c \in Callers, DeleteUploaded(c)
       PROVE  IInv'
  <2>1. /\ pc[c] = "cleanup" /\ UNCHANGED <<pc, msg>>
        /\ \A d \in Callers \ {c} : idx'[d] = idx[d]
    BY <1>12 DEF DeleteUploaded
  <2> QED
    BY <1>12, <2>1, OutsideRowsLoop DEF DeleteUploaded
<1>13. ASSUME NEW c \in Callers, ReturnAfterCleanup(c)
       PROVE  IInv'
  BY <1>13, <1>4 DEF ReturnAfterCleanup
<1>14. ASSUME NEW c \in Callers, CreateAttachment(c)
       PROVE  IInv'
  BY <1>14, <1>4, RowKeepsIInv DEF CreateAttachment, AbandonRows
<1>15. ASSUME NEW c \in Callers, ReturnEmail(c)
       PROVE  IInv'
  BY <1>15, ReturnKeepsIInv
<1>16. CASE DeleteAccount
  BY <1>16 DEF DeleteAccount, IInv, IndexReset, OneOwner, OwnerHasNotAnswered,
     OwnerHasRows, OneOkPerMessage, OkIsComplete
<1>17. CASE Crash
  BY <1>17 DEF Crash, IInv, IndexReset, OneOwner, OwnerHasNotAnswered,
     OwnerHasRows, OneOkPerMessage, OkIsComplete
<1>18. CASE UNCHANGED vars
  BY <1>18 DEF vars, IInv, IndexReset, OneOwner, OwnerHasNotAnswered,
     OwnerHasRows, OneOkPerMessage, OkIsComplete, PartsOf
<1> QED
  BY <1>3, <1>7, <1>8, <1>9, <1>10, <1>11, <1>12, <1>13, <1>14, <1>15, <1>16,
     <1>17, <1>18 DEF Next, IngestStep

LEMMA IInvInit == Init => IInv
BY InitTyped DEF Init, IInv, IndexReset, OneOwner, OwnerHasNotAnswered, OwnerHasRows,
   OneOkPerMessage, OkIsComplete

LEMMA IInvHolds == Spec => []IInv
BY IInvInit, IInvStep, PTL DEF Spec

\* IngestEmail returns a message without an error at most once, however many
\* calls race, are retried, fail or crash (ingest.go:61-70, 118-151).
THEOREM AtMostOneOk == Spec => []OneOkPerMessage
BY IInvHolds, PTL DEF IInv

\* A message returned without an error has its email row and every attachment
\* row while its account lives (ingest.go:118-178).
THEOREM OkMeansComplete == Spec => []OkIsComplete
BY IInvHolds, PTL DEF IInv

------------------------------------------------------------------------------
(* Objects: who has uploaded what is in the bucket.                          *)

\* Caller c has uploaded an object under k, and will clean it up or store the
\* email it belongs to.
Holds(c, k) ==
    \E i \in 1 .. up[c] :
        /\ pc[c] = "upload" \/ (pc[c] = "cleanup" /\ idx[c] < i)
        /\ AttachmentKey(msg[c], i) = k

\* A stored email has an attachment under k.
Named(k) == \E m \in emails : \E i \in 1 .. Len(Files[m]) : AttachmentKey(m, i) = k

\* Between the calls' steps too, every object is an email's or a caller's.
KeysAccounted ==
    acct /\ ~leaked =>
        \A k \in Keys : objects[k] # None => Named(k) \/ \E c \in Callers : Holds(c, k)

\* What a step of c does to the stack of c alone.
OnlyMoves(c) ==
    \A d \in Callers \ {c} :
        pc'[d] = pc[d] /\ msg'[d] = msg[d] /\ up'[d] = up[d] /\ idx'[d] = idx[d]

\* A step of c keeps the objects accounted for if c answers for what it adds,
\* and does not let go of what no email names.
LEMMA AccountedAfter ==
    ASSUME KeysAccounted, NEW c \in Callers, OnlyMoves(c),
           emails \subseteq emails', acct' = acct, leaked' = leaked,
           \A k \in Keys : objects'[k] # None => objects[k] # None \/ Holds(c, k)',
           \A k \in Keys : objects'[k] # None /\ Holds(c, k) => Named(k)' \/ Holds(c, k)'
    PROVE  KeysAccounted'
<1> SUFFICES ASSUME acct, ~leaked, NEW k \in Keys, objects'[k] # None
             PROVE  Named(k)' \/ \E d \in Callers : Holds(d, k)'
  BY DEF KeysAccounted
<1>1. CASE Holds(c, k)'
  BY <1>1
<1>2. CASE Named(k)
  BY <1>2 DEF Named
<1>3. ASSUME NEW d \in Callers, d # c, Holds(d, k)
      PROVE  Holds(d, k)'
  BY <1>3 DEF Holds, OnlyMoves, AttachmentKey
<1> QED
  BY <1>1, <1>2, <1>3 DEF KeysAccounted

\* Moving on before the uploads, or leaving with nothing uploaded.
LEMMA AccountedWhenEmptyHanded ==
    ASSUME KeysAccounted, NEW c \in Callers, OnlyMoves(c), \A k \in Keys : ~Holds(c, k),
           emails \subseteq emails', UNCHANGED <<acct, objects, leaked>>
    PROVE  KeysAccounted'
BY AccountedAfter

\* Every action keeps the objects accounted for.
LEMMA AccountedStep == IInv /\ KeysAccounted /\ [Next]_vars => KeysAccounted'
<1> SUFFICES ASSUME IInv, KeysAccounted, [Next]_vars
             PROVE  KeysAccounted'
  OBVIOUS
<1>0. TypeOK /\ StackOK /\ IndexReset
  BY DEF IInv, TypeOK
<1> USE <1>0 DEF StackOK, stack, history
<1>1. ASSUME NEW c \in Callers, pc[c] \notin {"upload", "cleanup"}, NEW k
      PROVE  ~Holds(c, k)
  BY <1>1 DEF Holds
<1>2. ASSUME NEW c \in Callers, NEW m \in Messages, Begin(c, m)
      PROVE  KeysAccounted'
  <2>1. OnlyMoves(c) /\ pc[c] = "idle"
    BY <1>2 DEF Begin, OnlyMoves
  <2> QED
    BY <1>1, <1>2, <2>1, AccountedWhenEmptyHanded DEF Begin
<1>3. ASSUME NEW c \in Callers, (\E r : Return(c, r)) \/ (\E l : Goto(c, l))
      PROVE  OnlyMoves(c)
  BY <1>3 DEF Return, Goto, OnlyMoves
<1>4. ASSUME NEW c \in Callers, GetAccount(c) \/ ExistsByUID(c) \/ FetchRaw(c)
      PROVE  KeysAccounted'
  <2>1. OnlyMoves(c)
    BY <1>3, <1>4 DEF GetAccount, ExistsByUID, FetchRaw
  <2>2. pc[c] \in {"account", "exists", "fetch"} /\ UNCHANGED <<acct, emails, objects, leaked>>
    BY <1>4 DEF GetAccount, ExistsByUID, FetchRaw
  <2> QED
    BY <1>1, <2>1, <2>2, AccountedWhenEmptyHanded
<1>5. ASSUME NEW c \in Callers, Upload(c)
      PROVE  KeysAccounted'
  <2>1. /\ pc[c] = "upload" /\ idx[c] = 0 /\ up[c] \in Nat
        /\ up[c] < Len(Files[msg[c]]) /\ UNCHANGED <<acct, emails>>
    BY <1>5 DEF Upload, IndexReset
  <2>2. CASE PutObject(c) /\ up' = [up EXCEPT ![c] = @ + 1] /\ UNCHANGED <<pc, msg, idx, leaked>>
    <3>1. OnlyMoves(c) /\ up'[c] = up[c] + 1
      BY <2>2 DEF OnlyMoves
    <3>2. \A k \in Keys : objects'[k] # None =>
              objects[k] # None \/ k = AttachmentKey(msg[c], up[c] + 1)
      BY <2>2 DEF PutObject, TypeOK, StoresOK
    <3>3. \A k \in Keys : k = AttachmentKey(msg[c], up[c] + 1) => Holds(c, k)'
      BY <2>1, <2>2, <3>1 DEF Holds, AttachmentKey
    <3>4. \A k \in Keys : Holds(c, k) => Holds(c, k)'
      BY <2>1, <2>2, <3>1 DEF Holds, AttachmentKey
    <3>5. \A k \in Keys : objects'[k] # None => objects[k] # None \/ Holds(c, k)'
      BY <3>2, <3>3
    <3> QED
      BY <2>1, <2>2, <3>1, <3>4, <3>5, AccountedAfter
  <2>3. CASE CleanupThen(c, "error") /\ UNCHANGED <<objects, leaked>>
    <3>1. OnlyMoves(c) /\ pc'[c] = "cleanup" /\ UNCHANGED <<msg, up, idx>>
      BY <2>3 DEF CleanupThen, OnlyMoves
    <3>2. \A k \in Keys : Holds(c, k) => Holds(c, k)'
      BY <2>1, <3>1 DEF Holds, AttachmentKey
    <3> QED
      BY <2>1, <2>3, <3>1, <3>2, AccountedAfter
  <2>4. CASE leaked' = TRUE
    BY <2>4 DEF KeysAccounted
  <2> QED
    BY <1>5, <2>2, <2>3, <2>4 DEF Upload
<1>6. ASSUME NEW c \in Callers, CreateEmail(c)
      PROVE  KeysAccounted'
  <2>1. /\ pc[c] = "upload" /\ idx[c] = 0 /\ up[c] = Len(Files[msg[c]]) /\ up[c] \in Nat
        /\ UNCHANGED <<acct, objects, leaked>> /\ emails \subseteq emails'
    BY <1>6 DEF CreateEmail, IndexReset
  <2>2. CASE \E r : CleanupThen(c, r)
    <3>1. OnlyMoves(c) /\ pc'[c] = "cleanup" /\ UNCHANGED <<msg, up, idx>>
      BY <2>2 DEF CleanupThen, OnlyMoves
    <3>2. \A k \in Keys : Holds(c, k) => Holds(c, k)'
      BY <2>1, <3>1 DEF Holds, AttachmentKey
    <3> QED
      BY <2>1, <3>1, <3>2, AccountedAfter
  <2>3. CASE msg[c] \in emails' /\ Goto(c, "attach")
    <3>1. \A k \in Keys : Holds(c, k) => Named(k)'
      BY <2>1, <2>3 DEF Holds, Named, AttachmentKey
    <3> QED
      BY <1>3, <2>1, <2>3, <3>1, AccountedAfter
  <2> QED
    BY <1>6, <2>2, <2>3 DEF CreateEmail
<1>7. ASSUME NEW c \in Callers, DeleteUploaded(c)
      PROVE  KeysAccounted'
  <2>1. /\ pc[c] = "cleanup" /\ idx[c] \in Nat /\ up[c] \in Nat
        /\ idx' = [idx EXCEPT ![c] = @ + 1]
        /\ UNCHANGED <<acct, emails, pc, msg, up>>
    BY <1>7 DEF DeleteUploaded
  <2>2. OnlyMoves(c) /\ idx'[c] = idx[c] + 1
    BY <2>1 DEF OnlyMoves
  <2>3. CASE /\ objects' = [objects EXCEPT ![AttachmentKey(msg[c], idx[c] + 1)] = None]
             /\ UNCHANGED leaked
    <3>1. \A k \in Keys : objects'[k] # None =>
              objects[k] # None /\ k # AttachmentKey(msg[c], idx[c] + 1)
      BY <2>3 DEF TypeOK, StoresOK
    <3>2. \A k \in Keys : k # AttachmentKey(msg[c], idx[c] + 1) /\ Holds(c, k) => Holds(c, k)'
      <4> SUFFICES ASSUME NEW k \in Keys, k # AttachmentKey(msg[c], idx[c] + 1), Holds(c, k)
                   PROVE  Holds(c, k)'
        OBVIOUS
      <4>1. PICK i \in 1 .. up[c] : idx[c] < i /\ AttachmentKey(msg[c], i) = k
        BY <2>1 DEF Holds
      <4>2. idx[c] + 1 < i
        BY <2>1, <4>1
      <4> QED
        BY <2>1, <2>2, <4>1, <4>2 DEF Holds, AttachmentKey
    <3> QED
      BY <2>1, <2>2, <2>3, <3>1, <3>2, AccountedAfter
  <2>4. CASE leaked' = TRUE
    BY <2>4 DEF KeysAccounted
  <2> QED
    BY <1>7, <2>3, <2>4 DEF DeleteUploaded
<1>8. ASSUME NEW c \in Callers, ReturnAfterCleanup(c)
      PROVE  KeysAccounted'
  <2>1. pc[c] = "cleanup" /\ idx[c] = up[c] /\ up[c] \in Nat
    BY <1>8 DEF ReturnAfterCleanup
  <2>2. \A k \in Keys : ~Holds(c, k)
    BY <2>1 DEF Holds
  <2> QED
    BY <1>3, <1>8, <2>2, AccountedWhenEmptyHanded DEF ReturnAfterCleanup
<1>9. ASSUME NEW c \in Callers, CreateAttachment(c) \/ ReturnEmail(c)
      PROVE  KeysAccounted'
  <2>1. pc[c] = "attach" /\ UNCHANGED <<acct, emails, objects, leaked>>
    BY <1>9 DEF CreateAttachment, ReturnEmail
  <2>2. CASE UNCHANGED <<pc, msg, up, res>> /\ idx' = [idx EXCEPT ![c] = @ + 1]
    <3>1. OnlyMoves(c)
      BY <2>2 DEF OnlyMoves
    <3> QED
      BY <1>1, <2>1, <3>1, AccountedWhenEmptyHanded
  <2>3. CASE \E r : Return(c, r)
    BY <1>1, <1>3, <2>1, <2>3, AccountedWhenEmptyHanded
  <2> QED
    BY <1>9, <2>2, <2>3 DEF CreateAttachment, ReturnEmail, AbandonRows
<1>10. CASE DeleteAccount
  BY <1>10 DEF DeleteAccount, KeysAccounted
<1>11. CASE Crash
  <2> SUFFICES ASSUME acct, ~leaked'
               PROVE  \A k \in Keys : objects[k] # None => Named(k)
    BY <1>11 DEF Crash, KeysAccounted, Named, AttachmentKey
  <2>1. ~leaked /\ \A c \in Callers : pc[c] \in {"upload", "cleanup"} => ~(up[c] > 0)
    BY <1>11 DEF Crash
  <2>2. \A c \in Callers : \A k \in Keys : ~Holds(c, k)
    BY <2>1 DEF Holds
  <2> QED
    BY <2>1, <2>2 DEF KeysAccounted
<1>12. CASE UNCHANGED vars
  BY <1>12 DEF vars, KeysAccounted, Named, Holds, AttachmentKey
<1> QED
  BY <1>2, <1>4, <1>5, <1>6, <1>7, <1>8, <1>9, <1>10, <1>11, <1>12 DEF Next, IngestStep

\* When no call is at work, every object belongs to a stored email, unless a
\* fault has hidden it from the cleanup or the account is gone
\* (ingest.go:102-112, 137-144).
THEOREM NothingIsOrphaned == Spec => []NoOrphanObjects
<1>1. Init => KeysAccounted
  BY DEF Init, KeysAccounted
<1>2. KeysAccounted => NoOrphanObjects
  BY DEF KeysAccounted, NoOrphanObjects, Holds, Named
<1> QED
  BY <1>1, <1>2, AccountedStep, IInvHolds, PTL DEF Spec

------------------------------------------------------------------------------
(* Objects: which bytes are under a row's key.                               *)

\* A call is alone with its message if no other has been at work on it at the
\* same time.
Alone(c) == pc[c] # "idle" /\ msg[c] \notin overlapped

\* Two calls at work on one message have been recorded.
OverlapsAreKnown ==
    \A c, d \in Callers : c # d /\ msg[c] = msg[d] /\ msg[c] # None => msg[c] \in overlapped

\* Attachment rows go with their email.
RowsAreStored == \A p \in rows : p[1] \in emails

\* Nothing is uploaded before the uploads.
NothingUploadedYet == \A c \in Callers : pc[c] \in {"account", "exists", "fetch"} => up[c] = 0

\* A call that is alone has not been overtaken since it looked, and when it
\* cleans up there are no rows that could miss what it deletes.
NotOvertaken ==
    \A c \in Callers : Alone(c) =>
        /\ pc[c] \in {"fetch", "upload"} => msg[c] \notin emails
        /\ pc[c] = "cleanup" => \A p \in rows : p[1] # msg[c]

SoloInv == OverlapsAreKnown /\ RowsAreStored /\ NothingUploadedYet /\ NotOvertaken

\* A call that is alone is the only one with its message.
LEMMA AloneIsSole ==
    ASSUME TypeOK, OverlapsAreKnown, NEW c \in Callers, NEW d \in Callers, Alone(c), msg[d] = msg[c]
    PROVE  c = d
BY DEF OverlapsAreKnown, Alone, TypeOK, CallOK

\* Calls only drop messages once they have begun.
LEMMA OverlapsStayKnown ==
    ASSUME OverlapsAreKnown, \A d \in Callers : msg'[d] \in {msg[d], None}, UNCHANGED overlapped
    PROVE  OverlapsAreKnown'
BY DEF OverlapsAreKnown

\* A step of c that leaves the tables alone.
LEMMA SoloAfter ==
    ASSUME SoloInv, NEW c \in Callers, OnlyMoves(c), msg'[c] \in {msg[c], None},
           UNCHANGED <<emails, rows, overlapped>>,
           pc'[c] \in {"account", "exists", "fetch"} => up'[c] = 0,
           Alone(c)' => /\ pc'[c] \in {"fetch", "upload"} => msg'[c] \notin emails
                        /\ pc'[c] = "cleanup" => \A p \in rows : p[1] # msg'[c]
    PROVE  SoloInv'
<1> USE DEF SoloInv, OnlyMoves
<1>1. OverlapsAreKnown'
  BY OverlapsStayKnown
<1>2. RowsAreStored'
  BY DEF RowsAreStored
<1>3. NothingUploadedYet'
  BY DEF NothingUploadedYet
<1>4. ASSUME NEW d \in Callers, d # c
      PROVE  Alone(d)' <=> Alone(d)
  BY <1>4 DEF Alone
<1>5. NotOvertaken'
  BY <1>4 DEF NotOvertaken
<1> QED
  BY <1>1, <1>2, <1>3, <1>5

\* Every action keeps these facts.
LEMMA SoloStep == TypeOK /\ SoloInv /\ [Next]_vars => SoloInv'
<1> SUFFICES ASSUME TypeOK, SoloInv, [Next]_vars
             PROVE  SoloInv'
  OBVIOUS
<1>0. StackOK
  BY DEF TypeOK
<1> USE <1>0 DEF StackOK, stack, history
<1>1. ASSUME NEW c \in Callers, NEW m \in Messages, Begin(c, m)
      PROVE  SoloInv'
  <2>1. /\ pc[c] = "idle" /\ pc'[c] = "account" /\ msg'[c] = m /\ up'[c] = up[c] /\ up[c] = 0
        /\ overlapped \subseteq overlapped'
        /\ (\E d \in Callers : msg[d] = m) => m \in overlapped'
        /\ \A d \in Callers \ {c} : pc'[d] = pc[d] /\ msg'[d] = msg[d] /\ up'[d] = up[d]
        /\ UNCHANGED <<emails, rows>>
    BY <1>1 DEF Begin, TypeOK, CallOK
  <2>2. OverlapsAreKnown'
    BY <2>1 DEF SoloInv, OverlapsAreKnown
  <2>3. NothingUploadedYet'
    BY <2>1 DEF SoloInv, NothingUploadedYet
  <2>4. ASSUME NEW d \in Callers, d # c, Alone(d)'
        PROVE  Alone(d)
    BY <2>1, <2>4 DEF Alone
  <2>5. NotOvertaken'
    BY <2>1, <2>4 DEF SoloInv, NotOvertaken
  <2> QED
    BY <2>1, <2>2, <2>3, <2>5 DEF SoloInv, RowsAreStored
<1>2. ASSUME NEW c \in Callers, NEW r, Return(c, r), UNCHANGED <<emails, rows, overlapped>>
      PROVE  SoloInv'
  <2>1. OnlyMoves(c) /\ pc'[c] = "idle" /\ msg'[c] = None
    BY <1>2 DEF Return, OnlyMoves
  <2> QED
    BY <1>2, <2>1, SoloAfter
<1>3. ASSUME NEW c \in Callers, NEW l, Goto(c, l), UNCHANGED <<emails, rows, overlapped>>,
             pc[c] \in {"account", "exists", "fetch"}, l \in {"exists", "fetch", "upload"},
             Alone(c) /\ l \in {"fetch", "upload"} => msg[c] \notin emails
      PROVE  SoloInv'
  <2>1. OnlyMoves(c) /\ pc'[c] = l /\ UNCHANGED <<msg, up>> /\ up[c] = 0
    BY <1>3 DEF Goto, OnlyMoves, SoloInv, NothingUploadedYet
  <2>2. Alone(c)' => Alone(c)
    BY <1>3, <2>1 DEF Alone
  <2> QED
    BY <1>3, <2>1, <2>2, SoloAfter
<1>4. ASSUME NEW c \in Callers, GetAccount(c)
      PROVE  SoloInv'
  BY <1>2, <1>3, <1>4 DEF GetAccount
<1>5. ASSUME NEW c \in Callers, ExistsByUID(c)
      PROVE  SoloInv'
  BY <1>2, <1>3, <1>5 DEF ExistsByUID
<1>6. ASSUME NEW c \in Callers, FetchRaw(c)
      PROVE  SoloInv'
  BY <1>2, <1>3, <1>6 DEF FetchRaw, SoloInv, NotOvertaken
\* Whoever is alone at its uploads finds no rows, wherever it goes from there.
<1>7. ASSUME NEW c \in Callers, pc[c] = "upload", Alone(c)
      PROVE  msg[c] \notin emails /\ \A p \in rows : p[1] # msg[c]
  BY <1>7 DEF SoloInv, NotOvertaken, RowsAreStored
<1>8. ASSUME NEW c \in Callers, Upload(c)
      PROVE  SoloInv'
  <2>1. /\ OnlyMoves(c) /\ pc'[c] \in {"upload", "cleanup"} /\ pc[c] = "upload"
        /\ UNCHANGED <<emails, rows, overlapped, msg>>
    BY <1>8 DEF Upload, CleanupThen, OnlyMoves
  <2>2. Alone(c)' => Alone(c)
    BY <2>1 DEF Alone
  <2> QED
    BY <1>7, <2>1, <2>2, SoloAfter
<1>9. ASSUME NEW c \in Callers, CreateEmail(c)
      PROVE  SoloInv'
  <2>1. /\ pc[c] = "upload" /\ pc'[c] \in {"attach", "cleanup"}
        /\ emails \subseteq emails' /\ emails' \subseteq emails \cup {msg[c]}
        /\ \A d \in Callers \ {c} : pc'[d] = pc[d]
        /\ UNCHANGED <<rows, overlapped, msg, up>>
    BY <1>9 DEF CreateEmail, Goto, CleanupThen
  <2>2. OverlapsAreKnown' /\ RowsAreStored' /\ NothingUploadedYet'
    BY <2>1 DEF SoloInv, OverlapsAreKnown, RowsAreStored, NothingUploadedYet
  <2>3. ASSUME NEW d \in Callers, Alone(d)'
        PROVE  /\ pc'[d] \in {"fetch", "upload"} => msg'[d] \notin emails'
               /\ pc'[d] = "cleanup" => \A p \in rows' : p[1] # msg'[d]
    <3>1. Alone(d)
      BY <2>1, <2>3 DEF Alone
    <3>2. CASE d = c
      BY <1>7, <2>1, <3>1, <3>2
    <3>3. CASE d # c
      <4>1. msg[d] # msg[c]
        BY <3>1, <3>3, AloneIsSole DEF SoloInv
      <4> QED
        BY <2>1, <3>1, <3>3, <4>1 DEF SoloInv, NotOvertaken
    <3> QED
      BY <3>2, <3>3
  <2> QED
    BY <2>2, <2>3 DEF SoloInv, NotOvertaken
<1>10. ASSUME NEW c \in Callers, DeleteUploaded(c)
       PROVE  SoloInv'
  <2>1. /\ OnlyMoves(c) /\ pc[c] = "cleanup"
        /\ UNCHANGED <<emails, rows, overlapped, pc, msg>>
    BY <1>10 DEF DeleteUploaded, OnlyMoves
  <2>2. Alone(c)' => Alone(c)
    BY <2>1 DEF Alone
  <2> QED
    BY <2>1, <2>2, SoloAfter DEF SoloInv, NotOvertaken
<1>11. ASSUME NEW c \in Callers, ReturnAfterCleanup(c) \/ ReturnEmail(c)
       PROVE  SoloInv'
  BY <1>2, <1>11 DEF ReturnAfterCleanup, ReturnEmail
<1>12. ASSUME NEW c \in Callers, CreateAttachment(c)
       PROVE  SoloInv'
  <2>1. CASE UNCHANGED rows /\ AbandonRows(c)
    BY <1>2, <1>12, <2>1 DEF CreateAttachment, AbandonRows
  <2>2. CASE msg[c] \in emails /\ rows' = rows \cup {RowOf(c)}
    <3>1. /\ pc[c] = "attach" /\ pc'[c] \in {"attach", "idle"}
          /\ \A d \in Callers : msg'[d] \in {msg[d], None}
          /\ \A d \in Callers \ {c} : pc'[d] = pc[d] /\ msg'[d] = msg[d] /\ up'[d] = up[d]
          /\ UNCHANGED <<emails, overlapped>>
      BY <1>12 DEF CreateAttachment, AbandonRows, Return
    <3>2. OverlapsAreKnown'
      BY <3>1, OverlapsStayKnown DEF SoloInv
    <3>3. RowsAreStored' /\ NothingUploadedYet'
      BY <2>2, <3>1 DEF SoloInv, RowsAreStored, RowOf, NothingUploadedYet
    <3>4. ASSUME NEW d \in Callers, Alone(d)'
          PROVE  /\ pc'[d] \in {"fetch", "upload"} => msg'[d] \notin emails'
                 /\ pc'[d] = "cleanup" => \A p \in rows' : p[1] # msg'[d]
      <4>1. CASE d = c
        BY <3>1, <4>1
      <4>2. CASE d # c
        <5>1. Alone(d) /\ pc'[d] = pc[d] /\ msg'[d] = msg[d]
          BY <3>1, <3>4, <4>2 DEF Alone
        <5>2. msg[d] # msg[c]
          BY <4>2, <5>1, AloneIsSole DEF SoloInv
        <5> QED
          BY <2>2, <3>1, <5>1, <5>2 DEF SoloInv, NotOvertaken, RowOf
      <4> QED
        BY <4>1, <4>2
    <3> QED
      BY <3>2, <3>3, <3>4 DEF SoloInv, NotOvertaken
  <2> QED
    BY <1>12, <2>1, <2>2 DEF CreateAttachment
<1>13. CASE DeleteAccount
  BY <1>13 DEF DeleteAccount, SoloInv, OverlapsAreKnown, RowsAreStored, NothingUploadedYet,
     NotOvertaken, Alone
<1>14. CASE Crash
  BY <1>14 DEF Crash, SoloInv, OverlapsAreKnown, RowsAreStored, NothingUploadedYet,
     NotOvertaken, Alone
<1>15. CASE UNCHANGED vars
  BY <1>15 DEF vars, SoloInv, OverlapsAreKnown, RowsAreStored, NothingUploadedYet,
     NotOvertaken, Alone
<1> QED
  BY <1>1, <1>4, <1>5, <1>6, <1>8, <1>9, <1>10, <1>11, <1>12, <1>13, <1>14, <1>15
     DEF Next, IngestStep

\* How many attachments of its message c has put in the bucket for good, or
\* will clean up.
Uploaded(c) ==
    CASE pc[c] = "upload" -> up[c]
      [] pc[c] = "attach" -> Len(Files[msg[c]])
      [] OTHER -> 0

\* What a call that is alone has uploaded is there until it cleans up.
UploadsIntact ==
    \A c \in Callers : Alone(c) =>
        \A i \in 1 .. Uploaded(c) : UniqueKey(msg[c], i) => RowHasObject(msg[c], i)

IntactInv == UploadsIntact /\ IntactUnlessOverlapped

\* A write to the bucket disturbs no attachment with a key of its own but the
\* one it is about.
LEMMA WriteSparesOthers ==
    ASSUME StoresOK, NEW m \in Messages, NEW i \in 1 .. Len(Files[m]),
           NEW n \in Messages, NEW j \in 1 .. Len(Files[n]), NEW v,
           UniqueKey(m, i), RowHasObject(m, i),
           objects' = [objects EXCEPT ![AttachmentKey(n, j)] = v],
           <<m, i>> # <<n, j>> \/ v = <<m, i>>
    PROVE  RowHasObject(m, i)'
<1>1. <<n, j>> \in Parts /\ AttachmentKey(m, i) \in Keys
  BY KeyOfPart
<1>2. <<n, j>>[1] = n /\ <<n, j>>[2] = j
  OBVIOUS
<1>3. AttachmentKey(n, j) = AttachmentKey(m, i) => <<n, j>> = <<m, i>>
  BY <1>1, <1>2 DEF UniqueKey
<1> QED
  BY <1>1, <1>3 DEF RowHasObject, StoresOK, AttachmentKey

\* A step that leaves rows and bucket alone, and c with what it has uploaded, or
\* with nothing to answer for.
LEMMA IntactAfter ==
    ASSUME IntactInv, NEW c \in Callers, OnlyMoves(c), UNCHANGED <<rows, objects>>,
           overlapped \subseteq overlapped',
           \/ Uploaded(c)' = 0
           \/ pc[c] # "idle" /\ msg'[c] = msg[c] /\ Uploaded(c)' = Uploaded(c)
    PROVE  IntactInv'
<1> USE DEF IntactInv
<1>1. IntactUnlessOverlapped'
  BY DEF IntactUnlessOverlapped, RowHasObject, UniqueKey
<1>2. ASSUME NEW d \in Callers, d # c, Alone(d)'
      PROVE  Alone(d) /\ msg'[d] = msg[d] /\ Uploaded(d)' = Uploaded(d)
  BY <1>2 DEF Alone, OnlyMoves, Uploaded
<1>3. ASSUME NEW d \in Callers, Alone(d)', NEW i \in 1 .. Uploaded(d)', UniqueKey(msg'[d], i)
      PROVE  objects[AttachmentKey(msg'[d], i)] = <<msg'[d], i>>
  <2>1. CASE Uploaded(d)' = 0
    BY <1>3, <2>1
  <2>2. CASE Alone(d) /\ msg'[d] = msg[d] /\ Uploaded(d)' = Uploaded(d)
    BY <1>3, <2>2 DEF UploadsIntact, RowHasObject
  <2>3. Alone(c)' /\ pc[c] # "idle" /\ msg'[c] = msg[c] => Alone(c)
    BY DEF Alone
  <2> QED
    BY <1>2, <1>3, <2>1, <2>2, <2>3
<1>4. UploadsIntact'
  BY <1>3 DEF UploadsIntact, RowHasObject, UniqueKey, AttachmentKey
<1> QED
  BY <1>1, <1>4

\* Every action keeps the bytes under the keys.
LEMMA IntactStep == IInv /\ SoloInv /\ IntactInv /\ [Next]_vars => IntactInv'
<1> SUFFICES ASSUME IInv, SoloInv, IntactInv, [Next]_vars
             PROVE  IntactInv'
  OBVIOUS
<1>0. TypeOK /\ StackOK /\ StoresOK
  BY DEF IInv, TypeOK
<1> USE <1>0 DEF StackOK, stack, history
<1>1. ASSUME NEW c \in Callers, NEW m \in Messages, Begin(c, m)
      PROVE  IntactInv'
  <2>1. /\ OnlyMoves(c) /\ Uploaded(c)' = 0 /\ UNCHANGED <<rows, objects>>
        /\ overlapped \subseteq overlapped'
    BY <1>1 DEF Begin, OnlyMoves, Uploaded
  <2> QED
    BY <2>1, IntactAfter
<1>2. ASSUME NEW c \in Callers, (\E r : Return(c, r)) \/ (\E r : CleanupThen(c, r)),
             UNCHANGED <<rows, objects, overlapped>>
      PROVE  IntactInv'
  <2>1. OnlyMoves(c) /\ Uploaded(c)' = 0
    BY <1>2 DEF Return, CleanupThen, OnlyMoves, Uploaded
  <2> QED
    BY <1>2, <2>1, IntactAfter
<1>3. ASSUME NEW c \in Callers, NEW l \in {"exists", "fetch", "upload"}, Goto(c, l),
             pc[c] \in {"account", "exists", "fetch"}, UNCHANGED <<rows, objects, overlapped>>
      PROVE  IntactInv'
  <2>1. OnlyMoves(c) /\ Uploaded(c)' = 0
    BY <1>3 DEF Goto, OnlyMoves, Uploaded, SoloInv, NothingUploadedYet
  <2> QED
    BY <1>3, <2>1, IntactAfter
<1>4. ASSUME NEW c \in Callers, GetAccount(c) \/ ExistsByUID(c) \/ FetchRaw(c)
      PROVE  IntactInv'
  BY <1>2, <1>3, <1>4 DEF GetAccount, ExistsByUID, FetchRaw
\* A write leaves every row of a message without overlaps with its bytes, if it
\* writes those of its attachment or there is no row for it.
<1>5. ASSUME NEW n \in Messages, NEW j \in 1 .. Len(Files[n]), NEW v,
             objects' = [objects EXCEPT ![AttachmentKey(n, j)] = v],
             UNCHANGED <<rows, overlapped>>,
             v = <<n, j>> \/ n \in overlapped \/ \A p \in rows : p[1] # n
      PROVE  IntactUnlessOverlapped'
  <2> SUFFICES ASSUME NEW p \in rows, p[1] \notin overlapped, UniqueKey(p[1], p[2])
               PROVE  RowHasObject(p[1], p[2])'
    BY <1>5 DEF IntactUnlessOverlapped, UniqueKey
  <2>1. p \in Parts
    BY DEF StoresOK
  <2>2. PICK m \in Messages : p \in PartsOf(m)
    BY <2>1 DEF Parts
  <2>3. PICK i \in 1 .. Len(Files[m]) : p = <<m, i>>
    BY <2>2 DEF PartsOf
  <2>4. p[1] = m /\ p[2] = i
    BY <2>3
  <2>5. UniqueKey(m, i) /\ RowHasObject(m, i)
    BY <2>4 DEF IntactInv, IntactUnlessOverlapped
  <2>6. <<m, i>> # <<n, j>> \/ v = <<m, i>>
    BY <1>5, <2>4
  <2>7. RowHasObject(m, i)'
    BY <1>5, <2>5, <2>6, WriteSparesOthers
  <2> QED
    BY <2>4, <2>7
\* It also leaves what other calls have uploaded.
<1>6. ASSUME NEW d \in Callers, Alone(d), NEW i \in 1 .. Uploaded(d), UniqueKey(msg[d], i),
             NEW n \in Messages, NEW j \in 1 .. Len(Files[n]), NEW v,
             objects' = [objects EXCEPT ![AttachmentKey(n, j)] = v],
             msg[d] # n \/ v = <<n, j>>
      PROVE  objects'[AttachmentKey(msg[d], i)] = <<msg[d], i>>
  <2>1. /\ msg[d] \in Messages /\ i \in 1 .. Len(Files[msg[d]])
        /\ RowHasObject(msg[d], i)
    BY <1>6, BusyHasMessage DEF Alone, Uploaded, IntactInv, UploadsIntact
  <2> DEFINE m == msg[d]
  <2>2. m \in Messages /\ i \in 1 .. Len(Files[m]) /\ UniqueKey(m, i) /\ RowHasObject(m, i)
    BY <1>6, <2>1
  <2>3. <<m, i>> # <<n, j>> \/ v = <<m, i>>
    BY <1>6
  <2>4. PICK k : k = m
    OBVIOUS
  <2>5. RowHasObject(k, i)'
    BY <1>6, <2>2, <2>3, <2>4, WriteSparesOthers
  <2> QED
    BY <2>4, <2>5 DEF RowHasObject, AttachmentKey
<1>7. ASSUME NEW c \in Callers, Upload(c)
      PROVE  IntactInv'
  <2>1. /\ pc[c] = "upload" /\ msg[c] \in Messages /\ up[c] \in Nat
        /\ up[c] + 1 \in 1 .. Len(Files[msg[c]]) /\ UNCHANGED <<rows, overlapped, msg>>
    BY <1>7, BusyHasMessage DEF Upload, CleanupThen
  <2>2. CASE PutObject(c)
    <3>1. PICK n, j : /\ n = msg[c] /\ j = up[c] + 1
                      /\ n \in Messages /\ j \in 1 .. Len(Files[n])
      BY <2>1
    <3>2. objects' = [objects EXCEPT ![AttachmentKey(n, j)] = <<n, j>>]
      BY <2>2, <3>1 DEF PutObject
    <3>3. IntactUnlessOverlapped'
      BY <1>5, <2>1, <3>1, <3>2
    <3>4. /\ OnlyMoves(c) /\ pc'[c] \in {"upload", "cleanup"}
          /\ pc'[c] = "upload" => up'[c] = up[c] + 1
      BY <1>7, <2>1 DEF Upload, CleanupThen, OnlyMoves
    <3>5. ASSUME NEW d \in Callers, Alone(d)', NEW i \in 1 .. Uploaded(d)', UniqueKey(msg[d], i)
          PROVE  objects'[AttachmentKey(msg[d], i)] = <<msg[d], i>>
      <4>1. Alone(d)
        BY <2>1, <3>4, <3>5 DEF Alone, OnlyMoves
      <4>2. CASE i \in 1 .. Uploaded(d)
        BY <1>6, <3>1, <3>2, <3>5, <4>1, <4>2
      <4>3. CASE i \notin 1 .. Uploaded(d)
        <5>1. d = c /\ i = j
          BY <2>1, <3>1, <3>4, <3>5, <4>3 DEF Uploaded, OnlyMoves
        <5>2. AttachmentKey(n, j) \in Keys
          BY <3>1, KeyOfPart
        <5> QED
          BY <3>1, <3>2, <5>1, <5>2 DEF StoresOK
      <4> QED
        BY <4>2, <4>3
    <3>6. UploadsIntact'
      BY <2>1, <3>5 DEF UploadsIntact, RowHasObject, UniqueKey, AttachmentKey
    <3> QED
      BY <3>3, <3>6 DEF IntactInv
  <2>3. CASE CleanupThen(c, "error") /\ UNCHANGED objects
    BY <1>2, <2>1, <2>3
  <2> QED
    BY <1>7, <2>2, <2>3 DEF Upload
<1>8. ASSUME NEW c \in Callers, CreateEmail(c)
      PROVE  IntactInv'
  <2>1. pc[c] = "upload" /\ up[c] = Len(Files[msg[c]]) /\ UNCHANGED <<rows, objects, overlapped>>
    BY <1>8 DEF CreateEmail
  <2>2. CASE Goto(c, "attach")
    <3>1. OnlyMoves(c) /\ msg'[c] = msg[c] /\ Uploaded(c)' = Uploaded(c)
      BY <2>1, <2>2 DEF Goto, OnlyMoves, Uploaded
    <3> QED
      BY <2>1, <3>1, IntactAfter
  <2> QED
    BY <1>2, <1>8, <2>1, <2>2 DEF CreateEmail
<1>9. ASSUME NEW c \in Callers, DeleteUploaded(c)
      PROVE  IntactInv'
  <2>1. /\ pc[c] = "cleanup" /\ msg[c] \in Messages /\ idx[c] + 1 \in 1 .. Len(Files[msg[c]])
        /\ UNCHANGED <<pc, msg, up, rows, overlapped>>
    BY <1>9, BusyHasMessage DEF DeleteUploaded
  <2>2. CASE objects' = [objects EXCEPT ![AttachmentKey(msg[c], idx[c] + 1)] = None]
    <3>1. PICK n, j : /\ n = msg[c] /\ j = idx[c] + 1
                      /\ n \in Messages /\ j \in 1 .. Len(Files[n])
      BY <2>1
    <3>2. objects' = [objects EXCEPT ![AttachmentKey(n, j)] = None]
      BY <2>2, <3>1
    <3>3. n \in overlapped \/ \A p \in rows : p[1] # n
      BY <2>1, <3>1 DEF SoloInv, NotOvertaken, Alone
    <3>4. IntactUnlessOverlapped'
      BY <1>5, <2>1, <3>1, <3>2, <3>3
    <3>5. ASSUME NEW d \in Callers, Alone(d), NEW i \in 1 .. Uploaded(d), UniqueKey(msg[d], i)
          PROVE  objects'[AttachmentKey(msg[d], i)] = <<msg[d], i>>
      <4>1. d # c
        BY <2>1, <3>5 DEF Uploaded
      <4>2. msg[d] # n
        BY <3>1, <3>5, <4>1, AloneIsSole DEF SoloInv
      <4> QED
        BY <1>6, <3>1, <3>2, <3>5, <4>2
    <3>6. UploadsIntact'
      BY <2>1, <3>5 DEF UploadsIntact, RowHasObject, UniqueKey, AttachmentKey, Alone, Uploaded
    <3> QED
      BY <3>4, <3>6 DEF IntactInv
  <2>3. CASE UNCHANGED objects
    <3>1. OnlyMoves(c) /\ Uploaded(c)' = 0
      BY <1>9, <2>1 DEF DeleteUploaded, OnlyMoves, Uploaded
    <3> QED
      BY <2>1, <2>3, <3>1, IntactAfter
  <2> QED
    BY <1>9, <2>2, <2>3 DEF DeleteUploaded
<1>10. ASSUME NEW c \in Callers, ReturnAfterCleanup(c) \/ ReturnEmail(c)
       PROVE  IntactInv'
  BY <1>2, <1>10 DEF ReturnAfterCleanup, ReturnEmail
<1>11. ASSUME NEW c \in Callers, CreateAttachment(c)
       PROVE  IntactInv'
  <2>1. /\ pc[c] = "attach" /\ msg[c] \in Messages /\ idx[c] + 1 \in 1 .. Len(Files[msg[c]])
        /\ UNCHANGED <<objects, overlapped>> /\ rows' \subseteq rows \cup {RowOf(c)}
    BY <1>11, BusyHasMessage DEF CreateAttachment
  <2>2. IntactUnlessOverlapped'
    <3>1. ASSUME msg[c] \notin overlapped, UniqueKey(msg[c], idx[c] + 1)
          PROVE  RowHasObject(msg[c], idx[c] + 1)
      BY <2>1, <3>1 DEF IntactInv, UploadsIntact, Alone, Uploaded
    <3>2. ASSUME NEW p \in rows', p[1] \notin overlapped, UniqueKey(p[1], p[2])
          PROVE  RowHasObject(p[1], p[2])
      <4>1. CASE p \in rows
        BY <3>2, <4>1 DEF IntactInv, IntactUnlessOverlapped
      <4>2. CASE p = <<msg[c], idx[c] + 1>>
        BY <3>1, <3>2, <4>2
      <4> QED
        BY <2>1, <4>1, <4>2 DEF RowOf
    <3> QED
      BY <2>1, <3>2 DEF IntactUnlessOverlapped, RowHasObject, UniqueKey
  <2>3. UploadsIntact'
    <3>1. /\ OnlyMoves(c)
          /\ (pc'[c] = "attach" /\ msg'[c] = msg[c]) \/ pc'[c] = "idle"
      BY <1>11 DEF CreateAttachment, AbandonRows, Return, OnlyMoves
    <3>2. ASSUME NEW d \in Callers, Alone(d)'
          PROVE  Alone(d) /\ msg'[d] = msg[d] /\ Uploaded(d)' = Uploaded(d)
      BY <2>1, <3>1, <3>2 DEF Alone, OnlyMoves, Uploaded
    <3> SUFFICES ASSUME NEW d \in Callers, Alone(d)', NEW i \in 1 .. Uploaded(d)',
                        UniqueKey(msg[d], i)'
                 PROVE  RowHasObject(msg[d], i)'
      BY DEF UploadsIntact
    <3>3. Alone(d) /\ msg'[d] = msg[d] /\ i \in 1 .. Uploaded(d)
      BY <3>2
    <3>4. UniqueKey(msg[d], i)
      BY <3>3 DEF UniqueKey, AttachmentKey
    <3>5. RowHasObject(msg[d], i)
      BY <3>3, <3>4 DEF IntactInv, UploadsIntact
    <3> QED
      BY <2>1, <3>3, <3>5 DEF RowHasObject, AttachmentKey
  <2> QED
    BY <2>2, <2>3 DEF IntactInv
<1>12. CASE DeleteAccount
  BY <1>12 DEF DeleteAccount, IntactInv, UploadsIntact, IntactUnlessOverlapped, Alone, Uploaded,
     RowHasObject, UniqueKey, AttachmentKey
<1>13. CASE Crash
  BY <1>13 DEF Crash, IntactInv, UploadsIntact, IntactUnlessOverlapped, Alone, RowHasObject,
     UniqueKey
<1>14. CASE UNCHANGED vars
  BY <1>14 DEF vars, IntactInv, UploadsIntact, IntactUnlessOverlapped, Alone, Uploaded,
     RowHasObject, UniqueKey, AttachmentKey
<1> QED
  BY <1>1, <1>4, <1>7, <1>8, <1>9, <1>10, <1>11, <1>12, <1>13, <1>14 DEF Next, IngestStep

\* Calls for one message that never overlap lose no attachment: its rows lead
\* to the bytes they were written for, whatever fails, is retried or crashes
\* (ingest.go:95-178).
THEOREM RowsAreIntact == Spec => []IntactUnlessOverlapped
<1>1. Init => SoloInv /\ IntactInv
  BY DEF Init, SoloInv, OverlapsAreKnown, RowsAreStored, NothingUploadedYet, NotOvertaken,
     IntactInv, UploadsIntact, IntactUnlessOverlapped, Alone
<1>2. IInv => TypeOK
  BY DEF IInv
<1>3. IntactInv => IntactUnlessOverlapped
  BY DEF IntactInv
<1> QED
  BY <1>1, <1>2, <1>3, SoloStep, IntactStep, IInvHolds, PTL DEF Spec

------------------------------------------------------------------------------
(* IngestEmail implements the abstract MailStore.                            *)

stageBar == [c \in Callers |-> StageOf(c)]
returnedBar == {m \in Messages : oks[m] > 0}

\* What a step of one call does to the abstract stages.
LEMMA StageStep ==
    ASSUME NEW c \in Callers,
           \A d \in Callers \ {c} : pc'[d] = pc[d] /\ res'[d] = res[d]
    PROVE  stageBar' = [stageBar EXCEPT ![c] = StageOf(c)']
<1>1. \A d \in Callers \ {c} : StageOf(d)' = StageOf(d)
  BY DEF StageOf
<1> QED
  BY <1>1 DEF stageBar

LEMMA StageSame ==
    ASSUME NEW c \in Callers, StageOf(c)' = StageOf(c),
           \A d \in Callers \ {c} : pc'[d] = pc[d] /\ res'[d] = res[d]
    PROVE  UNCHANGED stageBar
<1>1. \A d \in Callers \ {c} : StageOf(d)' = StageOf(d)
  BY DEF StageOf
<1> QED
  BY <1>1 DEF stageBar

\* A call that returns is idle, with no message, for the abstract store too.
LEMMA ReturnIsAnswer ==
    ASSUME StackOK, NEW c \in Callers, NEW r, Return(c, r), UNCHANGED <<acct, emails>>
    PROVE  Store!Answer(c)
<1>1. \A d \in Callers \ {c} : pc'[d] = pc[d] /\ res'[d] = res[d]
  BY DEF Return, StackOK
<1>2. StageOf(c)' = "idle"
  BY DEF Return, StackOK, StageOf
<1>3. stageBar' = [stageBar EXCEPT ![c] = "idle"]
  BY <1>1, <1>2, StageStep
<1> QED
  BY <1>3 DEF Store!Answer, Return, stageBar

\* A call that leaves for the cleanup loop.
LEMMA CleanupStage ==
    ASSUME StackOK, NEW c \in Callers, NEW r, CleanupThen(c, r)
    PROVE  stageBar' = [stageBar EXCEPT ![c] = IF r = "exists" THEN "late" ELSE "failed"]
<1>1. \A d \in Callers \ {c} : pc'[d] = pc[d] /\ res'[d] = res[d]
  BY DEF CleanupThen, StackOK
<1>2. StageOf(c)' = IF r = "exists" THEN "late" ELSE "failed"
  BY DEF CleanupThen, StackOK, StageOf
<1> QED
  BY <1>1, <1>2, StageStep

\* Every step of IngestEmail is a step of the abstract store, or a stutter.
LEMMA StepImplementsStore == TypeOK /\ [Next]_vars => [Store!Next]_(Store!vars)
<1> SUFFICES ASSUME TypeOK, [Next]_vars
             PROVE  Store!Next \/ UNCHANGED Store!vars
  OBVIOUS
<1>0. StackOK
  BY DEF TypeOK
<1> USE <1>0
<1>1. ASSUME NEW c \in Callers, NEW m \in Messages, Begin(c, m)
      PROVE  Store!Next
  <2>1. \A d \in Callers \ {c} : pc'[d] = pc[d] /\ res'[d] = res[d]
    BY <1>1 DEF Begin, StackOK
  <2>2. StageOf(c) = "idle" /\ StageOf(c)' = "busy"
    BY <1>1 DEF Begin, StageOf, StackOK
  <2>3. stageBar' = [stageBar EXCEPT ![c] = "busy"]
    BY <2>1, <2>2, StageStep
  <2>4. Store!Begin(c, m)
    BY <1>1, <2>2, <2>3 DEF Store!Begin, Begin, stageBar
  <2> QED
    BY <2>4 DEF Store!Next
<1>2. ASSUME NEW c \in Callers, NEW r, StageOf(c) = "busy", Return(c, r),
             UNCHANGED <<acct, emails, oks>>
      PROVE  Store!Next
  <2>1. Store!ReturnError(c)
    BY <1>2, ReturnIsAnswer DEF Store!ReturnError
  <2> QED
    BY <2>1 DEF Store!Next
<1>3. ASSUME NEW c \in Callers, NEW l \in {"exists", "fetch", "upload"}, Goto(c, l),
             StageOf(c) = "busy", UNCHANGED <<acct, emails, oks>>
      PROVE  UNCHANGED Store!vars
  <2>1. \A d \in Callers \ {c} : pc'[d] = pc[d] /\ res'[d] = res[d]
    BY <1>3 DEF Goto, StackOK
  <2>2. StageOf(c)' = "busy"
    BY <1>3 DEF Goto, StageOf, StackOK
  <2>3. UNCHANGED stageBar
    BY <1>3, <2>1, <2>2, StageSame
  <2> QED
    BY <1>3, <2>3 DEF Store!vars, stageBar, Goto
<1>4. ASSUME NEW c \in Callers, GetAccount(c)
      PROVE  Store!Next \/ UNCHANGED Store!vars
  <2>1. StageOf(c) = "busy"
    BY <1>4 DEF GetAccount, StageOf
  <2> QED
    BY <1>4, <1>2, <1>3, <2>1 DEF GetAccount, history
<1>5. ASSUME NEW c \in Callers, ExistsByUID(c)
      PROVE  Store!Next \/ UNCHANGED Store!vars
  <2>1. StageOf(c) = "busy"
    BY <1>5 DEF ExistsByUID, StageOf
  <2>2. CASE msg[c] \in emails /\ Return(c, "exists")
    <3>1. Store!ReturnExists(c)
      BY <1>5, <2>1, <2>2, ReturnIsAnswer DEF Store!ReturnExists, ExistsByUID, history
    <3> QED
      BY <3>1 DEF Store!Next
  <2> QED
    BY <1>5, <1>2, <1>3, <2>1, <2>2 DEF ExistsByUID, history
<1>6. ASSUME NEW c \in Callers, FetchRaw(c)
      PROVE  Store!Next \/ UNCHANGED Store!vars
  <2>1. StageOf(c) = "busy"
    BY <1>6 DEF FetchRaw, StageOf
  <2> QED
    BY <1>6, <1>2, <1>3, <2>1 DEF FetchRaw, history
<1>7. ASSUME NEW c \in Callers, StageOf(c) = "busy", CleanupThen(c, "error"),
             UNCHANGED <<acct, emails, oks>>
      PROVE  Store!Next
  <2>1. stageBar' = [stageBar EXCEPT ![c] = "failed"]
    BY <1>7, CleanupStage
  <2>2. Store!Fail(c)
    BY <1>7, <2>1 DEF Store!Fail, CleanupThen, stageBar
  <2> QED
    BY <2>2 DEF Store!Next
<1>8. ASSUME NEW c \in Callers, Upload(c)
      PROVE  Store!Next \/ UNCHANGED Store!vars
  <2>1. StageOf(c) = "busy"
    BY <1>8 DEF Upload, StageOf
  <2>2. CASE UNCHANGED <<pc, msg, idx, res>>
    BY <1>8, <2>2 DEF Upload, Store!vars, StageOf
  <2> QED
    BY <1>8, <1>7, <2>1, <2>2 DEF Upload
<1>9. ASSUME NEW c \in Callers, CreateEmail(c)
      PROVE  Store!Next
  <2>1. StageOf(c) = "busy" /\ UNCHANGED <<acct, oks>>
    BY <1>9 DEF CreateEmail, StageOf, history
  <2>2. CASE Insertable(c) /\ emails' = emails \cup {msg[c]} /\ Goto(c, "attach")
    <3>1. \A d \in Callers \ {c} : pc'[d] = pc[d] /\ res'[d] = res[d]
      BY <2>2 DEF Goto, StackOK
    <3>2. StageOf(c)' = "owner"
      BY <2>2 DEF Goto, StageOf, StackOK
    <3>3. stageBar' = [stageBar EXCEPT ![c] = "owner"]
      BY <3>1, <3>2, StageStep
    <3>4. Store!Store(c)
      BY <2>1, <2>2, <3>3 DEF Store!Store, Insertable, Goto, stageBar
    <3> QED
      BY <3>4 DEF Store!Next
  <2>3. CASE Insertable(c) /\ emails' = emails \cup {msg[c]} /\ CleanupThen(c, "error")
    <3>1. stageBar' = [stageBar EXCEPT ![c] = "failed"]
      BY <2>3, CleanupStage
    <3>2. Store!StoreUnseen(c)
      BY <2>1, <2>3, <3>1 DEF Store!StoreUnseen, Insertable, CleanupThen, stageBar
    <3> QED
      BY <3>2 DEF Store!Next
  <2>4. CASE Duplicate(c) /\ CleanupThen(c, "exists") /\ UNCHANGED emails
    <3>1. stageBar' = [stageBar EXCEPT ![c] = "late"]
      BY <2>4, CleanupStage
    <3>2. Store!FindStored(c)
      BY <2>1, <2>4, <3>1 DEF Store!FindStored, Duplicate, CleanupThen, stageBar
    <3> QED
      BY <3>2 DEF Store!Next
  <2> QED
    BY <1>9, <1>7, <2>1, <2>2, <2>3, <2>4 DEF CreateEmail
<1>10. ASSUME NEW c \in Callers, DeleteUploaded(c)
       PROVE  UNCHANGED Store!vars
  BY <1>10 DEF DeleteUploaded, Store!vars, StageOf
<1>11. ASSUME NEW c \in Callers, ReturnAfterCleanup(c)
       PROVE  Store!Next
  <2>1. Store!Answer(c) /\ UNCHANGED oks
    BY <1>11, ReturnIsAnswer DEF ReturnAfterCleanup, history
  <2>2. StageOf(c) \in {"late", "failed"}
    BY <1>11 DEF ReturnAfterCleanup, StageOf
  <2>3. Store!ReturnExists(c) \/ Store!ReturnError(c)
    BY <2>1, <2>2 DEF Store!ReturnExists, Store!ReturnError
  <2> QED
    BY <2>3 DEF Store!Next
<1>12. ASSUME NEW c \in Callers, CreateAttachment(c)
       PROVE  Store!Next \/ UNCHANGED Store!vars
  <2>1. StageOf(c) = "owner" /\ UNCHANGED <<acct, emails, oks>>
    BY <1>12 DEF CreateAttachment, StageOf, history
  <2>2. CASE UNCHANGED <<pc, msg, up, res>>
    BY <2>1, <2>2 DEF Store!vars, StageOf
  <2>3. CASE AbandonRows(c)
    <3>1. Store!ReturnError(c)
      BY <2>1, <2>3, ReturnIsAnswer DEF AbandonRows, Store!ReturnError
    <3> QED
      BY <3>1 DEF Store!Next
  <2> QED
    BY <1>12, <2>2, <2>3 DEF CreateAttachment
<1>13. ASSUME NEW c \in Callers, ReturnEmail(c)
       PROVE  Store!Next
  <2>1. /\ StageOf(c) = "owner" /\ msg[c] \in Messages
        /\ Return(c, "ok") /\ UNCHANGED <<acct, emails>>
        /\ oks' = [oks EXCEPT ![msg[c]] = @ + 1]
    BY <1>13, BusyHasMessage DEF ReturnEmail, StageOf
  <2>2. returnedBar' = returnedBar \cup {msg[c]}
    BY <2>1 DEF returnedBar, TypeOK, HistoryOK
  <2>3. Store!ReturnOk(c)
    BY <2>1, <2>2, ReturnIsAnswer DEF Store!ReturnOk, returnedBar
  <2> QED
    BY <2>3 DEF Store!Next
<1>14. CASE DeleteAccount
  <2>1. Store!CloseAccount
    BY <1>14 DEF DeleteAccount, Store!CloseAccount, StageOf, stack, history
  <2> QED
    BY <2>1 DEF Store!Next
<1>15. CASE Crash
  <2>1. \A c \in Callers : StageOf(c)' = "idle"
    BY <1>15 DEF Crash, StageOf
  <2>2. Store!Crash
    BY <1>15, <2>1 DEF Crash, Store!Crash
  <2> QED
    BY <2>2 DEF Store!Next
<1>16. CASE UNCHANGED vars
  BY <1>16 DEF vars, stack, history, Store!vars, StageOf
<1> QED
  BY <1>1, <1>4, <1>5, <1>6, <1>8, <1>9, <1>10, <1>11, <1>12, <1>13, <1>14,
     <1>15, <1>16 DEF Next, IngestStep

\* IngestEmail, with its calls to S3 and its rows loop, implements the abstract
\* store that the coordinator relies on (ingest.go:49-179).
THEOREM IngestImplementsMailStore == Spec => ImplementsMailStore
<1>1. Init => Store!Init
  <2>1. Init => \A m \in Messages : ~(oks[m] > 0)
    BY DEF Init
  <2>2. Init => \A c \in Callers : StageOf(c) = "idle"
    BY DEF Init, StageOf
  <2> QED
    BY <2>1, <2>2 DEF Init, Store!Init
<1> QED
  BY <1>1, StepImplementsStore, TypeCorrect, PTL DEF Spec, ImplementsMailStore, Store!Spec

------------------------------------------------------------------------------
\* The steps before a request has its email, those on the way to the email of
\* a message it names, and those at which it has it.
Before == {"idle", "account", "lookup", "ingest", "reread", "attachments"}
Fetching == {"lookup", "ingest", "reread", "attachments"}
HasEmail(r) == step[r] \in {"compose", "smtp", "store", "answered"} /\ kind[r] # "send"

\* A request names a message unless it sends a new mail, which it then does not
\* look for; the call of IngestEmail it waits for is about that message.
NamesItsMessage(r) ==
    /\ step[r] = "idle" => kind[r] = None
    /\ step[r] # "idle" => kind[r] \in Kinds
    /\ step[r] # "idle" /\ kind[r] # "send" => about[r] \in Messages
    /\ step[r] \in Fetching => kind[r] # "send"
    /\ step[r] = "ingest" => msg[r] = about[r]

\* Nothing is in hand before the email is, a forward is not sent before all its
\* attachments are, and no mail is stored before it is sent.
HandsInOrder(r) ==
    /\ step[r] \in Before => atts[r] = {} /\ todo[r] = {} /\ got[r] = {}
    /\ kind[r] = "forward" /\ step[r] \in {"smtp", "store", "answered"} => got[r] = atts[r]
    /\ step[r] = "store" => r \in sent

\* What a request has in hand is in the tables.
HeldIsStored(r) ==
    /\ step[r] = "attachments" \/ HasEmail(r) => about[r] \in emails
    /\ HasEmail(r) => atts[r] \subseteq rows

\* What made a request miss attachments.
Excused(r) ==
    \/ Torn(about[r])
    \/ why[r] = "early"
    \/ kind[r] = "forward" /\ why[r] \in {"raced", "unread"}

GapsExcused(r) ==
    HasEmail(r) /\ WantsAll(r) /\ atts[r] # PartsOf(about[r]) => Excused(r)

\* A request made after a whole answer finds its message with all its rows.
InformedFindsAll(r) ==
    r \in informed =>
        /\ step[r] \notin {"idle", "ingest", "reread"} /\ kind[r] # "send"
        /\ about[r] \in emails /\ PartsOf(about[r]) \subseteq rows
        /\ HasEmail(r) /\ WantsAll(r) /\ why[r] # "unread" => atts[r] = PartsOf(about[r])

\* All this of one request; what is said of the tables holds while the account
\* lives.
RequestInv(r) ==
    /\ NamesItsMessage(r)
    /\ HandsInOrder(r)
    /\ acct => HeldIsStored(r) /\ GapsExcused(r) /\ InformedFindsAll(r)

\* The inductive invariant.
HInv == HandlerTypeOK /\ \A r \in Requests : RequestInv(r)

------------------------------------------------------------------------------
(* What the steps of IngestEmail do to what requests read.                   *)

\* The cleanup ends in an error, or in that the email exists.
CleanupHasError == \A c \in Callers : pc[c] = "cleanup" => res[c] \in {"exists", "error"}

\* A step of c moves c alone, which keeps its message until it returns.
LEMMA StepMovesOne ==
    ASSUME StackOK, NEW c \in Callers, IngestStep(c)
    PROVE  /\ pc[c] # "idle"
           /\ pc'[c] # "idle" => msg'[c] = msg[c]
           /\ \A d \in Callers \ {c} : pc'[d] = pc[d] /\ msg'[d] = msg[d] /\ res'[d] = res[d]
BY DEF StackOK, stack, IngestStep, GetAccount, ExistsByUID, FetchRaw, Upload, CreateEmail,
   DeleteUploaded, ReturnAfterCleanup, CreateAttachment, ReturnEmail, Goto, Return,
   CleanupThen, AbandonRows

LEMMA ErrorStep == StackOK /\ CleanupHasError /\ [Next]_vars => CleanupHasError'
<1> SUFFICES ASSUME StackOK, CleanupHasError, [Next]_vars
             PROVE  CleanupHasError'
  OBVIOUS
<1> USE DEF StackOK, stack, CleanupHasError
<1>1. ASSUME NEW c \in Callers, NEW m \in Messages, Begin(c, m)
      PROVE  CleanupHasError'
  BY <1>1 DEF Begin
<1>2. ASSUME NEW c \in Callers, IngestStep(c)
      PROVE  CleanupHasError'
  <2>1. pc'[c] = "cleanup" => res'[c] \in {"exists", "error"}
    BY <1>2 DEF IngestStep, GetAccount, ExistsByUID, FetchRaw, Upload, CreateEmail,
       DeleteUploaded, ReturnAfterCleanup, CreateAttachment, ReturnEmail, Goto, Return,
       CleanupThen, AbandonRows
  <2> QED
    BY <1>2, <2>1, StepMovesOne
<1>3. CASE DeleteAccount \/ Crash \/ UNCHANGED vars
  BY <1>3 DEF DeleteAccount, Crash, vars
<1> QED
  BY <1>1, <1>2, <1>3 DEF Next

\* Only the owner of a message answers it without an error.
LEMMA OkIsReturnEmail ==
    ASSUME StackOK, CleanupHasError, NEW c \in Callers, IngestStep(c), pc'[c] = "idle", res'[c] = "ok"
    PROVE  ReturnEmail(c)
BY DEF StackOK, CleanupHasError, IngestStep, GetAccount, ExistsByUID, FetchRaw, Upload,
   CreateEmail, DeleteUploaded, ReturnAfterCleanup, CreateAttachment, Goto, Return,
   CleanupThen, AbandonRows

\* While the account lives the tables only grow, rows are written by owners, and
\* only a call that finds no email becomes one.
LEMMA TablesGrow ==
    ASSUME StackOK, [Next]_vars, acct'
    PROVE  /\ acct /\ emails \subseteq emails' /\ rows \subseteq rows'
           /\ \A p \in rows' \ rows : \E c \in Callers : pc[c] = "attach" /\ p = RowOf(c)
           /\ \A c \in Callers : pc'[c] = "attach" =>
                  msg'[c] = msg[c] /\ (pc[c] = "attach" \/ msg[c] \notin emails)
<1> USE DEF StackOK, stack
<1>1. ASSUME NEW c \in Callers, NEW m \in Messages, Begin(c, m)
      PROVE  /\ UNCHANGED <<acct, emails, rows>>
             /\ \A d \in Callers : pc'[d] = "attach" => msg'[d] = msg[d] /\ pc[d] = "attach"
  BY <1>1 DEF Begin
<1>2. ASSUME NEW c \in Callers, IngestStep(c)
      PROVE  /\ UNCHANGED acct /\ emails \subseteq emails' /\ rows \subseteq rows'
             /\ \A p \in rows' \ rows : pc[c] = "attach" /\ p = RowOf(c)
             /\ pc'[c] = "attach" =>
                    msg'[c] = msg[c] /\ (pc[c] = "attach" \/ msg[c] \notin emails)
  BY <1>2 DEF IngestStep, GetAccount, ExistsByUID, FetchRaw, Upload, CreateEmail, Insertable,
     DeleteUploaded, ReturnAfterCleanup, CreateAttachment, ReturnEmail, Goto, Return,
     CleanupThen, AbandonRows
<1>3. ASSUME NEW c \in Callers, IngestStep(c), NEW d \in Callers, d # c
      PROVE  pc'[d] = pc[d] /\ msg'[d] = msg[d]
  BY <1>3, StepMovesOne
<1>4. CASE DeleteAccount \/ Crash \/ UNCHANGED vars
  BY <1>4 DEF DeleteAccount, Crash, vars
<1> QED
  BY <1>1, <1>2, <1>3, <1>4 DEF Next

\* A message that is torn stays so: nobody is left to write its rows.
LEMMA TornStays ==
    ASSUME StackOK, [Next]_vars, acct', NEW m \in Messages, Torn(m)
    PROVE  Torn(m)'
<1>1. m \in emails'
  BY TablesGrow DEF Torn
<1>2. ~Storing(m)'
  BY TablesGrow DEF Torn, Storing, Requests
<1>3. PICK p \in PartsOf(m) : p \notin rows
  BY DEF Torn
<1>4. p \notin rows'
  <2> SUFFICES ASSUME p \in rows'
               PROVE  FALSE
    OBVIOUS
  <2>1. PICK c \in Callers : pc[c] = "attach" /\ p = RowOf(c)
    BY <1>3, TablesGrow
  <2>2. p[1] = m
    BY DEF PartsOf
  <2>3. msg[c] = m
    BY <2>1, <2>2 DEF RowOf
  <2> QED
    BY <2>1, <2>3 DEF Torn, Storing, Requests
<1> QED
  BY <1>1, <1>2, <1>3, <1>4 DEF Torn, PartsOf

\* The owner has written all rows when it returns its message.
LEMMA ReturnedIsWhole ==
    ASSUME IInv, acct, NEW c \in Callers, ReturnEmail(c)
    PROVE  msg[c] \in emails /\ PartsOf(msg[c]) \subseteq rows
BY DEF ReturnEmail, IInv, OwnerHasRows, PartsOf

\* The rows of a message are its attachments.
LEMMA RowsOfMessage ==
    ASSUME TypeOK, NEW m \in Messages
    PROVE  RowsOf(m) \subseteq PartsOf(m) /\ PartsOf(m) \in SUBSET Parts
BY DEF TypeOK, StoresOK, RowsOf, Parts, PartsOf

------------------------------------------------------------------------------
(* Every request is a caller of IngestEmail, and nothing else.               *)

\* Every step of the handlers is a step of Ingest, or leaves it alone.
LEMMA StepIsIngest == HInv /\ [HandlerNext]_handlerVars => [Next]_vars
<1> SUFFICES ASSUME HInv, [HandlerNext]_handlerVars
             PROVE  Next \/ UNCHANGED vars
  OBVIOUS
<1> USE DEF stores, call, vars, Requests
<1>1. ASSUME NEW r \in Requests, Lookup(r)
      PROVE  Next \/ UNCHANGED vars
  <2>1. about[r] \in Messages
    BY <1>1 DEF Lookup, HInv, RequestInv, NamesItsMessage, Fetching
  <2> QED
    BY <1>1, <2>1 DEF Lookup, Next
<1>2. ASSUME NEW r \in Requests, Handle(r)
      PROVE  Next \/ UNCHANGED vars
  BY <1>1, <1>2 DEF Handle, CheckAccount, IngestGoesOn, IngestReturns, Reread, LoadAttachments,
     Download, Compose, SendEmail, StoreSentEmail, Next
<1>3. CASE \E r \in Requests, k \in Kinds, m \in Messages : Receive(r, k, m)
  BY <1>3 DEF Receive
<1>4. CASE RemoveAccount \/ CrashHandlers \/ UNCHANGED handlerVars
  BY <1>4 DEF RemoveAccount, CrashHandlers, handlerVars, Next
<1> QED
  BY <1>2, <1>3, <1>4 DEF HandlerNext

------------------------------------------------------------------------------
(* Types of the handlers.                                                    *)

\* A step leaves request q where it is; a step for r leaves all others there.
Untouched(q) ==
    /\ step'[q] = step[q] /\ kind'[q] = kind[q] /\ about'[q] = about[q] /\ why'[q] = why[q]
    /\ atts'[q] = atts[q] /\ todo'[q] = todo[q] /\ got'[q] = got[q]
    /\ q \in informed' <=> q \in informed
    /\ q \in sent => q \in sent'
    /\ pc'[q] = pc[q] /\ msg'[q] = msg[q]

OnlyServes(r) == \A q \in Requests \ {r} : Untouched(q)

\* The types of what a request has in hand and remembers.
HandsTyped == {atts, todo, got} \subseteq [Requests -> SUBSET Parts]
MindTyped ==
    /\ step \in [Requests -> Steps \cup Over]
    /\ kind \in [Requests -> Kinds \cup {None}]
    /\ about \in [Requests -> Messages \cup {None}]
    /\ why \in [Requests -> {"none", "early", "raced", "unread"}]
    /\ informed \subseteq Requests

\* What one request has in hand is of the message it names.
HandsFit(r) ==
    /\ atts[r] \subseteq (IF about[r] = None THEN {} ELSE PartsOf(about[r]))
    /\ todo[r] \subseteq atts[r]
    /\ got[r] \subseteq atts[r]
    /\ (pc[r] # "idle") <=> (step[r] = "ingest")

LEMMA TypeParts ==
    HandlerTypeOK <=> /\ TypeOK /\ HandsTyped /\ MindTyped /\ \A r \in Requests : HandsFit(r)
                      /\ sent \subseteq Requests /\ sentRow \in sent \cup {None}
BY DEF HandlerTypeOK, HandsTyped, MindTyped, HandsFit

\* To have the email in hand changes the hands of r alone.
LEMMA HaveEmailTyped ==
    ASSUME HandsTyped, MindTyped, NEW r \in Requests, NEW A \in SUBSET Parts, HaveEmail(r, A)
    PROVE  /\ atts' \in [Requests -> SUBSET Parts] /\ todo' \in [Requests -> SUBSET Parts]
           /\ step' \in [Requests -> Steps \cup Over]
           /\ step'[r] = IF kind[r] = "get" THEN "answered" ELSE "compose"
           /\ atts'[r] = A /\ todo'[r] = IF kind[r] = "forward" THEN A ELSE {}
           /\ \A q \in Requests \ {r} :
                  step'[q] = step[q] /\ atts'[q] = atts[q] /\ todo'[q] = todo[q]
BY DEF HandsTyped, MindTyped, HaveEmail, Proceed, Steps, Over

LEMMA ProceedTyped ==
    ASSUME MindTyped, NEW r \in Requests, NEW s \in Steps \cup Over, Proceed(r, s)
    PROVE  /\ step' \in [Requests -> Steps \cup Over]
           /\ step'[r] = s
           /\ \A q \in Requests \ {r} : step'[q] = step[q]
BY DEF MindTyped, Proceed

------------------------------------------------------------------------------
(* Every step keeps the invariant.                                           *)

\* What is said of a request stays true while it is left where it is.
LEMMA Bystander ==
    ASSUME HInv, StackOK, [Next]_vars, NEW q \in Requests, Untouched(q)
    PROVE  HandsFit(q)' /\ RequestInv(q)'
<1> USE DEF Untouched
<1>1. HandsFit(q)'
  BY TypeParts DEF HInv, HandsFit
<1>2. NamesItsMessage(q)' /\ HandsInOrder(q)'
  BY DEF HInv, RequestInv, NamesItsMessage, HandsInOrder
<1> SUFFICES ASSUME acct'
             PROVE  HeldIsStored(q)' /\ GapsExcused(q)' /\ InformedFindsAll(q)'
  BY <1>1, <1>2 DEF RequestInv
<1>3. acct /\ emails \subseteq emails' /\ rows \subseteq rows'
  BY TablesGrow
<1>4. HeldIsStored(q) /\ GapsExcused(q) /\ InformedFindsAll(q) /\ NamesItsMessage(q)
  BY <1>3 DEF HInv, RequestInv
<1>5. HeldIsStored(q)'
  BY <1>3, <1>4 DEF HeldIsStored, HasEmail
<1>6. GapsExcused(q)'
  <2> SUFFICES ASSUME HasEmail(q), WantsAll(q), atts[q] # PartsOf(about[q])
               PROVE  Excused(q)'
    BY DEF GapsExcused, HasEmail, WantsAll, PartsOf
  <2>1. PICK m \in Messages : m = about[q]
    BY <1>4 DEF HasEmail, NamesItsMessage
  <2>2. Torn(m) => Torn(m)'
    BY TornStays
  <2>3. Excused(q)
    BY <1>4 DEF GapsExcused
  <2>4. Torn(about[q]) => Torn(about[q])'
    BY <2>1, <2>2 DEF Torn, Storing, PartsOf
  <2> QED
    BY <2>3, <2>4 DEF Excused, Torn, Storing, PartsOf
<1>7. InformedFindsAll(q)'
  BY <1>3, <1>4 DEF InformedFindsAll, HasEmail, WantsAll, PartsOf
<1> QED
  BY <1>5, <1>6, <1>7

\* So a step for r needs a look at r only.
LEMMA ServedStep ==
    ASSUME HInv, TypeOK', [Next]_vars, NEW r \in Requests, OnlyServes(r),
           MindTyped', HandsTyped', sent' \subseteq Requests, sentRow' \in sent' \cup {None},
           HandsFit(r)', RequestInv(r)'
    PROVE  HInv'
<1>1. StackOK
  BY DEF HInv, HandlerTypeOK, TypeOK
<1>2. \A q \in Requests : HandsFit(q)' /\ RequestInv(q)'
  BY <1>1, Bystander DEF OnlyServes
<1>3. HandlerTypeOK'
  BY <1>2 DEF HandlerTypeOK, HandsTyped, MindTyped, HandsFit
<1> QED
  BY <1>2, <1>3 DEF HInv

\* A step for r that leaves tables and calls alone.
LEMMA QuietStep ==
    ASSUME HInv, NEW r \in Requests, UNCHANGED <<stores, call>>, OnlyServes(r),
           MindTyped', HandsTyped', sent' \subseteq Requests, sentRow' \in sent' \cup {None},
           HandsFit(r)', RequestInv(r)'
    PROVE  HInv'
<1>1. UNCHANGED vars
  BY DEF stores, call, vars
<1>2. TypeOK'
  BY <1>1, TypeStep DEF HInv, HandlerTypeOK
<1> QED
  BY <1>1, <1>2, ServedStep

\* A request that is refused, or whose answer is lost, has nothing to keep.
LEMMA RefusedKeepsNothing ==
    ASSUME HInv, NEW r \in Requests, MindTyped, step'[r] \in {"refused", "lost"},
           step[r] # "idle", pc'[r] = "idle", kind'[r] = kind[r], about'[r] = about[r],
           atts'[r] = atts[r], todo'[r] = todo[r], got'[r] = got[r],
           informed' = informed, acct' => acct /\ emails \subseteq emails' /\ rows \subseteq rows'
    PROVE  HandsFit(r)' /\ RequestInv(r)'
<1> USE DEF HInv
<1>1. HandsFit(r)'
  BY TypeParts DEF HandsFit, PartsOf
<1>2. NamesItsMessage(r)' /\ HandsInOrder(r)'
  BY DEF RequestInv, NamesItsMessage, HandsInOrder, Fetching, Before
<1>3. ASSUME acct'
      PROVE  HeldIsStored(r)' /\ GapsExcused(r)' /\ InformedFindsAll(r)'
  BY <1>3 DEF RequestInv, HeldIsStored, GapsExcused, InformedFindsAll, HasEmail, PartsOf
<1> QED
  BY <1>1, <1>2, <1>3 DEF RequestInv

LEMMA ReceiveStep ==
    ASSUME HInv, NEW r \in Requests, NEW k \in Kinds, NEW m \in Messages, Receive(r, k, m)
    PROVE  HInv'
<1> USE DEF Requests
<1>0. HandlerTypeOK /\ MindTyped /\ HandsTyped /\ HandsFit(r) /\ RequestInv(r)
  BY TypeParts DEF HInv
<1>1. /\ step[r] = "idle" /\ step'[r] = "account" /\ kind'[r] = k
      /\ about'[r] = IF k = "send" THEN None ELSE m
      /\ UNCHANGED <<stores, call, atts, todo, got, mail, why>>
      /\ OnlyServes(r) /\ MindTyped'
  BY <1>0 DEF Receive, Proceed, MindTyped, OnlyServes, Untouched, Steps, Over, call, stack, mail
<1>2. HandsTyped' /\ sent' \subseteq Requests /\ sentRow' \in sent' \cup {None}
  BY <1>0, <1>1, TypeParts DEF HandsTyped, mail
<1>3. atts[r] = {} /\ todo[r] = {} /\ got[r] = {}
  BY <1>0, <1>1 DEF RequestInv, HandsInOrder, Before
<1>4. HandsFit(r)'
  BY <1>0, <1>1, <1>3 DEF HandsFit, call, stack
<1>5. NamesItsMessage(r)' /\ HandsInOrder(r)'
  BY <1>1, <1>3 DEF NamesItsMessage, HandsInOrder, Fetching
<1>6. ASSUME acct, r \in informed'
      PROVE  k # "send" /\ about'[r] \in emails /\ PartsOf(about'[r]) \subseteq rows
  <2>1. r \notin informed
    BY <1>0, <1>1, <1>6 DEF RequestInv, InformedFindsAll
  <2>2. PICK q \in Requests : step[q] = "answered" /\ WantsAll(q) /\ about[q] = about'[r] /\ Whole(q)
    BY <1>6, <2>1 DEF Receive
  <2>3. RequestInv(q) /\ HasEmail(q)
    BY <2>2 DEF HInv, HasEmail, WantsAll
  <2>4. about[q] \in emails /\ about[q] \in Messages /\ Carried(q) \subseteq rows
    BY <1>6, <2>2, <2>3 DEF RequestInv, HeldIsStored, NamesItsMessage, HandsInOrder, Carried,
       HasEmail
  <2> QED
    BY <1>1, <2>2, <2>4, IngestAssumption DEF Whole, PartsOf
<1>7. RequestInv(r)'
  BY <1>1, <1>5, <1>6 DEF RequestInv, HeldIsStored, GapsExcused, InformedFindsAll, HasEmail,
     stores, PartsOf
<1> QED
  BY <1>1, <1>2, <1>4, <1>7, QuietStep

LEMMA CheckAccountStep ==
    ASSUME HInv, NEW r \in Requests, CheckAccount(r)
    PROVE  HInv'
<1> USE DEF Requests
<1>0. HandlerTypeOK /\ MindTyped /\ HandsTyped /\ HandsFit(r) /\ RequestInv(r)
  BY TypeParts DEF HInv
<1>1. /\ step[r] = "account" /\ UNCHANGED <<stores, call, asked, atts, todo, got, mail, why>>
      /\ step'[r] \in {"refused", IF kind[r] = "send" THEN "compose" ELSE "lookup"}
      /\ OnlyServes(r) /\ MindTyped'
  BY <1>0 DEF CheckAccount, Refuse, Proceed, MindTyped, OnlyServes, Untouched, Steps, Over, call, stack, asked,
     mail
<1>2. HandsTyped' /\ sent' \subseteq Requests /\ sentRow' \in sent' \cup {None}
  BY <1>0, <1>1, TypeParts DEF HandsTyped, mail
<1>3. HandsFit(r)'
  BY <1>0, <1>1 DEF HandsFit, call, stack, asked, PartsOf
<1>4. RequestInv(r)'
  BY <1>0, <1>1 DEF RequestInv, NamesItsMessage, HandsInOrder, HeldIsStored, GapsExcused,
     InformedFindsAll, HasEmail, Fetching, Before, stores, asked, PartsOf
<1> QED
  BY <1>1, <1>2, <1>3, <1>4, QuietStep

\* To have the email in hand keeps what is said of r, if what it has is in the
\* tables and what it misses has an excuse.
LEMMA GetsEmail ==
    ASSUME HInv, NEW r \in Requests, NEW A \in SUBSET Parts, HaveEmail(r, A),
           step[r] \in Fetching, pc'[r] = "idle", kind'[r] = kind[r], about'[r] = about[r],
           got'[r] = got[r], informed' = informed, A \subseteq PartsOf(about[r]),
           acct' => /\ acct /\ emails \subseteq emails' /\ rows \subseteq rows'
                    /\ about[r] \in emails' /\ A \subseteq rows',
           acct' /\ WantsAll(r) /\ A # PartsOf(about[r]) =>
               Excused(r)' /\ (r \in informed => why'[r] = "unread")
    PROVE  HandsFit(r)' /\ RequestInv(r)'
<1> USE DEF Requests
<1>0. HandlerTypeOK /\ MindTyped /\ HandsTyped /\ HandsFit(r) /\ RequestInv(r)
  BY TypeParts DEF HInv
<1>1. /\ step'[r] = IF kind[r] = "get" THEN "answered" ELSE "compose"
      /\ atts'[r] = A /\ todo'[r] = IF kind[r] = "forward" THEN A ELSE {}
  BY <1>0, HaveEmailTyped
<1>2. kind[r] \in Kinds /\ kind[r] # "send" /\ about[r] \in Messages /\ got[r] = {}
  BY <1>0 DEF RequestInv, NamesItsMessage, HandsInOrder, Fetching, Before
<1>3. HandsFit(r)'
  BY <1>1, <1>2, IngestAssumption DEF HandsFit, PartsOf
<1>4. NamesItsMessage(r)' /\ HandsInOrder(r)'
  BY <1>1, <1>2 DEF NamesItsMessage, HandsInOrder, Fetching, Before
<1>5. ASSUME acct'
      PROVE  HeldIsStored(r)' /\ GapsExcused(r)'
  BY <1>1, <1>2, <1>5 DEF HeldIsStored, GapsExcused, HasEmail, WantsAll, PartsOf
<1>6. ASSUME acct'
      PROVE  InformedFindsAll(r)'
  BY <1>0, <1>1, <1>2, <1>6 DEF RequestInv, InformedFindsAll, HasEmail, WantsAll, PartsOf
<1> QED
  BY <1>3, <1>4, <1>5, <1>6 DEF RequestInv

LEMMA LookupStep ==
    ASSUME HInv, [Next]_vars, TypeOK', NEW r \in Requests, Lookup(r)
    PROVE  HInv'
<1> USE DEF Requests
<1>0. HandlerTypeOK /\ MindTyped /\ HandsTyped /\ HandsFit(r) /\ RequestInv(r) /\ StackOK
  BY TypeParts DEF HInv, HandlerTypeOK, TypeOK
<1>1. /\ step[r] = "lookup" /\ UNCHANGED <<asked, atts, todo, got, mail, why>>
      /\ UNCHANGED <<acct, emails, rows>>
      /\ \/ /\ about[r] \in emails /\ UNCHANGED call
            /\ step'[r] = "attachments"
         \/ /\ about[r] \notin emails /\ Begin(r, about[r])
            /\ step'[r] = "ingest"
         \/ step'[r] = "refused" /\ UNCHANGED call
      /\ MindTyped' /\ \A q \in Requests \ {r} : step'[q] = step[q]
  BY <1>0 DEF Lookup, Missing, Refuse, Proceed, MindTyped, Steps, Over, asked, stores, Begin
<1>2. /\ \A q \in Callers \ {r} : pc'[q] = pc[q] /\ msg'[q] = msg[q]
      /\ step'[r] = "ingest" => pc'[r] = "account" /\ msg'[r] = about[r]
      /\ step'[r] # "ingest" => pc'[r] = pc[r]
  BY <1>0, <1>1 DEF Begin, StackOK, call, stack
<1>3. OnlyServes(r) /\ HandsTyped' /\ sent' \subseteq Requests /\ sentRow' \in sent' \cup {None}
  BY <1>0, <1>1, <1>2, TypeParts DEF HandsTyped, mail, asked, OnlyServes, Untouched
<1>4. HandsFit(r)'
  BY <1>0, <1>1, <1>2 DEF HandsFit, asked, PartsOf
<1>5. NamesItsMessage(r)' /\ HandsInOrder(r)'
  BY <1>0, <1>1, <1>2 DEF RequestInv, NamesItsMessage, HandsInOrder, Fetching, Before, asked
<1>6. ASSUME acct'
      PROVE  HeldIsStored(r)' /\ GapsExcused(r)' /\ InformedFindsAll(r)'
  BY <1>0, <1>1, <1>6 DEF RequestInv, HandsInOrder, HeldIsStored, GapsExcused,
     InformedFindsAll, HasEmail, Before, asked, PartsOf
<1> QED
  BY <1>1, <1>3, <1>4, <1>5, <1>6, ServedStep DEF RequestInv

\* A step of the call that r waits for is no step of another request.
LEMMA WaitsAlone ==
    ASSUME StackOK, NEW r \in Requests, IngestStep(r), UNCHANGED <<asked, got, mail>>,
           \A q \in Requests \ {r} : /\ step'[q] = step[q] /\ why'[q] = why[q]
                                     /\ atts'[q] = atts[q] /\ todo'[q] = todo[q]
    PROVE  OnlyServes(r)
BY StepMovesOne DEF OnlyServes, Untouched, Requests, asked, mail

LEMMA IngestGoesOnStep ==
    ASSUME HInv, [Next]_vars, TypeOK', NEW r \in Requests, IngestGoesOn(r)
    PROVE  HInv'
<1> USE DEF Requests
<1>0. HandlerTypeOK /\ MindTyped /\ HandsTyped /\ HandsFit(r) /\ RequestInv(r) /\ StackOK
  BY TypeParts DEF HInv, HandlerTypeOK, TypeOK
<1>1. /\ step[r] = "ingest" /\ UNCHANGED <<step, asked, atts, todo, got, mail, why>>
      /\ pc'[r] # "idle" /\ msg'[r] = msg[r]
  BY <1>0, StepMovesOne DEF IngestGoesOn
<1>2. OnlyServes(r)
  BY <1>0, <1>1, WaitsAlone DEF IngestGoesOn
<1>3. MindTyped' /\ HandsTyped' /\ sent' \subseteq Requests /\ sentRow' \in sent' \cup {None}
  BY <1>0, <1>1, TypeParts DEF HandsTyped, MindTyped, mail, asked
<1>4. HandsFit(r)' /\ NamesItsMessage(r)' /\ HandsInOrder(r)'
  BY <1>0, <1>1 DEF RequestInv, HandsFit, NamesItsMessage, HandsInOrder, asked, mail, PartsOf
<1>5. ASSUME acct'
      PROVE  HeldIsStored(r)' /\ GapsExcused(r)' /\ InformedFindsAll(r)'
  BY <1>0, <1>1, <1>5, TablesGrow DEF RequestInv, HeldIsStored, GapsExcused, InformedFindsAll,
     HasEmail, asked
<1> QED
  BY <1>2, <1>3, <1>4, <1>5, ServedStep DEF RequestInv

LEMMA IngestReturnsStep ==
    ASSUME HInv, IInv, CleanupHasError, [Next]_vars, TypeOK', NEW r \in Requests,
           IngestReturns(r)
    PROVE  HInv'
<1> USE DEF Requests
<1>0. HandlerTypeOK /\ MindTyped /\ HandsTyped /\ HandsFit(r) /\ RequestInv(r) /\ TypeOK /\ StackOK
  BY TypeParts DEF HInv, HandlerTypeOK, TypeOK
<1>1. /\ step[r] = "ingest" /\ IngestStep(r) /\ pc'[r] = "idle"
      /\ UNCHANGED <<asked, got, mail, why>>
      /\ \/ res'[r] = "ok" /\ HaveEmail(r, PartsOf(about[r]))
         \/ Proceed(r, "reread") /\ UNCHANGED <<atts, todo>>
         \/ Proceed(r, "refused") /\ UNCHANGED <<atts, todo>>
  BY DEF IngestReturns, Refuse
<1>2. msg[r] = about[r] /\ about[r] \in Messages /\ PartsOf(about[r]) \in SUBSET Parts
  BY <1>0, <1>1, RowsOfMessage DEF RequestInv, NamesItsMessage, Fetching
<1>3. acct' => acct /\ emails \subseteq emails' /\ rows \subseteq rows'
  BY <1>0, TablesGrow
<1>4. sent' \subseteq Requests /\ sentRow' \in sent' \cup {None} /\ UNCHANGED <<kind, about, informed>>
  BY <1>0, <1>1, TypeParts DEF mail, asked
<1>5. CASE res'[r] = "ok" /\ HaveEmail(r, PartsOf(about[r]))
  <2>1. OnlyServes(r) /\ MindTyped' /\ HandsTyped'
    BY <1>0, <1>1, <1>2, <1>4, <1>5, HaveEmailTyped, WaitsAlone DEF MindTyped, HandsTyped
  <2>2. acct' => about[r] \in emails' /\ PartsOf(about[r]) \subseteq rows'
    BY <1>0, <1>1, <1>2, <1>3, <1>5, OkIsReturnEmail, ReturnedIsWhole
  <2>3. HandsFit(r)' /\ RequestInv(r)'
    BY <1>1, <1>2, <1>3, <1>4, <1>5, <2>2, GetsEmail DEF Fetching
  <2> QED
    BY <1>4, <2>1, <2>3, ServedStep
<1>6. CASE Proceed(r, "reread") /\ UNCHANGED <<atts, todo>>
  <2>1. step'[r] = "reread" /\ OnlyServes(r) /\ MindTyped' /\ HandsTyped'
    BY <1>0, <1>1, <1>4, <1>6, ProceedTyped, WaitsAlone DEF MindTyped, HandsTyped, Steps
  <2>2. HandsFit(r)' /\ NamesItsMessage(r)' /\ HandsInOrder(r)'
    BY <1>0, <1>1, <1>4, <1>6, <2>1 DEF RequestInv, HandsFit, NamesItsMessage, HandsInOrder,
       Fetching, Before, PartsOf
  <2>3. ASSUME acct'
        PROVE  HeldIsStored(r)' /\ GapsExcused(r)' /\ InformedFindsAll(r)'
    BY <1>0, <1>1, <1>3, <1>4, <2>1, <2>3 DEF RequestInv, HeldIsStored, GapsExcused,
       InformedFindsAll, HasEmail
  <2> QED
    BY <1>4, <2>1, <2>2, <2>3, ServedStep DEF RequestInv
<1>7. CASE Proceed(r, "refused") /\ UNCHANGED <<atts, todo>>
  <2>1. step'[r] = "refused" /\ OnlyServes(r) /\ MindTyped' /\ HandsTyped'
    BY <1>0, <1>1, <1>4, <1>7, ProceedTyped, WaitsAlone DEF MindTyped, HandsTyped, Over
  <2>2. HandsFit(r)' /\ RequestInv(r)'
    BY <1>0, <1>1, <1>3, <1>4, <1>7, <2>1, RefusedKeepsNothing
  <2> QED
    BY <1>4, <2>1, <2>2, ServedStep
<1> QED
  BY <1>1, <1>5, <1>6, <1>7

LEMMA RereadStep ==
    ASSUME HInv, NEW r \in Requests, Reread(r)
    PROVE  HInv'
<1> USE DEF Requests
<1>0. HandlerTypeOK /\ MindTyped /\ HandsTyped /\ HandsFit(r) /\ RequestInv(r)
  BY TypeParts DEF HInv
<1>1. /\ step[r] = "reread" /\ UNCHANGED <<stores, call, asked, got, mail>>
      /\ \/ /\ about[r] \in emails /\ Proceed(r, "attachments")
            /\ UNCHANGED <<atts, todo, why>>
         \/ /\ about[r] \in emails /\ kind[r] # "get" /\ HaveEmail(r, {})
            /\ why' = [why EXCEPT ![r] = "raced"]
         \/ Proceed(r, "refused") /\ UNCHANGED <<atts, todo, why>>
  BY DEF Reread, Refuse
<1>2. /\ sent' \subseteq Requests /\ sentRow' \in sent' \cup {None}
      /\ UNCHANGED <<kind, about, informed, acct, emails, rows, pc, msg, sent>>
  BY <1>0, <1>1, TypeParts DEF mail, asked, stores, call, stack
<1>3. pc'[r] = "idle" /\ kind[r] \in Kinds /\ (acct => r \notin informed)
  BY <1>0, <1>1, <1>2 DEF HandsFit, RequestInv, NamesItsMessage, InformedFindsAll
<1>4. CASE about[r] \in emails /\ Proceed(r, "attachments") /\ UNCHANGED <<atts, todo, why>>
  <2>1. step'[r] = "attachments" /\ OnlyServes(r) /\ MindTyped' /\ HandsTyped'
    BY <1>0, <1>1, <1>2, <1>4, ProceedTyped DEF MindTyped, HandsTyped, Steps, OnlyServes, Untouched
  <2>2. HandsFit(r)' /\ RequestInv(r)'
    BY <1>0, <1>1, <1>2, <1>3, <1>4, <2>1 DEF RequestInv, HandsFit, NamesItsMessage, HandsInOrder,
       HeldIsStored, GapsExcused, InformedFindsAll, HasEmail, Fetching, Before, PartsOf
  <2> QED
    BY <1>1, <1>2, <2>1, <2>2, QuietStep
<1>5. CASE /\ about[r] \in emails /\ kind[r] # "get" /\ HaveEmail(r, {})
           /\ why' = [why EXCEPT ![r] = "raced"]
  <2>1. OnlyServes(r) /\ MindTyped' /\ HandsTyped' /\ why'[r] = "raced"
    BY <1>0, <1>1, <1>2, <1>5, HaveEmailTyped DEF MindTyped, HandsTyped, OnlyServes, Untouched
  <2>2. WantsAll(r) => Excused(r)'
    BY <1>2, <1>5, <2>1 DEF WantsAll, Excused
  <2>3. HandsFit(r)' /\ RequestInv(r)'
    BY <1>1, <1>2, <1>3, <1>5, <2>2, GetsEmail DEF Fetching
  <2> QED
    BY <1>1, <1>2, <2>1, <2>3, QuietStep
<1>6. CASE Proceed(r, "refused") /\ UNCHANGED <<atts, todo, why>>
  <2>1. step'[r] = "refused" /\ OnlyServes(r) /\ MindTyped' /\ HandsTyped'
    BY <1>0, <1>1, <1>2, <1>6, ProceedTyped DEF MindTyped, HandsTyped, Over, OnlyServes, Untouched
  <2>2. HandsFit(r)' /\ RequestInv(r)'
    BY <1>0, <1>1, <1>2, <1>3, <1>6, <2>1, RefusedKeepsNothing
  <2> QED
    BY <1>1, <1>2, <2>1, <2>2, QuietStep
<1> QED
  BY <1>1, <1>4, <1>5, <1>6

LEMMA LoadAttachmentsStep ==
    ASSUME HInv, NEW r \in Requests, LoadAttachments(r)
    PROVE  HInv'
<1> USE DEF Requests
<1>0. HandlerTypeOK /\ MindTyped /\ HandsTyped /\ HandsFit(r) /\ RequestInv(r) /\ TypeOK
  BY TypeParts DEF HInv, HandlerTypeOK
<1>1. /\ step[r] = "attachments" /\ UNCHANGED <<stores, call, asked, got, mail>>
      /\ \/ /\ HaveEmail(r, RowsOf(about[r]))
            /\ why' = [why EXCEPT ![r] = IF Storing(about[r]) THEN "early" ELSE @]
         \/ Proceed(r, "refused") /\ UNCHANGED <<atts, todo, why>>
         \/ /\ kind[r] # "get" /\ HaveEmail(r, {})
            /\ why' = [why EXCEPT ![r] = "unread"]
  BY DEF LoadAttachments, Refuse
<1>2. /\ sent' \subseteq Requests /\ sentRow' \in sent' \cup {None}
      /\ UNCHANGED <<kind, about, informed, acct, emails, rows, pc, msg, sent>>
  BY <1>0, <1>1, TypeParts DEF mail, asked, stores, call, stack
<1>3. /\ pc'[r] = "idle" /\ about[r] \in Messages
      /\ acct => about[r] \in emails
      /\ acct /\ r \in informed => PartsOf(about[r]) \subseteq rows
  BY <1>0, <1>1, <1>2 DEF HandsFit, RequestInv, NamesItsMessage, InformedFindsAll, HeldIsStored,
     Fetching
<1>4. CASE /\ HaveEmail(r, RowsOf(about[r]))
           /\ why' = [why EXCEPT ![r] = IF Storing(about[r]) THEN "early" ELSE @]
  <2> DEFINE A == RowsOf(about[r])
  <2>1. A \in SUBSET Parts /\ A \subseteq PartsOf(about[r]) /\ A \subseteq rows
    BY <1>0, <1>3, RowsOfMessage DEF RowsOf
  <2>2. PartsOf(about[r]) \subseteq rows => A = PartsOf(about[r])
    BY <2>1 DEF RowsOf, PartsOf
  <2>3. OnlyServes(r) /\ MindTyped' /\ HandsTyped'
    BY <1>0, <1>1, <1>2, <1>4, <2>1, HaveEmailTyped DEF MindTyped, HandsTyped, OnlyServes, Untouched
  <2>4. acct /\ A # PartsOf(about[r]) => Excused(r)' /\ r \notin informed
    <3> SUFFICES ASSUME acct, A # PartsOf(about[r])
                 PROVE  Excused(r)' /\ r \notin informed
      OBVIOUS
    <3>1. r \notin informed /\ ~(PartsOf(about[r]) \subseteq rows)
      BY <1>3, <2>2
    <3>2. CASE Storing(about[r])
      BY <1>0, <1>4, <3>1, <3>2 DEF MindTyped, Excused
    <3>3. CASE ~Storing(about[r])
      BY <1>2, <1>3, <3>1, <3>3 DEF Excused, Torn, Storing, PartsOf
    <3> QED
      BY <3>2, <3>3
  <2>5. HandsFit(r)' /\ RequestInv(r)'
    BY <1>1, <1>2, <1>3, <1>4, <2>1, <2>4, GetsEmail DEF Fetching
  <2> QED
    BY <1>1, <1>2, <2>3, <2>5, QuietStep
<1>5. CASE Proceed(r, "refused") /\ UNCHANGED <<atts, todo, why>>
  <2>1. step'[r] = "refused" /\ OnlyServes(r) /\ MindTyped' /\ HandsTyped'
    BY <1>0, <1>1, <1>2, <1>5, ProceedTyped DEF MindTyped, HandsTyped, Over, OnlyServes, Untouched
  <2>2. HandsFit(r)' /\ RequestInv(r)'
    BY <1>0, <1>1, <1>2, <1>3, <1>5, <2>1, RefusedKeepsNothing
  <2> QED
    BY <1>1, <1>2, <2>1, <2>2, QuietStep
<1>6. CASE /\ kind[r] # "get" /\ HaveEmail(r, {})
           /\ why' = [why EXCEPT ![r] = "unread"]
  <2>1. OnlyServes(r) /\ MindTyped' /\ HandsTyped' /\ why'[r] = "unread"
    BY <1>0, <1>1, <1>2, <1>6, HaveEmailTyped DEF MindTyped, HandsTyped, OnlyServes, Untouched
  <2>2. WantsAll(r) => Excused(r)'
    BY <1>2, <1>6, <2>1 DEF WantsAll, Excused
  <2>3. HandsFit(r)' /\ RequestInv(r)'
    BY <1>1, <1>2, <1>3, <1>6, <2>1, <2>2, GetsEmail DEF Fetching
  <2> QED
    BY <1>1, <1>2, <2>1, <2>3, QuietStep
<1> QED
  BY <1>1, <1>4, <1>5, <1>6

LEMMA DownloadStep ==
    ASSUME HInv, NEW r \in Requests, Download(r)
    PROVE  HInv'
<1> USE DEF Requests
<1>0. HandlerTypeOK /\ MindTyped /\ HandsTyped /\ HandsFit(r) /\ RequestInv(r)
  BY TypeParts DEF HInv
<1>1. PICK p \in todo[r] :
          /\ todo' = [todo EXCEPT ![r] = @ \ {p}]
          /\ got' = [got EXCEPT ![r] = @ \cup {p}] \/ UNCHANGED got
  BY DEF Download
<1>2. step[r] = "compose" /\ UNCHANGED <<stores, call, step, asked, atts, mail, why>>
  BY DEF Download
<1>3. /\ p \in Parts /\ p \in atts[r]
      /\ HandsTyped' /\ todo'[r] \subseteq todo[r] /\ got'[r] \subseteq got[r] \cup {p}
      /\ \A q \in Requests \ {r} : todo'[q] = todo[q] /\ got'[q] = got[q]
  <2>1. p \in Parts /\ p \in atts[r]
    BY <1>0, <1>1 DEF HandsTyped, HandsFit
  <2> QED
    BY <1>0, <1>1, <1>2, <2>1 DEF HandsTyped
<1>4. /\ MindTyped' /\ OnlyServes(r)
      /\ sent' \subseteq Requests /\ sentRow' \in sent' \cup {None}
  BY <1>0, <1>2, <1>3, TypeParts DEF MindTyped, asked, call, stack, mail, OnlyServes, Untouched
<1>5. HandsFit(r)'
  BY <1>0, <1>2, <1>3 DEF HandsFit, asked, call, stack, PartsOf
<1>6. NamesItsMessage(r)' /\ HandsInOrder(r)'
  BY <1>0, <1>2 DEF RequestInv, NamesItsMessage, HandsInOrder, Fetching, Before, asked
<1>7. ASSUME acct'
      PROVE  HeldIsStored(r)' /\ GapsExcused(r)' /\ InformedFindsAll(r)'
  BY <1>0, <1>2, <1>7 DEF RequestInv, HeldIsStored, GapsExcused, InformedFindsAll, HasEmail,
     WantsAll, Excused, Torn, Storing, PartsOf, asked, stores, call, stack
<1> QED
  BY <1>2, <1>3, <1>4, <1>5, <1>6, <1>7, QuietStep DEF RequestInv

\* A mail goes on to be sent, stored and answered.
LEMMA SendStep ==
    ASSUME HInv, NEW r \in Requests, Compose(r) \/ SendEmail(r) \/ StoreSentEmail(r)
    PROVE  HInv'
<1> USE DEF Requests
<1>0. HandlerTypeOK /\ MindTyped /\ HandsTyped /\ HandsFit(r) /\ RequestInv(r)
  BY TypeParts DEF HInv
<1>1. /\ UNCHANGED <<stores, call, asked, atts, todo, got, why>>
      /\ \/ step[r] \in {"compose", "smtp"} /\ Proceed(r, "refused")
         \/ step[r] = "compose" /\ AllDownloaded(r) /\ Proceed(r, "smtp")
         \/ step[r] = "smtp" /\ r \in sent' /\ Proceed(r, "store")
         \/ step[r] = "store" /\ Proceed(r, "answered")
  BY DEF Compose, SendEmail, StoreSentEmail, Refuse, AfterBuild
<1>2. /\ sent \subseteq sent' /\ sent' \subseteq Requests
      /\ sentRow' = sentRow \/ (step[r] = "store" /\ sentRow' = r)
  BY <1>0, TypeParts DEF Compose, SendEmail, StoreSentEmail, mail
<1>3. sentRow' \in sent' \cup {None}
  BY <1>0, <1>2, TypeParts DEF RequestInv, HandsInOrder
<1>4. MindTyped' /\ HandsTyped' /\ OnlyServes(r)
  BY <1>0, <1>1, <1>2, ProceedTyped
     DEF MindTyped, HandsTyped, asked, call, stack, OnlyServes, Untouched, Steps, Over
<1>5. CASE Proceed(r, "refused")
  <2>1. HandsFit(r)' /\ RequestInv(r)'
    <3>1. step[r] \in {"compose", "smtp", "store"} /\ step'[r] = "refused"
      BY <1>0, <1>1, <1>5, ProceedTyped DEF Over
    <3>2. pc'[r] = "idle" /\ kind'[r] = kind[r] /\ about'[r] = about[r] /\ informed' = informed
          /\ (acct' => acct /\ emails \subseteq emails' /\ rows \subseteq rows')
      BY <1>0, <1>1, <3>1 DEF HandsFit, asked, call, stack, stores
    <3> QED
      BY <1>0, <1>1, <3>1, <3>2, RefusedKeepsNothing
  <2> QED
    BY <1>1, <1>2, <1>3, <1>4, <2>1, QuietStep
<1>6. CASE \/ step[r] = "compose" /\ AllDownloaded(r) /\ Proceed(r, "smtp")
           \/ step[r] = "smtp" /\ r \in sent' /\ Proceed(r, "store")
           \/ step[r] = "store" /\ Proceed(r, "answered")
  <2>1. /\ step[r] \in {"compose", "smtp", "store"} /\ step'[r] \in {"smtp", "store", "answered"}
        /\ step[r] = "compose" => AllDownloaded(r)
        /\ step'[r] = "store" => r \in sent'
    BY <1>0, <1>6, ProceedTyped DEF Steps, Over
  <2>2. HandsFit(r)'
    BY <1>0, <1>1, <2>1 DEF HandsFit, asked, call, stack, PartsOf
  <2>3. NamesItsMessage(r)' /\ HandsInOrder(r)'
    BY <1>0, <1>1, <2>1 DEF RequestInv, NamesItsMessage, HandsInOrder, AllDownloaded, Fetching,
       Before, asked
  <2>4. ASSUME acct'
        PROVE  HeldIsStored(r)' /\ GapsExcused(r)' /\ InformedFindsAll(r)'
    BY <1>0, <1>1, <2>1, <2>4 DEF RequestInv, HeldIsStored, GapsExcused, InformedFindsAll,
       HasEmail, WantsAll, Excused, Torn, Storing, PartsOf, asked, stores, call, stack
  <2> QED
    BY <1>1, <1>2, <1>3, <1>4, <2>2, <2>3, <2>4, QuietStep DEF RequestInv
<1> QED
  BY <1>1, <1>5, <1>6

\* With the account go the rows that requests have read.
LEMMA RemoveAccountStep == HInv /\ TypeOK' /\ RemoveAccount => HInv'
<1> SUFFICES ASSUME HInv, TypeOK', RemoveAccount
             PROVE  HInv'
  OBVIOUS
<1> USE DEF HInv
<1>1. /\ UNCHANGED <<step, asked, atts, todo, got, sent, why, pc, msg>>
      /\ sentRow' = None /\ ~acct'
  BY DEF RemoveAccount, DeleteAccount, stack
<1>2. HandlerTypeOK'
  BY <1>1 DEF HandlerTypeOK, asked, PartsOf
<1>3. \A r \in Requests : RequestInv(r)'
  BY <1>1 DEF RequestInv, NamesItsMessage, HandsInOrder, asked
<1> QED
  BY <1>2, <1>3

\* After a crash the requests that are over keep what they had.
LEMMA CrashStep == HInv /\ [Next]_vars /\ TypeOK' /\ CrashHandlers => HInv'
<1> SUFFICES ASSUME HInv, [Next]_vars, TypeOK', CrashHandlers
             PROVE  HInv'
  OBVIOUS
<1> USE DEF Requests
<1>0. HandlerTypeOK /\ MindTyped /\ HandsTyped /\ TypeOK /\ StackOK
  BY TypeParts DEF HInv, HandlerTypeOK, TypeOK
<1>1. /\ UNCHANGED <<kind, about, informed, atts, todo, got, sent, sentRow, why>>
      /\ UNCHANGED <<acct, emails, rows>>
      /\ step' = [r \in Requests |-> IF step[r] \in Over THEN step[r] ELSE "lost"]
      /\ \A r \in Requests : pc'[r] = "idle"
  BY <1>0 DEF CrashHandlers, Crash, asked, mail, stores, call, stack
<1>2. ASSUME NEW q \in Requests
      PROVE  HandsFit(q)' /\ RequestInv(q)'
  <2>1. CASE step[q] \in Over
    <3>1. pc[q] = "idle" /\ msg[q] = None
      BY <1>0, <2>1, TypeParts DEF HandsFit, Over, TypeOK, CallOK
    <3>2. msg'[q] = None
      BY <1>1 DEF TypeOK, CallOK
    <3>3. Untouched(q)
      BY <1>1, <2>1, <3>1, <3>2 DEF Untouched
    <3> QED
      BY <1>0, <3>3, Bystander
  <2>2. CASE step[q] \notin Over
    <3>1. step'[q] = "lost" /\ step[q] # "idle" /\ pc'[q] = "idle"
      BY <1>1, <2>2 DEF Over
    <3> QED
      BY <1>0, <1>1, <3>1, RefusedKeepsNothing
  <2> QED
    BY <2>1, <2>2
<1>3. MindTyped' /\ HandsTyped' /\ sent' \subseteq Requests /\ sentRow' \in sent' \cup {None}
  BY <1>0, <1>1, TypeParts DEF MindTyped, HandsTyped, Over, Steps
<1>4. HandlerTypeOK'
  BY <1>2, <1>3 DEF HandlerTypeOK, HandsTyped, MindTyped, HandsFit
<1> QED
  BY <1>2, <1>4 DEF HInv

\* A step that changes nothing.
LEMMA StutterStep == HInv /\ UNCHANGED handlerVars => HInv'
<1> SUFFICES ASSUME HInv, UNCHANGED handlerVars
             PROVE  HInv'
  OBVIOUS
<1> USE DEF handlerVars, stores, call, stack, history, asked, mail
<1>1. TypeOK'
  BY TypeStep DEF HInv, HandlerTypeOK, vars
<1>2. HandlerTypeOK'
  BY <1>1 DEF HInv, HandlerTypeOK, PartsOf
<1>3. \A r \in Requests : RequestInv(r)'
  BY DEF HInv, RequestInv, NamesItsMessage, HandsInOrder, HeldIsStored, GapsExcused,
     InformedFindsAll, HasEmail, WantsAll, Excused, Torn, Storing, PartsOf
<1> QED
  BY <1>2, <1>3 DEF HInv

------------------------------------------------------------------------------
(* The invariant of Ingest and of its callers.                               *)

Joint == HInv /\ IInv /\ CleanupHasError

LEMMA JointInit == HandlerInit => Init /\ Joint
<1> SUFFICES ASSUME HandlerInit
             PROVE  Init /\ Joint
  OBVIOUS
<1>1. Init /\ IInv /\ CleanupHasError
  BY IInvInit DEF HandlerInit, Init, CleanupHasError
<1>2. HandlerTypeOK
  BY <1>1 DEF HandlerInit, Init, IInv, HandlerTypeOK, Over, Requests
<1>3. \A r \in Requests : RequestInv(r)
  BY DEF HandlerInit, RequestInv, NamesItsMessage, HandsInOrder, HeldIsStored, GapsExcused,
     InformedFindsAll, HasEmail, Fetching
<1> QED
  BY <1>1, <1>2, <1>3 DEF Joint, HInv

LEMMA JointStep == Joint /\ [HandlerNext]_handlerVars => [Next]_vars /\ Joint'
<1> SUFFICES ASSUME Joint, [HandlerNext]_handlerVars
             PROVE  [Next]_vars /\ Joint'
  OBVIOUS
<1>1. HInv /\ IInv /\ CleanupHasError /\ TypeOK /\ StackOK
  BY DEF Joint, IInv, TypeOK
<1>2. [Next]_vars
  BY <1>1, StepIsIngest
<1>3. IInv' /\ CleanupHasError' /\ TypeOK'
  BY <1>1, <1>2, IInvStep, ErrorStep, TypeStep
<1>4. ASSUME NEW r \in Requests, NEW k \in Kinds, NEW m \in Messages, Receive(r, k, m)
      PROVE  HInv'
  BY <1>1, <1>4, ReceiveStep
<1>5. ASSUME NEW r \in Requests, Handle(r)
      PROVE  HInv'
  <2>1. CASE CheckAccount(r) \/ Reread(r) \/ LoadAttachments(r) \/ Download(r)
    BY <1>1, <2>1, CheckAccountStep, RereadStep, LoadAttachmentsStep, DownloadStep
  <2>2. CASE Lookup(r) \/ IngestGoesOn(r) \/ IngestReturns(r)
    BY <1>1, <1>2, <1>3, <2>2, LookupStep, IngestGoesOnStep, IngestReturnsStep
  <2>3. CASE Compose(r) \/ SendEmail(r) \/ StoreSentEmail(r)
    BY <1>1, <2>3, SendStep
  <2> QED
    BY <1>5, <2>1, <2>2, <2>3 DEF Handle
<1>6. ASSUME RemoveAccount \/ CrashHandlers \/ UNCHANGED handlerVars
      PROVE  HInv'
  BY <1>1, <1>2, <1>3, <1>6, RemoveAccountStep, CrashStep, StutterStep
<1>7. HInv'
  BY <1>4, <1>5, <1>6 DEF HandlerNext
<1> QED
  BY <1>2, <1>3, <1>7 DEF Joint

LEMMA JointHolds == HandlerSpec => []Joint
BY JointInit, JointStep, PTL DEF HandlerSpec

\* The handlers of the API call IngestEmail and change its stores in no other
\* way, so that all that is proved of Ingest for any callers holds of requests
\* (message_handler.go:239-292, 798-848).
THEOREM RequestsCallIngest == HandlerSpec => Spec
<1>1. HandlerInit => Init
  BY JointInit
<1>2. Joint /\ [HandlerNext]_handlerVars => [Next]_vars
  BY JointStep
<1> QED
  BY <1>1, <1>2, JointHolds, PTL DEF HandlerSpec, Spec

\* The variables of the handlers have their types, what a request has in hand
\* belongs to the message it names, and the mail in folder "Sent" is one that
\* was sent (message_handler.go:587-641).
THEOREM HandlerTypeCorrect == HandlerSpec => []HandlerTypeOK
<1>1. Joint => HandlerTypeOK
  BY DEF Joint, HInv
<1> QED
  BY <1>1, JointHolds, PTL

\* A GET is answered and a forward sent without an attachment for one of three
\* reasons only: the ingestion of the message died half-way, the rows were read
\* too early, or (forwards) they were not read (message_handler.go:239-375, 798-889).
THEOREM OmissionsAreExplained == HandlerSpec => []OmissionsExplained
<1>1. Joint => OmissionsExplained
  <2> SUFFICES ASSUME HInv, acct, NEW r \in Requests, step[r] \in {"answered", "store"},
                      WantsAll(r), ~Whole(r)
               PROVE  Excused(r)
    BY DEF Joint, OmissionsExplained, Excused
  <2>1. RequestInv(r) /\ HasEmail(r)
    BY DEF HInv, HasEmail, WantsAll
  <2>2. atts[r] # PartsOf(about[r])
    BY <2>1 DEF Whole, Carried, RequestInv, HandsInOrder
  <2> QED
    BY <2>1, <2>2 DEF RequestInv, GapsExcused
<1> QED
  BY <1>1, JointHolds, PTL

\* A request made after a whole answer finds the message whole, and fetches
\* nothing (message_handler.go:239-292, 798-848).
THEOREM WholeAnswersStay == HandlerSpec => []WholeStaysWhole
<1>1. Joint => WholeStaysWhole
  <2> SUFFICES ASSUME HInv, acct, NEW r \in informed
               PROVE  /\ pc[r] = "idle"
                      /\ step[r] = "answered" /\ WantsAll(r) /\ why[r] # "unread" => Whole(r)
    BY DEF Joint, WholeStaysWhole
  <2>1. r \in Requests /\ RequestInv(r) /\ InformedFindsAll(r) /\ HandsInOrder(r)
    BY DEF HInv, HandlerTypeOK, RequestInv
  <2>2. pc[r] = "idle"
    BY <2>1 DEF HInv, HandlerTypeOK, InformedFindsAll
  <2>3. step[r] = "answered" /\ WantsAll(r) /\ why[r] # "unread" => Whole(r)
    BY <2>1 DEF InformedFindsAll, HandsInOrder, HasEmail, WantsAll, Whole, Carried
  <2> QED
    BY <2>2, <2>3
<1> QED
  BY <1>1, JointHolds, PTL
==============================================================================
