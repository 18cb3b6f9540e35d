------------------------- MODULE WebhookWorkerProofs -------------------------
(***************************************************************************)
(* Proofs about WebhookWorker, for any items, webhooks, batch size, number  *)
(* of retries, backoff schedule and bound on the disruptions.               *)
(***************************************************************************)
EXTENDS WebhookWorker, TLAPS

\* What the worker holds on to of the batch it has read.
Underway(i) == cur = i /\ pc \in InDelivery
Held(i) == i \in batch \/ Underway(i)

\* No verdict has been passed on an item the worker holds.
HeldIsOpen == \A i \in Items : Held(i) => status[i] \in {"pending", "gone"}

\* The number of attempts read with the batch is that of the row, until the
\* delivery of the item writes a new one.
SnapIsCurrent ==
    \A i \in Items : i \in batch \/ (cur = i /\ pc \in InDelivery \ {"fail"})
                         => snap[i] = attempts[i]

\* An item that may still be posted is due.
HeldIsDue ==
    \A i \in Items : i \in batch \/ (cur = i /\ pc \in {"lookup", "send"}) => wait[i] = 0

TakenOnce == pc \in InDelivery => cur \notin batch

AnsweredIsAcked == pc = "answered" => cur \in acked

HooklessIsGone == \A i \in Items : HookOf[i] \notin hooks => status[i] = "gone"

CancelIsCounted == cancelled => disruptions > 0

\* The last post of item i is accounted for by its attempts or a disruption, or
\* the item may not be posted again.  Otherwise that post is one too many.
Counted(i) ==
    \/ status[i] \in {"none", "pending"} /\ (cancelled \/ ~(cur = i /\ pc \in {"answered", "refused", "fail"}))
    \/ i \in batch
    \/ cur = i /\ pc \in {"lookup", "send"}

PostsAreCounted ==
    \A i \in Items : /\ posts[i] <= attempts[i] + disruptions + 1
                     /\ Counted(i) => posts[i] <= attempts[i] + disruptions

\* Every attempt of an item whose queries do not fail is a post, and it comes to
\* markFailed after its last one, or because its webhook is gone, or because of
\* Stop, which cancels the verdict as well.
AttemptsArePosts ==
    \A i \in Items \ troubled :
        /\ posts[i] >= attempts[i]
        /\ cur = i /\ pc = "refused" => posts[i] > attempts[i]
        /\ cur = i /\ pc = "fail" => status[i] = "gone" \/ posts[i] >= MaxRetries \/ cancelled

\* The inductive invariant.
IInv ==
    /\ TypeOK
    /\ HeldIsOpen
    /\ SnapIsCurrent
    /\ HeldIsDue
    /\ TakenOnce
    /\ AnsweredIsAcked
    /\ HooklessIsGone
    /\ CancelIsCounted
    /\ PostsAreCounted
    /\ AttemptsArePosts
    /\ FailedIsJustified

------------------------------------------------------------------------------
(* Type correctness.                                                         *)

\* No item is the absent one.
LEMMA NoItemIsNoItem == NoItem \notin Items
BY WorkerAssumption DEF NoItem

\* The worker's own steps between two labels of a delivery keep it well typed.
LEMMA GotoTyped ==
    ASSUME TypeOK, NEW l \in Labels, Goto(l), l \in InDelivery => cur \in Items
    PROVE  /\ pc' \in Labels
           /\ batch' \subseteq Items
           /\ cur' \in Items \cup {NoItem}
           /\ snap' \in [Items -> 0 .. MaxRetries - 1]
           /\ cancelled' \in BOOLEAN
           /\ (pc \in InDelivery => cur \in Items)'
BY DEF TypeOK, Goto

\* An update of the status of the item being delivered keeps the column typed.
LEMMA SetStatusTyped ==
    ASSUME TypeOK, NEW s \in Statuses, SetStatus(s)
    PROVE  status' \in [Items -> Statuses]
BY DEF TypeOK, SetStatus, Statuses

\* UpdateWebhookQueueStatus stores a number of attempts below MaxRetries and a
\* slot of the backoff schedule.
LEMMA UpdateTyped ==
    ASSUME TypeOK, cur \in Items, ~Exhausted(NewAttempts(snap[cur])), UpdateForRetry
    PROVE  /\ status' \in [Items -> Statuses]
           /\ attempts' \in [Items -> 0 .. MaxRetries - 1]
           /\ wait' \in [Items -> 0 .. Slots]
<1>1. snap[cur] \in 0 .. MaxRetries - 1
  BY DEF TypeOK
<1>2. NewAttempts(snap[cur]) \in 0 .. MaxRetries - 1
  BY <1>1, WorkerAssumption DEF Exhausted, NewAttempts
<1>3. BackoffSlot(snap[cur]) \in 0 .. Slots
  BY <1>1, WorkerAssumption DEF BackoffSlot
<1>4. CASE status[cur] = "gone"
  BY <1>4 DEF UpdateForRetry, TypeOK
<1>5. CASE status[cur] # "gone"
  <2>1. status' \in [Items -> Statuses]
    BY <1>5, SetStatusTyped DEF UpdateForRetry, Statuses
  <2> QED
    BY <1>2, <1>3, <1>5, <2>1 DEF UpdateForRetry, TypeOK
<1> QED
  BY <1>4, <1>5

\* Every action leaves a well typed state well typed.
LEMMA TypeStep == TypeOK /\ [Next]_vars => TypeOK'
<1> SUFFICES ASSUME TypeOK, [Next]_vars
             PROVE  TypeOK'
  OBVIOUS
<1> USE WorkerAssumption DEF TypeOK, Labels, InDelivery, table, worker, history
<1>1. ASSUME NEW i \in Items, Enqueue(i)
      PROVE  TypeOK'
  BY <1>1 DEF Enqueue, Statuses
<1>2. ASSUME NEW i \in Items, BecomeDue(i)
      PROVE  TypeOK'
  BY <1>2 DEF BecomeDue
<1>3. ASSUME NEW h \in Hooks, DeleteHook(h)
      PROVE  TypeOK'
  BY <1>3 DEF DeleteHook, Statuses
<1>4. ASSUME Poll
      PROVE  TypeOK'
  BY <1>4 DEF Poll, OldestDue, Due
<1>5. ASSUME Take
      PROVE  TypeOK'
  BY <1>5 DEF Take
<1>6. ASSUME QueryFails
      PROVE  /\ disruptions' \in 0 .. MaxDisruptions
             /\ troubled' = troubled \cup {cur}
             /\ posts' = posts /\ acked' = acked
  BY <1>6 DEF QueryFails
<1>7. ASSUME Lookup
      PROVE  TypeOK'
  BY <1>6, <1>7, GotoTyped DEF Lookup
<1>8. ASSUME SendWebhook
      PROVE  TypeOK'
  <2>1. CASE cancelled
    BY <1>8, <2>1, GotoTyped DEF SendWebhook
  <2>2. CASE ~cancelled
    <3>1. cur \in Items
      BY <1>8 DEF SendWebhook
    <3>2. Goto("answered") \/ Goto("refused")
      BY <1>8, <2>2 DEF SendWebhook
    <3>3. posts' = [posts EXCEPT ![cur] = @ + 1]
      BY <1>8, <2>2 DEF SendWebhook
    <3>4. posts' \in [Items -> Nat]
      BY <3>1, <3>3
    <3>5. acked' \subseteq Items
      BY <1>8, <2>2, <3>1 DEF SendWebhook
    <3> QED
      BY <1>8, <2>2, <3>2, <3>4, <3>5, GotoTyped DEF SendWebhook
  <2> QED
    BY <2>1, <2>2
<1>9. ASSUME MarkDelivered
      PROVE  TypeOK'
  BY <1>6, <1>9, GotoTyped, SetStatusTyped DEF MarkDelivered, Statuses
<1>10. ASSUME ScheduleRetry
       PROVE  TypeOK'
  BY <1>6, <1>10, GotoTyped, UpdateTyped DEF ScheduleRetry
<1>11. ASSUME MarkFailed
       PROVE  TypeOK'
  BY <1>6, <1>11, GotoTyped, SetStatusTyped DEF MarkFailed, VerdictCancelled, Statuses
<1>12. ASSUME Exit
       PROVE  TypeOK'
  BY <1>12 DEF Exit, Down
<1>13. ASSUME Stop
       PROVE  TypeOK'
  BY <1>13 DEF Stop
<1>14. ASSUME Crash
       PROVE  TypeOK'
  <2>1. disruptions' \in 0 .. MaxDisruptions
    BY <1>14 DEF Crash
  <2> QED
    BY <1>14, <2>1 DEF Crash, Down
<1>15. ASSUME Restart
       PROVE  TypeOK'
  BY <1>15, GotoTyped DEF Restart
<1>16. CASE UNCHANGED vars
  BY <1>16 DEF vars
<1> QED
  BY <1>1, <1>2, <1>3, <1>4, <1>5, <1>7, <1>8, <1>9, <1>10, <1>11, <1>12,
     <1>13, <1>14, <1>15, <1>16 DEF Next, WorkerStep

\* The initial states are well typed.
LEMMA WorkerTypeInit == Init => TypeOK
<1> SUFFICES ASSUME Init
             PROVE  TypeOK
  OBVIOUS
<1>1. /\ attempts \in [Items -> 0 .. MaxRetries - 1]
      /\ snap \in [Items -> 0 .. MaxRetries - 1]
      /\ wait \in [Items -> 0 .. Slots]
      /\ posts \in [Items -> Nat]
  BY WorkerAssumption DEF Init
<1>2. /\ status \in [Items -> Statuses]
      /\ pc \in Labels \ InDelivery
      /\ disruptions \in 0 .. MaxDisruptions
  BY WorkerAssumption DEF Init, Statuses, Labels, InDelivery
<1> QED
  BY <1>1, <1>2 DEF Init, TypeOK

\* Every state of the worker is well typed; in particular the attempts counted
\* for an item stay below MaxRetries.
THEOREM WorkerTypeCorrect == Spec => []TypeOK
BY WorkerTypeInit, TypeStep, PTL DEF Spec

------------------------------------------------------------------------------
(* The inductive invariant.  A post is taken before it is counted: until     *)
(* UpdateForRetry or a disruption counts it, the item is neither due again    *)
(* nor in the batch, so no second post can be uncounted (PostsAreCounted).    *)
(* TakenOnce makes an update of cur leave the rest of the batch as it was.    *)

\* Every action preserves the inductive invariant.
LEMMA IInvStep == IInv /\ [Next]_vars => IInv'
<1> SUFFICES ASSUME IInv, [Next]_vars
             PROVE  IInv'
  OBVIOUS
<1>1. TypeOK /\ TypeOK'
  BY TypeStep DEF IInv
<1> USE <1>1, WorkerAssumption, NoItemIsNoItem
    DEF IInv, TypeOK, Statuses, Labels, InDelivery, table, worker, history
<1>2. ASSUME NEW i \in Items, Enqueue(i)
      PROVE  IInv'
  <2>1. /\ SnapIsCurrent'
        /\ HeldIsDue'
        /\ TakenOnce'
        /\ AnsweredIsAcked'
        /\ CancelIsCounted'
    BY <1>2 DEF Enqueue, SnapIsCurrent, HeldIsDue, TakenOnce, AnsweredIsAcked,
       CancelIsCounted
  <2>2. HeldIsOpen'
    BY <1>2 DEF Enqueue, HeldIsOpen, Held, Underway
  <2>3. HooklessIsGone'
    BY <1>2 DEF Enqueue, HooklessIsGone
  <2>4. PostsAreCounted'
    BY <1>2 DEF Enqueue, PostsAreCounted, Counted, HeldIsOpen, Held, Underway
  <2>5. AttemptsArePosts'
    BY <1>2 DEF Enqueue, AttemptsArePosts
  <2>6. FailedIsJustified'
    BY <1>2 DEF Enqueue, FailedIsJustified
  <2> QED
    BY <2>1, <2>2, <2>3, <2>4, <2>5, <2>6
<1>3. ASSUME NEW i \in Items, BecomeDue(i)
      PROVE  IInv'
  <2>1. /\ HeldIsOpen'
        /\ SnapIsCurrent'
        /\ TakenOnce'
        /\ AnsweredIsAcked'
        /\ HooklessIsGone'
        /\ CancelIsCounted'
        /\ PostsAreCounted'
        /\ AttemptsArePosts'
        /\ FailedIsJustified'
    BY <1>3 DEF BecomeDue, HeldIsOpen, Held, Underway, SnapIsCurrent,
       TakenOnce, AnsweredIsAcked, HooklessIsGone, CancelIsCounted,
       PostsAreCounted, Counted, AttemptsArePosts, FailedIsJustified
  <2>2. HeldIsDue'
    BY <1>3 DEF BecomeDue, HeldIsDue
  <2> QED
    BY <2>1, <2>2
<1>4. ASSUME NEW h \in Hooks, DeleteHook(h)
      PROVE  IInv'
  <2>1. /\ SnapIsCurrent'
        /\ HeldIsDue'
        /\ TakenOnce'
        /\ AnsweredIsAcked'
        /\ CancelIsCounted'
    BY <1>4 DEF DeleteHook, SnapIsCurrent, HeldIsDue, TakenOnce,
       AnsweredIsAcked, CancelIsCounted
  <2>2. HeldIsOpen'
    BY <1>4 DEF DeleteHook, HeldIsOpen, Held, Underway
  <2>3. HooklessIsGone'
    BY <1>4 DEF DeleteHook, HooklessIsGone
  <2>4. PostsAreCounted'
    BY <1>4 DEF DeleteHook, PostsAreCounted, Counted
  <2>5. AttemptsArePosts'
    BY <1>4 DEF DeleteHook, AttemptsArePosts
  <2>6. FailedIsJustified'
    BY <1>4 DEF DeleteHook, FailedIsJustified
  <2> QED
    BY <2>1, <2>2, <2>3, <2>4, <2>5, <2>6
<1>5. ASSUME Poll
      PROVE  IInv'
  <2>1. /\ HooklessIsGone'
        /\ CancelIsCounted'
        /\ FailedIsJustified'
    BY <1>5 DEF Poll, OldestDue, Due, HooklessIsGone, CancelIsCounted,
       FailedIsJustified
  <2>2. HeldIsOpen'
    BY <1>5 DEF Poll, OldestDue, Due, HeldIsOpen, Held, Underway
  <2>3. SnapIsCurrent'
    BY <1>5 DEF Poll, OldestDue, Due, SnapIsCurrent
  <2>4. HeldIsDue'
    BY <1>5 DEF Poll, OldestDue, Due, HeldIsDue
  <2>5. TakenOnce'
    BY <1>5 DEF Poll, OldestDue, Due, TakenOnce
  <2>6. AnsweredIsAcked'
    BY <1>5 DEF Poll, OldestDue, Due, AnsweredIsAcked
  <2>7. PostsAreCounted'
    BY <1>5 DEF Poll, OldestDue, Due, PostsAreCounted, Counted, HeldIsOpen,
       Held, Underway
  <2>8. AttemptsArePosts'
    BY <1>5 DEF Poll, OldestDue, Due, AttemptsArePosts
  <2> QED
    BY <2>1, <2>2, <2>3, <2>4, <2>5, <2>6, <2>7, <2>8
<1>6. ASSUME Take
      PROVE  IInv'
  <2>1. /\ TakenOnce'
        /\ AnsweredIsAcked'
        /\ HooklessIsGone'
        /\ CancelIsCounted'
        /\ FailedIsJustified'
    BY <1>6 DEF Take, TakenOnce, AnsweredIsAcked, HooklessIsGone,
       CancelIsCounted, FailedIsJustified
  <2>2. HeldIsOpen'
    BY <1>6 DEF Take, HeldIsOpen, Held, Underway
  <2>3. SnapIsCurrent'
    BY <1>6 DEF Take, SnapIsCurrent
  <2>4. HeldIsDue'
    BY <1>6 DEF Take, HeldIsDue
  <2>5. PostsAreCounted'
    BY <1>6 DEF Take, PostsAreCounted, Counted
  <2>6. AttemptsArePosts'
    BY <1>6 DEF Take, AttemptsArePosts
  <2> QED
    BY <2>1, <2>2, <2>3, <2>4, <2>5, <2>6
<1>7. ASSUME Lookup
      PROVE  IInv'
  <2>1. /\ HeldIsOpen'
        /\ SnapIsCurrent'
        /\ HeldIsDue'
        /\ TakenOnce'
        /\ AnsweredIsAcked'
        /\ HooklessIsGone'
        /\ CancelIsCounted'
        /\ FailedIsJustified'
    BY <1>7 DEF Lookup, Goto, QueryFails, HeldIsOpen, Held, Underway,
       SnapIsCurrent, HeldIsDue, TakenOnce, AnsweredIsAcked, HooklessIsGone,
       CancelIsCounted, FailedIsJustified
  <2>2. PostsAreCounted'
    BY <1>7 DEF Lookup, Goto, QueryFails, PostsAreCounted, Counted
  <2>3. AttemptsArePosts'
    BY <1>7 DEF Lookup, Goto, QueryFails, AttemptsArePosts, HooklessIsGone
  <2> QED
    BY <2>1, <2>2, <2>3
<1>8. ASSUME SendWebhook
      PROVE  IInv'
  <2>1. /\ HeldIsOpen'
        /\ SnapIsCurrent'
        /\ HeldIsDue'
        /\ TakenOnce'
        /\ HooklessIsGone'
        /\ CancelIsCounted'
    BY <1>8 DEF SendWebhook, Goto, HeldIsOpen, Held, Underway, SnapIsCurrent,
       HeldIsDue, TakenOnce, HooklessIsGone, CancelIsCounted
  <2>2. AnsweredIsAcked'
    BY <1>8 DEF SendWebhook, Goto, AnsweredIsAcked
  <2>3. PostsAreCounted'
    BY <1>8 DEF SendWebhook, Goto, PostsAreCounted, Counted, TakenOnce
  <2>4. AttemptsArePosts'
    BY <1>8 DEF SendWebhook, Goto, AttemptsArePosts
  <2>5. FailedIsJustified'
    BY <1>8 DEF SendWebhook, Goto, FailedIsJustified
  <2> QED
    BY <2>1, <2>2, <2>3, <2>4, <2>5
<1>9. ASSUME MarkDelivered
      PROVE  IInv'
  <2>1. /\ SnapIsCurrent'
        /\ HeldIsDue'
        /\ TakenOnce'
        /\ AnsweredIsAcked'
        /\ HooklessIsGone'
        /\ CancelIsCounted'
    BY <1>9 DEF MarkDelivered, Goto, QueryFails, SetStatus, SnapIsCurrent,
       HeldIsDue, TakenOnce, AnsweredIsAcked, HooklessIsGone, CancelIsCounted
  <2>2. HeldIsOpen'
    BY <1>9 DEF MarkDelivered, Goto, QueryFails, SetStatus, HeldIsOpen, Held,
       Underway, TakenOnce
  <2>3. PostsAreCounted'
    BY <1>9 DEF MarkDelivered, Goto, QueryFails, SetStatus, PostsAreCounted,
       Counted
  <2>4. AttemptsArePosts'
    BY <1>9 DEF MarkDelivered, Goto, QueryFails, SetStatus, AttemptsArePosts
  <2>5. FailedIsJustified'
    BY <1>9 DEF MarkDelivered, Goto, QueryFails, SetStatus, FailedIsJustified
  <2> QED
    BY <2>1, <2>2, <2>3, <2>4, <2>5
<1>10. ASSUME ScheduleRetry
      PROVE  IInv'
  <2>1. /\ TakenOnce'
        /\ AnsweredIsAcked'
        /\ HooklessIsGone'
        /\ CancelIsCounted'
    BY <1>10 DEF ScheduleRetry, Goto, QueryFails, UpdateForRetry, SetStatus,
       NewAttempts, Exhausted, TakenOnce, AnsweredIsAcked, HooklessIsGone,
       CancelIsCounted
  <2>2. HeldIsOpen'
    BY <1>10 DEF ScheduleRetry, Goto, QueryFails, UpdateForRetry, SetStatus,
       NewAttempts, Exhausted, HeldIsOpen, Held, Underway, TakenOnce
  <2>3. SnapIsCurrent'
    BY <1>10 DEF ScheduleRetry, Goto, QueryFails, UpdateForRetry, SetStatus,
       NewAttempts, Exhausted, SnapIsCurrent, TakenOnce
  <2>4. HeldIsDue'
    BY <1>10 DEF ScheduleRetry, Goto, QueryFails, UpdateForRetry, SetStatus,
       NewAttempts, Exhausted, HeldIsDue, TakenOnce
  <2>5. PostsAreCounted'
    BY <1>10 DEF ScheduleRetry, Goto, QueryFails, UpdateForRetry, SetStatus,
       NewAttempts, Exhausted, PostsAreCounted, Counted, SnapIsCurrent
  <2>6. AttemptsArePosts'
    BY <1>10 DEF ScheduleRetry, Goto, QueryFails, UpdateForRetry, SetStatus,
       NewAttempts, Exhausted, AttemptsArePosts, SnapIsCurrent,
       CancelIsCounted
  <2>7. FailedIsJustified'
    BY <1>10 DEF ScheduleRetry, Goto, QueryFails, UpdateForRetry, SetStatus,
       NewAttempts, Exhausted, FailedIsJustified, HeldIsOpen, Held, Underway
  <2> QED
    BY <2>1, <2>2, <2>3, <2>4, <2>5, <2>6, <2>7
<1>11. ASSUME MarkFailed
      PROVE  IInv'
  <2>1. /\ SnapIsCurrent'
        /\ HeldIsDue'
        /\ TakenOnce'
        /\ AnsweredIsAcked'
        /\ HooklessIsGone'
        /\ CancelIsCounted'
    BY <1>11 DEF MarkFailed, VerdictCancelled, Goto, QueryFails, SetStatus, SnapIsCurrent,
       HeldIsDue, TakenOnce, AnsweredIsAcked, HooklessIsGone, CancelIsCounted
  <2>2. HeldIsOpen'
    BY <1>11 DEF MarkFailed, VerdictCancelled, Goto, QueryFails, SetStatus, HeldIsOpen, Held,
       Underway, TakenOnce
  <2>3. PostsAreCounted'
    BY <1>11 DEF MarkFailed, VerdictCancelled, Goto, QueryFails, SetStatus, PostsAreCounted,
       Counted
  <2>4. AttemptsArePosts'
    BY <1>11 DEF MarkFailed, VerdictCancelled, Goto, QueryFails, SetStatus, AttemptsArePosts
  <2>5. FailedIsJustified'
    BY <1>11 DEF MarkFailed, VerdictCancelled, Goto, QueryFails, SetStatus, FailedIsJustified,
       AttemptsArePosts
  <2> QED
    BY <2>1, <2>2, <2>3, <2>4, <2>5
<1>12. ASSUME Exit
      PROVE  IInv'
  <2>1. /\ HeldIsOpen'
        /\ SnapIsCurrent'
        /\ HeldIsDue'
        /\ TakenOnce'
        /\ AnsweredIsAcked'
        /\ HooklessIsGone'
        /\ CancelIsCounted'
        /\ FailedIsJustified'
    BY <1>12 DEF Exit, Down, HeldIsOpen, Held, Underway, SnapIsCurrent,
       HeldIsDue, TakenOnce, AnsweredIsAcked, HooklessIsGone, CancelIsCounted,
       FailedIsJustified
  <2>2. PostsAreCounted'
    BY <1>12 DEF Exit, Down, PostsAreCounted, Counted, CancelIsCounted
  <2>3. AttemptsArePosts'
    BY <1>12 DEF Exit, Down, AttemptsArePosts
  <2> QED
    BY <2>1, <2>2, <2>3
<1>13. ASSUME Stop
      PROVE  IInv'
  <2>1. /\ HeldIsOpen'
        /\ SnapIsCurrent'
        /\ HeldIsDue'
        /\ TakenOnce'
        /\ AnsweredIsAcked'
        /\ HooklessIsGone'
    BY <1>13 DEF Stop, HeldIsOpen, Held, Underway, SnapIsCurrent, HeldIsDue,
       TakenOnce, AnsweredIsAcked, HooklessIsGone
  <2>2. CancelIsCounted'
    BY <1>13 DEF Stop, CancelIsCounted
  <2>3. PostsAreCounted'
    BY <1>13 DEF Stop, PostsAreCounted, Counted
  <2>4. AttemptsArePosts'
    BY <1>13 DEF Stop, AttemptsArePosts
  <2>5. FailedIsJustified'
    BY <1>13 DEF Stop, FailedIsJustified
  <2> QED
    BY <2>1, <2>2, <2>3, <2>4, <2>5
<1>14. ASSUME Crash
      PROVE  IInv'
  <2>1. /\ HeldIsOpen'
        /\ SnapIsCurrent'
        /\ HeldIsDue'
        /\ TakenOnce'
        /\ AnsweredIsAcked'
        /\ HooklessIsGone'
        /\ CancelIsCounted'
    BY <1>14 DEF Crash, Down, HeldIsOpen, Held, Underway, SnapIsCurrent,
       HeldIsDue, TakenOnce, AnsweredIsAcked, HooklessIsGone, CancelIsCounted
  <2>2. PostsAreCounted'
    BY <1>14 DEF Crash, Down, PostsAreCounted, Counted
  <2>3. AttemptsArePosts'
    BY <1>14 DEF Crash, Down, AttemptsArePosts
  <2>4. FailedIsJustified'
    BY <1>14 DEF Crash, Down, FailedIsJustified
  <2> QED
    BY <2>1, <2>2, <2>3, <2>4
<1>15. ASSUME Restart
      PROVE  IInv'
  <2>1. /\ HeldIsOpen'
        /\ SnapIsCurrent'
        /\ HeldIsDue'
        /\ TakenOnce'
        /\ AnsweredIsAcked'
        /\ HooklessIsGone'
        /\ CancelIsCounted'
        /\ PostsAreCounted'
        /\ AttemptsArePosts'
        /\ FailedIsJustified'
    BY <1>15 DEF Restart, Goto, HeldIsOpen, Held, Underway, SnapIsCurrent,
       HeldIsDue, TakenOnce, AnsweredIsAcked, HooklessIsGone, CancelIsCounted,
       PostsAreCounted, Counted, AttemptsArePosts, FailedIsJustified
  <2> QED
    BY <2>1
<1>16. CASE UNCHANGED vars
  BY <1>16 DEF vars, HeldIsOpen, SnapIsCurrent, HeldIsDue, TakenOnce,
     AnsweredIsAcked, HooklessIsGone, CancelIsCounted, PostsAreCounted,
     AttemptsArePosts, FailedIsJustified, Held, Underway, Counted
<1> QED
  BY <1>2, <1>3, <1>4, <1>5, <1>6, <1>7, <1>8, <1>9, <1>10, <1>11, <1>12,
     <1>13, <1>14, <1>15, <1>16 DEF Next, WorkerStep

\* The initial states satisfy the inductive invariant.
LEMMA IInvInit == Init => IInv
<1> SUFFICES ASSUME Init
             PROVE  IInv
  OBVIOUS
<1>1. TypeOK
  BY WorkerTypeInit
<1>2. /\ HeldIsOpen
      /\ SnapIsCurrent
      /\ HeldIsDue
      /\ TakenOnce
      /\ AnsweredIsAcked
  BY DEF Init, HeldIsOpen, Held, Underway, SnapIsCurrent, HeldIsDue,
     TakenOnce, AnsweredIsAcked, InDelivery
<1>3. HooklessIsGone /\ CancelIsCounted
  BY WorkerAssumption DEF Init, HooklessIsGone, CancelIsCounted
<1>4. PostsAreCounted
  BY DEF Init, PostsAreCounted
<1>5. AttemptsArePosts /\ FailedIsJustified
  BY DEF Init, AttemptsArePosts, FailedIsJustified
<1> QED
  BY <1>1, <1>2, <1>3, <1>4, <1>5 DEF IInv

\* The inductive invariant holds in every reachable state.
THEOREM WorkerInvariant == Spec => []IInv
BY IInvInit, IInvStep, PTL DEF Spec

------------------------------------------------------------------------------
(* What follows from it.                                                     *)

\* An item is posted at most MaxRetries times, plus once for every failing
\* query, crash and Stop.
THEOREM PostsAreBounded == Spec => []PostsBounded
<1>1. IInv => PostsBounded
  <2> SUFFICES ASSUME IInv, NEW i \in Items
               PROVE  posts[i] <= MaxRetries + disruptions
    BY DEF PostsBounded
  <2>1. posts[i] <= attempts[i] + disruptions + 1
    BY DEF IInv, PostsAreCounted
  <2>2. attempts[i] \in 0 .. MaxRetries - 1 /\ posts[i] \in Nat /\ disruptions \in Nat
    BY WorkerAssumption DEF IInv, TypeOK
  <2> QED
    BY <2>1, <2>2, WorkerAssumption
<1> QED
  BY <1>1, WorkerInvariant, PTL

\* An item none of whose queries failed is not given up before its last post.
THEOREM FailuresAreJustified == Spec => []FailedIsJustified
<1>1. IInv => FailedIsJustified
  BY DEF IInv
<1> QED
  BY <1>1, WorkerInvariant, PTL

\* Every POST is for an item that is pending, or deleted meanwhile, and due.
THEOREM OnlyDueArePosted == Spec => PostsOnlyDue
<1>1. ASSUME IInv, Next, NEW i \in Items, posts'[i] # posts[i]
      PROVE  status[i] \in {"pending", "gone"} /\ wait[i] = 0
  <2>1. SendWebhook
    BY <1>1 DEF Next, WorkerStep, Enqueue, BecomeDue, DeleteHook, Poll, Take,
       Lookup, MarkDelivered, ScheduleRetry, MarkFailed, Exit, Stop, Crash,
       Restart, QueryFails, worker, history
  <2>2. pc = "send" /\ posts' = [posts EXCEPT ![cur] = @ + 1]
    BY <1>1, <2>1 DEF SendWebhook, history
  <2>3. cur = i
    BY <1>1, <2>2 DEF IInv, TypeOK
  <2> QED
    BY <1>1, <2>2, <2>3 DEF IInv, HeldIsOpen, Held, Underway, HeldIsDue, InDelivery
<1>2. IInv /\ [Next]_vars =>
          [\A i \in Items : posts'[i] # posts[i]
                => status[i] \in {"pending", "gone"} /\ wait[i] = 0]_vars
  BY <1>1
<1> QED
  BY <1>2, WorkerInvariant, PTL DEF Spec, PostsOnlyDue

\* A step of the worker is a step of the delivery queue, or changes nothing it
\* can see.
LEMMA QueueStep == IInv /\ [Next]_vars => [Queue!Next]_(Queue!vars)
<1> SUFFICES ASSUME IInv, [Next]_vars
             PROVE  Queue!Next \/ UNCHANGED <<status, acked>>
  BY DEF Queue!vars
<1> USE DEF table, worker, history, Queue!Next
<1>1. ASSUME NEW i \in Items, Enqueue(i)
      PROVE  Queue!Enqueue(i)
  BY <1>1 DEF Enqueue, Queue!Enqueue
<1>2. ASSUME NEW i \in Items, BecomeDue(i)
      PROVE  UNCHANGED <<status, acked>>
  BY <1>2 DEF BecomeDue
<1>3. ASSUME NEW h \in Hooks, DeleteHook(h)
      PROVE  Queue!Next
  <2>1. Queue!Remove({i \in Items : HookOf[i] = h})
    BY <1>3 DEF DeleteHook, Queue!Remove
  <2> QED
    BY <2>1
<1>4. ASSUME Poll \/ Take \/ Lookup \/ Exit \/ Stop \/ Crash \/ Restart
      PROVE  UNCHANGED <<status, acked>>
  BY <1>4 DEF Poll, Take, Lookup, Exit, Stop, Crash, Restart, QueryFails
<1>5. ASSUME pc \in InDelivery
      PROVE  /\ cur \in Items
             /\ status[cur] \in {"pending", "gone"}
             /\ status \in [Items -> Statuses]
  BY <1>5 DEF IInv, TypeOK, HeldIsOpen, Held, Underway
<1>6. ASSUME SendWebhook
      PROVE  Queue!Next \/ UNCHANGED <<status, acked>>
  <2>1. cur \in Items /\ status[cur] \in {"pending", "gone"}
    BY <1>5, <1>6 DEF SendWebhook, InDelivery
  <2>2. UNCHANGED <<status, acked>> \/ Queue!Acknowledge(cur)
    BY <1>6, <2>1 DEF SendWebhook, Queue!Acknowledge
  <2> QED
    BY <2>1, <2>2
<1>7. ASSUME MarkDelivered
      PROVE  Queue!Next \/ UNCHANGED <<status, acked>>
  <2>1. /\ cur \in Items
        /\ status[cur] \in {"pending", "gone"}
        /\ status \in [Items -> Statuses]
    BY <1>5, <1>7 DEF MarkDelivered, InDelivery
  <2>2. cur \in acked
    BY <1>7 DEF MarkDelivered, IInv, AnsweredIsAcked
  <2>3. UNCHANGED <<status, acked>> \/ Queue!Deliver(cur)
    BY <1>7, <2>1, <2>2 DEF MarkDelivered, QueryFails, SetStatus, Queue!Deliver
  <2> QED
    BY <2>1, <2>3
<1>8. ASSUME ScheduleRetry
      PROVE  UNCHANGED <<status, acked>>
  <2>1. /\ cur \in Items
        /\ status[cur] \in {"pending", "gone"}
        /\ status \in [Items -> Statuses]
    BY <1>5, <1>8 DEF ScheduleRetry, InDelivery
  <2> QED
    BY <1>8, <2>1 DEF ScheduleRetry, QueryFails, UpdateForRetry, SetStatus
<1>9. ASSUME MarkFailed
      PROVE  Queue!Next \/ UNCHANGED <<status, acked>>
  <2>1. /\ cur \in Items
        /\ status[cur] \in {"pending", "gone"}
        /\ status \in [Items -> Statuses]
    BY <1>5, <1>9 DEF MarkFailed, VerdictCancelled, InDelivery
  <2>2. UNCHANGED <<status, acked>> \/ Queue!GiveUp(cur)
    BY <1>9, <2>1 DEF MarkFailed, VerdictCancelled, QueryFails, SetStatus, Queue!GiveUp
  <2> QED
    BY <2>1, <2>2
<1>10. CASE UNCHANGED vars
  BY <1>10 DEF vars
<1> QED
  BY <1>1, <1>2, <1>3, <1>4, <1>6, <1>7, <1>8, <1>9, <1>10 DEF Next, WorkerStep

\* The worker, its table and its receivers implement the delivery queue: only
\* acknowledged items are delivered, and the verdict on an item is final.
THEOREM WorkerImplementsQueue == Spec => ImplementsQueue
<1>1. Init => Queue!Init
  BY DEF Init, Queue!Init
<1> QED
  BY <1>1, QueueStep, WorkerInvariant, PTL DEF Spec, ImplementsQueue, Queue!Spec
==============================================================================
