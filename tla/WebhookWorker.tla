---------------------------- MODULE WebhookWorker ----------------------------
(***************************************************************************)
(* internal/webhook/worker.go: the delivery worker, with the webhook_queue  *)
(* table it reads and writes, the receivers it posts to, the deletion of    *)
(* webhooks by the API, Stop, crashes and restarts of the process.  Items   *)
(* are numbered in the order of created_at.  One action per remote call.    *)
(***************************************************************************)
EXTENDS Integers, FiniteSets

CONSTANTS Items,          \* queue items, numbered in the order of creation
          Hooks,          \* registered webhooks
          HookOf,         \* HookOf[i]: the webhook item i is for
          BatchSize,      \* items fetched per tick (10 in the code)
          MaxRetries,     \* posts before an item is given up (5 in the code)
          Slots,          \* len(backoffSchedule) (5 in the code)
          MaxDisruptions  \* bound: failing queries, crashes and Stops of a run

ASSUME WorkerAssumption ==
    /\ Items \subseteq Nat
    /\ HookOf \in [Items -> Hooks]
    /\ BatchSize \in Nat \ {0}
    /\ MaxRetries \in Nat \ {0}
    /\ Slots \in Nat \ {0}
    /\ MaxDisruptions \in Nat

VARIABLES status,      \* status[i]: "none", "pending", "delivered", "failed",
                       \* or "gone" once the webhook is deleted (by cascade)
          attempts,    \* attempts[i]: column attempts
          wait,        \* wait[i]: backoff slot next_attempt lies in, 0 when due
          hooks,       \* webhooks with a row in table webhooks
          pc,          \* what the worker does next, or "down"
          batch,       \* items of the batch not yet taken
          cur,         \* item being delivered
          snap,        \* snap[i]: attempts[i] as read with the batch
          cancelled,   \* the worker's context is cancelled
          posts,       \* history: posts[i] POSTs sent for item i
          acked,       \* history: items a receiver answered with a 2xx
          disruptions, \* history: failed queries, crashes and Stops so far
          troubled     \* history: items one of whose own queries has failed

table == <<status, attempts, wait, hooks>>
worker == <<pc, batch, cur, snap, cancelled>>
history == <<posts, acked, disruptions, troubled>>
vars == <<table, worker, history>>

NoItem == -1

Init ==
    /\ status = [i \in Items |-> "none"]
    /\ attempts = [i \in Items |-> 0]
    /\ wait = [i \in Items |-> 0]
    /\ hooks = Hooks
    /\ pc = "tick"
    /\ batch = {}
    /\ cur = NoItem
    /\ snap = [i \in Items |-> 0]
    /\ cancelled = FALSE
    /\ posts = [i \in Items |-> 0]
    /\ acked = {}
    /\ disruptions = 0
    /\ troubled = {}

------------------------------------------------------------------------------
(* The rest of the program, and time.                                        *)

\* Producer.QueueForEmail inserts the next item: pending, no attempts, due.
Enqueue(i) ==
    /\ status[i] = "none"
    /\ \A j \in Items : j < i => status[j] # "none"
    /\ HookOf[i] \in hooks
    /\ status' = [status EXCEPT ![i] = "pending"]
    /\ UNCHANGED <<attempts, wait, hooks, worker, history>>

\* DELETE /webhooks/{id}: the rows of the queue go by cascade, and the emails
\* yet to come are not queued for it.
DeleteHook(h) ==
    /\ h \in hooks
    /\ hooks' = hooks \ {h}
    /\ status' = [i \in Items |-> IF HookOf[i] = h THEN "gone" ELSE status[i]]
    /\ UNCHANGED <<attempts, wait, worker, history>>

\* NOW() passes next_attempt.
BecomeDue(i) ==
    /\ wait[i] > 0
    /\ wait' = [wait EXCEPT ![i] = 0]
    /\ UNCHANGED <<status, attempts, hooks, worker, history>>

------------------------------------------------------------------------------
(* The worker.                                                               *)

Goto(l) == pc' = l /\ UNCHANGED <<batch, cur, snap, cancelled>>

\* The call made in this step fails, one of the failures the bound allows.
QueryFails ==
    /\ disruptions < MaxDisruptions
    /\ disruptions' = disruptions + 1
    /\ troubled' = troubled \cup {cur}
    /\ UNCHANGED <<posts, acked>>

\* Plausible bugs: next_attempt is not looked at, failed items are tried again,
\* only rows whose next_attempt was never set are seen.
AnyPending == {i \in Items : status[i] = "pending"}
FailedToo == {i \in Items : status[i] \in {"pending", "failed"} /\ wait[i] = 0}
NeverRetried == {i \in Items : status[i] = "pending" /\ attempts[i] = 0}

\* status = 'pending' AND (next_attempt IS NULL OR next_attempt <= NOW())
Due == {i \in Items : status[i] = "pending" /\ wait[i] = 0}

\* ORDER BY created_at ASC LIMIT BatchSize
OldestDue == {i \in Due : Cardinality({j \in Due : j < i}) < BatchSize}

\* A tick of processBatch.  The row locks of FOR UPDATE SKIP LOCKED are gone
\* when the query returns: it runs outside a transaction.
Poll ==
    /\ pc = "tick"
    /\ ~cancelled
    /\ Due # {}
    /\ batch' = OldestDue
    /\ snap' = attempts
    /\ pc' = "loop"
    /\ UNCHANGED <<cur, cancelled, table, history>>

\* The head of the batch loop, oldest first; a cancelled context ends it.
Take ==
    /\ pc = "loop"
    /\ IF cancelled \/ batch = {}
       THEN pc' = "tick" /\ batch' = {} /\ cur' = NoItem
       ELSE \E i \in batch :
               /\ \A j \in batch : i <= j
               /\ cur' = i
               /\ batch' = batch \ {i}
               /\ pc' = "lookup"
    /\ UNCHANGED <<snap, cancelled, table, history>>

\* webhookRepo.Get: under a cancelled context the item is left pending.
Lookup ==
    /\ pc = "lookup"
    /\ \/ cancelled /\ Goto("loop") /\ UNCHANGED history
       \/ ~cancelled /\ HookOf[cur] \in hooks /\ Goto("send") /\ UNCHANGED history
       \/ ~cancelled /\ HookOf[cur] \notin hooks /\ Goto("fail") /\ UNCHANGED history
       \/ ~cancelled /\ QueryFails /\ Goto("refused")
    /\ UNCHANGED table

\* sendWebhook: a 2xx, or anything else (refused, timed out, other status).
\* The receiver may have taken the payload in either case.
SendWebhook ==
    /\ pc = "send"
    /\ IF cancelled
       THEN Goto("loop") /\ UNCHANGED history
       ELSE /\ posts' = [posts EXCEPT ![cur] = @ + 1]
            /\ \/ Goto("answered") /\ acked' = acked \cup {cur}
               \/ Goto("refused") /\ UNCHANGED acked
            /\ UNCHANGED <<disruptions, troubled>>
    /\ UNCHANGED table

SetStatus(s) ==
    status' = [status EXCEPT ![cur] = IF @ = "gone" THEN "gone" ELSE s]

\* markDelivered: when it fails, the delivered item stays pending.
MarkDelivered ==
    /\ pc = "answered"
    /\ Goto("loop")
    /\ \/ ~cancelled /\ SetStatus("delivered") /\ UNCHANGED history
       \/ cancelled /\ UNCHANGED <<status, history>>
       \/ ~cancelled /\ QueryFails /\ UNCHANGED status
    /\ UNCHANGED <<attempts, wait, hooks>>

\* backoffSchedule[min(currentAttempts, len - 1)], as a slot from 1.
BackoffSlot(currentAttempts) ==
    IF currentAttempts >= Slots THEN Slots ELSE currentAttempts + 1

\* Plausible bugs: attempts are not counted, or one post too few or too many.
KeepAttempts(currentAttempts) == currentAttempts
NeverExhausted(newAttempts) == newAttempts > MaxRetries + 1
ExhaustedEarly(newAttempts) == newAttempts + 1 >= MaxRetries

NewAttempts(currentAttempts) == currentAttempts + 1
Exhausted(newAttempts) == newAttempts >= MaxRetries

\* UpdateWebhookQueueStatus: it writes 'pending', whatever the row says now.
UpdateForRetry ==
    IF status[cur] = "gone"
    THEN UNCHANGED <<status, attempts, wait>>
    ELSE /\ SetStatus("pending")
         /\ attempts' = [attempts EXCEPT ![cur] = NewAttempts(snap[cur])]
         /\ wait' = [wait EXCEPT ![cur] = BackoffSlot(snap[cur])]

\* scheduleRetry: a failing update falls through to markFailed, whether or not
\* the update took effect.
ScheduleRetry ==
    /\ pc = "refused"
    /\ \/ /\ Exhausted(NewAttempts(snap[cur]))
          /\ Goto("fail")
          /\ UNCHANGED <<status, attempts, wait, history>>
       \/ /\ ~Exhausted(NewAttempts(snap[cur]))
          /\ \/ ~cancelled /\ UpdateForRetry /\ Goto("loop") /\ UNCHANGED history
             \/ ~cancelled /\ UpdateForRetry /\ Goto("fail") /\ QueryFails
             \/ /\ ~cancelled /\ QueryFails /\ Goto("fail")
                /\ UNCHANGED <<status, attempts, wait>>
             \/ cancelled /\ Goto("fail") /\ UNCHANGED <<status, attempts, wait, history>>
    /\ UNCHANGED hooks

\* A plausible bug: the verdict is written under a context Stop does not cancel.
DetachedContext == FALSE

\* The context of the verdict is the worker's.
VerdictCancelled == cancelled

\* markFailed: what Stop has brought here is left pending.
MarkFailed ==
    /\ pc = "fail"
    /\ Goto("loop")
    /\ \/ ~VerdictCancelled /\ SetStatus("failed") /\ UNCHANGED history
       \/ VerdictCancelled /\ UNCHANGED <<status, history>>
       \/ ~VerdictCancelled /\ QueryFails /\ UNCHANGED status
    /\ UNCHANGED <<attempts, wait, hooks>>

\* Stop cancels the context; a query or a POST under way is abandoned.
Stop ==
    /\ pc # "down"
    /\ ~cancelled
    /\ disruptions < MaxDisruptions
    /\ disruptions' = disruptions + 1
    /\ cancelled' = TRUE
    /\ UNCHANGED <<pc, batch, cur, snap, table, posts, acked, troubled>>

Down ==
    /\ pc' = "down"
    /\ batch' = {}
    /\ cur' = NoItem
    /\ cancelled' = FALSE
    /\ UNCHANGED snap

\* run returns once the context is cancelled, and with it Stop.
Exit ==
    /\ pc = "tick"
    /\ cancelled
    /\ Down
    /\ UNCHANGED <<table, history>>

Crash ==
    /\ pc # "down"
    /\ disruptions < MaxDisruptions
    /\ disruptions' = disruptions + 1
    /\ Down
    /\ UNCHANGED <<table, posts, acked, troubled>>

\* The process is started again and main starts a new worker.
Restart ==
    /\ pc = "down"
    /\ Goto("tick")
    /\ UNCHANGED <<table, history>>

WorkerStep ==
    \/ Poll
    \/ Take
    \/ Lookup
    \/ SendWebhook
    \/ MarkDelivered
    \/ ScheduleRetry
    \/ MarkFailed
    \/ Exit

Next ==
    \/ \E i \in Items : Enqueue(i) \/ BecomeDue(i)
    \/ \E h \in Hooks : DeleteHook(h)
    \/ WorkerStep
    \/ Stop
    \/ Crash
    \/ Restart

Spec == Init /\ [][Next]_vars

\* The worker goroutine keeps running, time passes, and the service manager
\* starts the process again (docker-compose.prod.yml: restart unless-stopped).
Fairness ==
    /\ WF_vars(WorkerStep)
    /\ WF_vars(Restart)
    /\ \A i \in Items : WF_vars(BecomeDue(i))

FairSpec == Spec /\ Fairness

------------------------------------------------------------------------------

Statuses == {"none", "pending", "delivered", "failed", "gone"}
Labels == {"down", "tick", "loop", "lookup", "send", "answered", "refused", "fail"}
InDelivery == {"lookup", "send", "answered", "refused", "fail"}

TypeOK ==
    /\ status \in [Items -> Statuses]
    /\ attempts \in [Items -> 0 .. MaxRetries - 1]
    /\ wait \in [Items -> 0 .. Slots]
    /\ hooks \subseteq Hooks
    /\ pc \in Labels
    /\ batch \subseteq Items
    /\ cur \in Items \cup {NoItem}
    /\ snap \in [Items -> 0 .. MaxRetries - 1]
    /\ cancelled \in BOOLEAN
    /\ posts \in [Items -> Nat]
    /\ acked \subseteq Items
    /\ disruptions \in 0 .. MaxDisruptions
    /\ troubled \subseteq Items
    /\ pc \in InDelivery => cur \in Items

\* An item is posted at most MaxRetries times, plus once for every query that
\* failed and every crash or Stop: no interleaving of the five calls of a
\* delivery with shutdown posts more often than that (worker.go:385-440).
PostsBounded == \A i \in Items : posts[i] <= MaxRetries + disruptions

\* An item is given up only after MaxRetries posts, or because one of its own
\* queries failed (worker.go:389-403, 427-440); never because of Stop, a crash or
\* a deletion, nor of the trouble of another item of the batch.
FailedIsJustified ==
    \A i \in Items : status[i] = "failed" => posts[i] >= MaxRetries \/ i \in troubled

\* No POST for an item that is settled, waiting for its backoff, or not queued;
\* only a webhook deleted after its lookup is still posted to (worker.go:222-254).
PostsOnlyDue ==
    [][\A i \in Items : posts'[i] # posts[i] => status[i] \in {"pending", "gone"} /\ wait[i] = 0]_vars

\* Every queued item is settled in the end, through failures, crashes and
\* restarts: delivered, given up, or deleted with its webhook.
EveryItemSettles == \A i \in Items : status[i] = "pending" ~> status[i] # "pending"

Queue == INSTANCE DeliveryQueue

\* The worker implements the delivery queue: "delivered" means acknowledged,
\* and no late update of a stale batch reopens a settled item.
ImplementsQueue == Queue!Spec
==============================================================================
