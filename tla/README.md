# letterbox in TLA+

letterbox is a Go service that watches IMAP mailboxes, stores the mail it finds
in Postgres and S3, and posts a webhook for every new email. This directory
holds a TLA+ model of the parts of it that are hard to get right: many
goroutines, many remote calls that can fail half-way, and promises (each email
once, each webhook delivered or given up, nothing skipped) that span several of
them. The modules whose names end in `Proofs` hold theorems checked by TLAPS;
everything else is checked by TLC. `PROJECT.json` maps each definition to the lines it models and
lists the runs, the mutants that show each property can fail, the hazards and
the disagreements found between code and documents.

## The system

| Part | Source | State | Operations |
|---|---|---|---|
| Ingester | `internal/ingest`, `storage/s3.go`, `repository` | tables accounts, emails, attachments; S3 bucket | `IngestEmail` |
| Sync coordinator | `internal/sync/coordinator.go` | `lastUIDs` in memory, two handler goroutines | `AddAccount`, `RemoveAccount`, `handleEvent`, `Close` |
| IDLE pool | `internal/sync/pool.go`, `idle.go` | account map, a goroutine and a connection per account, event channel | `AddAccount`, `RemoveAccount`, `Close`, `runAccount`, `forwardEvents` |
| Poller | `internal/sync/poller.go` | account map, a goroutine per account with the last STATUS, event channel | the same, `poll` |
| Message handlers | `internal/api/message_handler.go` | a goroutine per request | `GetMessage`, `SendMessage` |
| Webhook producer | `internal/webhook/producer.go` | table webhook_queue | `QueueForEmail` |
| Webhook worker | `internal/webhook/worker.go` | table webhook_queue, current batch | `processBatch`, `deliverWebhook`, `scheduleRetry`, `Stop` |
| HTTP API | `internal/api` | table accounts, table webhooks, a goroutine per request | creation and deletion of accounts and webhooks, lists and search |
| Main | `cmd/letterbox/main.go` | the phase of the process, a goroutine that loads the accounts | `main`, `loadExistingAccounts` |
| SMTP client | `internal/smtp/client.go`, `composer` | a connection per call | `SendEmail`, `Build`, `Validate` |
| Libraries | `imap`, `parser`, `crypto`, `config`, `logging` | none | remote calls and pure functions |

How they interact. The pool and the poller send events, without blocking, into
a channel each; the coordinator has one goroutine per channel. A handler reads
the account's last UID, searches for UIDs above it, and calls `IngestEmail` for
each in ascending order; for an email that is new it calls the producer, which
writes one row per webhook into `webhook_queue`; then it raises the last UID.
The API's `GetMessage` and `SendMessage` call `IngestEmail` too. The worker
polls `webhook_queue` and posts. All of them share Postgres and S3 and nothing
else but the coordinator's map. Deleting an account or a webhook removes its
rows by cascade, under the feet of everybody. Creation and deletion of an
account change the table and nothing else: the pool and the poller learn of the
accounts when the process starts, from a goroutine nobody waits for. When the
process ends, `main` closes the parts in the order of their dependence.

What is hard:
- **Interleavings** of two handlers, API requests, the worker, deletions and
  shutdown, over state that is read long before it is acted upon.
- **Partial failure**: `IngestEmail` makes one call per attachment to S3, then
  one insert per attachment; a delivery makes four calls. Each may fail, or
  succeed with its answer lost.
- **Crashes and restarts**: what is in memory (last UIDs, batches, channels)
  is lost, what is in Postgres and S3 stays.
- **Bounded channels** that drop events, and a channel closed while goroutines
  that may send on it are still running.
- **Liveness**: stops that wait for goroutines, retries that must end, and remote
  calls that have no deadline: the contexts of IMAP and SMTP end with the dial (and
  the handshake of implicit TLS), not the commands that follow it.

What makes each part correct: an email is returned as new at most once and only
when it is complete (Ingester); no message is passed over unless its ingestion
failed, and none is announced twice (coordinator); only goroutines of accounts
being removed outlive the channel (pool, poller); mail that arrives after the
first successful poll is announced by a later one (poller); what an answer or a
forward leaves out of a message has a cause, and what has been seen whole stays
whole (message handlers); deliveries are bounded and every item is settled
(worker); every account that was there at the start is watched or there is a
reason, and nothing of a part runs once it has been closed (main); a mail goes
to all of its recipients or to none, and twice only if nobody could know that it
went (SMTP client); a client that reads page after page misses nothing (lists).

## The modules

| Module | Models | Checked by |
|---|---|---|
| `MailStore` | abstract: what `IngestEmail` promises its callers | implemented by `Ingest` |
| `Ingest` | `IngestEmail`, one action per remote call, for any number of callers | `MCIngest`, `IngestProofs` |
| `Coordinator` | `handleEvent` and the account operations, over `MailStore` | `MCCoordinator`, `CoordinatorProofs` |
| `EventSource` | abstract: what the coordinator relies on of pool and poller | implemented by `IdlePool`, `Poller` |
| `IdlePool` | `pool.go` and the connections of `idle.go` | `MCIdlePool`, `IdlePoolProofs` |
| `Poller` | `poller.go` | `MCPoller`, `PollerProofs` |
| `DeliveryQueue` | abstract: the life of a webhook_queue row | implemented by `WebhookWorker` |
| `WebhookWorker` | `worker.go` over the table and the receivers | `MCWebhookWorker`, `WebhookWorkerProofs` |
| `MessageHandler` | `GetMessage`, `SendMessage`, extends `Ingest` | `MCMessageHandler`, `IngestProofs` |
| `Lifecycle` | `main.go`, `Coordinator.AddAccount` and `Close`, creation and deletion of accounts | `MCLifecycle`, `LifecycleProofs` |
| `MailTransfer` | abstract: what `SendMessage` relies on of the SMTP client | implemented by `SmtpClient` |
| `SmtpClient` | `smtp/client.go`, the recipients of `composer.go`, a client that asks again | `MCSmtpClient`, `SmtpClientProofs` |
| `Listing` | `ListMessages`, `Search`, the queries of `repository/email.go`, a client that pages | `MCListing`, `ListingProofs` |
| `IngestProofs`, `WebhookWorkerProofs`, `CoordinatorProofs`, `IdlePoolProofs`, `PollerProofs`, `LifecycleProofs`, `SmtpClientProofs`, `ListingProofs` | theorems about these modules | TLAPS |

**Ingest.** `acct`, `emails`, `rows` are the tables, `objects` the bucket; the
other variables are the stacks of the callers (`pc`, `msg`, `up` = number of
keys uploaded, `idx` = loop index, `res` = the error to return) and three
history variables. There is one action per call: `GetAccount`, `ExistsByUID`,
`FetchRaw` (with the parse), `Upload`, `CreateEmail`, `DeleteUploaded` (the two
cleanup loops), `CreateAttachment`, and the returns. The set `Faults` says
which calls may fail, with or without effect. S3 keys are computed as the code
does, from the UID and the file name, so that they collide as they do there.

**Coordinator.** One account and its INBOX. `Store == INSTANCE MailStore` is the
ingester: `NextUID` begins a call, `StoreEmail`/`StoreUnseen` are its insert,
`IngestedOk`, `IngestedBefore`, `IngestFailed`, `AttachmentsFailed` its return
and what the loop does with it. Whoever is in an IMAP command (`AtServer`) may
find its server silent. `RemoveSource` and `ForgetLastUID` are the two halves of
`RemoveAccount`, which takes the lock for each. `FetchUIDsAfter` has the quirk
of IMAP ranges that the code comments upon. Because `Ingest` implements
`MailStore`, what is shown here holds with the real `IngestEmail` underneath.

**MessageHandler.** It extends `Ingest`, whose `Callers` are the `Requests`: a
request that calls `IngestEmail` makes the steps of `Ingest`, one by one
(`IngestGoesOn`, `IngestReturns`), and the others read the tables in between;
the abstract store would hide just the moments that matter here. `HandlerInit`,
`HandlerNext` and `HandlerSpec` are those of both; `CheckAccount`,
`RemoveAccount` and `CrashHandlers` are the account query, the deletion and the
crash as requests meet them. `step` is
where the handler is, `atts` the attachments of the email it has read, `todo`
and `got` the downloads of a forward, `sent` the mails the SMTP server took,
`sentRow` the one row the unique constraint allows for mails stored under UID 0
of folder "Sent". `why` and `informed` are histories: what kept a request from
reading all rows, and which requests came after a complete answer.

**IdlePool, Poller.** The actions are cut where goroutines synchronise: a
select, a lock, the remote call. `CheckClosed` and `SendEvent` are two actions
because the code reads `p.closed` under the lock and uses the channel without
it. `SendPanics` is the send on the closed channel, which ends the process.
`RemoveAccount` takes the entry out of the map under the lock (into `removed`),
`CloseStopCh` tells its goroutine afterwards, so that an account can be added
again in between. Connecting is cut in two, because the context bounds only the
first half: `Dialled`, and the commands that follow (`Connected`, `ConnClosed` for
the LOGOUT of a close, `StatusRead`, `StatusFails`), during which the server may
`FallSilent`. A goroutine in `silent` takes no step until its server speaks again
or the connection is reset.

**WebhookWorker.** `status`, `attempts`, `wait` are the columns; `snap` is
`attempts` as read with the batch; time is the action `BecomeDue`. The bound
`MaxDisruptions` counts failed queries, Stops and crashes together; `troubled` is
the history of the items one of whose own queries has failed. A verdict under a
cancelled context writes nothing (`VerdictCancelled`).

**Lifecycle.** `phase` is the statement of `main` that is waiting: each action of
`MainStep` is one of the calls of the shutdown with what it has to wait for
(`ClosePool` stops the pool from taking accounts, `ClosePoller` follows when the
pool's goroutines are gone, and so on). Sets such as `PoolOpen` name the phases
in which a part accepts work. `loader`, `todo` and `adding` are the goroutine of
`loadExistingAccounts` and the steps of `AddAccount`; `accounts` is the table,
a sequence so that positions serve as identifiers and as `created_at`, with the
key each row was encrypted with. `req`, `made` and `told` are the POSTs: being
tested, waiting for a database connection, inserting, answering. The event
handlers, the worker and the watchers appear only as what `main` waits for; the
other modules have their insides. `silent` are the mailboxes whose server has
stopped to answer, which holds the watchers of their accounts, and a handler that
is at work on one.

**SmtpClient.** `at` is the command the call is waiting for, `conn` how the
connection is protected, `rcpt` and `envelope` the loop over the recipients, and
`taken` what the server will deliver. `Break` is a refusal or a broken
connection at any command, `Stall` a server that never answers again, which
`Expire` ends only where the code has a deadline (`Guarded`). `SendBody` is the
one place where server and client may disagree: the mail is taken and the answer
does or does not arrive. `gone` are API clients that have left, so that the
handler's 201 reaches nobody.

**Listing.** A page and its total are two queries with other steps in between.
`Pages` is what Postgres may answer to `ORDER BY date DESC LIMIT OFFSET`:
emails without a date first, equal dates in any order, chosen anew for each
query but the same for both ends of a page. Either query may fail
(`QueryFails`), and the client asks for the page again. It goes on by the limit the
answer names.

## The runs

The runs have two callers, handlers or entries where races matter, and channels
of one event, so that full and empty channels both occur. Only `poller` has a single
entry, which is removed or closed: that an account is removed and added again at
once is in `idle_pool`, whose map and goroutines have the same structure, and in the
theorems about `Poller`, which are for any number of entries.

| Run | Instance | Shows |
|---|---|---|
| `ingest` | 2 callers, 2 messages with the same UID and a shared file name, all faults | `OneOkPerMessage`, `OkIsComplete`, `NoOrphanObjects`, `IntactUnlessOverlapped`, refinement of `MailStore` |
| `worker` | 2 items in one batch, `MaxRetries` = 3, 2 disruptions | `PostsBounded`, `FailedIsJustified`, `PostsOnlyDue`, `EveryItemSettles`, refinement of `DeliveryQueue` |
| `coordinator` | 2 handlers, 2 UIDs, 1 webhook, 1 fault | `QueuedAtMostOnce`, `SkippedOnlyAfterFailure`, `LastUIDNeverFalls` |
| `coordinator_api` | 1 handler, 1 request, 2 UIDs, 1 fault | `UnqueuedOnlyIfMissed`, `EventsLeadToStorage` |
| `idle_pool` | 2 accounts, 2 entries, silent servers | `OneWatcher`, `LeakOnlyOnClose`, `StopsReturn`, refinement of `EventSource` |
| `poller` | 1 account, 1 entry, 0 or 1 old message and 2 arrivals, silent servers | `PollsAnnounceArrivals`, `ArrivalsAreAnnounced`, `StopsReturn`, refinement of `EventSource` |
| `messages` | 2 requests of any kind, 1 message with 2 attachments; failing queries, inserts whose answer is lost, failing uploads and downloads, a failing SMTP server or one whose answer is lost, crash | `HandlerTypeOK`, `OmissionsExplained`, `WholeStaysWhole` |
| `lifecycle` | 2 mailboxes, one with IDLE, 2 keys, 2 starts, 2 POSTs, all faults, silent servers | `UnwatchedExplained`, `QuietAfterClose`, `SecondRowExplained`, `ShutdownEnds` |
| `outgoing` | 2 attempts at one of 4 mails, either kind of TLS | `CopiesExplained`, `ReturnsOrStalls`, refinement of `MailTransfer` |
| `listing` | 4 emails, 3 dates or none, pages of at most 2 | `NothingMissed`, `RepeatsExplained` |
| `coordinator_skip` | 1 handler, 1 fault | violation of "will retry next time" |
| `pool_reconnect` | 1 account | violation of "Connection drop -> auto-reconnect" |

Bounds. Two callers are enough for every race over one message: a third finds
what the second finds. Two messages give the shared key, two attachments a
partial upload and partial rows. In `Coordinator` the two UIDs give a failure
followed by a success, which is how a message is passed over, and the search
that returns an old UID. One fault per run of the coordinator keeps the
histories apart; the properties count faults or name the messages they hit. In
`WebhookWorker` three posts exceed the two backoff slots, so that the schedule's
last slot is reused; two disruptions allow a failure during the recovery from
another. `Poller` has two arrivals, one before and one after the first poll, and
an expunge may hide them from the message count. The `messages` run leaves out a
failing fetch and failing or unanswered deletes and uploads, which `ingest` has:
a request meets their errors as it meets those that are in. In `MessageHandler`
two attachments make the rows, the downloads and the cleanup partial; with two
requests one reads what the other is still storing, and comes after what it has
answered. In `Lifecycle` two accounts let one be added while the other fails;
the second start finds accounts of the first, with its key or another. Two POSTs
are one that is repeated, or two mailboxes. In `SmtpClient` the four mails have
no recipient, one that is no address, a blind copy, and one named twice; the
second attempt is the repetition. Four emails make two full pages and more
stored meanwhile; a limit of 3 is one the code lowers to 2. The offset is
truncated to 32 bits (`repository/email.go`), which lists of this length do not
reach.

Deadlock is not checked where the system may stop for good: a closed pool or
poller, a worker whose bounded items are settled, a coordinator without events
or UIDs left, requests that have all been answered, a process that is down after
its last start, a mail whose attempts are over, a client that has read all
pages. `ingest` checks it.

**Fairness.** The goroutines of the program keep running, and so does the database,
so that each step of a worker, handler or entry that waits for nothing else has weak
fairness. For the remote calls it depends on what bounds them:

- An HTTP post of the worker has a timeout (`http.Client`), S3 and Postgres are taken
  to answer or to fail.
- A dial to an IMAP server, with the handshake of implicit TLS, ends at the deadline
  of its context. The commands after it (`Login`, `Select`, `Status`, the waiting for
  a STARTTLS and the `Logout` of a close: `idle.go:182`, `222-246`,
  `poller.go:307-318`) take no context. As go-imap is used here they wait for as
  long as the connection lives (the library is not in the repository). So `IdlePool`,
  `Poller`, `Coordinator` and `Lifecycle` let a server fall silent at any of them,
  and fairness holds only for goroutines that are not `silent`. The
  properties say so: `StopsReturn` and `ArrivalsAreAnnounced` are for
  goroutines that are not held for ever (`Answered`), `EventsLeadToStorage` and
  `ShutdownEnds` for behaviours in which no server falls silent.
  Without this exception TLC finds a process that stays after its signal.
- Nothing in `net/smtp` has a deadline either: `SmtpClient` assumes that a server
  answers until it falls silent and that time passes (`Expire`); `Lifecycle` does not
  assume that a request under test ever ends. There it is `main`, the goroutines it
  waits for, and inserts that go on; nothing is assumed of the signal or of the loader.

`Restart` of the worker is fair because the deployment restarts the service
(`docker-compose.prod.yml`, `restart: unless-stopped`), `BecomeDue` because time
passes. Strong fairness is assumed of `ForwardStopped` and `Leave`, because Go's
`select` chooses at random among ready cases and so does not pass over a stop for
ever, and, in `Poller`, of `Dialled` and `StatusRead`. The last two are an
assumption about the server, not about the code: one that is asked again and again
does not refuse for ever, as otherwise no arrival could be announced. Nothing is assumed of
users, deletions, crashes, drops of connections or the arrival of mail.

## What is proved

`IngestProofs` proves, for any finite or infinite set of callers, folders, UIDs
and names, any attachments and any faults:

- `TypeCorrect`: `Spec => []TypeOK`. `TypeOK` is inductive; it contains the
  loop bounds (`up`, `idx` stay within the message's attachments) without which
  `RowOf` and `AttachmentKey` would leave their types.
- `AtMostOneOk`: `Spec => []OneOkPerMessage`, and `OkMeansComplete`:
  `Spec => []OkIsComplete`.
- `NothingIsOrphaned`: `Spec => []NoOrphanObjects`, and `RowsAreIntact`:
  `Spec => []IntactUnlessOverlapped`.
- `IngestImplementsMailStore`: `Spec => Store!Spec`, with every action mapped to
  an action of the abstract store or a stutter.

The only assumption is `IngestAssumption`: `Files` gives each message a sequence
of names, `Faults` are of the listed kinds, and `None` is no message.

The argument for the two safety theorems. Neither is inductive: a return counts
an answer without looking at the database. The strengthening `IInv` says who may
return. A message has at most one *owner*, the call between its insert and its
return (`OneOwner`); an owner's message has not been answered
(`OwnerHasNotAnswered`), and while the account lives it is stored with every row
the loop has passed (`OwnerHasRows`); the loop starts at zero (`IndexReset`). An
insert needs the message absent and the account present; by `OkIsComplete` it
was then never answered and by `OwnerHasRows` nobody owns it, so the new owner is
the only one. A return is made at the end of the loop, so that all rows are
there. The deletion of the account makes the claims about the tables vacuous and
is final. The lemma `OutsideRowsLoop` covers at once every step that neither
enters the rows loop nor removes a row.

The argument for the two theorems about the bucket. `NoOrphanObjects` speaks of
moments when nobody is at work, so the invariant must follow every object
through the calls: it is named by a stored email, or in the hands of a call that
will store its email or delete it (`KeysAccounted`). A key is handed from the
call to the row at the insert, and dropped by the cleanup loop one index at a
time; as keys are shared, one call's delete may take an object another one
counts on, which is why the invariant speaks of keys and not of attachments.
`IntactUnlessOverlapped` needs the converse, that nothing takes it: a message
with two calls is in `overlapped` (`OverlapsAreKnown`), so that of one that is
not the only call has in the bucket what it has uploaded (`UploadsIntact`), which is
nothing before it has fetched (`NothingUploadedYet`); its message has no email row
until it inserts one, and no attachment rows when it cleans up (`NotOvertaken`).
A key nobody else uses is then written and deleted by that call alone.

The same module proves of the requests of `MessageHandler`, for any number of
them, any messages, attachments and faults (`MessageHandlerAssumption` only
names the faults and keeps `None` apart):

- `RequestsCallIngest`: `HandlerSpec => Spec`. Every step of a handler is a step
  of `Ingest` or leaves its variables alone, so that all of the above holds of
  requests, the refinement of `MailStore` included;
- `HandlerTypeCorrect`: `HandlerSpec => []HandlerTypeOK`;
- `OmissionsAreExplained`: `HandlerSpec => []OmissionsExplained`, and
  `WholeAnswersStay`: `HandlerSpec => []WholeStaysWhole`.

The invariant `HInv` holds jointly with `IInv` (`Joint`): a request that finds
its message missing calls `IngestEmail` only because it names a message
(`NamesItsMessage`), and what an answer has depends on what `IngestEmail`
returns. The rest of it is about time. An omission is excused by a fact about
the tables at the moment of reading, while the property is asked for later, when
other calls have written. So the lemmas say what survives: while the account
lives the tables only grow, and rows are added only by the call that stored the
email (`TablesGrow`); a message that lacks rows and has no such call lacks them
for ever (`TornStays`); a call that returns the message has written them all
(`ReturnedIsWhole`). `GapsExcused` and `HeldIsStored` carry this from the
reading to the answer, `HandsInOrder` brings the downloads of a forward to the
attachments it was to have, and `InformedFindsAll` says that a request made after
a whole answer never gets as far as a call of `IngestEmail`. `Bystander` shows
once that a step leaves what is said of every other request true.

`WebhookWorkerProofs` proves, for any set of items (numbered by naturals), any
webhooks and any positive batch size, number of retries and backoff slots, which
is all that `WorkerAssumption` says:

- `WorkerTypeCorrect`: `Spec => []TypeOK`, with `attempts` below `MaxRetries`;
- `PostsAreBounded`: `Spec => []PostsBounded`;
- `FailuresAreJustified`: `Spec => []FailedIsJustified`;
- `OnlyDueArePosted`: `Spec => PostsOnlyDue`;
- `WorkerImplementsQueue`: `Spec => Queue!Spec`. A deletion is a `Remove` of all
  items of the webhook, a 2xx an `Acknowledge`, the two verdicts are `Deliver`
  and `GiveUp`, or a stutter when the row is gone; the rest are stutters.

They share one inductive invariant, `IInv`. The worker acts on what it read with
the batch, so the invariant says that this is still true when it is used: an
item held is `pending` or `gone` (`HeldIsOpen`), its `snap` is the row's
`attempts` (`SnapIsCurrent`), it is due until it is posted (`HeldIsDue`), and
the item being delivered is no longer in the batch (`TakenOnce`), so that
writing its row leaves the other claims alone. Deleting a webhook only turns
rows to `gone` (`HooklessIsGone`). The bound on posts follows from an account:
`posts <= attempts + disruptions`, with one post more between a POST and the
step that pays for it, which is the update of `attempts` or the disruption that
prevented it (`PostsAreCounted`; a cancelled context was counted as a
disruption, `CancelIsCounted`). An item with a post unpaid for is neither due
again nor in the batch, so there is never a second one. In the other direction, an
item none of whose own queries has failed has a post for every attempt
(`AttemptsArePosts`), whatever Stop and crashes did to it.

`CoordinatorProofs` proves, for any handlers, requests, UIDs, webhooks, channel
capacity and number of faults (`CoordinatorAssumption`: handlers and requests
differ, UIDs are positive), over the abstract `MailStore`:

- `CoordinatorTypeCorrect`: `Spec => []TypeOK`, with `SubjectIsUid` and
  `AnnouncedIsUid`: who stores or queues has a message in hand;
- `WebhooksAreQueuedOnce`: `Spec => []QueuedAtMostOnce`. The webhooks of an email
  are in the hands of at most one caller (`OneAnnouncer`), from the insert of the
  row, which `MailStore` grants once, to the end of `QueueForEmail`; none is
  queued until then (`AnnouncedIsNotQueued`), and none before the message is
  stored (`AbsentIsUntouched`);
- `UnqueuedAreExplained`: `Spec => []UnqueuedOnlyIfMissed`, inductive with types;
- `SkippedMessagesHaveFailed`: `Spec => []SkippedOnlyAfterFailure`. The last UID a
  handler has read, and the one it will write, have only stored or failed messages
  below them, and ahead of the handler there is no message that is not on its list
  (`PassesNothing`). Arrivals cannot break this, because a new UID is above
  everything a handler has seen (`SeenBelow`): this is where the proof uses that
  the list was fetched after `from` was read;
- `LastUIDGrows`: `Spec => LastUIDNeverFalls`.

`IdlePoolProofs` and `PollerProofs` prove, for any accounts, entries and channel
capacities (`PoolAssumption`, `PollerAssumption`):

- `PoolTypeCorrect`, `PollerTypeCorrect`: `Spec => []TypeOK`, which for the
  channels says that they stay within their capacities;
- `PoolImplementsSource`, `PollerImplementsSource`: `Spec => Source!Spec`. A live
  goroutine was told to stop, or is the one the map holds, or is one `Close` waits
  for (`LiveAreKnown`), and what the map holds has started and was not told to
  stop (`MembersAreStarted`). So when `Close` has waited, only a goroutine being
  removed can be left to send on the closed channel;
- `OneGoroutineWatches`: `Spec => []OneWatcher`, by the same invariant;
- `LeaksOnlyOnClose`: `Spec => []LeakOnlyOnClose`, as a connection belongs to a
  goroutine that forwards its events (`OpenAreForwarded`) until `Close`;
- `PollsAnnounceWhatArrived`: `Spec => PollsAnnounceArrivals`. What an entry
  remembers of its folder is behind by the mail that is unseen
  (`KnownIsBehind`); a message takes a UID, so that counts never pass UIDs
  (`UidsCount`), whatever is expunged.

`LifecycleProofs` proves, for any clients, keys, faults and bounds:

- `LifecycleTypeCorrect`: `Spec => []TypeOK`;
- `ClosedStaysQuiet`: `Spec => []QuietAfterClose`. It is almost inductive: the
  loader may be inside `AddAccount` for ever, so what must hold is that no step
  adds a watcher in a phase in which the part is closed, and that phases move on
  only when what they wait for is gone;
- `EveryAccountIsWatched`: `Spec => []UnwatchedExplained`. The invariant behind
  it follows an account from the table to its goroutine: while the process
  serves, every readable account of the start is yet to be listed, in `todo`, being added,
  watched, deleted or excused (`Accounted`). At the end `todo` is empty
  (`NothingPending`), which leaves the explanations. An account the process
  creates has the key of the process (`NewAreReadable`), so that only rows from before
  can stop the loading;
- `SecondRowsAreExplained`: `Spec => []SecondRowExplained`, a bound on a
  cardinality. It is proved as a statement about elements: every account of a
  mailbox that is there is lost, or is the one a request has just made, or is
  the one the client was told of (`Claimed`), and a client does not ask again
  once it was told (`TellsOnce`). All but one are then lost, and
  the lemma `AllButOne` turns this into the bound.

`SmtpClientProofs` proves, for any number of attempts, addresses and mails:

- `SmtpTypeCorrect`: `Spec => []TypeOK`, with TLS before credentials;
- `CopiesAreExplained`: `Spec => []CopiesExplained`. The order of events is the
  argument: an attempt begins when the one before has failed or its client is
  gone (`EarlierHaveFailed`), an attempt that failed although the mail was taken
  has lost its answer (`FailedTakenIsLost`), and only attempts that were started
  can lose a client (`OnlyStartedGone`). So of two copies the earlier is
  explained, and `AllButOne` does the counting;
- `SmtpImplementsTransfer`: `Spec => Transfer!Spec`. The loop names exactly the
  recipients up to `rcpt` (`EnvelopeIsNamed`), so that at the dot the envelope is
  everyone; after it the mail is taken (`TakenAtTheDot`), and before it nobody's.

`ListingProofs` proves, for any finite set of emails with any dates, any filter,
limit and offset (`ListingAssumption`):

- `PagesAreBounded`: `Spec => []TypeOK`, with pages no longer than `MaxLimit`;
- `PagingMissesNothing`: `Spec => []NothingMissed`, and `PagingRepeatsOnlyForNew`:
  `Spec => []RepeatsExplained`. Both rest on positions: an email alone at its date
  has one, the number of emails before it, whatever order the query chooses for
  the others (`FrontHasPosition`), and a page has it exactly if its position is
  between the offset and the next one (`PageHasPosition`). Positions only grow
  while emails are stored, so that the offset cannot pass an email it has not
  given (`NotPassed`), and passes the old position of one it has given once more
  for every email stored before it (`GivenAgainForNew`). The proof uses that the
  client goes on by the limit the answer names, and that the total covers what
  the query yields.

Every invariant and action property of the runs and every refinement is thus
also a theorem. What is only model-checked is liveness (`EveryItemSettles`,
`EventsLeadToStorage`, `StopsReturn`, `ArrivalsAreAnnounced`, `ShutdownEnds`,
`ReturnsOrStalls`): it needs fairness, hence ENABLED, which the prover does not
handle. The two runs that expect a violation have nothing to prove.

## Disagreements between code and documents

Two have a run whose counterexample shows it, and are quoted in `PROJECT.json`: a
failed message is passed over, and a broken IDLE connection is not noticed.
`IdlePool` also shows that `runAccount` never dials twice after a success, and
that `closeConnection` never finds a connection to close, because
`forwardEvents` only returns when its goroutine is to end.

Effects that the models have, or that the properties had to allow for, without a
run of their own:

- A racing ingestion deletes objects the winner's rows name (`ingest.go:137-144`;
  `STORIES.md:311` has "Attachment URLs are valid"). `IntactUnlessOverlapped`
  confines it to calls that overlap.
- A forward that loses the race to store its original finds no attachments and is
  sent without them (`message_handler.go:820`, `854-857`). It is one of the causes
  `OmissionsExplained` lists.
- An email first read through the API never gets webhook rows (`STORIES.md:449`
  has "New email → queue entry"); `UnqueuedOnlyIfMissed` says so.
- An item whose receiver acknowledged it can still end as `failed` when the query
  that records the success fails (the bounds count such disruptions).
- Of the mails an account sends only the first is stored, the others meet the
  unique constraint (`SentInsertable`), which the handler logs and does not report.
- `STORIES.md:392-393` has "New account → sync starts automatically" and "Remove
  account → sync stops"; both happen at the next start of the process only, as
  the handlers change the table and nothing else.
- One account whose credentials cannot be decrypted stops the loading of all
  (`repository/account.go:103`), which is one of the causes in
  `UnwatchedExplained`.
- A lost answer to a POST makes a second account of the same mailbox
  (`SecondRowExplained`), a lost answer to a mail a second copy (`CopiesExplained`).
- Emails of equal date may be missed by a client that pages, since the order of
  the queries leaves theirs open; `NothingMissed` excludes them. Emails without
  a date match neither `before` nor `after`.
- A mail server that is connected and silent keeps the process from ending:
  `coordinator.Close` (`main.go:169`) waits for goroutines in IMAP commands that have
  no deadline, and "shutdown context with timeout" (`main.go:162`) bounds the HTTP
  server only. `STORIES.md:607` has "`kill` → clean shutdown log, no orphaned
  connections". `ShutdownEnds` excepts it.
- The backoff schedule has a wait "After 5th failure (last retry)" (`worker.go:381`)
  that is never used with the default of five retries: the fifth failure is final
  (`worker.go:386-402`), as in `STORIES.md:485-490`. `PostsBounded` and
  `FailedIsJustified` are about `MaxRetries` posts, not one more.
- Mail that arrives before the first successful poll of an entry is counted in and
  not announced, unless an earlier poll had failed (`poller.go:246-270`): it waits
  for the next arrival. `ArrivalsAreAnnounced` speaks of initialised entries.
- `IntactUnlessOverlapped` and `NoOrphanObjects` excuse what the code gives no
  means to avoid: overlapping calls of one message, and a crash, a lost upload answer or a
  failing delete between the uploads and the insert.
- An SMTP server that falls silent after the dial holds its request for as long as
  TCP does (`ReturnsOrStalls`).

## Not modelled

Contents of messages, MIME parsing and composing, HTML, quoting, presigned URLs
and their expiry (no clock), encryption but for which key a row was written
with, configuration and logging; health and folders, which read once and change
nothing; the creation of webhooks, as the models start with those there are;
which text matches a search; the wire protocols but for the order of SMTP
commands. UIDVALIDITY is ignored by the code and constant in the models, and a
UID is the same number on both sides of the API (`message_handler.go:297`
truncates it). The commands between a dial and the last answer are a single step.

## Plan

1. *Done:* ingestion, worker, coordinator, pool, poller, message handlers; the
   life of the process and of accounts, outgoing mail, lists; a theorem for every
   invariant, action property and refinement of the runs.
2. Proofs: the steps between the modules, such as that what `Lifecycle` assumes of
   pool and poller is what they do.
3. Models: the creation of webhooks against `QueueForEmail`; UIDs of different
   width on the two sides of the API.
