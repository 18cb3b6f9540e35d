------------------------------ MODULE Lifecycle ------------------------------
(***************************************************************************)
(* cmd/letterbox/main.go: start-up, the goroutine that loads the accounts,  *)
(* and the order of shutdown, with Coordinator.AddAccount and Close, and    *)
(* the creation and deletion of accounts by the API meanwhile.  Pool,       *)
(* poller, handlers and worker appear as the goroutines main waits for.     *)
(* IMAP commands have no deadline: a mail server that falls silent holds    *)
(* the goroutine that asked it.                                             *)
(***************************************************************************)
EXTENDS Integers, Sequences, FiniteSets

CONSTANTS Clients,     \* clients of the API, each with a mailbox of its own
          WithIdle,    \* those whose IMAP server offers IDLE
          Keys,        \* encryption keys the process is started with
          Faults,      \* which calls may fail, see LifecycleAssumption
          MaxStarts,   \* bound: starts of the process
          MaxCreates,  \* bound: POSTs to /accounts
          None

\* "db": a query fails; "dbLost": an insert takes effect and its answer is
\* lost; "net": a client does not get its answer; "imap": a server cannot be
\* asked for IDLE; "crash": the process dies.
ASSUME LifecycleAssumption ==
    /\ WithIdle \subseteq Clients
    /\ Faults \subseteq {"db", "dbLost", "net", "imap", "crash"}
    /\ MaxStarts \in Nat /\ MaxCreates \in Nat
    /\ None \notin Keys

VARIABLES phase,     \* where main is, one of Phases
          starts,    \* how often the process was started
          key,       \* its encryption key
          accounts,  \* table accounts by created_at, with deleted rows
          loader,    \* where loadExistingAccounts is
          todo,      \* the accounts it has yet to add, by position in the table
          adding,    \* the one AddAccount is at work for, or 0
          idle,      \* accounts with a goroutine in the pool
          polled,    \* accounts with a goroutine in the poller
          running,   \* which of Services are running
          req,       \* req[c]: where the handler of c's POST is
          made,      \* made[c]: the row it has inserted, or 0
          told,      \* told[c]: the account c was told of by a 201, or 0
          creates,   \* how many POSTs were made
          silent,    \* clients whose mail server has fallen silent in a command
          before,    \* history: accounts there when the process was started
          excused,   \* history: accounts whose own queries failed in AddAccount
          lost       \* history: accounts whose 201 did not reach the client

table == <<accounts, lost>>
load == <<loader, todo, adding, excused>>
watch == <<idle, polled>>
api == <<req, made, told, creates>>
proc == <<starts, key, before>>
vars == <<phase, proc, silent, table, load, watch, running, api>>

Services == {"poolHandler", "pollerHandler", "worker"}

\* The phases of main, in order; each is named after what it waits for.
Serving == {"serving"}
CoordinatorOpen == Serving \cup {"signalled"}
PoolOpen == CoordinatorOpen \cup {"closing"}
PollerOpen == PoolOpen \cup {"pool"}
WorkerOpen == PollerOpen \cup {"poller", "handlers"}
ListenerOpen == WorkerOpen \cup {"worker"}
DatabaseOpen == ListenerOpen \cup {"drain"}
Phases == DatabaseOpen \cup {"database", "down"}

Accounts == [box : Clients, key : Keys, there : BOOLEAN]
Row(i) == accounts[i]
Ids == 1..Len(accounts)
There == {i \in Ids : Row(i).there}
Readable(i) == Row(i).key = key

Init ==
    /\ phase = "down"
    /\ starts = 0 /\ key = None /\ before = {}
    /\ silent = {}
    /\ accounts = <<>> /\ lost = {}
    /\ loader = "done" /\ todo = {} /\ adding = 0 /\ excused = {}
    /\ idle = {} /\ polled = {}
    /\ running = {}
    /\ req = [c \in Clients |-> "none"]
    /\ made = [c \in Clients |-> 0]
    /\ told = [c \in Clients |-> 0]
    /\ creates = 0

------------------------------------------------------------------------------
(* main                                                                      *)

Start(k) ==
    /\ phase = "down"
    /\ starts < MaxStarts
    /\ phase' = "serving"
    /\ starts' = starts + 1
    /\ key' = k
    /\ before' = There
    /\ running' = Services
    /\ loader' = "list"
    /\ todo' = {} /\ adding' = 0
    /\ excused' = {}
    /\ UNCHANGED <<silent, table, watch, api>>

Moves(from, to) == phase = from /\ phase' = to

\* The signal, and startupCancel; then c.closed and the context of the handlers.
Signal == Moves("serving", "signalled") /\ UNCHANGED running
CloseCoordinator == Moves("signalled", "closing") /\ UNCHANGED running

\* pool.Close and poller.Close refuse accounts from now on and wait for the
\* goroutines of those they have.
ClosePool == Moves("closing", "pool") /\ UNCHANGED running
ClosePoller == Moves("pool", "poller") /\ idle = {} /\ UNCHANGED running
AwaitHandlers == Moves("poller", "handlers") /\ polled = {} /\ UNCHANGED running
StopWorker == Moves("handlers", "worker") /\ running \subseteq {"worker"} /\ UNCHANGED running

\* A plausible bug: Shutdown is given a context without a deadline.
NoDeadline == FALSE

\* shutdownCtx has been running since the signal, so that its 30 seconds may be
\* over before Shutdown is called.
DeadlinePassed == TRUE

Shutdown == Moves("worker", "drain") /\ running = {} /\ UNCHANGED running
CloseDatabase ==
    /\ Moves("drain", "database")
    /\ (\A c \in Clients : req[c] = "none") \/ DeadlinePassed
    /\ UNCHANGED running

MainStep ==
    /\ \/ Signal \/ CloseCoordinator \/ ClosePool \/ ClosePoller \/ AwaitHandlers
       \/ StopWorker \/ Shutdown \/ CloseDatabase
    /\ UNCHANGED <<proc, silent, table, load, watch, api>>

\* The process is gone, and with it every goroutine.
Gone ==
    /\ phase' = "down"
    /\ running' = {}
    /\ idle' = {} /\ polled' = {}
    /\ loader' = "done" /\ todo' = {} /\ adding' = 0
    /\ req' = [c \in Clients |-> "none"]
    /\ made' = [c \in Clients |-> 0]
    /\ lost' = lost \cup ({made[c] : c \in Clients} \ {0})
    /\ silent' = {}
    /\ UNCHANGED <<proc, accounts, excused, told, creates>>

\* pgxpool.Close returns when every connection has been given back.
Exit == phase = "database" /\ (\A c \in Clients : req[c] # "query") /\ Gone

Crash == "crash" \in Faults /\ phase # "down" /\ Gone

\* The goroutines main waits for: IDLE and poll goroutines once their pool is
\* closed, event handlers once the context is cancelled, the worker in Stop; the
\* answer of a mail server or the end of its connection may have to come first.
WatcherStops(i) ==
    /\ \/ phase \notin PoolOpen /\ i \in idle /\ idle' = idle \ {i} /\ UNCHANGED polled
       \/ phase \notin PollerOpen /\ i \in polled /\ polled' = polled \ {i} /\ UNCHANGED idle
    /\ UNCHANGED <<phase, proc, silent, table, load, running, api>>

ServiceStops(s) ==
    /\ s \in running
    /\ phase \notin (IF s = "worker" THEN WorkerOpen ELSE CoordinatorOpen)
    /\ running' = running \ {s}
    /\ UNCHANGED <<phase, proc, silent, table, load, watch, api>>

\* A mail server takes a connection and answers no more.  It makes a difference
\* only when Coordinator.Close waits for who asked it.
FallSilent(c) ==
    /\ phase \in WorkerOpen \ Serving
    /\ \E i \in Ids : Row(i).box = c
    /\ silent' = silent \cup {c}
    /\ UNCHANGED <<phase, proc, table, load, watch, running, api>>

------------------------------------------------------------------------------
(* loadExistingAccounts, Coordinator.AddAccount                              *)

Loading(s) == phase # "down" /\ loader = s /\ UNCHANGED <<phase, proc, silent, table, running, api>>

Cancelled == phase \notin Serving

\* One row that cannot be decrypted fails all.
ListAccounts ==
    /\ Loading("list")
    /\ \/ /\ ~Cancelled /\ \A i \in There : Readable(i)
          /\ loader' = "next"
          /\ todo' = There
          /\ UNCHANGED excused
       \/ /\ Cancelled \/ \E i \in There : ~Readable(i)
          /\ loader' = "done"
          /\ UNCHANGED <<todo, excused>>
       \/ /\ "db" \in Faults
          /\ loader' = "done"
          /\ excused' = There
          /\ UNCHANGED todo
    /\ UNCHANGED <<adding, watch>>

\* ORDER BY created_at DESC
NewestFirst(i) == \A j \in todo : j <= i

NextAccount ==
    /\ Loading("next")
    /\ \/ /\ ~Cancelled
          /\ \E i \in todo : NewestFirst(i) /\ adding' = i /\ todo' = todo \ {i}
          /\ loader' = "add"
       \/ /\ Cancelled \/ todo = {}
          /\ loader' = "done"
          /\ UNCHANGED <<todo, adding>>
    /\ UNCHANGED <<excused, watch>>

\* AddAccount has returned, with or without an error.
Returned == loader' = "next" /\ adding' = 0

\* A plausible bug: the first account that cannot be added ends the loading.
FailureEnds == loader' = "done" /\ adding' = 0
FailureLogged == Returned

CheckClosed ==
    /\ Loading("add")
    /\ \/ phase \in CoordinatorOpen /\ loader' = "get" /\ UNCHANGED adding
       \/ phase \notin CoordinatorOpen /\ FailureLogged
    /\ UNCHANGED <<todo, excused, watch>>

GetAccount ==
    /\ Loading("get")
    /\ \/ /\ ~Cancelled /\ adding \in There
          /\ loader' = "probe"
          /\ UNCHANGED <<adding, excused>>
       \/ /\ Cancelled \/ adding \notin There
          /\ FailureLogged
          /\ UNCHANGED excused
       \/ /\ "db" \in Faults
          /\ FailureLogged
          /\ excused' = excused \cup {adding}
    /\ UNCHANGED <<todo, watch>>

\* HasIdleCapability; any error, a cancelled context among them, means polling.
Probe ==
    /\ Loading("probe")
    /\ \/ /\ ~Cancelled
          /\ loader' = IF Row(adding).box \in WithIdle THEN "toPool" ELSE "toPoller"
       \/ (Cancelled \/ "imap" \in Faults) /\ loader' = "toPoller"
    /\ UNCHANGED <<todo, adding, excused, watch>>

\* A plausible bug: AddAccount does not look whether the pool is closed.
AcceptAlways(open) == TRUE
Accepts(open) == phase \in open

AddToPool ==
    /\ Loading("toPool")
    /\ idle' = IF Accepts(PoolOpen) THEN idle \cup {adding} ELSE idle
    /\ Returned
    /\ UNCHANGED <<todo, excused, polled>>

AddToPoller ==
    /\ Loading("toPoller")
    /\ polled' = IF Accepts(PollerOpen) THEN polled \cup {adding} ELSE polled
    /\ Returned
    /\ UNCHANGED <<todo, excused, idle>>

LoaderStep ==
    \/ ListAccounts \/ NextAccount \/ CheckClosed \/ GetAccount \/ Probe
    \/ AddToPool \/ AddToPoller

------------------------------------------------------------------------------
(* AccountHandler                                                            *)

Handling(c, s) == req[c] = s /\ UNCHANGED <<phase, proc, silent, load, watch, running, creates>>

\* A client without an account asks for one, again after anything but a 201.
Receive(c) ==
    /\ phase \in ListenerOpen
    /\ req[c] = "none"
    /\ told[c] = 0
    /\ creates < MaxCreates
    /\ req' = [req EXCEPT ![c] = "testing"]
    /\ creates' = creates + 1
    /\ UNCHANGED <<phase, proc, silent, table, load, watch, running, made, told>>

\* The IMAP and SMTP tests pass or fail; the SMTP one may also last for ever.
TestConnections(c) ==
    /\ Handling(c, "testing")
    /\ req' = [req EXCEPT ![c] = "tested"] \/ req' = [req EXCEPT ![c] = "none"]
    /\ UNCHANGED <<table, made, told>>

\* The query gets a connection of the database pool, or the pool is closed.
Acquire(c) ==
    /\ Handling(c, "tested")
    /\ req' = [req EXCEPT ![c] = IF phase \in DatabaseOpen THEN "query" ELSE "none"]
    /\ UNCHANGED <<table, made, told>>

\* A plausible bug: the row is read again after the insert, by a query that may
\* fail.  The code has INSERT ... RETURNING.
RereadInserted == {"answer", "none"}
AfterInsert == {"answer"}

\* Nothing makes a mailbox unique among the accounts.
Insert(c) ==
    /\ Handling(c, "query")
    /\ \/ /\ accounts' = Append(accounts, [box |-> c, key |-> key, there |-> TRUE])
          /\ \/ /\ \E s \in AfterInsert :
                      /\ req' = [req EXCEPT ![c] = s]
                      /\ made' = [made EXCEPT ![c] = IF s = "answer" THEN Len(accounts') ELSE 0]
                /\ UNCHANGED lost
             \/ /\ "dbLost" \in Faults
                /\ req' = [req EXCEPT ![c] = "none"]
                /\ lost' = lost \cup {Len(accounts')}
                /\ UNCHANGED made
       \/ /\ "db" \in Faults
          /\ req' = [req EXCEPT ![c] = "none"]
          /\ UNCHANGED <<table, made>>
    /\ UNCHANGED told

Answer(c) ==
    /\ Handling(c, "answer")
    /\ req' = [req EXCEPT ![c] = "none"]
    /\ made' = [made EXCEPT ![c] = 0]
    /\ \/ told' = [told EXCEPT ![c] = made[c]] /\ UNCHANGED lost
       \/ "net" \in Faults /\ lost' = lost \cup {made[c]} /\ UNCHANGED told
    /\ UNCHANGED accounts

Deleted(a) == [box |-> a.box, key |-> a.key, there |-> FALSE]

\* DELETE removes the row and nothing else: whoever watches it goes on.
Delete(c) ==
    /\ phase \in ListenerOpen
    /\ told[c] # 0
    /\ accounts' = [accounts EXCEPT ![told[c]] = Deleted(Row(told[c]))]
    /\ told' = [told EXCEPT ![c] = 0]
    /\ UNCHANGED <<phase, proc, silent, lost, load, watch, running, req, made, creates>>

Request(c) ==
    Receive(c) \/ TestConnections(c) \/ Acquire(c) \/ Insert(c) \/ Answer(c) \/ Delete(c)

------------------------------------------------------------------------------

Next ==
    \/ \E k \in Keys : Start(k)
    \/ MainStep \/ Exit \/ Crash
    \/ \E i \in idle \cup polled : WatcherStops(i)
    \/ \E s \in running : ServiceStops(s)
    \/ LoaderStep
    \/ \E c \in Clients : Request(c) \/ FallSilent(c)

Spec == Init /\ [][Next]_vars

\* Only the mail server of its account holds a watcher, any of them a handler,
\* none the worker, whose requests have a deadline.
Answered(i) == Row(i).box \notin silent
Free(s) == s = "worker" \/ silent = {}

\* Goroutines run, and the database answers, and the mail servers that have not
\* fallen silent; nothing is assumed of the servers a request tests, of the
\* signal or of the loader.
Fairness ==
    /\ WF_vars(MainStep /\ ~Signal) /\ WF_vars(Exit)
    /\ WF_vars(\E i \in idle \cup polled : Answered(i) /\ WatcherStops(i))
    /\ WF_vars(\E s \in running : Free(s) /\ ServiceStops(s))
    /\ \A c \in Clients : WF_vars(Insert(c))

FairSpec == Spec /\ Fairness

------------------------------------------------------------------------------

\* Type invariant; requests have a process, the process has a key, and a request
\* that has inserted a row names it.
TypeOK ==
    /\ phase \in Phases
    /\ starts \in 0..MaxStarts
    /\ key \in Keys \cup {None}
    /\ silent \subseteq Clients
    /\ accounts \in Seq(Accounts)
    /\ loader \in {"list", "next", "add", "get", "probe", "toPool", "toPoller", "done"}
    /\ todo \subseteq Ids /\ adding \in Ids \cup {0}
    /\ loader \in {"add", "get", "probe", "toPool", "toPoller"} => adding # 0
    /\ idle \subseteq Ids /\ polled \subseteq Ids
    /\ running \subseteq Services
    /\ req \in [Clients -> {"none", "testing", "tested", "query", "answer"}]
    /\ made \in [Clients -> Ids \cup {0}]
    /\ phase # "down" => key \in Keys
    /\ \A c \in Clients : /\ req[c] # "none" => phase # "down"
                          /\ req[c] = "answer" => made[c] # 0
    /\ told \in [Clients -> Ids \cup {0}]
    /\ creates \in 0..MaxCreates
    /\ before \subseteq Ids /\ excused \subseteq Ids /\ lost \subseteq Ids

\* main.go:193-225: when the accounts have been loaded, one that was there when
\* the process was started is watched, unless it has been deleted, a query of
\* its own failed, or some row could not be read with the key of the process.
\* Apart from that what happens to one account is no obstacle for another.
UnwatchedExplained ==
    phase = "serving" /\ loader = "done" =>
        \A i \in before \cap There :
            \/ i \in idle \cup polled
            \/ i \in excused
            \/ \E j \in before : ~Readable(j)

\* coordinator.go:178-208, main.go:146-189: from the moment Coordinator.Close has
\* waited for a part, nothing of it runs or is added, although the loader is not
\* waited for; when the database pool is closed, neither watchers nor handlers
\* nor the worker are left to query it.
QuietAfterClose ==
    /\ phase \notin PollerOpen => idle = {}
    /\ phase \notin PollerOpen \cup {"poller"} => polled = {}
    /\ phase \notin WorkerOpen => running \subseteq {"worker"}
    /\ phase \notin ListenerOpen => running = {}

\* account_handler.go:132-141: a mailbox has a second account only if the answer
\* to the request that made the first one was lost, by the network, the
\* database or the end of the process.
SecondRowExplained ==
    \A c \in Clients :
        LET mine == {i \in There : Row(i).box = c}
        IN Cardinality(mine) <= 1 + Cardinality(mine \cap lost)

\* main.go:146-189: after a signal the process ends, whatever requests are at
\* work and wherever the loader is, unless a mail server falls silent.
ShutdownEnds == phase = "signalled" ~> phase = "down" \/ silent # {}
==============================================================================
