# Verification of wacli-pro

wacli-pro is a WhatsApp command line client: it keeps a local SQLite store in
sync with a WhatsApp account (`sync`, or a background daemon), and its commands
read that store or act through a live connection. The logic worth verifying is
mostly in what runs at the same time: an event handler, a queue and a worker
that must not lose acknowledged events; a lock file that several processes
fight over; caches filled by lookups that race renames; a daemon to which
commands delegate, which are therefore written twice; requests for history
whose answers come late; files that are downloaded beside everything else; a
schema that several processes migrate at once.

This directory holds TLA+ models of those parts, the TLC configurations that
check them on small instances and TLAPS proofs for all instances.

    tlc -config SyncPipeline.cfg MCSyncPipeline.tla
    tlapm SyncPipelineProofs.tla

## 1. The system

| Component | State | Operations | Interacts with |
|---|---|---|---|
| **Sync pipeline** `internal/app/sync.go` | event queue (4096), worker, `drainReq`, `workerDone`, `handlerWG`, two contexts, counters | handler, worker loop, `processQueued`, wait loop, `finish`, limits | whatsmeow calls the handler; the worker writes the message store and uses the name cache; `AfterConnect` starts the IPC server or a backfill |
| **Single-instance lock** `internal/lock` | the file LOCK, the kernel's flock on it, the pid in it | `Acquire`, `Release` | every command that needs the session; process death |
| **Name cache** `internal/app/sync_cache.go` | TTL entries for groups and contacts, a generation | lookup, put, invalidate one, invalidate all | filled by message processing; invalidated by `groups rename` and `groups refresh` of the daemon; persists rows |
| **Message store** `internal/store` | tables messages, chats, contacts, groups, participants, calls; FTS index | upserts with merge rules, revoke, chat-state updates | all writers of the process, and other processes' readers |
| **Daemon IPC** `internal/ipc`, `cmd/wacli-pro/{helpers,daemon}.go` | Unix socket, connections, handlers in flight | `Call`, `tryDaemonCall`, `Serve`, `handleConn`, `Close`, `program.Start/Stop` | lock (the daemon holds it), Sync (the daemon runs it) |
| **Migrations** `internal/store/migrations.go` | `schema_migrations`, the schema, `ftsEnabled` | `ensureSchema` and nine migrations | every open of the store |
| **Backfill** `internal/app/backfill.go` | one waiter channel per call, the oldest-message cursor | request, wait for the answer, wait for the cursor | Sync persists the answers asynchronously |
| **Media workers** `internal/app/media.go` | job queue (512), four workers | enqueue or drop, download, mark | Sync enqueues; `Sync` stops the workers on return |
| **WhatsApp client** `internal/wa` | the connection, handler list | connect, `ReconnectWithBackoff`, wrappers | whatsmeow (external) |
| **Chat state** `internal/app/chat_state.go`, `sync.go` | columns archived, pinned, muted_until, unread | four commands, four events, `ListChats` | WhatsApp changes first, its event comes back through Sync |
| **Search** `internal/store/search.go` | `ftsEnabled` of the process | `searchFTS` or `searchLIKE` | the index and triggers of migration 3 |
| **Commands** `cmd/wacli-pro` | none of their own | check, ask, change at WhatsApp, write | store, lock, IPC: run directly or as handlers of the daemon |

What is hard here, and rarely met by a test: goroutines of whatsmeow calling
the handler while Sync stops; a queue that is full while somebody waits for its
producer; two contexts that end at different times; processes that die holding
a lock or before they have written their pid; a lookup that was in flight while
what it read changed; a time-out that races the answer; a message, its edit and
its revocation arriving in any order. `PROJECT.json` lists these hazards with
their lines.

What makes each component correct:

- **pipeline**: WhatsApp does not repeat an acknowledged event, so every event
  the handler took is processed, once, on every exit path; processing keeps the
  order of delivery; a graceful exit keeps full lookups; shutdown terminates;
- **lock**: at most one holder; nobody is locked out by a dead process; a held
  lock is refused at once;
- **name cache**: an invalidation is final for what was read before it; tables
  converge to WhatsApp's names; a known name is not lost;
- **message store**: what a row has gained (a revocation, keys, a file) no replay
  takes away; a message has one row; edits and revocations take effect in
  whatever order they arrive;
- **IPC**: a command is executed at most once, by the daemon or directly;
- **migrations, search**: every crash point can be resumed, races of two opens
  leave one that succeeds, a search finds what is stored;
- **backfill**: the history is stored without holes, reports are true, every
  call ends, and asking again gets everything;
- **media**: a marked file exists and is complete; storing never waits for a
  download; a stopped Sync is quiet;
- **chat state**: the list tells what the chat is at WhatsApp;
- **commands**: the same whether or not a daemon runs them; an answer can be
  relied upon.

## 2. Plan

In this order, most important first; all but the last are done.

1. `EventLedger` (abstract) and `SyncPipeline` (detailed, implements it).
2. `StoreLock`.
3. `NameCache`.
4. `MessageStore`: the merge rules of the tables `messages` and `chats` under
   replays, late address mappings and concurrent writers.
5. `CommandLedger` (abstract: a command acts at most once and its answer is
   true) and `DaemonIPC` (client, daemon, direct execution under the lock, of
   which the promise of one holder is used).
6. `Migrations`: crash and resume, two processes opening one store.
7. `MediaDownload`, with the pipeline's shutdown and process death.
8. `Backfill` over an asynchronous persister.
9. `Commands`: both implementations of every live command, side by side.
10. `ChatState`: archive, pin, mute and read state, set by commands and by the
    events that answer them, under two addresses and in two units of time.
11. Contacts in the name cache.

## 3. Modules

### EventLedger, SyncPipeline

`EventLedger` is what Sync promises: events are accepted, then processed, and
the ledger closes only when nothing is outstanding. `SyncPipeline` is how.

- **Main** (`main`): `StartOK`/`StartFails` are Connect, media workers,
  refreshes and AfterConnect; then the wait loop (`SeeCancel`, `SeeDisconnect`,
  `Reconnect*`, `IdleExit`) and the five steps of `finish` (`Unregister`,
  `WaitHandlers`, `WaitWorker`, sweep, `Return`).
- **Worker**: `WorkerTake`/`WorkerCommit` process one event; `WorkerStop` is
  the select picking `ctx.Done` or `drainReq` over a queue that may hold
  events; `WorkerExit` is the drain loop finding the queue empty.
- **Dispatchers**: whatsmeow's goroutines. `Lookup` and `Enter` separate
  finding the handler from calling it. With `LockedDispatch` the handler list
  is read-locked meanwhile and `RemoveEventHandler` waits, as whatsmeow does;
  without it (a client that, like the tests' fake, copies the list) a handler can
  be called after its removal. The run has the lock; the proofs hold for both.
- **Processing** is abstracted to `Commit`: what the event was (message or
  chat state), whether it was stored and counted, whether the lookups' context
  was dead, and the limit check. A HistorySync counts as one message.
- **Contexts**: `ctxDone` with its `cause`, `procDone` with `GraceExpires`.
- `accepted`, `late`, `log`, `degraded`, `cause` are history variables.

Not in the model: the `Connected` event (a presence call), progress output,
webhooks, media jobs (see MediaDownload), and time: the idle ticker may fire
whenever main waits, the grace period may end at any moment.

### StoreLock

A process runs through `Acquire` system call by system call: open (an existing
file or a new inode), flock, and on failure read the pid *through the path*,
judge it, remove the path, start over; on success truncate and write the pid.
`Die` can happen anywhere and releases the flock, as the kernel does; pids are
never reused, so the model does not contain the further failures that reuse
would bring. `Release` leaves the file and the pid in place. An inode may be
used again once it has no name and nobody has it open.

### NameCache

Metadata of a group is its version number at WhatsApp. `Lookup` goroutines run
`cachedGroupName` inside `storeParsedMessage`: get (with the generation), fetch
without the mutex, upsert the group, replace the participants, put, upsert the
chat. `Renamer`s run `opGroupRename`, `Refresher`s `opGroupRefresh` or (in
`Startup`) `refreshGroups`, persisting group by group. `ChangedElsewhere` is a
change by another device, of which nothing is announced; `Expire` is the TTL.
Version 0 is the empty name of a failed lookup, which becomes the bare JID in
the chats table. `floor` and `floorAt` are history.

### MessageStore

One conversation, which WhatsApp knows under a phone number and under a hidden
address. `origin` is what WhatsApp holds of a message (when each version was
made, whether it was revoked); `chats` and `rows` are the two tables, as
functions on the keys present. A `Writer` is any goroutine that writes: the
worker and inline handlers (`StoreChat`, then `StoreMessage`; `ProcessRevoke`),
and the commands, in the daemon or on their own, which act on WhatsApp first and
write afterwards (`SendMessage`, `PersistChat`; `EditMessage`; `DeleteMessage`,
`MarkDeleted`). `Abandon` is a failing statement or the end of the process.
What may be delivered is every live event, edit and history export so far, any
number of times, in any order, under either address. `LearnMapping` is the
moment from which `ResolveLIDToPN` succeeds. A text is the number of its
version; of the media columns only "there is a type" and "there are keys"
matter. `told`, `skipped` and `early` (the mapping was known from the start) are
history variables.

Left out: names and senders (see NameCache), reactions and quotes, and the
chat-state columns (see ChatState). A send and its row happen within one second.

### CommandLedger, DaemonIPC

`CommandLedger` is what a user may conclude from the end of a command: it acts
at most once; "ok" means that it acted, "refused" that it did not and never
will, "failed" that it will not any more, and only in "doubt" may it still be
executing. `DaemonIPC` is how commands are executed.

- **Daemon** (`phase`): `Start` takes the lock, `Listen` is NewServer in
  afterConnect, `SyncReturns`, `CloseServer`, `CloseApp` and `Release` are the
  end of `program.run` in the order of its calls and defers. `Stop` cancels the
  context at any time; `ServeEnds` is the goroutine of `Serve` that closes, and
  so unlinks, the listener; `Exit` ends the process anywhere (a failure, the 20
  seconds of Stop, a kill) and leaves the socket's path in place. The service
  manager may start it again.
- **Connection** (`job`, `reply`): in the listener's backlog, accepted and read,
  its handler running, over. Handlers are not waited for: they go on while the
  daemon ends, until the process does. `Act` needs a connection to WhatsApp,
  which `App.Close` ends. An error may hide that the command did act.
- **Command** (`pc`): `Probe` (IsAvailable), `Dial`, `Send`, `Receive` or
  `CallFails` (the connection ends, cannot be written, or time is up); or the
  fallback `DialFails` and the direct path under the lock; `Kill` anywhere.

What an operation does is abstracted to acting once: each `op*` and `handle*`
function makes one call that changes something at WhatsApp. Of the lock only
its promise is used; `lock_race` shows when it is not kept.

### Migrations

A store is the set of its pieces (tables and columns), the state of
`messages_fts`, whether its triggers exist, and the versions recorded. A process
opens it statement by statement: `Start` is Open up to the creation of
`schema_migrations`, `Load` reads what was applied once, `Continue` is the loop.
`Script` stands for the migrations that only CREATE IF NOT EXISTS, `CheckHas`,
`CheckHasNot`, `Alter` and `AlterFails` for those that look for a column and
then add it, and the steps from `Look` to `Enable` for migration 3 with its
swallowed errors (`IndexFault`). `Record` is the row in `schema_migrations`, whose
primary key makes a second process fail. `Kill` can come between any two
statements. Initial stores are empty, of a release without `schema_migrations`,
or as a release left them at migration k. `Insert` fires the triggers; `Found` is
`SearchMessages`, of which only the choice of the index matters. `alone` and
`disturbed` are history.

### MediaDownload

`Store` and `Enqueue` are the two ends of processing a message with media,
between which the queue may fill. Workers `Take` or `Skip` a job; the command
`Ask`s, with or without `--output`; both then `Begin`, `Fetch`, `Rename` and `Mark`,
or fail in between. `Panic` ends a worker for good. `Stop` and `Return` are the
deferred `stopMedia`; `Cancel` is the Sync's context, under which the workers
live; `Kill` and `Restart` are process death: rows and files survive, the queue
does not, and orphaned temporary files are dropped from the model since nothing
reads them. A message in `hidden` is delivered under another address than its
row has, and its job finds nothing.

### Backfill

One chat; its messages are numbered from the oldest. A call is `Look` (the
cursor), `Ask`, `Receive` or one of the other ends of its select, and the polling
loop: `Continue` when the cursor moved, `StillGrowing` when rows were added
somewhere and the deadline is set again, `GiveUp`. The phone (external) answers
any request it has, in any order or never; `Deliver` first enqueues the batch for
the Sync's worker and then `Tell`s the handlers of the calls, which take the
first answer for the chat, whoever asked. `Process` stores one message at a time.
`grown` abstracts the count of rows of the whole store.

### Commands

A path is the sequence of steps a command takes: a check, a question that must
or need not be answered, a change at WhatsApp, a write that must succeed or is
only warned about, something local. `Table` gives for each live command the path
of the process that connects itself and that of the daemon's handler; the
operations of `live_ops.go` are written once and used by both; of
`history.backfill` one request stands for all, the others are Backfill's. Both
paths are run in the same circumstances (`wrong`), step by step; `next` is the position of each
in its course. Whether a path runs at all, and only once, is DaemonIPC's
business.

### ChatState

`remote` is one chat at WhatsApp, `local` its rows: the chat has two addresses,
and every row (`rows`), update and message is of one of them. A message's row is
made under the number once the mapping is known (`Home`, `Learn`); events and
commands update the row of the address they name and no other.

- **Commands**: `Call` (or `CallFails`) changes WhatsApp, `Write` (or
  `WriteFails`) then the row, if there is one. `OwnRow` is the row that sending a
  message or storing a group makes.
- **Events**: every change, also of other devices, comes back as an event, with
  the messages in the order of their stamps: in `inbox` until Sync's handler sees
  it, then in `queue`. `Process` and `ProcessMessage` are the two arms of
  `processQueued`; `MessageFails` and `ProcessFails` their discarded errors.
- **Sync** (`sync`): "on"; "late", when the worker is gone and the handler still
  registered, so that each event is queued or handled at once, whichever the
  select picks (`Deliver`, `ProcessInline`); "closing", when `finish` processes
  what is left and events that arrive reach no handler (`Unheard`); "off".
  `Cancelled`, `Unregister`, `Returns` lead from one to the next, `Start` back.
  `Kill` is the death of the process, with its queue and its commands; the store
  and WhatsApp's `inbox` survive. SyncPipeline has all this but `Kill` in more detail; here
  a Sync that stops is what makes updates miss their row.

Times are kept in their units: an event's end of a mute in milliseconds, a
command's in seconds. `last` and `lost` are history: the stamp of the last change
of each field, and for each address the fields whose last change its row has
missed or will miss. A field leaves `lost` when a later change reaches the row.

## 4. Runs

| Run | Question | Instance |
|---|---|---|
| `sync_locked` | once, in order, enriched, nothing lost; implements the ledger; shutdown ends, accepted events are processed | two dispatchers (message, chat state, disconnect / two messages), queue of 1, idle exits, a limit of 2 messages, fair |
| `lock` | mutex before the first death; alone until release; Acquire returns | three processes, three inodes, fair |
| `lock_race` | *violated*: mutual exclusion | the same |
| `names` | cache current, fresh lookups, tables converge | a lookup, a rename, a refresh and a starting refresh, one group, one failure, changes from elsewhere, fair |
| `store` | rows only gain, chats are recent, one row per message when the mapping was known | two writers, two messages, two versions; where the mapping is learnt late, one writer and one message of somebody else (`Small`) |
| `daemon` | implements the ledger; who acts holds the lock; a serving daemon is reachable; every command ends | two daemons, two commands of which one may be delegated (`OneDelegates`), fair |
| `migrations` | schema complete when open; lone opens succeed, of racing ones one does; searches find all, inserts work | two processes with either binary, three starts, one fault, stores of releases 0 and 7 and none |
| `migrations_fts` | *violated*: an index that is there is used | one process, started twice |
| `media` | marked files are complete, temporary files owned, a returned Sync quiet; storing goes on, jobs are downloaded, the stop returns | two workers and a command after one file, queue of 1, one panic, kills and restarts, fair |
| `backfill` | no holes; true reports; calls return; askers get all | five messages in batches of two, one unstorable, one revocable, one fault, one caller, fair |
| `commands` | same effects and answers with and without a daemon; answers are true | every command, any two circumstances |
| `chat_state` | the list tells the truth | one command and other devices, archiving under both addresses, or everything under one; three changes, messages, failures, restarts or seconds (`Small`), killed anywhere |

**Bounds.** A queue of one makes "full" and "empty" alternate, which is where
handler, worker and `finish` meet; a longer queue only separates them. Two
dispatchers give two handlers in flight; five events cover a message with its
chat's update, a concurrent history sync and a disconnect. For the lock, one
process to die with its pid on disk and two to contend for what it left. For
the names, one goroutine in flight, two writers of the tables and two versions:
the interesting relation is only "before or after the invalidation". For the
store, two writers meet between the two statements of one of them, two messages
give one chat two times, and two versions an edit. For the daemon, one process
ending while the next starts shares the path with it, and a second command
takes the lock from both; two delegated commands only meet at the listener. For
the migrations, two processes race and a third start resumes what one left;
release 7 has all columns but not the last two migrations, release 0 none
recorded. For the media, two users of one file meet at its rename and its mark,
and the third fills the queue. For the backfill, five messages in twos take
three requests, one more than a call has, so that calls end at their limit and
a late answer meets the next call; two calls at once are left to
larger instances (the model has them: `Caller`), since a late answer of an
earlier call is already somebody else's. Two circumstances are what a command
can meet at most on two different steps. For the chat state, one command
and one other change are what it takes for one to overtake the other, and three
happenings (`MaxHappens`; a Sync runs from the start, ends and deaths are free)
are what each exception of the property takes: a message, a change and a failure,
for one. What bounded runs leave open, the proofs close
for most safety properties.

**Fairness.** `SyncPipeline`: the Go scheduler runs every goroutine that can
run (weak fairness of the worker, of each handler call and of main); nothing is
assumed of the network, the caller or the idle timer. `StoreLock`: a process
inside Acquire keeps running unless it dies; a holder need never release.
`NameCache`: calls return, time passes (TTL), and messages keep arriving in
each group, which is the condition under which convergence is claimed.
`DaemonIPC`: the accept loop and the handlers run and respect their contexts,
and a command keeps going; no time-out, stop or crash is ever relied upon.
`MediaDownload`: processing and workers go on, a download ends one way or the
other, and Connect returns; nobody has to deliver, cancel, stop or ask.
`Backfill`: the worker and the calls go on and timers fire; the phone need not
answer. `AskersGetAll` states on its own what else it takes: somebody who keeps
asking, a phone that keeps answering, and a moment without other chats' rows.

## 5. Findings

Two runs that TLC must find violated:

1. **Two holders of the lock** (`lock_race`). Release keeps the pid in the
   file, and a new holder is covered by the dead one's pid until it has written
   its own. A contender that reads it removes the *locked* file and locks a new
   one. `AloneUntilRelease` shows that the hand-over is the only window.
2. **The index is used once** (`migrations_fts`). `ftsEnabled` is set where
   migration 3 ends and nowhere else, so only the process that created the index
   ever searches it; the others search with LIKE.

Properties stated in the modules that the code does not have, each with the
behaviour that breaks it; no run checks them:

- `SyncPipeline.StateAfterMessage` (`sync.go:293` promises it). Once cancelled,
  the worker may exit while the handler is still registered; the select at
  `sync.go:396` then chooses at random between the queue and inline processing:
  a message can wait in the queue while the chat-state update after it is
  applied, to no row. `OrderUnlessCancelled` is what holds.
- `NameCache.LookupKeepsRename` (`sync_cache.go:34`). The generation guards the
  cache but not `UpsertGroup`: an in-flight lookup writes the old name over a
  rename. `Converges` shows that the next lookup heals it.
- `MessageStore.OneRowPerMessage` (`docs/spec.md:228`). Rows stored before the
  address mapping is known stay under the hidden address; a replay stores them
  again under the number. `OneRowWhenMapped` is what holds.
- `MessageStore.RevokeTracked` (`CHANGELOG.md:96`). Revokes are looked up under
  the address in their key, rows are stored under the resolved one; also a
  revoke that is processed before its message is forgotten.

What the exceptions in the checked properties stand for:

- `SameUnlessFileOrLink`: `live_ops.go:15` says "guaranteeing identical behaviour
  whether or not a daemon is running". A relative path is resolved in the
  daemon's working directory, and `send text` makes link previews only when no
  daemon runs.
- `SearchFindsAll`: a process killed between the creation of the index and its
  filling leaves an index that is taken to be complete at the next start.
- `StoresWhenOpen`, `LoneOpenSucceeds`: a binary without `sqlite_fts5` cannot
  insert into a store that has the triggers, nor pass migration 3 when an index
  exists and the migration is not recorded.
- `ListTellsTruth`: the row of a chat misses a change, and stays wrong until the
  next change of that field reaches it, when
  - the change named the chat's other address: events (`sync.go:298`) and
    commands (`chat_state.go:14`) do not resolve the address as messages do
    (`sync.go:560`), so also when the mapping is learnt before the message is
    stored;
  - it came before there was a row, or the message that would have made the row
    could not be stored (`sync.go:250`) or was itself lost;
  - the process died with the event, or that message, in its queue
    (`sync.go:336`), or no handler was registered when it arrived;
  - it was handled inline after a cancellation, ahead of what is still queued
    (`sync.go:396`);
  - its update failed, and the error was discarded (`sync.go:293`);
  - a command wrote an older change over it (`chat_state.go:14`).

  None of these can be left out: without any one of them TLC finds the property
  violated on the same instance. Apart from them, a mute with an end is listed long after it,
  since the event stores milliseconds (`sync.go:316`).
- `QueuedIsDownloaded`: a job that is dropped (`sync.go:114`), that names its
  chat by the hidden address (`sync.go:223`) or whose download failed is not
  tried again.
- `NoHoles`, `AskersGetAll`: a message that could not be stored is never asked
  for again, and a batch of which nothing can be stored is asked for for ever
  (`backfill.go:116`).
- `GivesUpRightly`: a late answer may be taken for the present one
  (`backfill.go:91`), and a worker that is behind lets a call end with "no older
  messages" although they are about to be stored: the wait that
  `backfill.go:167-172` describes bounds this, it does not exclude it.

Seen while modelling: the number of messages stored past `MaxMessages` is not
bounded by the queue, since the handler accepts events until `finish`
unregisters it; a failed lookup renames a known chat to its JID until the next
lookup; and history exported before an edit and stored after it restores the
unedited text.

## 6. Proofs

All constants arbitrary under the modules' assumptions.

- **SyncPipelineProofs.** The inductive invariant `IInv` joins the type
  invariant with: which parts are up in which phase of `finish` (`PhaseInv`);
  where an accepted event can be - processed, queued, in the worker's or the
  sweep's hand, or in a handler's hand before main has waited for handlers
  (`Placed`); and that what a dispatcher has not yet called is nowhere else
  (`Fresh`). It is needed because `NothingLost` only speaks of the end.
  From it: `TypeCorrect`, `NothingIsLost`, `ImplementsLedger` (every step maps
  to a ledger step or a stutter), and with `ContextInv`
  `GracefulDrainIsEnriched`, with `OnePlace` `ProcessedAtMostOnce`. `OrderIsKept`
  needs that of two events of a dispatcher the first is ahead wherever they are
  (`Ahead`), and that without a cancellation the worker leaves only after main
  has waited for the handlers (`Stopping`).
- **StoreLockProofs.** `IInv` says that flock and open file point at each other
  (`LockInv`), that a pid that was read belongs to a command that started
  (`Written`), and that without a death nobody removes (`OneFile`). From it
  `MutexWithoutDeaths`; `AloneIsStable` needs only the type invariant.
- **NameCacheProofs.** A name in hand that is older than an invalidation
  carries an older generation (`InHandCurrent`), nothing is newer than the
  server (`NoFuture`). From it `CacheStaysCurrent` and `MessagesPickUpRenames`.
- **MessageProofs.** Of MessageStore: `NothingForgotten` follows from the merge
  rule and the types. `ChatsAreRecent` needs what a writer holds between its two
  statements (`PendingCovered`) and that a chat's time never goes back
  (`ChatsGrow`). `ReplaysDoNotDuplicate` assumes that the mapping is known from
  the start and that the user writes to numbers; section 5 says what happens
  without the first.
  Of Backfill, for any number of calls, messages and sizes of batches, the
  properties are inductive only together with the queue (`HistoryInv`): a message
  in it has every hole above it ahead of it there (`QueueInOrder`); a request on
  its way, or about to be made, starts at a row (`AskedFromRows`); and the batch
  that answers what the phone last answered, or what a call was told, is stored
  or in the queue (`AnswersDelivered`). From it `BackfillNoHoles`,
  `BackfillStartIsReached`, and `BackfillGivesUpRightly` for the step that gives up.
- **CommandProofs.** Of DaemonIPC: `IInv` says that the lock and the phases agree
  (`LockInv`), that a listener is open only while its daemon holds the lock and
  owns the path (`SockInv`), and that the one action of a command is pending in
  one place, its own process or its connection (`CommandInv`): at-most-once is
  not inductive without it. From it `CommandsKeepTheLedger` (the refinement),
  `OnlyTheHolderActs`, `ServersAreReachable`.
  Of Commands, for every set of things that go wrong together: `PathsAlike` goes
  through the table and shows, command by command, that both paths consist of the
  same guards in whatever order, the same turn (the change, or the question the
  command is for) and the same tail (`Runs`), where connecting first and making a
  preview count for nothing (`Slack`): WhatsApp out of reach stops the turn as
  well. The invariant `PathInv` then says what a path has done at each position in terms of
  guards, turn and tail alone (`Result`): nothing before the turn, the change after
  it, and of the tail what lies behind it and was not left out (`KeptBefore`,
  `Skipped`). So both paths end the same (`CommandSame`), and the answer is true
  (`CommandAnswers`): a tail with a step that must succeed has no other and follows
  a change that may be repeated (`Tails`).
- **MigrationsProofs.** What is recorded is there, a process at migration v has
  every earlier one recorded, and what is left of its own is there or in `todo`
  (`Left`, `Placed`); so nothing is missing when it is through. For `LoneOpens`, a
  process that nobody has overlapped is at a migration that nobody has recorded
  since it looked, and at a column that is still missing (`Undisturbed`).
  `OneGetsThrough`: who is overtaken is `Doomed`, but who overtakes is not, since
  migrations are recorded in order (`Hope`). For
  `SearchesFindAll` and `StoresThere`, `Calm` says statement by statement what an
  undisturbed migration 3 knows of the index (`Index`): empty where this process
  made it and has not filled it, complete where it uses it; an index not yet
  looked at is complete (`Whole`), and triggers have a table to write to (`Fit`).
- **MediaDownloadProofs.** Where a user is says what it has in hand (`Held`): a
  temporary file that is whole before it is renamed, and the whole file before
  the row names it. `ReturnsQuietly` needs that only a connected or stopping Sync
  has workers (`Workers`).
- **ChatStateProofs.** What is on its way is stamped once and in order, and tells
  WhatsApp's value if it is of the last change of a field (`Stamps`). Every field
  of every address that is not `lost` has its last change on its way to a row
  there or made by then (`Coming`), or has none on its way and the row is right
  (`Settled`): the property speaks only of rows that are there and is not
  inductive. A row that will be made has the defaults (`Blank`), and a command about to
  write has WhatsApp's value unless it changed since (`Fresh`).

Every safety invariant, action property and refinement that the passing runs
check is stated by a theorem. Only model-checked: the liveness properties
(`ShutdownCompletes`, `AcceptedIsProcessed`, `FailsFast`, `Converges`,
`EveryCommandEnds`, `StoringGoesOn`, `QueuedIsDownloaded`, `StopReturns`,
`CallReturns`, `AskersGetAll`), which are beyond the prover.

## 7. Not modelled

Contacts in the name cache, aliases, tags and call events (one statement each);
the service manager's commands; windows' lock; the parsing of protobuf messages
beyond what MessageStore tells apart, link previews, wave forms and stickers;
pairing and logout (one network call each, no state of ours); the text match and
filters of search, export and table output; configuration and path helpers.
whatsmeow, the phone and SQLite are external: the first appears through its
handler list and its answers, the second through the history it sends, of the
third only that a statement is atomic and that a trigger fires is used.
