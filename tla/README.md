# Tau: verification models

TLA+ models of Tau, an agent runtime: an asyncio web host and a terminal application that run
coding-agent sessions with tools, providers and extensions, keep them in SQLite or in files, and
show them to browsers and users.  The models are translated from the code under `src/src`;
`PROJECT.json` maps every definition to the lines it stands for.

## The system

Each process runs one asyncio event loop, so a *step* of a model is what the loop executes between
two suspensions: code without an `await` is one action, and every `await` is a place where another
actor may run, where a task may be cancelled, and where the process may stop.  Threads (files, plain
handlers of extensions), child processes, and other processes that use the same files are actors
of their own.

| Part | State it keeps | Operations | What must hold |
|---|---|---|---|
| **Agent pool** `agent_pool.py` | sessions, a FIFO lock and counters each, a global FIFO semaphore, a task and a bounded stream per run | register, submit, steer, cancel, abort, compact, close, remove, shutdown | turns of a session are exclusive and FIFO; slots and counters are never lost; a closed session has no task; cancel and shutdown end |
| **Durable runtime** `tau_web/runtime.py` | driver tasks, aborted runs, load and queue locks; rows of runs and of queued messages | submit, retry, cancel, abort, steer, follow up, dispatch, move, remove, retarget, compact, change settings, shutdown, recovery | rows tell the truth and stay terminal; messages reach the right run once and in order; settings and agent agree |
| **Event broker and SSE route** `sse.py`, `routes/events.py` | cursor, replay buffer, drop floors, a bounded queue and a waiter per subscriber | publish, subscribe, next, close; connect, snapshot, write, heartbeat, disconnect | only low events are lost; nothing twice; no wake-up is lost; an incomplete replay is never passed off as complete |
| **Tool approvals** `approvals.py` | pending requests with a future and a `resolving` flag; the audit log | request, resolve, cancel, shutdown | a tool runs only when "allow" is recorded; one decision per call; every request ends |
| **SQLite writer, database, host** `tau_web/sqlite`, `services.py` | a priority queue and one connection; process lock, schema, read pool; the order of services | write, maintain, open, migrate, recover, read, close, unwind | writes are atomic and answered; one process writes; nothing is closed under its user |
| **Repositories** `repositories.py`, `media`, `plan.py`, `events.py`, `chat_routing.py`, `legacy_migration.py` | rows of sessions, entries, media, queues, plans, extension state, timelines, deliveries | revisioned updates, uploads, moves, pages, deliveries, imports, retention | no update is lost; no blob is missing; a message arrives once; pages are complete |
| **Sessions** `session.py`, `tau_agent`, session managers | transcript in memory, a tree of entries with a leaf, harness queues, an index | prompt, continue, cancel, compact, branch, load, index, resume | what a restart replays is what the agent has; every call has its result |
| **Terminal** `tui/` | workers, display state, widgets, the prompt and its completions | submit, queue, cancel, compact, change session, paste, complete | prompts stay in their session; the screen shows the transcript |
| **Providers** `tau_ai`, `provider_*.py`, `oauth.py`, compaction | settings and credentials in shared files, streams, tool-call builders, native compaction state | choose, log in, refresh, stream, retry, translate, compact | who is shown is who answers; calls are whole; nothing is forgotten |
| **Tools** `tools.py` | locks of paths, threads, processes, a limit | read, write, edit, sh, python, pytest | edits are exact and serial; no process or copy is left |
| **Extensions** `tau_extensions`, `tau_web/extensions.py` | plan, registry, listeners, services, actions with shared futures | discover, resolve, activate, reload, emit, execute, render, annotate, dispose | only trusted ones run, in order; a withdrawn one leaves nothing; each caller gets its result |
| **Local resources** `tau_coding/extensions`, `skills.py`, `prompt_templates.py`, `context.py` | registrations and hooks of Python extensions, a registry of commands that replacements share, skills, templates, context files | load, register, transform, dispatch, execute, reload, replace | default commands are never replaced; a session works with one load; every hook is heard; files are used by precedence |

How they interact: a route of the web host calls the *runtime*, which writes a row and submits the
run to the *pool*; the pool runs the *session* (harness, loop, tools) under the session's lock and a
slot; a driver task reads the run's stream, updates the row and projects each event to the timeline
and the *broker*, from which the SSE route feeds the browsers.  A tool that needs consent suspends
the loop inside an *approval* until a browser, a timeout, an abort or the shutdown decides.  All
rows go through the *writer*.  The terminal runs the same sessions without pool and runtime.  On
shutdown `services.py` stops approvals, runtime (with the pool), receipts, broker and database.

The hard behaviours are interleavings at `await`s (a check that is stale when it is used),
cancellation that reaches a task wherever it waits, bounded queues, partial failures of a write,
threads and processes that outlive their call, processes that share a file, and a process that
stops at any point.  `PROJECT.json` "hazards" lists them line by line with the properties that
cover each, or why none does.

## The modules

Each module begins with a comment that names its code and its abstractions.  In most of them a
property's name says what is promised and a comment quotes or explains it.  Operators marked
`Mutant:` are alternative bodies for the operator beside them, each a plausible mistake, and each
violates a property of the module's run: one for every property a run checks (`PROJECT.json`
"mutants"), the others for single conjuncts of those properties.

### The core: AgentPool, TurnScheduler, DurableRuntime, EventBroker

`AgentPool`: `pool`, `slots`, `slotQueue` are the pool object and its semaphore; `sess[s]` is the
`_RegisteredSession`; `run[r]` is the task of `_run` with its `_EventStream`, and `run[r].pc` says
where it is:

    new -> lock -> slot -> start -> gen <-> put -> ended -> gone

`lock` and `slot` wait for `turn_lock` and `_semaphore`; `gen` iterates the session generator; `put`
is blocked by a full stream; `gone` has seen its done callback.  `Finish` is both `finally` clauses
with the release of the lock between them, as nothing suspends there.  A generator that is left
with `break` or by a cancelled `put()` stays suspended at its `yield` until the finalizer hook
closes it (`Reap`), and occupies the harness meanwhile.  `TurnScheduler` is the promise (runs of a
session wait in line, the first becomes active when no other is and the bound allows it, a run may
leave at any point); `AgentPool` implements it (`ImplementsTurns`) under `TurnPhase`, `TurnLine`.

`DurableRuntime`: one session of `DurableAgentRuntime` with the pool as the runtime sees it.  `row`,
`pending`, `consumed` are what SQLite holds and all that `Restart` keeps; `task[r]` is where
`_submit` and `_drive_run` are; `ops` holds the queue calls that are suspended under the queue
lock; `session` is the loaded session with its harness queues; `seen` is what the agent has read.

The models of the runtime and the pool meet at `pool`: what `_run`, `put()` and the turn lock of
`AgentPool` promise is what `PoolBegins`, `PoolYields`, `PoolEnds` and `PoolRefuses` do here.

`EventBroker`: `publish` (replay buffer, floors, fan-out with merge, eviction, overflow) and the whole
request of `/api/events`, with its waiter and heartbeat, up to the browser that remembers its last
id and reconnects.  Merged events carry the set `parts` of cursors whose content they deliver.  What
the route still has to write is the set `todo` of a connection, written in the order of the cursors.

### The host: MCHost

`ToolApproval` (each task in `request()`, each `resolve()`, and `shutdown()`), `SqliteWriter` with its
abstract specification `AtomicStore` (a write is applied whole or not at all and the answer says
which), `SqliteDatabase` (processes that compete for the lock, migrate, recover, read and crash),
`HostServices` (the order of opening, unwinding and closing).  They meet through the promises stated
in them, and `MCHost` checks them as parts of one run.

In `SqliteWriter` every await on SQLite is a step that needs `woken = {}`: the answer of its thread
reaches the event loop through two callbacks, and the caller that was woken when the worker took its
request, and the next one if he is cancelled there, are resumed before.

### What sessions keep and show: MCParts with Sessions.cfg

| Part | Module | Instance |
|---|---|---|
| aliases, trees | `SessionStore` | two clients, two sessions: rows under optimistic updates; appended and imported entries |
| media | `MediaStore` | two uploads of one content, an imported session with its rollback, retention, a run that reads |
| chat, chain | `ChatRouter` | two calls with one idempotency key and a restart; three that answer each other |
| plan | `SharedPlan` | an agent and a browser on one plan, three revisions, lists of patches and edits of its text |
| state | `ExtensionState` | two tasks of one extension and one of another |
| queues | `SessionQueues` | three messages, two queues, two sessions |
| timeline | `Timeline` | a session that works and one with rows, readers that page |
| settings | `SessionSettings` | two models, two changes, runs, compactions, branches |
| table, index | `SessionIndex` | two processes, with SQLite; with index files, one of an older version |
| transcript | `AgentTranscript` | loop, harness and session log under cancels, kills, restarts, compactions |
| app | `TuiApp` | two prompts and two compactions of the terminal, one change of session |
| editor | `TuiEditor` | typing, a paste, recall, completions |
| view | `TuiTranscript` | display state and widgets, event by event |

### What an agent works with: MCParts with Tools.cfg

| Part | Module | Instance |
|---|---|---|
| choice | `ProviderChoice` | two terminals (or `tau -p`), two sessions, two providers, five changes |
| callback, device | `OAuthCredentials` | two logins with a callback; two with a device code beside two requests |
| text | `TextTools` | every file of up to five characters, beyond the limits of lines and bytes |
| files | `FileTools` | a write, two edits in memory, one in a stream, on one file |
| processes | `ProcessTools` | a shell, a python with a timeout, a pytest, in one place |
| stream | `ProviderStream` | four adapters, a response with three calls, one retry |
| history | `ProviderHistory` | a transcript of five messages that changes between the adapters |
| compaction | `Compaction` | a provider with native compaction, a proxy that replays, one that cannot |
| source | `CompactionSource` | every transcript of four messages under eight limits |
| actions | `ActionExecutor` | three calls, an idempotent action and one that asks, limits of two and one, reloaded once |
| host | `ExtensionHost` | two extensions and a blocked one |
| services | `ExtensionServices` | an extension and its successor of the same id |
| order | `ExtensionPlan` | three ids with every mistake on disk and every graph of dependencies |
| routes | `ExtensionRoutes` | two extensions, a request, one thread |
| resources | `LocalResources` | two files of Python extensions, two directories each of skills and templates, three openings, one change |

The modules of the last two tables share no state in the code either, except through promises that
their own modules state, so a behaviour of `MCParts` is one of a single part, which `Init` chooses among
`Parts`; the variables of all parts stand in slots `x1`, `x2`, ...  To explore one part, give `Parts` that
part alone.  The parts about which there are proofs are declared, with constants of their own, in
`PartProofs`, which `MCParts` extends; `PartsAssumption` lists the assumptions of all parts.

## The runs

| Run | Question and result |
|---|---|
| pool_turns | Three runs of one session (symmetric), two slots, so that only the turn lock keeps runs apart: are turns exclusive and in order, is the published state the real one, is a closed session free of tasks, whatever is cancelled, refused, closed, compacted or shut down?  `TurnScheduler` is refined here.  Holds. |
| pool_live | Two runs of one session at one slot, or one run beside a second session: do counters and slots balance, does a cancelled run end without a consumer, does a shutdown get past full streams and hanging compactions and close all it knows, does every run end when consumers read?  Holds. |
| broker | A client of all sessions, queue and replay buffer of two, a broken connection, a restart: is only low content lost, nothing delivered twice, no wake-up lost, a replay complete or refused, the client caught up in the end?  Holds (important events only until the restart, see below). |
| host | Approvals, writer, database and host with failing steps, cancelled callers, aborts and crashes: do decisions stand, are writes atomic and answered, does one process write, is a close in order and does it end?  Holds. |
| durable_runs | Two runs of two events, a failing write and a restart at any place: do rows reach a terminal status that stands, is a running row driven, does `shutdown()` leave nothing?  Holds. |
| durable_queue | Two runs, two messages, a failing write: do messages that are queued, moved, removed, retargeted and dispatched reach the right run once and in order?  Holds. |
| sessions | The sixteen parts that sessions consist of, one property per concern.  Holds. |
| tools | The sixteen parts an agent works with, likewise.  Holds. |
| approval_race | **Violated** `DecisionStands`: an "allow" is recorded and confirmed to the browser while the loop denies. |
| broker_restart | **Violated** `HighComplete`: a cursor of the broker before the restart is replayed from as if it were its own. |
| edit_endings | **Violated** `EndingsAreRestored`: an edit in memory of a file of CRLF lines leaves LF only. |
| native_switch | **Violated** `MismatchFailsClosed`: a switch of provider after a native compaction sends the sentinel as prose. |

### Bounds

The conflicts of the pool need a run that holds the lock, one that waits for it and one behind it, or
two sessions at one slot; a stream of one event blocks at the second.  `pool_live` keeps the second
session small (`Small`): beside it there is one run, and neither a `close_session()` nor a
`shutdown()`; without it everything may happen.  Queue and replay buffer of two let the broker
merge with a tail that is not its head, evict, overflow and lose a replay; three cursors reach each of
these.  Two tool calls let `shutdown()` be between them; a write queue of one place blocks callers.  Two
runs and two messages let a message outlive the run it was accepted for and overtake another one.
One failing write, crash or restart at *every* possible place is what a fault means in most
modules.  In the parts of `MCParts` two actors meet at each piece of state,
three where a third matters (a reply cycle, an idempotency key with a joiner of a joiner, a
dependency cycle), over as many entries, changes or revisions as one conflict and its aftermath need;
each has between five thousand and 640 thousand states.  Every bound is a CONSTANT in the guard of an action
(`Max...`).  Symmetry is used for runs and messages in the two runs without liveness.

Deadlock checking is off where the system may stop: all requests left, all runs settled, the host shut
down, the bounds of a part used up.

### Fairness

asyncio resumes every task that can go on, so each task (a run of the pool, a driver, a request for
approval, the worker of the writer, a queue of the SSE route) is weakly fair, and so are `shutdown()`
and `close()` calls, writes to SQLite, the reconnects of `EventSource` and the timer of the
heartbeat.  A reader is strongly fair at the FIFO queue of the read pool.  Nobody is assumed to
cancel, close or decide, and no browser is assumed to answer an approval.  `RunsEnd` states what it
needs beyond that as its hypothesis `Served`: consumers read and compactions end.  `CancelEnds` and
`ShutdownDrains` are checked without it.  The parts of `MCParts` are checked for safety
only.

## What the violations show

* `DecisionStands`: a timeout during a browser's `resolve()` breaks out of the loop of `request()`
  undecided (`approvals.py:131-134`), against "exactly once" in the docstring.
* `HighComplete` across a restart: cursors begin at zero again and `subscribe()` compares only numbers
  (`sse.py:174`); `docs/web.md:118` and `docs/architecture.md:64` promise a snapshot.
* `MismatchFailsClosed`: `_set_provider_model` (`session.py:893`) looks at no native state;
  `docs/compaction.md:18` says that a mismatch fails closed.
* `EndingsAreRestored`: `_read_text` reads with universal newlines (`tools.py:928`), so that
  `detect_line_ending` never sees a CRLF and the whole file is written with LF; the docstring at
  `tools.py:338` and `dev-notes/design/03-tools.md:232` promise the dominant ending back.  The streaming
  path keeps every byte, and `EditsAreExact` says for each path what it leaves as it was: byte for byte
  there, up to the ends of lines in memory.

### Known disagreements without a run

These are stated in their modules, do not hold, and can be checked by naming them in a
configuration of the module's run:

* `AgentPool!FailsOnItsOwn`: `_run` leaves `async for` without closing the generator when `put()`
  refuses an event (`agent_pool.py:548`); the next run may call `prompt()` before the finalizer hook
  ran and fails with "already running".  `tests/test_agent_pool.py:606` expects it to complete; its
  fake session keeps no such state.
* `LocalResources!StartIsNotAborted`: `CommandRegistry.register` raises out of `load()` when a command of
  a Python extension has the name or alias of a default command, against `docs/extensions.md:310`
  ("failures become diagnostics instead of aborting session start-up").  `resume()` and `new_session()` give
  the registry of the old session to `load()` (`session.py:1201`, `361`), in which the commands of the
  extensions are already registered: with the example of `docs/extensions.md:318` both always raise.
* `LocalResources!GuidelinesStay`: `reload()` rebuilds the prompt from `config.append_system_prompt`
  (`session.py:1111`), which never held the guidelines that `load()` added.
* `AgentPool!CompactionOnIdle`: `compact_session` checks idleness, then awaits with neither lock nor
  marker (`agent_pool.py:360`); `docs/architecture.md:50` says that turns are serialized.
* `ProviderChoice!PairIsListed`: a resumed session may pair the provider of its index with the model
  of its entries (`session.py:392`; `dev-notes/design/04-sessions.md:59`).
* `SharedPlan!ContextCounts`: items that are taken back to make room for the notice are not counted in
  it (`plan.py:167`; `tests/test_plan_tool.py:97`).
* `ActionExecutor!CancelsOne`: `cancel()` of a request that waits for the result of another one with its
  idempotency key cancels the future they share (`actions.py:648`); its docstring says one request.
* `SessionSettings!ChangedWhileIdle`: `change_session_metadata` asks for runs, not for compactions
  (`runtime.py:329-339`), its docstring says only while idle.
* In `TuiTranscript` a hidden thought splits the text around it in two widgets, while a reload shows
  one (`append_thinking_delta`, `finish_assistant_message`); `LiveIsRestored` excludes it (`cut`).

## What is proved

Eight modules (those named `...Proofs`, and `MCParts`) prove, for every value of the constants that satisfies the named assumption
of the model (finite sets, disjoint ids, positive bounds; TLC evaluates each one in a run), what the
runs check on an instance.  Each one strengthens its properties to an inductive invariant `IInv`, which
stands in the model beside the properties; on the instances of the runs TLC finds each one to hold as well.

| Module | Theorems about properties of the runs | Others |
|---|---|---|
| `AgentPoolProofs` | `AccountsBalance`, `SessionsSound`, `ShutdownClosesAll`, `PoolImplementsTurns` | `PoolInvariant`, the single invariants |
| `EventBrokerProofs` | `BrokerDelivers`, `BrokerDeliversOnce` | `BrokerInvariant` |
| `DurableRuntimeProofs` | `RuntimeAccounts`, `RuntimeQueuesOnce`, `RuntimeEnds`, `RuntimeHands` | `RuntimeInvariant` |
| `SqliteWriterProofs` | (for the writer alone) | `WriterInvariant`, `WriterIsSafe`, `WriterIsUrgent`, `WriterIsAtomic` |
| `HostProofs` | `DecisionsOnRecord`, `ShutdownLeavesNone`, `HostKeepsTypes`, `HostWriterSafe`, `HostWritesAreAtomic`, `HostDatabaseSafe`, `HostIsSafe`, `HostDecisionsRecorded`, `HostShutdownDenies` | `ApprovalInvariant`, its single invariants, the order of opening and closing, `DatabaseInvariant`, `DatabaseIsSafe` |
| `PartProofs` | (for each part alone) | `MediaAlwaysGood`, `FilesAlwaysGood`, `ProcessesAlwaysGood`, `ExecutorAlwaysGood`, `SettingsAlwaysGood`, `StateAlwaysGood`, `CompactingAlwaysGood`, `AppAlwaysGood`, `HostAlwaysGood`, `ServicesAlwaysGood`, `LoginAlwaysGood` |
| `ProviderChoiceProofs` | (for the choice alone) | `ChoiceInvariant`, `ChoiceIsSafe` |
| `MCParts` | `StoredStaysKept`, `ToolsLeaveNothingBehind`, `ActionsAlwaysAnswer`, `SettingsAlwaysAgree`, `CompactionForgetsNothing`, `TerminalStaysTrue`, `ExtensionsLeaveNothingBehind`, `ProvidersAlwaysServe` | |

**Agent pool.**  `TurnExclusion` alone is not inductive, because nothing in it says that a run that
waits for a slot already owns the turn lock.  `HoldsLock` (every run in `slot`, `start`, `gen`, `put` is
the `lock` of its session) is, and exclusion follows at once.  `ClosedIsDrained` needs
`ShutdownStages`: when the closing loop of `shutdown()` runs, nothing is accepted any more and no task
is left.  `SlotsConserved` and `PendingExact` are counting arguments: `Finish`, the only way out, moves
one run out of `ActiveRuns` or `QueuedRuns` exactly when it gives back a slot or a place, which the
lemmas `MoveKeeps` and `FinishKeeps` state over cardinalities.  The proof that a step keeps `IInv`
has one lemma per kind of step (`EntryKeeps` for steps that change one entry and no run, `FinishKeeps`
for the exits, `CompactStageKeeps`, `DisposingKeeps`, `StageKeeps` for shutdown).  `ShutdownClosesAll`
needs one more invariant: `VisitedClosed`, what the closing loop has visited is still registered, and
disposed unless it is the session whose `aclose()` is awaited.
`PoolImplementsTurns` maps every step to a step of `TurnScheduler` or to none.  It needs `LinesExact`:
the waiters of a turn lock are the runs that wait for it, each once, and its holder executes or waits
for a slot.  Six lemmas about queues (`RemoveAtElements` to `WithoutElements`) carry it: a member that
stands in a queue once leaves it from that place and the others keep their order, also behind the
holder of the lock.  `Submit` enqueues, `Begin` starts (`BeginStarts`: the bound comes from
`SlotsConserved`, the idle session from `HoldsLock`), `Finish` drops a waiting run or ends an executing
one (`FinishLeaves`), all else is `Quiet`.

**Approvals.**  The audit log does not remember who wrote it, so `IInv` says why each record is there: a
permission is in the log exactly when the future holds it (`AllowTakesEffect`); a denial took effect, or
it was interrupted and the task denies again or has left (`DenialExplained`); a future is decided once
and never with a resolver still at work (`DecidedOnce`); a task inside its own `resolve()` is the only
resolver and denies (`OwnDenial`).  `Covered` follows `shutdown()`: once the host is closed, a request is
still to be visited, or decided, or being resolved, as long as no write failed.

**Event broker.**  A client misses nothing when three places agree: what it got, what is under way to it
(`UnderWay`: the replay or snapshot still to be written, then its queue), and what a resume would still
find.  `HistoryExact` says what has been published and is kept; `ReplayExact` that the replay buffer is
a chain of cursors whose gaps are the drop floors; `StreamExact` that the events under way are
`Ordered`, carry what they merged (`Carries`, `Chain`), and lie after what the client has;
`ConnectionsExact` and `ClientsExact` tie connections to the marks of their clients.  A queue that merges
into its tail, evicts a low event or overflows keeps `Chain`, one lemma for each; that floors are exact
(`FloorExact`) follows from the buffer.  `BrokerDeliversOnce` is the action property on top of it.

**Durable runtime.**  `RowsExact` ties the status of a row to the stage of its task, `RunsExact` and
`HostExact` the task to the pool, to what was aborted and to `shutdown()`, `QueuesExact` the durable
queues to the one call that holds the queue lock, and `HandedExact` the harness and what the agent has
read to the consumed rows.  A message is in one place because each call that moves it holds the lock
(`Held`) from before it looks until after it writes, also when the process stops in between.  The
lemmas `RunSideKeeps`, `QueueSideKeeps` and `TaskStep` carry the half of the invariant that a step
leaves alone.

**Writer.**  `LineExact`, `WakeExact` (at most one caller is woken, and a place in the queue is kept for
him), `RequestsExact` (who waits has a request in the queue or at work), `TransactionExact` and
`ClosingExact` (`STOP` is put when nobody is left).  `ClosedAnswersAll` needs all of them: `join()` may
return only when no blocked caller is on its way.  `WriterIsAtomic` maps every step to a step of
`AtomicStore` or to none: a commit is the step at which the store changes and the caller is told.

**Database.**  `OneWriter` is not inductive: it needs that whoever is between its lock and its release
is the holder (`LocksExact`), through failures of opening and closing and through crashes.
`PoolConserved` counts the connections in the pool, those that readers hold (`Reading`) and those that the code
loses: `_open_readers` connects before it runs its pragmas, and one that raises or is cancelled there is
neither in the pool nor closed (`connection.py:198`), as is one whose `close()` raises.  `LossesExact` says at which
stages that may have happened, so that a database which serves reads has lost none.

**Host.**  Theorems of the parts hold in the composition because a step of `HostNext` is a step of one
part and leaves the others alone (`OneMoves`, `HostStep`); `Hosted` is the invariant of the part that
moves and the initial state of the others.  The order of services is proved in the same module:
what is left of an order is a suffix of it (`RestStep`), so that a part is closed after what uses it
(`CloseOrder`), whatever raises.  A step of `close()` or of the unwinding that raises may leave its
part open (`stuck`), and the suppressed exception keeps no other step from being taken: `NothingLeaks` says
that what is left open is `stuck`, and that a `close()` which returns has collected the errors of the receipt
tasks, to raise the first one of all.

**Media.**  `BlobsExist` and `QuotaKept` say nothing of uploads that are under way.  `ItemsComeLast` does (no item
before its step, no thumbnail that the upload has not), and `RoomIsLeft`: as long as uploads come one at a
time, only one is between its check of the quota and its item, and the room it found is still there.  That
is a count: `MediaFewerItems` and `MediaOneMoreItem` carry it over cardinalities.  `LegacyComesFirst` and
`ReaderMaySee` do the same for the import and for a run that reads: what it is about to read was visible.

**Files.**  A cancelled call leaves the lock of its path although its thread goes on, so the lock
(`LockIsHeld`, `LineWaits`) says little about who works on the file.  `ThreadsMatch` ties the step of a thread to
that of its call, `CopiesMatch` says that a copy stands beside the file exactly while its thread is about to replace
it, and `ContentIsMade` what is in the file and in the hands of the call at each step, unless a call was
cancelled during its write (`odd`).  `EditsAreSerial` is what it says between two calls.

**Processes.**  `LimitIsKept` counts free places and holders, and a place is free only when nobody waits.  It is
inductive with `LineWaits` (the line is of those who wait, each once): a place that is given back goes to
the first of the line or to the free ones.  `GroupIsGone` needs `LeadersMatch` (what a call knows of its
process at each step) and `AnswersAreTrue` needs `FiredMatch` (who was killed knows why).  A process runs
from inside `create_subprocess_*` on (`spawning`): a call that is cancelled there is dropped by asyncio, which kills
the process and not its group, and `GroupIsGone` says just that of it.

**Actions.**  A call that joins another one is served by a future which it does not own.  `RequestsAreKept`
says what a call asked for, `OutcomesAreOwn` that whoever joins asked for the same and gets the outcome of one
who did, `WaitersHaveWork` that the future is settled or the call behind it is at work, unless that one was
cancelled before its task began (`unborn`).  `KeysAreHeld` and `CacheMatches` say that a key stands for one call
at work or for remembered outcomes, never for both, which gives `KeyWorksOnce` with `SuccessIsKept`.
`SemaphoresAreMade` makes `LinesAreServed` inductive: the width of a semaphore is that of the definition
under which it was made, whatever is registered later.

**Settings.**  `AgentIsCurrent` and `RowIsThePath` hold only as long as no run and no change has overtaken a compaction
(`overtaken`), and neither says anything of a compaction under way.  `CompactionIsCurrent` does: one that is not
overtaken extends the active path, no run is at work and no change has taken effect.  `UsageIsOfItsModel`
looks at what is projected; `BufferIsNamed` at what waits for it: an answer bears the model of the row, or is
known to differ, unless the row has changed since (`late`).  When `aclose()` raises in the discard, the agent stays in
the pool and takes no work (`takes`); `AgentIsCurrent` speaks of those that do, and says that this one runs no more.

**Extension state.**  `NoUpdateIsLost` is a statement about what was done; it follows from `RevisionsTell`, a
statement about copies: as long as a row is not deleted, an equal revision is an equal row.  That is
inductive with `RevisionsCount` (no row is at revision 0, which a client may expect of a row that is not
there) and `ReadersAreAllowed` (who has a copy passed the check of permissions and scope).

**Compaction.**  `Whole` of one entry follows for the next because a summary of rows that hold the sentinel is
refused and local compaction takes the first rows: nothing stands before a sentinel (`SentinelFirst`), so that
none remains behind a summary and the native state is dropped with it.  `TurnsArePast` makes the turn that is
asked next new on every branch.  `RequestsAreWhole` speaks about one request; `FollowsBranch` is what holds
before it: a provider of Responses replays the state of the branch, and a branch with a state has such a
provider, unless the user switched away, or `_refresh_runtime_provider` raised or returned early after the
session had moved, which leaves the old object with the state of the place it was made for (`Kept`, `strayed`).  It needs of the constants that an adapter of
Responses has the setter of remote state, which both in the code have.

**Terminal.**  The application keeps a worker, a compaction and a flag for what the screen shows as running, and each
is set or cleared by tasks that may have been cancelled since.  `CompactsAlone` and `StaysHome` follow from
what the flags mean: a worker that was cancelled is not the current one any more (`CancelledIsOld`,
`WorkerIsCurrent`), the one that works is the one the harness runs (`OneWorks`), a compaction that was not
cancelled is the one the application knows (`CompactorRuns`), and no prompt works while a session is made
(`JobsAreAlone`).  A message that is queued for a run which has just ended is run by the handler of the
submission itself (`Direct`): it has no worker, and its events reach the screen unfiltered (`HandlerKeeps`).  What a
resumed session, a cancelled compaction, a failed change or a handler's run that raised takes away from that
is in `odd`, and the properties say so.

**Extension host and services.**  The registry keeps a table of contributions and one of the keys of each extension;
handles outlive both.  `NothingIsLeft` needs that each entry is among the keys of its extension
(`EntriesAreKnown`), so that who clears the keys clears the entries, and `TablesAgree` that a number is
given to one registration only (`NumbersAreOwn`), so that a handle removes its own,
except for a key that has another owner since (`intruded`).  Of the services, `DisposedIsEmpty`
needs what a disposal has done at each of its awaits: whose tasks it still waits for (`DisposalsWait`);
and `ClosedIsDisposed` that the disposal of the directory goes on until none is left (`ClosingGoesOn`).
That the bytes of the assets are counted exactly (`TotalIsSum`) is a sum over paths, and the order of
listeners within an emit (`CalledInOrder`) a sorted enumeration: both are only model-checked.

**Logins and the choice of a provider.**  Of a token it matters who has it: `LoginAlwaysGood` ties the file, the
requests that refresh and what the issuer accepts, through tokens that rotate.  `ChoiceInvariant` follows the
settings file and the copies of it that terminals hold: `PairIsListedElse` needs what may be named at all
(`ChosenIsListed`) and that a session with an index has entries (`SessionsAreKept`), `RuntimeServesPair` that a terminal
stands at a level which its model has (`TerminalsFit`), and `ChoicesAreKept` that nobody has chosen anything before there
is a file (`FirstFile`).

The theorems of these twelve parts hold in `MCParts` because a step is one of the chosen part
(`PartMoves`, `PartStays`).  Files, processes and actions share the lemmas about lines in which nobody
stands twice (`LineGrows`, `OneIsTaken`, `LineShrinks`, `LineIsLeft`).  Their assumptions (`MediaAssumption`,
`FileToolsAssumption`, ...) are definitions of the modules, stated as an ASSUME by `PartsAssumption`,
so that TLC evaluates them for the values of the runs.

**Only model-checked.**  All liveness properties, since fairness and ENABLED are beyond the prover;
and the other properties of `MCParts`, many of which speak about
recursive definitions over data (trees, texts, transcripts) or about rows that are
read in an order (`SessionQueues`, `Timeline`: a sorted enumeration of a finite set), where the prover
has no induction.  No module
with a theorem uses a RECURSIVE operator; what is recursive is written as a fold or a recursive function.

## Not modelled

* Web routes as such: parsing of requests and rendering of answers.  The routes that keep or race for
  state (events, uploads, plans, queues, settings, timelines, extensions) are in their modules.
* Command line and terminal looks: options, tables, colours, layout, titles, notifications.  What
  they do to sessions, settings and prompts is in `SessionIndex`, `ProviderChoice`, `TuiApp`.
* Of local resources: renderers and slot widgets of extensions, front matter, and the text of prompts.
* Sandboxes: the construction of an argument list.  Usage and prices: tables and sums.
* Within modelled parts: the wording and sizes of messages, addresses and headers of providers,
  images and byte-order marks, what a snapshot or an exported document contains, trusted frontend
  modules, titles and working directories of sessions, diagnostics.
* Nothing is claimed of what a killed turn leaves behind in two respects: its answer may stay in memory only,
  while the repair of its calls is stored with the next prompt, so that a load finds results without calls
  (`session.py:1686`).  `ResultsHaveCalls` of `AgentTranscript` excepts transcripts with such a turn, and
  `DurableIsLive` the time until the next load (`killed`); `CallsAnswered` excepts nothing.
* In `ExtensionServices`: a task that is cancelled while it waits for another one's bundle lock.  In
  `Timeline`: `UsageRepository.purge_before` (`repositories.py:1402`), which only tests call.
* The drain of the harness queues hands over one message at a time; `queue_mode = "all"` is a
  series of such steps.

## Plan

1. Proofs for further parts of `MCParts` (`AgentTranscript`, `SessionStore`).
2. Liveness of `ActionExecutor` and `ChatRouter`.
3. The contents of a snapshot against the events that follow it (`routes/events.py:54`).
