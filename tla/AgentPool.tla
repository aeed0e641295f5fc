----------------------------- MODULE AgentPool -----------------------------
(***************************************************************************)
(* AsyncAgentPool (src/tau_coding/agent_pool.py): the asyncio scheduler    *)
(* that serialises the turns of each session with a FIFO lock, bounds the  *)
(* turns of all sessions with a FIFO semaphore, and closes sessions.       *)
(* One step is what the event loop executes between two suspensions.       *)
(***************************************************************************)
EXTENDS Naturals, Sequences, FiniteSets, SequencesExt

CONSTANTS Sessions,        \* session ids that may be registered
          Owned,           \* those the pool must close itself
          Runs,            \* run tasks; a run id is submitted at most once
          SessionOf,       \* the session a run is submitted to
          MaxConcurrency,  \* max_concurrency
          QueueSize,       \* event_queue_size
          MaxEvents,       \* bound: events one session generator yields
          None

ASSUME PoolAssumption ==
    /\ IsFiniteSet(Sessions) /\ IsFiniteSet(Runs)
    /\ Owned \subseteq Sessions
    /\ SessionOf \in [Runs -> Sessions]
    /\ Runs \cap Sessions = {}
    /\ None \notin Runs \cup Sessions
    /\ MaxConcurrency \in Nat \ {0}
    /\ QueueSize \in Nat \ {0}
    /\ MaxEvents \in Nat

VARIABLES
    pool,       \* fields of the pool and of its shutdown() call
    slots,      \* value of _semaphore
    slotQueue,  \* its waiters: runs, and sessions that want to compact
    sess,       \* sess[s]: the _RegisteredSession of s
    run         \* run[r]: the task of _run and the _EventStream of r

vars == <<pool, slots, slotQueue, sess, run>>

-----------------------------------------------------------------------------
Active == {"start", "gen", "put"}          \* _run holds turn_lock and a slot
Queued == {"lock", "slot"}                 \* counted by pending_runs
Live == Active \cup Queued                 \* the task is not done

RunsOf(s) == {r \in Runs : SessionOf[r] = s}

\* _refresh_state, for an entry e of _sessions
PoolState(e) ==
    CASE e.current # None /\ e.cancelReq -> "cancelling"
      [] e.current # None /\ ~e.cancelReq -> "running"
      [] e.current = None /\ e.pending > 0 -> "queued"
      [] e.current = None /\ e.pending = 0 /\ e.disposed -> "closed"
      [] e.current = None /\ e.pending = 0 /\ ~e.disposed /\ e.failed -> "failed"
      [] OTHER -> "idle"

Refreshed(e) == [e EXCEPT !.state = PoolState(e)]

\* asyncio queues forget a waiter that leaves before its turn.
Without(q, x) ==
    IF \E i \in DOMAIN q : q[i] = x
    THEN RemoveAt(q, CHOOSE i \in DOMAIN q : q[i] = x)
    ELSE q

FreshEntry ==
    [open |-> TRUE,            \* accepting_new_work
     disposed |-> FALSE,
     lock |-> None,            \* the run that holds turn_lock
     waiters |-> <<>>,         \* the runs that wait for it
     pending |-> 0,            \* pending_runs
     current |-> None,         \* current_run_id
     cancelReq |-> FALSE,      \* cancel_requested
     failed |-> FALSE,         \* last_error or last_exception is set
     state |-> "idle",         \* the stored PoolSessionState
     closing |-> FALSE,        \* a close_session() call is under way
     removing |-> FALSE,       \* it comes from remove_idle_session()
     compacting |-> "no",      \* where the compact_session() call is
     harness |-> None]         \* the run whose generator occupies the session

FreshRun ==
    [pc |-> "new",             \* where the task of _run is
     status |-> "none",        \* status of its RunResult
     errored |-> FALSE,        \* its generator yielded an unrecoverable error
     forced |-> FALSE,         \* task.cancel() was called, not yet delivered
     yielded |-> 0,            \* events its generator has yielded
     stream |-> "open",
     items |-> 0]              \* events in the stream

Init ==
    /\ pool = [registered |-> {},    \* keys of _sessions
               accepting |-> TRUE,   \* _accepting_new_work
               shutdown |-> "no",    \* where the shutdown() call is
               visited |-> {},       \* sessions its closing loop has taken
               at |-> None,          \* the one whose aclose() it awaits
               size |-> 0]           \* number of sessions when the loop began
    /\ slots = MaxConcurrency
    /\ slotQueue = <<>>
    /\ sess = [s \in Sessions |-> FreshEntry]
    /\ run = [r \in Runs |-> FreshRun]

-----------------------------------------------------------------------------
(* Callers of the pool *)

\* register_session does not look at _accepting_new_work.  An id comes back only when
\* nothing of the session that had it before is in flight (a bound of the model).
Register(s) ==
    /\ s \notin pool.registered
    /\ sess[s].compacting = "no" /\ sess[s].harness = None /\ pool.at # s
    /\ pool' = [pool EXCEPT !.registered = @ \cup {s}]
    /\ UNCHANGED <<slots, slotQueue, sess, run>>

\* The session takes new work.
Admits(s) ==
    /\ pool.accepting /\ s \in pool.registered
    /\ ~sess[s].disposed /\ sess[s].open

\* _submit: the new task queues for the turn lock of its session.
Submit(r) ==
    LET s == SessionOf[r]
        e == sess[s] IN
    /\ Admits(s)
    /\ run[r].pc = "new"
    /\ run' = [run EXCEPT ![r].pc = "lock"]
    /\ sess' = [sess EXCEPT ![s] = Refreshed(
           [e EXCEPT !.waiters = Append(@, r), !.pending = @ + 1, !.failed = FALSE])]
    /\ UNCHANGED <<pool, slots, slotQueue>>

\* Mutant: the stream of a cancelled run is not aborted.
NotAborted(r) == run[r]

\* _request_cancel on an entry; the stream of its current run is aborted with it.
CancelRequested(e) ==
    IF e.current = None THEN e ELSE Refreshed([e EXCEPT !.cancelReq = TRUE])
Aborted(r) ==
    IF sess[SessionOf[r]].current = r THEN [run[r] EXCEPT !.stream = "aborted"] ELSE run[r]

\* cancel_current_run, and abort_current_run which cancels the task too (hard)
Cancel(s, hard) ==
    /\ s \in pool.registered /\ ~sess[s].disposed
    /\ sess[s].current # None
    /\ sess' = [sess EXCEPT ![s] = CancelRequested(@)]
    /\ LET r == sess[s].current IN
       run' = [run EXCEPT ![r] = [Aborted(r) EXCEPT !.forced = @ \/ hard]]
    /\ UNCHANGED <<pool, slots, slotQueue>>

\* The consumer of a RunHandle takes one event.
Consume(r) ==
    /\ run[r].items > 0
    /\ run' = [run EXCEPT ![r].items = @ - 1]
    /\ UNCHANGED <<pool, slots, slotQueue, sess>>

-----------------------------------------------------------------------------
(* The task of one run *)

\* What _run reports after its loop over the generator.
Outcome(r, fatal) ==
    IF run[r].errored \/ fatal THEN "failed"
    ELSE IF sess[SessionOf[r]].cancelReq THEN "cancelled"
    ELSE "completed"

\* Mutants: a run cancelled while it waits for its slot returns a slot it never had, or
\* keeps its place in pending_runs.
SlotsTwice(r) == IF run[r].pc \in Active \cup {"slot"} THEN slots + 1 ELSE slots
PendingKept(r) ==
    LET n == sess[SessionOf[r]].pending IN IF run[r].pc = "lock" THEN n - 1 ELSE n

\* A run that leaves gives back the semaphore slot, or its place in pending_runs.
SlotsAfter(r) == IF run[r].pc \in Active THEN slots + 1 ELSE slots
PendingAfter(r) ==
    LET n == sess[SessionOf[r]].pending IN IF run[r].pc \in Queued THEN n - 1 ELSE n

\* Both finally clauses of _run, the release of turn_lock between them and the return:
\* nothing suspends in between.  left tells that the generator has left the session.
Finish(r, result, left) ==
    LET e == sess[SessionOf[r]] IN
    /\ run' = [run EXCEPT ![r] =
           [run[r] EXCEPT !.pc = "ended", !.status = result, !.forced = FALSE,
                     !.errored = FALSE, !.yielded = 0,
                     !.stream = IF @ = "open" THEN "closed" ELSE @]]
    /\ slots' = SlotsAfter(r)
    /\ slotQueue' = Without(slotQueue, r)
    /\ sess' = [sess EXCEPT ![SessionOf[r]] = Refreshed(
           [e EXCEPT !.lock = IF @ = r THEN None ELSE @,
                     !.waiters = Without(@, r),
                     !.pending = PendingAfter(r),
                     !.current = IF @ = r THEN None ELSE @,
                     !.cancelReq = @ /\ e.current # r,
                     !.failed = result = "failed",
                     !.harness = IF left /\ @ = r THEN None ELSE @])]
    /\ UNCHANGED pool

\* Mutants: the lock is not looked at; it goes to the youngest waiter.
HasTurnUnlocked(r) ==
    LET e == sess[SessionOf[r]] IN
    /\ run[r].pc = "lock"
    /\ e.waiters # <<>> /\ Head(e.waiters) = r
HasTurnYoungest(r) ==
    LET e == sess[SessionOf[r]] IN
    /\ run[r].pc = "lock" /\ e.lock = None
    /\ e.waiters # <<>> /\ Last(e.waiters) = r

\* turn_lock goes to its oldest waiter.
HasTurn(r) ==
    LET e == sess[SessionOf[r]] IN
    /\ run[r].pc = "lock" /\ e.lock = None
    /\ e.waiters # <<>> /\ Head(e.waiters) = r

\* Mutant: the bound is off by one.
SlotFreeOneMore == slots + 1 > 0 /\ slotQueue = <<>>

\* Semaphore.acquire succeeds at once only when nobody waits.
SlotFree == slots > 0 /\ slotQueue = <<>>
SlotGranted(x) == slots > 0 /\ slotQueue # <<>> /\ Head(slotQueue) = x

\* With the lock and, if the run had to wait for it, the slot: the session was closed
\* meanwhile and the run returns both.
Refused(r) ==
    /\ HasTurn(r) \/ (run[r].pc = "slot" /\ SlotGranted(r))
    /\ ~run[r].forced /\ ~sess[SessionOf[r]].open
    /\ Finish(r, "cancelled", FALSE)

AwaitSlot(r) ==
    /\ HasTurn(r) /\ ~run[r].forced /\ sess[SessionOf[r]].open /\ ~SlotFree
    /\ run' = [run EXCEPT ![r].pc = "slot"]
    /\ sess' = [sess EXCEPT ![SessionOf[r]] =
           [sess[SessionOf[r]] EXCEPT !.lock = r, !.waiters = Tail(@)]]
    /\ slotQueue' = Append(slotQueue, r)
    /\ UNCHANGED <<pool, slots>>

\* The run becomes the current run of its session.
Begin(r) ==
    LET e == sess[SessionOf[r]] IN
    /\ (HasTurn(r) /\ SlotFree) \/ (run[r].pc = "slot" /\ SlotGranted(r))
    /\ ~run[r].forced /\ e.open
    /\ slots' = slots - 1
    /\ slotQueue' = Without(slotQueue, r)
    /\ run' = [run EXCEPT ![r].pc = "start"]
    /\ sess' = [sess EXCEPT ![SessionOf[r]] = Refreshed(
           [e EXCEPT !.lock = r, !.waiters = Without(@, r), !.pending = @ - 1,
                     !.current = r, !.cancelReq = FALSE])]
    /\ UNCHANGED pool

\* CodingSession.prompt has prepared its content and occupies the harness.
Occupy(r) ==
    /\ run[r].pc = "start" /\ ~run[r].forced
    /\ sess[SessionOf[r]].harness = None
    /\ run' = [run EXCEPT ![r].pc = "gen"]
    /\ sess' = [sess EXCEPT ![SessionOf[r]].harness = r]
    /\ UNCHANGED <<pool, slots, slotQueue>>

\* The harness is still occupied: "CodingSession is already running"
AlreadyRunning(r) ==
    /\ run[r].pc = "start" /\ ~run[r].forced
    /\ sess[SessionOf[r]].harness # None
    /\ Finish(r, "failed", FALSE)

\* The generator yields an event that fits into the stream, or put() blocks.
Yield(r, fatal) ==
    /\ run[r].pc = "gen" /\ ~run[r].forced /\ run[r].stream = "open"
    /\ run[r].yielded < MaxEvents
    /\ run' = [run EXCEPT ![r] =
           [run[r] EXCEPT !.yielded = @ + 1, !.errored = @ \/ fatal,
                     !.items = IF @ < QueueSize THEN @ + 1 ELSE @,
                     !.pc = IF run[r].items < QueueSize THEN "gen" ELSE "put"]]
    /\ UNCHANGED <<pool, slots, slotQueue, sess>>

\* Mutant: off by one.
RoomTooLate(r) == run[r].items + 1 < QueueSize

\* The condition put() waits for
Room(r) == run[r].items < QueueSize

\* put() goes on once the consumer has made room.
PutResumes(r) ==
    /\ run[r].pc = "put" /\ ~run[r].forced /\ run[r].stream = "open"
    /\ Room(r)
    /\ run' = [run EXCEPT ![r] = [run[r] EXCEPT !.items = @ + 1, !.pc = "gen"]]
    /\ UNCHANGED <<pool, slots, slotQueue, sess>>

\* put() returns False on an aborted stream and _run leaves its loop.  The generator
\* stays suspended at its yield: it occupies the harness until Reap.
PutRefused(r, fatal) ==
    /\ run[r].pc = "gen" \/ (run[r].pc = "put" /\ ~fatal)
    /\ ~run[r].forced /\ run[r].stream = "aborted"
    /\ Finish(r, Outcome(r, fatal), FALSE)

GeneratorEnds(r) ==
    /\ run[r].pc = "gen" /\ ~run[r].forced
    /\ Finish(r, Outcome(r, FALSE), TRUE)

\* The generator raises, or what it prepares before it occupies the harness.  The error
\* comes from the harness and unwinds it (left), or from CodingSession around it.
GeneratorRaises(r, left) ==
    /\ run[r].pc \in {"start", "gen"} /\ ~run[r].forced
    /\ Finish(r, "failed", left)

\* CancelledError reaches the task where it waits.  Inside the harness it unwinds the
\* harness (left); in put() or in CodingSession the harness is abandoned at its yield.
Cancelled(r, left) ==
    /\ run[r].pc \in Live /\ run[r].forced
    /\ left => run[r].pc = "gen"
    /\ Finish(r, "cancelled", left)

\* _on_task_done, a callback of the finished task
TaskDone(r) ==
    /\ run[r].pc = "ended"
    /\ run' = [run EXCEPT ![r].pc = "gone"]
    /\ sess' = [sess EXCEPT ![SessionOf[r]] = Refreshed(@)]
    /\ UNCHANGED <<pool, slots, slotQueue>>

\* The interpreter's finalizer hook closes an abandoned generator later.
Reap(s) ==
    /\ sess[s].harness # None /\ run[sess[s].harness].pc \notin Live
    /\ sess' = [sess EXCEPT ![s].harness = None]
    /\ UNCHANGED <<pool, slots, slotQueue, run>>

-----------------------------------------------------------------------------
(* compact_session; the model bounds it to one call at a time per session *)

\* Nothing is current, pending or in run_tasks.
Idle(s) ==
    /\ sess[s].current = None /\ sess[s].pending = 0
    /\ \A r \in RunsOf(s) : run[r].pc \notin Live \cup {"ended"}

CompactStage(s, stage) == sess' = [sess EXCEPT ![s].compacting = stage]

\* A free slot is taken without suspension.
Compact(s) ==
    /\ Admits(s) /\ sess[s].compacting = "no" /\ Idle(s)
    /\ IF SlotFree
       THEN CompactStage(s, "prepare") /\ slots' = slots - 1 /\ UNCHANGED slotQueue
       ELSE CompactStage(s, "wait") /\ slotQueue' = Append(slotQueue, s) /\ UNCHANGED slots
    /\ UNCHANGED <<pool, run>>

\* The idle check is repeated once the slot is owned.
CompactGranted(s) ==
    /\ sess[s].compacting = "wait" /\ SlotGranted(s)
    /\ slotQueue' = Tail(slotQueue)
    /\ IF Idle(s)
       THEN CompactStage(s, "prepare") /\ slots' = slots - 1
       ELSE CompactStage(s, "no") /\ UNCHANGED slots
    /\ UNCHANGED <<pool, run>>

\* CodingSession.compact looks at the harness once, after it refreshed its limits.
CompactRuns(s) ==
    /\ sess[s].compacting = "prepare" /\ sess[s].harness = None
    /\ CompactStage(s, "run")
    /\ UNCHANGED <<pool, slots, slotQueue, run>>

\* It returns, raises or is cancelled.
CompactEnds(s) ==
    /\ sess[s].compacting \in {"prepare", "run"}
    /\ CompactStage(s, "no")
    /\ slots' = slots + 1
    /\ UNCHANGED <<pool, slotQueue, run>>

-----------------------------------------------------------------------------
(* close_session and remove_idle_session; one such call at a time per session *)

\* Mutant: close_session waits for the current run only.
DrainedCurrent(s) == sess[s].current = None

\* No task of s is left to wait for.
Drained(s) == \A r \in RunsOf(s) : run[r].pc \notin Live

CloseSession(s, remove) ==
    /\ s \in pool.registered /\ ~sess[s].closing /\ ~sess[s].disposed
    /\ remove => Idle(s)
    /\ sess' = [sess EXCEPT ![s] = CancelRequested(
           [sess[s] EXCEPT !.open = FALSE, !.closing = TRUE, !.removing = remove])]
    /\ run' = [r \in Runs |-> IF SessionOf[r] = s THEN Aborted(r) ELSE run[r]]
    /\ UNCHANGED <<pool, slots, slotQueue>>

\* aclose() of an owned session raises, and the call with it.
CloseFails(s) ==
    /\ sess[s].closing /\ Drained(s) /\ s \in Owned
    /\ sess' = [sess EXCEPT ![s].closing = FALSE]
    /\ UNCHANGED <<pool, slots, slotQueue, run>>

\* Mutant: the state is not refreshed when a session is disposed.
DisposedStale(e) == [e EXCEPT !.disposed = TRUE]

DisposedEntry(e) == Refreshed([e EXCEPT !.disposed = TRUE])

CloseEnds(s) ==
    /\ sess[s].closing /\ Drained(s) /\ ~sess[s].removing
    /\ sess' = [sess EXCEPT ![s] = [DisposedEntry(@) EXCEPT !.closing = FALSE]]
    /\ UNCHANGED <<pool, slots, slotQueue, run>>

\* remove_idle_session deletes the entry it closed, or one that was closed before.
RemoveEnds(s) ==
    /\ \/ sess[s].closing /\ sess[s].removing /\ Drained(s)
       \/ s \in pool.registered /\ sess[s].disposed /\ ~sess[s].closing /\ Idle(s)
    /\ pool' = [pool EXCEPT !.registered = @ \ {s}, !.visited = @ \ {s}]
    /\ sess' = [sess EXCEPT ![s] = [FreshEntry EXCEPT !.compacting = sess[s].compacting,
                                                      !.harness = sess[s].harness]]
    /\ UNCHANGED <<slots, slotQueue, run>>

-----------------------------------------------------------------------------
(* shutdown; _shutdown_lock admits one call, a failed one may be repeated *)

ShutdownBegins ==
    LET told == {s \in pool.registered : ~sess[s].disposed} IN
    /\ pool.shutdown = "no"
    /\ pool' = [pool EXCEPT !.shutdown = "wait", !.accepting = FALSE]
    /\ sess' = [s \in Sessions |->
           IF s \in told THEN Refreshed(CancelRequested([sess[s] EXCEPT !.open = FALSE]))
                         ELSE sess[s]]
    /\ run' = [r \in Runs |-> IF SessionOf[r] \in told THEN Aborted(r) ELSE run[r]]
    /\ UNCHANGED <<slots, slotQueue>>

\* Mutant: only tasks that are being executed are cancelled.
OverdueActive == {r \in Runs : run[r].pc \in Active}

\* cancel_timeout has passed: the tasks that are not done are cancelled.
Overdue == {r \in Runs : run[r].pc \in Live}

ShutdownTimeout ==
    /\ pool.shutdown = "wait"
    /\ Overdue # {}
    /\ pool' = [pool EXCEPT !.shutdown = "gather"]
    /\ run' = [r \in Runs |-> [run[r] EXCEPT !.forced = @ \/ r \in Overdue]]
    /\ UNCHANGED <<slots, slotQueue, sess>>

ShutdownDrained ==
    /\ pool.shutdown \in {"wait", "gather"}
    /\ \A s \in Sessions : Drained(s)
    /\ pool' = [pool EXCEPT !.shutdown = "close", !.visited = {},
                            !.size = Cardinality(pool.registered)]
    /\ UNCHANGED <<slots, slotQueue, sess, run>>

\* Mutant: the closing loop passes over sessions that accept no work.
UnvisitedOpen == {s \in pool.registered \ pool.visited : sess[s].open}

\* What the closing loop has still to visit
Unvisited == pool.registered \ pool.visited

\* The dictionary the loop iterates over must not change its size.
SameSize == Cardinality(pool.registered) = pool.size

\* The loop takes the next session: only the aclose() of an owned one suspends.
ShutdownVisits(s) ==
    /\ pool.shutdown = "close" /\ pool.at = None /\ SameSize
    /\ s \in Unvisited
    /\ pool' = [pool EXCEPT !.visited = @ \cup {s},
                            !.at = IF s \in Owned /\ ~sess[s].disposed THEN s ELSE None]
    /\ sess' = IF s \in Owned \/ sess[s].disposed THEN sess
               ELSE [sess EXCEPT ![s] = DisposedEntry(@)]
    /\ UNCHANGED <<slots, slotQueue, run>>

\* aclose() returns.  A session removed meanwhile is no longer the pool's.
ShutdownCloses ==
    /\ pool.at # None
    /\ pool' = [pool EXCEPT !.at = None]
    /\ sess' = IF pool.at \in pool.registered
               THEN [sess EXCEPT ![pool.at] = DisposedEntry(@)] ELSE sess
    /\ UNCHANGED <<slots, slotQueue, run>>

\* aclose() raises, or the dictionary changed its size during the loop.
ShutdownFails ==
    /\ pool.shutdown = "close"
    /\ pool.at # None \/ ~SameSize
    /\ pool' = [pool EXCEPT !.shutdown = "no", !.at = None]
    /\ UNCHANGED <<slots, slotQueue, sess, run>>

ShutdownEnds ==
    /\ pool.shutdown = "close" /\ pool.at = None /\ SameSize
    /\ Unvisited = {}
    /\ pool' = [pool EXCEPT !.shutdown = "done"]
    /\ UNCHANGED <<slots, slotQueue, sess, run>>

-----------------------------------------------------------------------------
Caller(s) ==
    \/ Register(s) \/ Compact(s)
    \/ \E flag \in BOOLEAN : Cancel(s, flag) \/ CloseSession(s, flag)

SessionStep(s) ==
    \/ CompactGranted(s) \/ CompactRuns(s) \/ CompactEnds(s)
    \/ CloseFails(s) \/ CloseEnds(s) \/ RemoveEnds(s)
    \/ Reap(s)

RunStep(r) ==
    \/ Refused(r) \/ AwaitSlot(r) \/ Begin(r)
    \/ Occupy(r) \/ AlreadyRunning(r)
    \/ \E fatal \in BOOLEAN : Yield(r, fatal) \/ PutRefused(r, fatal)
    \/ PutResumes(r) \/ GeneratorEnds(r)
    \/ \E left \in BOOLEAN : GeneratorRaises(r, left) \/ Cancelled(r, left)
    \/ TaskDone(r)

Shutdown ==
    \/ ShutdownBegins \/ ShutdownTimeout \/ ShutdownDrained
    \/ \E s \in Sessions : ShutdownVisits(s)
    \/ ShutdownCloses \/ ShutdownFails \/ ShutdownEnds

Next ==
    \/ \E s \in Sessions : Caller(s) \/ SessionStep(s)
    \/ \E r \in Runs : Submit(r) \/ RunStep(r) \/ Consume(r)
    \/ Shutdown

Spec == Init /\ [][Next]_vars

\* The event loop resumes every task that can go on, the generator of a session yields
\* or ends (its requests have timeouts), and a shutdown() call goes on.
FairSpec ==
    /\ Spec
    /\ \A r \in Runs : WF_vars(RunStep(r))
    /\ WF_vars(ShutdownTimeout \/ ShutdownDrained)

\* In addition, consumers read their streams and compactions end.
Served ==
    /\ \A r \in Runs : WF_vars(Consume(r))
    /\ \A s \in Sessions : WF_vars(CompactGranted(s)) /\ WF_vars(CompactEnds(s))

-----------------------------------------------------------------------------
EntryType ==
    [open : BOOLEAN, disposed : BOOLEAN, lock : Runs \cup {None}, waiters : Seq(Runs),
     pending : Nat, current : Runs \cup {None}, cancelReq : BOOLEAN, failed : BOOLEAN,
     state : {"idle", "queued", "running", "cancelling", "failed", "closed"},
     closing : BOOLEAN, removing : BOOLEAN, compacting : {"no", "wait", "prepare", "run"},
     harness : Runs \cup {None}]

RunType ==
    [pc : Live \cup {"new", "ended", "gone"},
     status : {"none", "completed", "cancelled", "failed"},
     errored : BOOLEAN, forced : BOOLEAN, yielded : 0..MaxEvents,
     stream : {"open", "aborted", "closed"}, items : 0..QueueSize]

PoolType ==
    [registered : SUBSET Sessions, accepting : BOOLEAN,
     shutdown : {"no", "wait", "gather", "close", "done"},
     visited : SUBSET Sessions, at : Sessions \cup {None}, size : Nat]

TypeOK ==
    /\ pool \in PoolType
    /\ slots \in Nat
    /\ slotQueue \in Seq(Runs \cup Sessions)
    /\ sess \in [Sessions -> EntryType]
    /\ run \in [Runs -> RunType]

IsActive(r) == run[r].pc \in Active
Compacts(s) == sess[s].compacting \in {"prepare", "run"}
ActiveRuns == {r \in Runs : IsActive(r)}
Compacting == {s \in Sessions : Compacts(s)}
QueuedRuns(s) == {r \in RunsOf(s) : run[r].pc \in Queued}

\* Two runs of one session are never executed together, whatever was cancelled, refused
\* or closed while they queued for the turn lock and the semaphore.
TurnExclusion ==
    \A r1, r2 \in Runs :
        IsActive(r1) /\ IsActive(r2) /\ SessionOf[r1] = SessionOf[r2] => r1 = r2

\* Every way out of _run and compact_session gives its semaphore slot back exactly once.
SlotsConserved ==
    slots + Cardinality(ActiveRuns) + Cardinality(Compacting) = MaxConcurrency

\* pending_runs counts the queued runs on every path, cancelled and refused ones too.
PendingExact ==
    \A s \in Sessions : sess[s].pending = Cardinality(QueuedRuns(s))

\* The stored state never lags behind the fields _refresh_state computes it from.
StateFresh == \A s \in Sessions : sess[s].state = PoolState(sess[s])

\* A closed session has no task that could still use it, whether close_session or
\* shutdown closed it and whatever was submitted before.
ClosedIsDrained ==
    \A s \in Sessions : sess[s].disposed => \A r \in RunsOf(s) : run[r].pc \notin Live

\* Why the invariants above hold: a run keeps the turn lock from the moment it is granted,
HoldsLock ==
    \A r \in Runs :
        run[r].pc \in Active \cup {"slot"} => sess[SessionOf[r]].lock = r

\* and no task comes back once shutdown() has drained them all.
ShutdownStages ==
    /\ pool.shutdown # "no" => ~pool.accepting
    /\ pool.shutdown = "close" => \A r \in Runs : run[r].pc \notin Live
    /\ pool.at # None => pool.shutdown = "close"

\* What its closing loop has visited is still registered, and closed or being closed.
VisitedClosed ==
    pool.shutdown = "close" =>
        /\ pool.visited \subseteq pool.registered
        /\ \A s \in pool.visited : s = pool.at \/ sess[s].disposed

\* The inductive invariant of AgentPoolProofs.
IInv ==
    /\ TypeOK /\ HoldsLock /\ PendingExact /\ SlotsConserved
    /\ StateFresh /\ ClosedIsDrained /\ ShutdownStages

\* shutdown() only returns when every session it knows is closed.
ShutdownDisposesAll ==
    [][pool'.shutdown = "done" /\ pool.shutdown # "done" =>
           \A s \in pool.registered : sess[s].disposed]_vars

\* A run fails because of its own generator, never because the generator of the run
\* before it has not left the session yet.
FailsOnItsOwn ==
    [][\A r \in Runs :
           run[r].pc = "start" /\ run'[r].status = "failed"
               => sess[SessionOf[r]].harness = None]_vars

\* compact_session works on a session that stays idle until it returns.
CompactionOnIdle ==
    \A s \in Sessions : sess[s].compacting = "run" => sess[s].current = None

TurnPhase(r) ==
    CASE run[r].pc = "new" -> "new"
      [] run[r].pc \in Queued -> "waiting"
      [] run[r].pc \in Active -> "active"
      [] OTHER -> "over"

\* The run that holds the lock but waits for its slot is still first in line.
TurnLine(e) ==
    IF e.lock # None /\ run[e.lock].pc = "slot" THEN <<e.lock>> \o e.waiters ELSE e.waiters

Phase == [r \in Runs |-> TurnPhase(r)]
Line == [s \in Sessions |-> TurnLine(sess[s])]

Turns == INSTANCE TurnScheduler WITH phase <- Phase, line <- Line

\* Why the line is one: the waiters of a turn lock are the runs that wait for it, each
\* once, and a lock that is held is held by a run of its session that executes or waits
\* for its slot.
LinesExact ==
    \A s \in Sessions :
        LET w == sess[s].waiters
            l == sess[s].lock IN
        /\ \A i \in DOMAIN w : w[i] \in RunsOf(s) /\ run[w[i]].pc = "lock"
        /\ \A i, j \in DOMAIN w : w[i] = w[j] => i = j
        /\ \A r \in RunsOf(s) : run[r].pc = "lock" => \E i \in DOMAIN w : w[i] = r
        /\ l # None => l \in RunsOf(s) /\ run[l].pc \in Active \cup {"slot"}

\* The turns of a session are serialized, start in the order of their submission and
\* respect the bound on concurrency.
ImplementsTurns == Turns!TurnSpec

\* Every submitted run ends, if consumers read and compactions end.
RunsEnd == Served => \A r \in Runs : run[r].pc \in Live ~> run[r].pc = "gone"

\* A cancelled run ends although nobody reads its stream.
CancelEnds ==
    \A r \in Runs :
        LET e == sess[SessionOf[r]] IN
        e.current = r /\ e.cancelReq ~> run[r].pc = "gone"

\* shutdown() gets past its tasks although streams are full and compactions hang.
ShutdownDrains == pool.shutdown = "wait" ~> pool.shutdown \notin {"wait", "gather"}

\* The variables keep their types, and the accounts of the pool balance: pending_runs counts the
\* queued runs, and every slot is free or held by one run or one compaction.
Accounts == TypeOK /\ PendingExact /\ SlotsConserved

\* Two runs of a session never execute together, its lock and its waiters are the runs they
\* should be, its stored state is the one its fields call for, and a session that was disposed
\* of has no task left.
SessionsAreSound == TurnExclusion /\ LinesExact /\ StateFresh /\ ClosedIsDrained

\* Submitted runs end, cancelled runs end unread, shutdown() gets past its tasks.
PoolEnds == RunsEnd /\ CancelEnds /\ ShutdownDrains

-----------------------------------------------------------------------------
(* For TLC *)

\* All runs are submitted to one session, one the pool owns.
OneSession == [r \in Runs |-> CHOOSE s \in Owned : TRUE]

\* Sound where all runs are of one session and nothing asked is about liveness.
Symmetric == Permutations(Runs)

\* A bound: beside a session without runs, which competes for the slots by its compactions, there
\* is one run, and neither a close() nor a shutdown().
Small ==
    \/ \A s \in Sessions \ Owned : sess[s] = FreshEntry /\ s \notin pool.registered
    \/ /\ pool.shutdown = "no" /\ \A s \in Sessions : ~sess[s].closing
       /\ \E r \in Runs : run[r].yielded = 0 /\ \A q \in Runs \ {r} : run[q].pc = "new"
=============================================================================
