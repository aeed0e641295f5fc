--------------------------- MODULE DurableRuntime ---------------------------
(***************************************************************************)
(* DurableAgentRuntime (src/tau_web/runtime.py) for one session: runs have *)
(* a row in session_runs that their driver task keeps up to date, messages *)
(* for a run wait in the durable queue until they are handed to the        *)
(* session, and the process may stop at any point and be started again.    *)
(* Rows and queues are what SQLite holds; everything else is lost.         *)
(***************************************************************************)
EXTENDS Naturals, Sequences, FiniteSets, SequencesExt

CONSTANTS Runs, Messages,
          MaxEvents,    \* bound: events one run yields
          MaxCrashes,   \* bound: times the process stops
          MaxFailures,  \* bound: writes that fail
          None

Kinds == {"steer", "follow_up"}
Terminal == {"completed", "cancelled", "failed", "interrupted"}
Queueable == {"pending", "running"}
Driven == {"read", "mark", "final"}      \* the driver task exists
Stages == {"enqueue", "dispatch", "consume"}

ASSUME RuntimeAssumption ==
    /\ IsFiniteSet(Runs) /\ IsFiniteSet(Messages)
    /\ None \notin Runs \cup Messages \cup Queueable \cup Terminal
    /\ Runs \cap (Stages \cup {"shutdown"}) = {}
    /\ MaxEvents \in Nat /\ MaxCrashes \in Nat /\ MaxFailures \in Nat

VARIABLES
    row,       \* row[r]: session_runs.status
    pending,   \* pending[k]: the rows of queue k that are not consumed, by position
    consumed,  \* the messages whose row has a consumed_at
    task,      \* task[r]: where the _submit() call and then the driver of r is
    final,     \* final[r]: the terminal status the driver is about to write
    aborts,    \* _abort_run_ids
    pool,      \* the pool, and the runs it holds for the session
    result,    \* result[r]: status of the RunResult of r
    unread,    \* unread[r]: events in its stream, and those it has yielded
    session,   \* the CodingSession: whether it is loaded, its harness and its queues
    ops,       \* the calls that hold the queue lock
    host,      \* _shutdown_started, _session_load_lock and the shutdown() call
    seen,      \* the messages the agent has read
    faults     \* bounded counters

durable == <<row, pending, consumed>>
runVars == <<task, final, aborts>>
poolVars == <<pool, result, unread>>
queueVars == <<pending, consumed, ops>>
vars == <<durable, runVars, poolVars, session, ops, host, seen, faults>>

EmptyPool == [accepting |-> TRUE, line |-> <<>>, current |-> None, cancelReq |-> FALSE]
Unloaded == [loaded |-> FALSE, harness |-> None, queue |-> [k \in Kinds |-> <<>>]]
FreshHost == [stop |-> "no", loader |-> None]

Init ==
    /\ row = [r \in Runs |-> None]
    /\ pending = [k \in Kinds |-> <<>>] /\ consumed = {}
    /\ task = [r \in Runs |-> "none"] /\ final = [r \in Runs |-> None] /\ aborts = {}
    /\ pool = EmptyPool
    /\ result = [r \in Runs |-> None]
    /\ unread = [r \in Runs |-> [items |-> 0, yielded |-> 0]]
    /\ session = Unloaded /\ ops = {} /\ host = FreshHost /\ seen = <<>>
    /\ faults = [crashes |-> 0, failures |-> 0]

\* A line of distinct elements without one of them
Without(line, x) ==
    IF \E i \in DOMAIN line : line[i] = x
    THEN RemoveAt(line, CHOOSE i \in DOMAIN line : line[i] = x)
    ELSE line

Fails == faults.failures < MaxFailures /\ faults' = [faults EXCEPT !.failures = @ + 1]

-----------------------------------------------------------------------------
(* _submit *)

Goes(r, stage) == task' = [task EXCEPT ![r] = stage]

Submit(r) ==
    /\ task[r] = "none" /\ row[r] = None /\ host.stop = "no"
    /\ Goes(r, "create")
    /\ UNCHANGED <<durable, final, aborts, poolVars, session, ops, host, seen, faults>>

Created(r) ==
    /\ task[r] = "create"
    /\ row' = [row EXCEPT ![r] = "pending"]
    /\ Goes(r, "created")
    /\ UNCHANGED <<pending, consumed, final, aborts, poolVars, session, ops, host, seen, faults>>

\* The audit of the transition fails: the error leaves _submit and the row stays.
AuditFails(r) ==
    /\ task[r] = "created" /\ Fails
    /\ Goes(r, "left")
    /\ UNCHANGED <<durable, final, aborts, poolVars, session, ops, host, seen>>

\* With the load lock, which shutdown() holds while it drains the pool: the runtime is
\* shutting down, the session must be loaded first, or the run goes to the pool.
Enter(r) ==
    /\ task[r] = "created" /\ host.loader = None
    /\ CASE host.stop # "no" -> Goes(r, "failing") /\ UNCHANGED <<host, pool>>
         [] host.stop = "no" /\ ~session.loaded ->
                /\ Goes(r, "load")
                /\ host' = [host EXCEPT !.loader = r]
                /\ UNCHANGED pool
         [] OTHER ->
                /\ Goes(r, "read")
                /\ pool' = [pool EXCEPT !.line = Append(@, r)]
                /\ UNCHANGED host
    /\ UNCHANGED <<durable, final, aborts, result, unread, session, ops, seen, faults>>

Loaded(r) ==
    /\ task[r] = "load"
    /\ Goes(r, "read")
    /\ pool' = [pool EXCEPT !.line = Append(@, r)]
    /\ session' = [session EXCEPT !.loaded = TRUE]
    /\ host' = [host EXCEPT !.loader = None]
    /\ UNCHANGED <<durable, final, aborts, result, unread, ops, seen, faults>>

LoadFails(r) ==
    /\ task[r] = "load"
    /\ Goes(r, "failing")
    /\ host' = [host EXCEPT !.loader = None]
    /\ UNCHANGED <<durable, final, aborts, poolVars, session, ops, seen, faults>>

\* Mutant: the failure is not written down.
SubmissionForgotten(r) ==
    /\ task[r] = "failing"
    /\ Goes(r, "left")
    /\ UNCHANGED <<durable, final, aborts, poolVars, session, ops, host, seen, faults>>

SubmissionFailed(r) ==
    /\ task[r] = "failing"
    /\ row' = [row EXCEPT ![r] = "failed"]
    /\ Goes(r, "left")
    /\ UNCHANGED <<pending, consumed, final, aborts, poolVars, session, ops, host, seen, faults>>

-----------------------------------------------------------------------------
(* _drive_run *)

\* The next event of the stream is to be written down.
DriverReads(r) ==
    /\ task[r] = "read" /\ unread[r].items > 0
    /\ unread' = [unread EXCEPT ![r].items = @ - 1]
    /\ Goes(r, "mark")
    /\ UNCHANGED <<durable, final, aborts, pool, result, session, ops, host, seen, faults>>

DriverMarks(r) ==
    /\ task[r] = "mark"
    /\ row' = [row EXCEPT ![r] = "running"]
    /\ Goes(r, "read")
    /\ UNCHANGED <<pending, consumed, final, aborts, poolVars, session, ops, host, seen, faults>>

\* Mutant: an aborted run ends as if it had been cancelled.
FinalUnaborted(r) == result[r]

\* _terminal_status_for_result
Final(r) == IF result[r] = "cancelled" /\ r \in aborts THEN "interrupted" ELSE result[r]

\* The stream is closed and the result is there.
DriverWaits(r) ==
    /\ task[r] = "read" /\ unread[r].items = 0 /\ result[r] # None
    /\ final' = [final EXCEPT ![r] = Final(r)]
    /\ Goes(r, "final")
    /\ UNCHANGED <<durable, aborts, poolVars, session, ops, host, seen, faults>>

DriverEnds(r) ==
    /\ task[r] = "final"
    /\ row' = [row EXCEPT ![r] = final[r]]
    /\ Goes(r, "left")
    /\ aborts' = aborts \ {r}
    /\ UNCHANGED <<pending, consumed, final, poolVars, session, ops, host, seen, faults>>

\* A write, its audit or the projection of an event fails, and the driver with it.
DriverFails(r, written) ==
    /\ task[r] \in {"mark", "final"} /\ Fails
    /\ Goes(r, "dead")
    /\ aborts' = aborts \ {r}
    /\ row' = IF written
              THEN [row EXCEPT ![r] = IF task[r] = "mark" THEN "running" ELSE final[r]]
              ELSE row
    /\ UNCHANGED <<pending, consumed, final, poolVars, session, ops, host, seen>>

-----------------------------------------------------------------------------
(* The pool and the session, as far as the runtime depends on them *)

PoolBegins ==
    /\ pool.current = None /\ pool.line # <<>> /\ pool.accepting
    /\ pool' = [pool EXCEPT !.current = Head(pool.line), !.line = Tail(pool.line),
                            !.cancelReq = FALSE]
    /\ UNCHANGED <<durable, runVars, result, unread, session, ops, host, seen, faults>>

\* The run activates the harness.
Activates(r) ==
    /\ pool.current = r /\ session.harness = None
    /\ session' = [session EXCEPT !.harness = r]
    /\ UNCHANGED <<durable, runVars, poolVars, ops, host, seen, faults>>

PoolYields(r) ==
    /\ pool.current = r /\ session.harness = r /\ ~pool.cancelReq
    /\ unread[r].yielded < MaxEvents
    /\ unread' = [unread EXCEPT ![r] = [items |-> @.items + 1, yielded |-> @.yielded + 1]]
    /\ UNCHANGED <<durable, runVars, pool, result, session, ops, host, seen, faults>>

\* The run ends; an abandoned generator leaves the harness active (~left).
PoolEnds(r, status, left) ==
    /\ pool.current = r
    /\ status \in {"failed", IF pool.cancelReq THEN "cancelled" ELSE "completed"}
    /\ status = "completed" => session.harness = r
    /\ left => session.harness = r
    /\ ~left => pool.cancelReq \/ session.harness # r
    /\ result' = [result EXCEPT ![r] = status]
    /\ pool' = [pool EXCEPT !.current = None, !.cancelReq = FALSE]
    /\ session' = IF left THEN [session EXCEPT !.harness = None] ELSE session
    /\ UNCHANGED <<durable, runVars, unread, ops, host, seen, faults>>

\* The finalizer hook closes the abandoned generator.
Reaped ==
    /\ session.harness # None /\ session.harness # pool.current
    /\ session' = [session EXCEPT !.harness = None]
    /\ UNCHANGED <<durable, runVars, poolVars, ops, host, seen, faults>>

\* Runs that are queued when the pool shuts down are refused.
PoolRefuses(r) ==
    /\ ~pool.accepting /\ Contains(pool.line, r)
    /\ pool' = [pool EXCEPT !.line = Without(@, r)]
    /\ result' = [result EXCEPT ![r] = "cancelled"]
    /\ UNCHANGED <<durable, runVars, unread, session, ops, host, seen, faults>>

\* The agent loop drains one message: follow-ups only when it would stop otherwise.
Drain(k) ==
    /\ session.harness # None /\ session.harness = pool.current
    /\ session.queue[k] # <<>>
    /\ k = "follow_up" => session.queue["steer"] = <<>>
    /\ seen' = Append(seen, Head(session.queue[k]))
    /\ session' = [session EXCEPT !.queue[k] = Tail(@)]
    /\ UNCHANGED <<durable, runVars, poolVars, ops, host, faults>>

\* cancel and abort: the run is the current one, or nothing happens.
Cancel(r, hard) ==
    /\ row[r] \notin Terminal /\ pool.current = r
    /\ pool' = [pool EXCEPT !.cancelReq = TRUE]
    /\ aborts' = IF hard THEN aborts \cup {r} ELSE aborts
    /\ UNCHANGED <<durable, task, final, result, unread, session, ops, host, seen, faults>>

-----------------------------------------------------------------------------
(* The durable queue.  Every call below holds the queue lock of the session until it      *)
(* returns; the ones that suspend in between are members of ops.                          *)

\* Mutant: the lock admits a second call.
LockShared == Cardinality(ops) < 2

LockFree == ops = {}

Fresh(m) == m \notin consumed /\ \A k \in Kinds : ~Contains(pending[k], m)
Call(r, k, m, stage) == [run |-> r, kind |-> k, msg |-> m, stage |-> stage]
Moves(o, stage) == ops' = (ops \ {o}) \cup {[o EXCEPT !.stage = stage]}
Returns(o) == ops' = ops \ {o}

\* steer and follow_up for a run that can still take messages
QueueFor(r, k, m) ==
    /\ LockFree /\ row[r] \in Queueable /\ Fresh(m) /\ \A o \in ops : o.msg # m
    /\ ops' = ops \cup {Call(r, k, m, "enqueue")}
    /\ UNCHANGED <<durable, runVars, poolVars, session, host, seen, faults>>

Inserts(o) ==
    /\ o.stage = "enqueue"
    /\ pending' = [pending EXCEPT ![o.kind] = Append(@, o.msg)]
    /\ UNCHANGED consumed

\* The message is dispatched only when it is the head of its queue.
Enqueued(o) ==
    /\ Inserts(o)
    /\ IF pending[o.kind] = <<>> THEN Moves(o, "dispatch") ELSE Returns(o)
    /\ UNCHANGED <<row, runVars, poolVars, session, host, seen, faults>>

\* enqueue, without a run
Enqueue(k, m) ==
    /\ LockFree /\ Fresh(m)
    /\ pending' = [pending EXCEPT ![k] = Append(@, m)]
    /\ UNCHANGED <<row, consumed, runVars, poolVars, session, ops, host, seen, faults>>

DispatchNext(r, k) ==
    /\ LockFree /\ row[r] \in Queueable /\ pending[k] # <<>>
    /\ ops' = ops \cup {Call(r, k, Head(pending[k]), "dispatch")}
    /\ UNCHANGED <<durable, runVars, poolVars, session, host, seen, faults>>

\* retarget_pending: to the tail of the steering queue, unless it is there already
Retargeted(m) ==
    IF Contains(pending["steer"], m) THEN pending
    ELSE [pending EXCEPT !["follow_up"] = Without(pending["follow_up"], m),
                         !["steer"] = Append(pending["steer"], m)]

Steers(r, m) ==
    /\ LockFree /\ row[r] \in Queueable /\ pool.current = r
    /\ \E k \in Kinds : Contains(pending[k], m)
    /\ pending' = Retargeted(m)

SteerQueued(r, m) ==
    /\ Steers(r, m)
    /\ ops' = IF Head(Retargeted(m)["steer"]) = m
              THEN ops \cup {Call(r, "steer", m, "dispatch")} ELSE ops
    /\ UNCHANGED <<row, consumed, runVars, poolVars, session, host, seen, faults>>

RemoveQueued(m) ==
    /\ LockFree
    /\ \E k \in Kinds : Contains(pending[k], m)
    /\ pending' = [k \in Kinds |-> Without(pending[k], m)]
    /\ UNCHANGED <<row, consumed, runVars, poolVars, session, ops, host, seen, faults>>

\* move_queued swaps two neighbours, up or down.
MoveQueued(k, i) ==
    /\ LockFree /\ i \in 1..(Len(pending[k]) - 1)
    /\ pending' = [pending EXCEPT ![k] =
           [pending[k] EXCEPT ![i] = pending[k][i + 1], ![i + 1] = pending[k][i]]]
    /\ UNCHANGED <<row, consumed, runVars, poolVars, session, ops, host, seen, faults>>

\* The pool looks for the run and the session for its harness; otherwise the message is
\* deferred.  Then the session prepares the content.
PoolQueues(o) ==
    /\ o.stage = "dispatch"
    /\ IF pool.accepting /\ pool.current = o.run /\ session.harness # None
       THEN Moves(o, session.harness) ELSE Returns(o)
    /\ UNCHANGED <<durable, runVars, poolVars, session, host, seen, faults>>

\* Mutant: the session does not look again after it prepared the content.
AnyToken(o) == TRUE

\* It looks again for the same run, whose token is the stage of the call.
SameToken(o) == session.harness = o.stage

SessionQueues(o) ==
    /\ o.stage \in Runs
    /\ IF SameToken(o)
       THEN /\ session' = [session EXCEPT !.queue[o.kind] = Append(@, o.msg)]
            /\ Moves(o, "consume")
       ELSE Returns(o) /\ UNCHANGED session
    /\ UNCHANGED <<durable, runVars, poolVars, host, seen, faults>>

\* consume_exact accepts nothing but the head.
Removes(o) ==
    /\ o.stage = "consume"
    /\ IF pending[o.kind] # <<>> /\ Head(pending[o.kind]) = o.msg
       THEN /\ pending' = [pending EXCEPT ![o.kind] = Tail(@)]
            /\ consumed' = consumed \cup {o.msg}
       ELSE UNCHANGED <<pending, consumed>>

Consume(o) ==
    /\ Removes(o)
    /\ Returns(o)
    /\ UNCHANGED <<row, runVars, poolVars, session, host, seen, faults>>

ConsumeFails(o) ==
    /\ o.stage = "consume" /\ Fails
    /\ Returns(o)
    /\ UNCHANGED <<durable, runVars, poolVars, session, host, seen>>

\* _append_queue_audit fails after its write: the call ends there, with an error for a message that
\* stays where the write has put it.
QueueAuditFails(o) ==
    /\ Fails
    /\ Inserts(o) \/ Removes(o)
    /\ pending' # pending
    /\ Returns(o)
    /\ UNCHANGED <<row, runVars, poolVars, session, host, seen>>

SteerAuditFails(r, m) ==
    /\ Fails
    /\ Steers(r, m)
    /\ UNCHANGED <<row, consumed, runVars, poolVars, session, ops, host, seen>>

-----------------------------------------------------------------------------
(* shutdown, and the end of the process *)

ShutdownBegins ==
    /\ host.stop \in {"no", "failed"}
    /\ host' = [host EXCEPT !.stop = "asked"]
    /\ UNCHANGED <<durable, runVars, poolVars, session, ops, seen, faults>>

\* With the load lock, the pool is shut down: its current run is cancelled.
ShutdownPool ==
    /\ host.stop = "asked" /\ host.loader = None
    /\ host' = [stop |-> "pool", loader |-> "shutdown"]
    /\ pool' = [pool EXCEPT !.accepting = FALSE,
                            !.cancelReq = pool.cancelReq \/ pool.current # None]
    /\ UNCHANGED <<durable, runVars, result, unread, session, ops, seen, faults>>

\* The pool has closed its owned session; what was in the session's queues is lost.
ShutdownPoolEnds ==
    /\ host.stop = "pool" /\ pool.current = None /\ pool.line = <<>>
    /\ host' = [stop |-> "drivers", loader |-> None]
    /\ session' = Unloaded
    /\ UNCHANGED <<durable, runVars, poolVars, ops, seen, faults>>

\* Mutant: shutdown() returns with the pool.
DrainedPool == TRUE

\* _drain_driver_tasks has nothing left to wait for.
DriversDrained == \A r \in Runs : task[r] \notin Driven

\* The error of a driver that failed leaves shutdown(), which may then be repeated.
ShutdownEnds ==
    /\ host.stop = "drivers" /\ DriversDrained
    /\ host' = [host EXCEPT !.stop = IF \E r \in Runs : task[r] = "dead"
                                     THEN "failed" ELSE "done"]
    /\ task' = [r \in Runs |-> IF task[r] = "dead" THEN "left" ELSE task[r]]
    /\ UNCHANGED <<durable, final, aborts, poolVars, session, ops, seen, faults>>

\* Mutants: recovery does not look at the status, or looks for rows without a driver.
RecoveredAll(status) == IF status = None THEN None ELSE "interrupted"
RecoveredPending(status) == IF status = "pending" THEN "interrupted" ELSE status

\* _recover_stale_runs, when the database is opened
Recovered(status) == IF status = "running" THEN "interrupted" ELSE status

\* The process stops, at any point or after shutdown(), and is started again.
Restart ==
    /\ faults.crashes < MaxCrashes
    /\ faults' = [faults EXCEPT !.crashes = @ + 1]
    /\ row' = [r \in Runs |-> Recovered(row[r])]
    /\ task' = [r \in Runs |-> IF row[r] = None THEN "none" ELSE "left"]
    /\ final' = [r \in Runs |-> None] /\ aborts' = {}
    /\ pool' = EmptyPool /\ result' = [r \in Runs |-> None]
    /\ unread' = [r \in Runs |-> [items |-> 0, yielded |-> 0]]
    /\ session' = Unloaded /\ ops' = {} /\ host' = FreshHost
    /\ UNCHANGED <<pending, consumed, seen>>

-----------------------------------------------------------------------------
SubmitStep(r) ==
    \/ Created(r) \/ AuditFails(r) \/ Enter(r) \/ Loaded(r) \/ LoadFails(r)
    \/ SubmissionFailed(r)
DriverStep(r) ==
    \/ DriverReads(r) \/ DriverMarks(r) \/ DriverWaits(r) \/ DriverEnds(r)
    \/ \E written \in BOOLEAN : DriverFails(r, written)
PoolStep(r) ==
    \/ Activates(r) \/ PoolYields(r) \/ PoolRefuses(r)
    \/ \E status \in {"completed", "cancelled", "failed"}, left \in BOOLEAN :
           PoolEnds(r, status, left)
QueueStep(o) ==
    Enqueued(o) \/ PoolQueues(o) \/ SessionQueues(o) \/ Consume(o) \/ ConsumeFails(o)
    \/ QueueAuditFails(o)
ShutdownStep == ShutdownPool \/ ShutdownPoolEnds \/ ShutdownEnds

Next ==
    \/ \E r \in Runs :
           \/ Submit(r) \/ SubmitStep(r) \/ DriverStep(r) \/ PoolStep(r)
           \/ \E hard \in BOOLEAN : Cancel(r, hard)
           \/ \E k \in Kinds : DispatchNext(r, k)
           \/ \E m \in Messages : SteerQueued(r, m) \/ SteerAuditFails(r, m) \/ \E k \in Kinds : QueueFor(r, k, m)
    \/ \E m \in Messages : RemoveQueued(m) \/ \E k \in Kinds : Enqueue(k, m)
    \/ \E k \in Kinds : Drain(k) \/ \E i \in DOMAIN pending[k] : MoveQueued(k, i)
    \/ \E o \in ops : QueueStep(o)
    \/ PoolBegins \/ Reaped
    \/ ShutdownBegins \/ ShutdownStep \/ Restart

Spec == Init /\ [][Next]_vars

\* The event loop resumes every task: writes, the loader and the agent's requests end.
FairSpec ==
    /\ Spec
    /\ \A r \in Runs :
           WF_vars(SubmitStep(r)) /\ WF_vars(DriverStep(r)) /\ WF_vars(PoolStep(r))
    /\ WF_vars(PoolBegins) /\ WF_vars(Reaped) /\ WF_vars(ShutdownStep)

-----------------------------------------------------------------------------
\* Instances: the runs and the messages are interchangeable.
Symmetric == Permutations(Runs) \cup Permutations(Messages)

\* The types of the variables; one call at a time holds the queue lock.
TypeOK ==
    /\ row \in [Runs -> Queueable \cup Terminal \cup {None}]
    /\ pending \in [Kinds -> Seq(Messages)] /\ consumed \subseteq Messages
    /\ task \in [Runs -> {"none", "create", "created", "load", "failing", "read", "mark",
                          "final", "dead", "left"}]
    /\ final \in [Runs -> Terminal \cup {None}] /\ aborts \subseteq Runs
    /\ pool \in [accepting : BOOLEAN, line : Seq(Runs), current : Runs \cup {None},
                 cancelReq : BOOLEAN]
    /\ result \in [Runs -> {"completed", "cancelled", "failed", None}]
    /\ unread \in [Runs -> [items : 0..MaxEvents, yielded : 0..MaxEvents]]
    /\ session \in [loaded : BOOLEAN, harness : Runs \cup {None},
                    queue : [Kinds -> Seq(Messages)]]
    /\ ops \subseteq [run : Runs, kind : Kinds, msg : Messages,
                      stage : Stages \cup Runs]
    /\ \A o, p \in ops : o = p
    /\ host \in [stop : {"no", "asked", "pool", "drivers", "done", "failed"},
                 loader : Runs \cup {None, "shutdown"}]
    /\ seen \in Seq(Messages)
    /\ faults \in [crashes : 0..MaxCrashes, failures : 0..MaxFailures]

Healthy == faults.crashes = 0 /\ faults.failures = 0

\* The parts of the inductive invariant: the row of a run and the place of its task
RowsExact ==
    \A r \in Runs :
        /\ task[r] = "create" => row[r] = None
        /\ task[r] \in {"created", "load", "failing"} => row[r] = "pending"
        /\ task[r] \in Driven => row[r] \in Queueable
        /\ row[r] = "running" => task[r] \in Driven \/ faults.failures > 0

\* the run in the pool, its result and what its driver makes of it
Held(r) == r = pool.current \/ r \in Range(pool.line)
Submitting == {"none", "create", "created", "load", "failing"}

RunsExact ==
    /\ IsInjective(pool.line) /\ pool.current \notin Range(pool.line)
    /\ \A r \in Runs :
        /\ unread[r].items <= unread[r].yielded
        /\ Held(r) => /\ result[r] = None
                      /\ task[r] \in {"read", "mark"} \/ (task[r] = "dead" /\ faults.failures > 0)
        /\ task[r] \in Submitting => result[r] = None
        /\ task[r] \in Driven => Held(r) \/ result[r] # None
        /\ task[r] = "final" => result[r] # None /\ final[r] = Final(r)
        /\ r \in aborts => task[r] \in Driven \/ faults.failures > 0

\* how far shutdown() is, and who holds the load lock
HostExact ==
    /\ \A r \in Runs : task[r] = "load" => host.loader = r
    /\ host.loader \in Runs => host.stop \in {"no", "asked"}
    /\ host.stop \in {"pool", "drivers", "done", "failed"} => ~pool.accepting
    /\ host.stop \in {"drivers", "done", "failed"} => pool.current = None /\ pool.line = <<>>
    /\ host.stop = "done" => \A r \in Runs : task[r] \notin Driven \cup {"dead"}

\* the durable queues and the call that holds their lock
QueuesExact ==
    /\ \A k \in Kinds : IsInjective(pending[k]) /\ Range(pending[k]) \cap consumed = {}
    /\ Range(pending["steer"]) \cap Range(pending["follow_up"]) = {}
    /\ \A o \in ops :
        IF o.stage = "enqueue" THEN Fresh(o.msg)
        ELSE pending[o.kind] # <<>> /\ Head(pending[o.kind]) = o.msg

\* and what was handed to the session, while nothing has gone wrong
HandedExact ==
    Healthy =>
        /\ IsInjective(seen) /\ \A k \in Kinds : IsInjective(session.queue[k])
        /\ Range(session.queue["steer"]) \cap Range(session.queue["follow_up"]) = {}
        /\ \A k \in Kinds : Range(seen) \cap Range(session.queue[k]) = {}
        /\ \A m \in Range(seen) \cup UNION {Range(session.queue[k]) : k \in Kinds} :
               m \in consumed \/ \E o \in ops : o.msg = m /\ o.stage = "consume"

IInv == TypeOK /\ RowsExact /\ RunsExact /\ HostExact /\ QueuesExact /\ HandedExact

\* While the process lives and writes succeed, a message reaches the agent at most once,
\* and a message that was handed to the session is not in the durable queue any more
\* unless its call is about to consume it.
NotTwice ==
    Healthy =>
        LET handed == seen \o session.queue["steer"] \o session.queue["follow_up"] IN
        /\ IsInjective(handed)
        /\ \A i \in DOMAIN handed : \A k \in Kinds :
               Contains(pending[k], handed[i]) =>
                   \E o \in ops : o.msg = handed[i] /\ o.stage = "consume"

\* A row is only marked running while a driver of this process will see it to its end,
\* unless a write failed: no run of an earlier process is taken for a live one.
RunningIsDriven ==
    \A r \in Runs :
        row[r] = "running" =>
            \/ task[r] \in Driven /\ (r = pool.current \/ Contains(pool.line, r)
                                         \/ result[r] # None)
            \/ faults.failures > 0

\* When shutdown() has returned, no driver and no run of the pool is left behind.
ShutdownDrains ==
    host.stop = "done" =>
        /\ pool.current = None /\ pool.line = <<>>
        /\ faults.failures = 0 => aborts = {}
        /\ \A r \in Runs : task[r] \notin Driven \cup {"dead"}

\* Messages enter a queue of the session in the order of the durable queue, although they
\* are retargeted, moved and removed between the look at the queue and the handover.
HandedInOrder ==
    [][\A k \in Kinds :
           Len(session'.queue[k]) > Len(session.queue[k]) =>
               pending[k] # <<>> /\ Last(session'.queue[k]) = Head(pending[k])]_vars

\* A message that was accepted for an active run is never queued for the next one,
\* although the session prepares the content in between.
HandedToItsRun ==
    [][\A o \in ops :
           SessionQueues(o) /\ session' # session /\ o.stage = o.run
               => session.harness = o.run]_vars

\* A terminal row is never changed, by a driver, a failed submission or the recovery.
TerminalStands == [][\A r \in Runs : row[r] \in Terminal => row'[r] = row[r]]_vars

\* A run that was aborted is never recorded as cancelled, and one that was only cancelled
\* never as interrupted by this process.
AbortInterrupts ==
    [][\A r \in Runs : DriverEnds(r) =>
           (row'[r] = "interrupted") <=> (r \in aborts /\ result[r] = "cancelled")]_vars

\* Every submitted run gets a terminal row, unless the process stops or a write fails.
RunsSettle ==
    \A r \in Runs : row[r] = "pending" ~> row[r] \in Terminal \/ ~Healthy

\* A running row has its driver, and shutdown() leaves neither drivers nor runs behind.
Accounted == RunningIsDriven /\ ShutdownDrains

\* A terminal row stands, and it tells an abort from a cancellation.
EndsAreTrue == TerminalStands /\ AbortInterrupts

\* One call at a time works on the queues, which agree with it and with what was handed to the
\* session, and a message reaches the agent at most once.
QueuedOnce == IInv /\ NotTwice

\* A message is handed to the run it was accepted for, in the order of the durable queue.
Handed == HandedToItsRun /\ HandedInOrder
=============================================================================
