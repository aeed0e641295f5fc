---------------------------- MODULE SqliteWriter ----------------------------
(***************************************************************************)
(* SqliteWriter (src/tau_web/sqlite/writer.py): callers put writes into a  *)
(* bounded priority queue, one worker runs them one after the other on one *)
(* connection, close() rejects new writes and waits for the accepted ones. *)
(* asyncio.PriorityQueue and the connection are modelled from their use.   *)
(***************************************************************************)
EXTENDS Naturals, Sequences, FiniteSets, SequencesExt

CONSTANTS Calls,        \* calls of transaction() and maintenance()
          Priority,     \* Priority[c] \in Nat, below that of STOP
          Maintenance,  \* the calls of maintenance()
          QueueSize,
          MaxFailures,  \* bound: statements of SQLite that fail
          Stop          \* the request that ends the worker

WriterAssumption ==
    /\ IsFiniteSet(Calls) /\ Stop \notin Calls /\ Maintenance \subseteq Calls
    /\ Priority \in [Calls -> Nat]
    /\ QueueSize \in Nat \ {0} /\ MaxFailures \in Nat

VARIABLES
    call,     \* call[c]: where the caller is, or what it was told
    number,   \* number[c]: drawn from _sequence when the call is accepted
    queue,    \* the requests in the queue
    putters,  \* callers blocked in put(), in the order they wait
    woken,    \* callers that were woken there and have not run yet
    worker,   \* what the worker awaits, and for whom
    conn,     \* [open, parts]: the transaction of the write connection, what it wrote
    store,    \* what is committed
    spoiled,  \* observed: a commit or rollback failed
    closing,  \* where close() is; _accepting is FALSE unless "no"
    failures  \* bounded counter

vars == <<call, number, queue, putters, woken, worker, conn, store, spoiled, closing, failures>>

Parts == {1, 2}

\* The worker awaits a request.
Waits == [at |-> "get", item |-> Stop]

Init ==
    /\ call = [c \in Calls |-> "new"]
    /\ number = [c \in Calls |-> 0]
    /\ queue = {} /\ putters = <<>> /\ woken = {}
    /\ worker = Waits
    /\ conn = [open |-> FALSE, parts |-> {}]
    /\ store = {} /\ spoiled = FALSE /\ closing = "no" /\ failures = 0

-----------------------------------------------------------------------------
(* The queue *)

\* Mutant: the bound itself is let through.
FullBeyond == Cardinality(queue) > QueueSize

Full == Cardinality(queue) >= QueueSize

\* put() of asyncio.Queue: a blocked caller goes to the end of the line, also when it was
\* woken and somebody else took its place.
Puts(c) ==
    IF Full
    THEN /\ call' = [call EXCEPT ![c] = "blocked"]
         /\ putters' = Append(putters, c)
         /\ UNCHANGED queue
    ELSE /\ call' = [call EXCEPT ![c] = "waiting"]
         /\ queue' = queue \cup {c}
         /\ UNCHANGED putters

\* _wakeup_next: the first blocked caller is woken, beside the others.
Wakes(others) ==
    IF putters = <<>> THEN woken' = others /\ UNCHANGED putters
    ELSE woken' = others \cup {Head(putters)} /\ putters' = Tail(putters)

\* The line without one that leaves it
Without(line, c) ==
    IF \E i \in DOMAIN line : line[i] = c
    THEN RemoveAt(line, CHOOSE i \in DOMAIN line : line[i] = c)
    ELSE line

\* The order of (priority, sequence)
Before(c, d) ==
    Priority[c] < Priority[d] \/ (Priority[c] = Priority[d] /\ number[c] <= number[d])

\* The request the worker gets; STOP has the last priority.
IsNext(c) == \A d \in queue \ {Stop} : c # Stop /\ Before(c, d)

Idle == worker.at = "get" /\ queue = {}

-----------------------------------------------------------------------------
(* Callers *)

\* Mutant: close() does not reject new calls.
AcceptsAlways == TRUE

Accepts == closing = "no"

Submit(c) ==
    /\ call[c] = "new"
    /\ IF Accepts
       THEN /\ number' = [number EXCEPT ![c] = Cardinality({d \in Calls : number[d] > 0}) + 1]
            /\ Puts(c)
       ELSE /\ call' = [call EXCEPT ![c] = "rejected"]
            /\ UNCHANGED <<number, queue, putters>>
    /\ UNCHANGED <<woken, worker, conn, store, spoiled, closing, failures>>

PutResumes(c) ==
    /\ c \in woken
    /\ Puts(c)
    /\ woken' = woken \ {c}
    /\ UNCHANGED <<number, worker, conn, store, spoiled, closing, failures>>

\* Mutant: a woken caller that is cancelled keeps the wake-up.
PassesNothing(c) == UNCHANGED putters /\ woken' = woken \ {c}

\* A woken caller that is cancelled wakes the next one when there is room.
PassesOn(c) ==
    IF c \in woken /\ ~Full THEN Wakes(woken \ {c})
    ELSE putters' = Without(putters, c) /\ woken' = woken \ {c}

\* CancelledError reaches the caller.  A request in the queue stays there.
Cancel(c) ==
    /\ call[c] \in {"blocked", "waiting"}
    /\ call' = [call EXCEPT ![c] = "cancelled"]
    /\ PassesOn(c)
    /\ UNCHANGED <<number, queue, worker, conn, store, spoiled, closing, failures>>

-----------------------------------------------------------------------------
(* The worker; each step is one await *)

\* The thread of SQLite answers two turns of the event loop later, or more: the caller that
\* was woken when the worker took its request runs before, and so does the next one if he is
\* cancelled there.
Works(at) == worker.at = at /\ woken = {}

Goes(at) == worker' = [worker EXCEPT !.at = at]

Fails == failures < MaxFailures /\ failures' = failures + 1

\* task_done(): the last one wakes close() in join().
Done ==
    /\ worker' = Waits
    /\ closing' = IF closing = "join" /\ queue = {} THEN "stop" ELSE closing

\* The future gets the result unless its caller is gone.
Answers(result) ==
    /\ call' = [call EXCEPT ![worker.item] = IF @ = "waiting" THEN result ELSE @]
    /\ Done

Get ==
    /\ worker.at = "get"
    /\ \E c \in queue :
           /\ IsNext(c)
           /\ queue' = queue \ {c}
           /\ worker' = [at |-> IF c = Stop THEN "stopped"
                                ELSE IF c \in Maintenance THEN "op" ELSE "begin",
                         item |-> c]
    /\ Wakes(woken)
    /\ UNCHANGED <<call, number, conn, store, spoiled, closing, failures>>

\* BEGIN IMMEDIATE fails inside a transaction.
Begin ==
    /\ Works("begin")
    /\ \/ /\ ~conn.open
          /\ conn' = [open |-> TRUE, parts |-> {}]
          /\ Goes("op") /\ UNCHANGED <<call, closing, failures>>
       \/ /\ conn.open \/ failures < MaxFailures
          /\ failures' = IF conn.open THEN failures ELSE failures + 1
          /\ Answers("error") /\ UNCHANGED conn
    /\ UNCHANGED <<number, queue, putters, woken, store, spoiled>>

\* The operation writes its parts one after the other.
Writes ==
    /\ Works("op") /\ worker.item \notin Maintenance
    /\ \E p \in Parts : /\ \A q \in 1..p : <<worker.item, q>> \in conn.parts <=> q < p
                        /\ conn' = [conn EXCEPT !.parts = @ \cup {<<worker.item, p>>}]
    /\ UNCHANGED <<call, number, queue, putters, woken, worker, store, spoiled, closing, failures>>

OpReturns ==
    /\ Works("op")
    /\ IF worker.item \in Maintenance THEN Answers("done")
       ELSE /\ {worker.item} \X Parts \subseteq conn.parts
            /\ Goes("commit") /\ UNCHANGED <<call, closing>>
    /\ UNCHANGED <<number, queue, putters, woken, conn, store, spoiled, failures>>

\* Mutant: an operation that raises is answered without a rollback.
RaisesOpen == Answers("error")

Raises ==
    IF worker.item \in Maintenance THEN Answers("error")
    ELSE Goes("rollback") /\ UNCHANGED <<call, closing>>

OpRaises ==
    /\ Works("op") /\ Raises
    /\ UNCHANGED <<number, queue, putters, woken, conn, store, spoiled, failures>>

Rollback ==
    /\ Works("rollback") /\ Answers("error")
    /\ \/ conn' = [open |-> FALSE, parts |-> {}] /\ UNCHANGED <<spoiled, failures>>
       \/ Fails /\ spoiled' = TRUE /\ UNCHANGED conn
    /\ UNCHANGED <<number, queue, putters, woken, store>>

\* Mutant: the future is answered before the commit.
CommitsLate == Answers("ok") /\ UNCHANGED store

Commits == Answers("ok") /\ store' = store \cup conn.parts

\* A commit that fails may leave the transaction open or end it; nobody rolls it back.
Commit ==
    /\ Works("commit")
    /\ \/ /\ Commits /\ conn' = [open |-> FALSE, parts |-> {}]
          /\ UNCHANGED <<spoiled, failures>>
       \/ /\ Answers("error") /\ Fails /\ spoiled' = TRUE
          /\ conn' \in {conn, [open |-> FALSE, parts |-> {}]}
          /\ UNCHANGED store
    /\ UNCHANGED <<number, queue, putters, woken>>

-----------------------------------------------------------------------------
(* close() *)

\* STOP is put when the queue was empty: nobody is blocked there, and nobody else puts.
Stops == queue' = queue \cup {Stop} /\ closing' = "wait"

\* join() returns at once when there is nothing to wait for.
CloseBegins ==
    /\ closing = "no"
    /\ IF Idle THEN Stops ELSE closing' = "join" /\ UNCHANGED queue
    /\ UNCHANGED <<call, number, putters, woken, worker, conn, store, spoiled, failures>>

CloseStops ==
    /\ closing = "stop" /\ Stops
    /\ UNCHANGED <<call, number, putters, woken, worker, conn, store, spoiled, failures>>

CloseEnds ==
    /\ closing = "wait" /\ worker.at = "stopped"
    /\ closing' = "done"
    /\ UNCHANGED <<call, number, queue, putters, woken, worker, conn, store, spoiled, failures>>

-----------------------------------------------------------------------------
WorkerStep == Get \/ Begin \/ Writes \/ OpReturns \/ OpRaises \/ Rollback \/ Commit

Close == CloseStops \/ CloseEnds

Next ==
    \/ \E c \in Calls : Submit(c) \/ PutResumes(c) \/ Cancel(c)
    \/ WorkerStep \/ CloseBegins \/ Close

Spec == Init /\ [][Next]_vars

\* The worker and the woken tasks are resumed by the event loop.
FairSpec ==
    /\ Spec /\ WF_vars(WorkerStep) /\ WF_vars(Close)
    /\ \A c \in Calls : WF_vars(PutResumes(c))

-----------------------------------------------------------------------------
Places == {"new", "blocked", "waiting", "ok", "done", "error", "cancelled", "rejected"}

\* The types of the variables.
TypeOK ==
    /\ call \in [Calls -> Places] /\ number \in [Calls -> 0..Cardinality(Calls)]
    /\ queue \subseteq Calls \cup {Stop} /\ Cardinality(queue) <= QueueSize
    /\ putters \in Seq(Calls) /\ woken \subseteq Calls
    /\ worker \in [at : {"get", "begin", "op", "rollback", "commit", "stopped"},
                   item : Calls \cup {Stop}]
    /\ conn \in [open : BOOLEAN, parts : SUBSET (Calls \X Parts)]
    /\ store \subseteq Calls \X Parts /\ spoiled \in BOOLEAN
    /\ closing \in {"no", "join", "stop", "wait", "done"} /\ failures \in 0..MaxFailures

\* Between two writes the connection is in no transaction, unless SQLite failed to commit or
\* to roll back: an operation that raises does not spoil the writes behind it.
LeavesNoTransaction ==
    conn.open /\ ~spoiled => worker.at \in {"op", "rollback", "commit"}

\* When the worker stops, every call that was accepted has been carried out: a caller that was
\* blocked in put() is not left behind STOP.
ClosedAnswersAll ==
    worker.at = "stopped" => queue = {} /\ \A c \in Calls : call[c] \notin {"blocked", "waiting"}

\* A place in the queue that is free is offered to a blocked caller.
NoLostWakeup == putters # <<>> => Full \/ woken # {}

\* A write waits for at most the write that is running when it is put before everything else:
\* the worker never passes over a request of a smaller priority.
UrgentFirst ==
    [][\A c \in Calls \cap queue : worker'.item # worker.item /\ worker'.item \in Calls =>
           Priority[worker'.item] <= Priority[c]]_vars

\* What these rest on.  Who is blocked is in line, or was woken, once.
LineExact ==
    /\ IsInjective(putters)
    /\ woken \cap Range(putters) = {}
    /\ \A c \in Calls : call[c] = "blocked" <=> c \in woken \cup Range(putters)

\* At most one is woken, while the worker is busy, and a place is kept for him unless somebody
\* else took it.
WakeExact ==
    /\ \A c, d \in woken : c = d
    /\ worker.at \in {"get", "stopped"} => woken = {}
    /\ putters # <<>> => Full \/ (woken # {} /\ Cardinality(queue) + 1 >= QueueSize)

Busy == worker.at \notin {"get", "stopped"}

\* Who waits for an answer has a request in the queue or at work, of which there is one.
RequestsExact ==
    /\ \A c \in Calls : /\ call[c] = "waiting" => c \in queue \/ (Busy /\ worker.item = c)
                        /\ call[c] = "new" => number[c] = 0
    /\ \A c \in queue \ {Stop} : call[c] \in {"waiting", "cancelled"}
    /\ Busy => /\ worker.item \in Calls \ queue
               /\ call[worker.item] \in {"waiting", "cancelled"}

\* The transaction holds what the request at work has written, and all of it at the commit.
TransactionExact ==
    /\ worker.at \in {"begin", "rollback", "commit"} => worker.item \notin Maintenance
    /\ conn.open /\ ~spoiled => worker.at \in {"op", "rollback", "commit"} /\ worker.item \notin Maintenance
    /\ worker.at = "op" /\ worker.item \notin Maintenance => conn.parts \subseteq {worker.item} \X Parts
    /\ worker.at = "commit" => conn.parts = {worker.item} \X Parts

\* close() puts STOP when nobody is left, so that the worker gets it last.
ClosingExact ==
    /\ closing \in {"no", "join"} => Stop \notin queue /\ worker.at # "stopped"
    /\ closing \in {"stop", "wait", "done"} => putters = <<>> /\ woken = {} /\ ~Busy
    /\ closing = "stop" => Idle
    /\ closing = "wait" => IF worker.at = "get" THEN queue = {Stop} ELSE queue = {}
    /\ closing = "done" => queue = {} /\ worker.at = "stopped"

IInv ==
    TypeOK /\ LineExact /\ WakeExact /\ RequestsExact /\ TransactionExact /\ ClosingExact

\* The writer is an atomic store: the outcome told is what happened to the data.
Answer == [c \in Calls |-> IF call[c] \in {"new", "blocked", "waiting"} THEN "none" ELSE call[c]]
Atomic == INSTANCE AtomicStore WITH answer <- Answer
ImplementsAtomic == Atomic!Spec

\* Every accepted call is answered, and close() returns.
CallsEnd == \A c \in Calls : call[c] = "blocked" ~> call[c] # "blocked" /\ call[c] # "waiting"
CloseReturns == closing = "join" ~> closing = "done"
=============================================================================
