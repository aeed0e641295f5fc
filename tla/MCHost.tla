-------------------------------- MODULE MCHost --------------------------------
(***************************************************************************)
(* The services of the web host: approvals, the writer and the database    *)
(* behind them, and the host that opens and closes everything.  They meet  *)
(* through the promises their own modules state, so that a behaviour here  *)
(* is a behaviour of one of them, chosen by part; the others stay in their *)
(* initial states.                                                         *)
(***************************************************************************)
EXTENDS ToolApproval

CONSTANTS Chosen, a1, a2, p1, p2, o1, o2, o3, Stop,
          Hosts, Readers, HostOf, PoolSize, Latest, Known, \* of SqliteDatabase
          MaxCrashes \* bound: what fails of the database and of the host's own steps

VARIABLES
    part,
    call, number, queue, putters, woken, worker, conn, store, spoiled, closing,
    lock, schema, run, process, conns, astray, pool, writing, reader,
    stage, todo, up, work, receipt, lost, stuck,
    writerFailures, databaseFailures, hostFailures

writerVars == <<call, number, queue, putters, woken, worker, conn, store, spoiled, closing,
                writerFailures>>
databaseVars == <<lock, schema, run, process, conns, astray, pool, writing, reader, databaseFailures>>
hostVars == <<stage, todo, up, work, receipt, lost, stuck, hostFailures>>
hostingVars == <<part, vars, writerVars, databaseVars, hostVars>>

Callers == {o1, o2, o3}

\* Three writes, the last one a checkpoint, and a queue of one place.
Urgency == [c \in Callers |-> IF c = o3 THEN 0 ELSE 10]
Writer == INSTANCE SqliteWriterProofs WITH
    Calls <- Callers, Priority <- Urgency, Maintenance <- {o3}, QueueSize <- 1, MaxFailures <- 1,
    failures <- writerFailures

\* In the runs two processes compete, the second of an older release; two readers of the first
\* and one of the second share one connection each.
OwnHost == [r \in Callers |-> IF r = o3 THEN p2 ELSE p1]
ReleaseOf == [h \in {p1, p2} |-> IF h = p1 THEN 2 ELSE 1]
Database == INSTANCE SqliteDatabase WITH
    MaxFailures <- MaxCrashes, host <- process, lost <- astray, failures <- databaseFailures

Host == INSTANCE HostServices WITH MaxFailures <- MaxCrashes, run <- work, failures <- hostFailures

ASSUME HostAssumption == Writer!WriterAssumption /\ Database!DatabaseAssumption

HostInit ==
    /\ part \in Chosen
    /\ Init
    /\ Database!Init /\ (part = "database" \/ schema.version = 0)
    /\ Writer!Init /\ Host!Init

HostNext ==
    /\ UNCHANGED part
    /\ \/ /\ part = "approvals" /\ Next
          /\ UNCHANGED <<writerVars, databaseVars, hostVars>>
       \/ /\ part = "writer" /\ Writer!Next
          /\ UNCHANGED <<vars, databaseVars, hostVars>>
       \/ /\ part = "database" /\ Database!Next
          /\ UNCHANGED <<vars, writerVars, hostVars>>
       \/ /\ part = "host" /\ Host!Next
          /\ UNCHANGED <<vars, writerVars, databaseVars>>

\* The fairness that each module states for itself, for the part that moves.
Fairness ==
    /\ \A a \in Requests : /\ WF_vars(part = "approvals" /\ RequestStep(a))
                           /\ WF_vars(part = "approvals" /\ ResolveStep(a))
    /\ WF_writerVars(part = "writer" /\ Writer!WorkerStep)
    /\ WF_writerVars(part = "writer" /\ Writer!Close)
    /\ \A c \in Callers : WF_writerVars(part = "writer" /\ Writer!PutResumes(c))
    /\ \A h \in Hosts : WF_databaseVars(part = "database" /\ Database!OpenStep(h))
                       /\ WF_databaseVars(part = "database" /\ Database!CloseStep(h))
    /\ \A r \in Readers : SF_databaseVars(part = "database" /\ Database!ReadGets(r))
                           /\ WF_databaseVars(part = "database" /\ Database!ReadEnds(r))
    /\ WF_hostVars(part = "host" /\ Host!CloseStep) /\ WF_hostVars(part = "host" /\ Host!RunEnds)
    /\ WF_hostVars(part = "host" /\ stage = "closing" /\ Host!Answered)

HostSpec == HostInit /\ [][HostNext]_hostingVars
HostFairSpec == HostSpec /\ Fairness

-----------------------------------------------------------------------------
\* The types of the variables of every part, with the inductive invariant of each.
StorageTypes ==
    /\ part = "writer" => Writer!IInv
    /\ part = "database" => Database!IInv
    /\ part = "host" => Host!IInv

\* The writer is an atomic store: what a caller is told is what happened to the data.
WritesAreAtomic == Writer!ImplementsAtomic

\* An operation that raises leaves no transaction behind, close() answers every accepted call,
\* and a free place in the queue is offered to a caller that waits for one.
WriterSafe ==
    part = "writer" => Writer!LeavesNoTransaction /\ Writer!ClosedAnswersAll /\ Writer!NoLostWakeup

\* One process writes to the file, whatever fails or crashes; the migrations it recorded are
\* those it ran; a running row is one of its own; a database that serves reads has all its
\* connections, and none is shared; none is lost but by its own failing pragma or close().
DatabaseSafe ==
    part = "database" => /\ Database!OneWriter /\ Database!SchemaRecorded
                         /\ Database!RunningIsMine /\ Database!PoolConserved

\* Nothing is closed under what uses it; after a failed open(), and after close(), nothing stays
\* open but the parts whose own closing raised, and every error of a receipt has been collected.
HostSafe == part = "host" => Host!NothingUsesClosed /\ Host!NothingLeaks

\* Accepted writes are answered, reads of an open database end, close() returns.
StorageEnds == Writer!CallsEnd /\ Writer!CloseReturns /\ Database!ReadsEnd /\ Host!CloseEnds
=============================================================================
