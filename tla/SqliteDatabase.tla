--------------------------- MODULE SqliteDatabase ---------------------------
(***************************************************************************)
(* SqliteDatabase and DatabaseProcessLock (src/tau_web/sqlite): processes  *)
(* compete for one database file.  The one that holds the lock migrates,   *)
(* validates and recovers it, serves reads from a pool of connections, and *)
(* closes it again, unless it crashes.  The writer is SqliteWriter.        *)
(***************************************************************************)
EXTENDS Naturals, FiniteSets

CONSTANTS Hosts,       \* one opened SqliteDatabase each, in a process of its own
          Readers,     \* callers of read()
          HostOf,      \* HostOf[r]: the database r reads
          PoolSize, Latest,
          Known,       \* Known[h]: the latest schema version of the program of h
          MaxFailures, \* bound: operations of SQLite that fail or are cancelled
          None

DatabaseAssumption ==
    /\ None \notin Hosts /\ IsFiniteSet(Readers) /\ HostOf \in [Readers -> Hosts]
    /\ PoolSize \in Nat \ {0} /\ Latest \in Nat /\ MaxFailures \in Nat
    /\ Known \in [Hosts -> 0..Latest]

VARIABLES
    lock,     \* the process that holds the lock of the file
    schema,   \* user_version, and the versions in schema_migrations
    run,      \* [status, by]: a row of session_runs, and the host that drives it
    host,     \* host[h]: what open() or close() does next
    conns,    \* conns[h]: read connections that are open
    lost,     \* observed: lost[h]: those of them that no variable of h refers to any more
    pool,     \* pool[h]: those of them in the pool
    writing,  \* the hosts with a write connection
    reader,   \* reader[r]: where read() is
    failures  \* bounded counter

vars == <<lock, schema, run, host, conns, lost, pool, writing, reader, failures>>

Init ==
    /\ lock = None
    /\ \E v \in 0..Latest : schema = [version |-> v, applied |-> 1..v]
    /\ run = [status |-> "pending", by |-> None]
    /\ host = [h \in Hosts |-> "new"]
    /\ conns = [h \in Hosts |-> 0] /\ lost = [h \in Hosts |-> 0] /\ pool = [h \in Hosts |-> 0]
    /\ writing = {}
    /\ reader = [r \in Readers |-> "new"]
    /\ failures = 0

-----------------------------------------------------------------------------
Goes(h, stage) == host' = [host EXCEPT ![h] = stage]

Fails == failures < MaxFailures /\ failures' = failures + 1

\* Mutant: a process that finds the file locked goes on.
AcquiresShared(h) == lock' = IF lock = None THEN h ELSE lock

Acquires(h) == lock = None /\ lock' = h

\* The lock is taken before anything else; a second process raises DatabaseLockedError.  A thread
\* takes it, also when open() is cancelled meanwhile: then only close() releases it.
Open(h) ==
    /\ host[h] = "new"
    /\ \/ Acquires(h) /\ Goes(h, "connect") /\ UNCHANGED failures
       \/ Acquires(h) /\ Goes(h, "raised") /\ Fails
       \/ lock # None /\ Goes(h, "end") /\ UNCHANGED <<lock, failures>>
    /\ UNCHANGED <<schema, run, conns, lost, pool, writing, reader>>

\* The write connection, which is known to the host before it is configured
Connect(h) ==
    /\ host[h] = "connect"
    /\ \/ writing' = writing \cup {h} /\ Goes(h, "migrate") /\ UNCHANGED failures
       \/ writing' \in {writing, writing \cup {h}} /\ Fails /\ Goes(h, "undo")
    /\ UNCHANGED <<lock, schema, run, conns, lost, pool, reader>>

\* Mutant: the row of the migration is committed after the migration.
MigratesApart(h) ==
    \/ /\ schema.version + 1 \notin schema.applied
       /\ schema' = [schema EXCEPT !.applied = @ \cup {schema.version + 1}]
    \/ /\ schema.version + 1 \in schema.applied
       /\ schema' = [schema EXCEPT !.version = @ + 1]

\* One migration, its row and the new version are one transaction.
Migrates(h) == schema' = [version |-> schema.version + 1,
                          applied |-> schema.applied \cup {schema.version + 1}]

Migrate(h) ==
    /\ host[h] = "migrate" /\ schema.version < Known[h]
    /\ \/ Migrates(h) /\ UNCHANGED <<host, failures>>
       \/ Fails /\ Goes(h, "undo") /\ UNCHANGED schema
    /\ UNCHANGED <<lock, run, conns, lost, pool, writing, reader>>

\* A newer schema is refused, and so is a file that quick_check finds corrupt.
Validate(h) ==
    /\ host[h] = "migrate" /\ schema.version >= Known[h]
    /\ \/ schema.version = Known[h] /\ Goes(h, "recover") /\ UNCHANGED failures
       \/ schema.version > Known[h] /\ Goes(h, "undo") /\ UNCHANGED failures
       \/ Fails /\ Goes(h, "undo")
    /\ UNCHANGED <<lock, schema, run, conns, lost, pool, writing, reader>>

\* Mutant: the runs of a crashed process are left as they are.
RecoveredNothing == run

Recovered == IF run.status = "running" THEN [status |-> "interrupted", by |-> None] ELSE run

\* The update, its commit or the permissions of the files may fail.
Recover(h) ==
    /\ host[h] = "recover"
    /\ \/ run' = Recovered /\ Goes(h, "readers") /\ UNCHANGED failures
       \/ run' \in {run, Recovered} /\ Fails /\ Goes(h, "undo")
    /\ UNCHANGED <<lock, schema, conns, lost, pool, writing, reader>>

\* The writer has started; the read connections are opened one after the other.  When a pragma
\* of one raises, nothing refers to the connection that was opened for it.
OpenReader(h) ==
    /\ host[h] = "readers"
    /\ \/ /\ conns[h] < PoolSize
          /\ conns' = [conns EXCEPT ![h] = @ + 1] /\ pool' = [pool EXCEPT ![h] = @ + 1]
          /\ UNCHANGED <<host, lost, failures>>
       \/ conns[h] = PoolSize /\ Goes(h, "open") /\ UNCHANGED <<conns, lost, pool, failures>>
       \/ /\ conns[h] < PoolSize /\ Fails /\ Goes(h, "undo")
          /\ \/ UNCHANGED <<conns, lost>>
             \/ conns' = [conns EXCEPT ![h] = @ + 1] /\ lost' = [lost EXCEPT ![h] = @ + 1]
          /\ UNCHANGED pool
    /\ UNCHANGED <<lock, schema, run, writing, reader>>

-----------------------------------------------------------------------------
(* While it is open *)

StartRun(h) ==
    /\ host[h] = "open" /\ run.status = "pending"
    /\ run' = [status |-> "running", by |-> h]
    /\ UNCHANGED <<lock, schema, host, conns, lost, pool, writing, reader, failures>>

\* The runtime ends its runs before the database is closed.
EndRun(h) ==
    /\ run = [status |-> "running", by |-> h] /\ host[h] = "open"
    /\ run' = [status |-> "done", by |-> None]
    /\ UNCHANGED <<lock, schema, host, conns, lost, pool, writing, reader, failures>>

Read(r) ==
    /\ reader[r] = "new" /\ host[HostOf[r]] # "new"
    /\ reader' = [reader EXCEPT ![r] = IF host[HostOf[r]] = "open" THEN "wait" ELSE "refused"]
    /\ UNCHANGED <<lock, schema, run, host, conns, lost, pool, writing, failures>>

\* Nobody looks again whether the database is still open.
ReadGets(r) ==
    /\ reader[r] = "wait" /\ pool[HostOf[r]] > 0
    /\ pool' = [pool EXCEPT ![HostOf[r]] = @ - 1]
    /\ reader' = [reader EXCEPT ![r] = "read"]
    /\ UNCHANGED <<lock, schema, run, host, conns, lost, writing, failures>>

\* Mutant: an operation that raises keeps the connection.
ReturnsNothing(h) == UNCHANGED pool

Returns(h) == pool' = [pool EXCEPT ![h] = @ + 1]

\* The operation returns, raises or is cancelled.
ReadEnds(r) ==
    /\ reader[r] = "read"
    /\ Returns(HostOf[r])
    /\ reader' = [reader EXCEPT ![r] = "end"]
    /\ UNCHANGED <<lock, schema, run, host, conns, lost, writing, failures>>

-----------------------------------------------------------------------------
(* close() *)

\* Nothing is accepted any more; the writer drains what it has accepted.  close() may be called
\* again after a close(), and after an open(), that raised: without a write connection it only
\* releases the lock.
Close(h) ==
    /\ host[h] \in {"open", "raised"} /\ (host[h] = "open" => run.by # h)
    /\ Goes(h, IF h \in writing THEN "checkpoint" ELSE "unlock")
    /\ UNCHANGED <<lock, schema, run, conns, lost, pool, writing, reader, failures>>

\* A checkpoint that fails ends close().
Checkpoint(h) ==
    /\ host[h] = "checkpoint"
    /\ \/ Goes(h, "undo") /\ UNCHANGED failures
       \/ Fails /\ Goes(h, "raised")
    /\ UNCHANGED <<lock, schema, run, conns, lost, pool, writing, reader>>

\* _close_connections: the connections in the pool, then the write connection.  One that cannot
\* be closed has left the pool already; the lock is kept.
CloseReader(h) ==
    /\ host[h] = "undo" /\ pool[h] > 0
    /\ pool' = [pool EXCEPT ![h] = @ - 1]
    /\ \/ conns' = [conns EXCEPT ![h] = @ - 1] /\ UNCHANGED <<host, lost, failures>>
       \/ lost' = [lost EXCEPT ![h] = @ + 1] /\ Fails /\ Goes(h, "raised") /\ UNCHANGED conns
    /\ UNCHANGED <<lock, schema, run, writing, reader>>

CloseWriter(h) ==
    /\ host[h] = "undo" /\ pool[h] = 0
    /\ \/ writing' = writing \ {h} /\ Goes(h, "unlock") /\ UNCHANGED failures
       \/ h \in writing /\ Fails /\ Goes(h, "raised") /\ UNCHANGED writing
    /\ UNCHANGED <<lock, schema, run, conns, lost, pool, reader>>

\* Mutant: the lock is released before the connections are closed.
ReleasesEarly(h) == host[h] \in {"undo", "unlock"} /\ lock = h

Releases(h) == host[h] = "unlock"

Release(h) ==
    /\ Releases(h)
    /\ lock' = None
    /\ Goes(h, "end")
    /\ UNCHANGED <<schema, run, conns, lost, pool, writing, reader, failures>>

\* The process dies: the operating system closes its files and releases the lock.  It may be
\* started again.
Crash(h) ==
    /\ host[h] \notin {"new", "end"} /\ Fails
    /\ host' = [host EXCEPT ![h] = "new"]
    /\ lock' = IF lock = h THEN None ELSE lock
    /\ conns' = [conns EXCEPT ![h] = 0] /\ lost' = [lost EXCEPT ![h] = 0] /\ pool' = [pool EXCEPT ![h] = 0]
    /\ writing' = writing \ {h}
    /\ reader' = [r \in Readers |-> IF HostOf[r] = h /\ reader[r] # "new" THEN "end" ELSE reader[r]]
    /\ UNCHANGED <<schema, run>>

-----------------------------------------------------------------------------
OpenStep(h) == Connect(h) \/ Migrate(h) \/ Validate(h) \/ Recover(h) \/ OpenReader(h)
CloseStep(h) == Checkpoint(h) \/ CloseReader(h) \/ CloseWriter(h) \/ Release(h)

Next ==
    \/ \E h \in Hosts : \/ Open(h) \/ OpenStep(h) \/ StartRun(h) \/ EndRun(h)
                        \/ Close(h) \/ CloseStep(h) \/ Crash(h)
    \/ \E r \in Readers : Read(r) \/ ReadGets(r) \/ ReadEnds(r)

Spec == Init /\ [][Next]_vars

\* SQLite answers, and a read that has a connection ends.
FairSpec ==
    /\ Spec
    /\ \A h \in Hosts : WF_vars(OpenStep(h)) /\ WF_vars(CloseStep(h))
    /\ \A r \in Readers : SF_vars(ReadGets(r)) /\ WF_vars(ReadEnds(r))

-----------------------------------------------------------------------------
\* The types of the variables.
TypeOK ==
    /\ lock \in Hosts \cup {None} /\ writing \subseteq Hosts
    /\ schema \in [version : 0..Latest, applied : SUBSET (1..Latest)]
    /\ run \in [status : {"pending", "running", "done", "interrupted"}, by : Hosts \cup {None}]
    /\ host \in [Hosts -> {"new", "connect", "migrate", "recover", "readers", "open", "checkpoint",
                           "undo", "raised", "unlock", "end"}]
    /\ conns \in [Hosts -> 0..PoolSize] /\ lost \in [Hosts -> 0..PoolSize] /\ pool \in [Hosts -> 0..PoolSize]
    /\ reader \in [Readers -> {"new", "wait", "read", "end", "refused"}]
    /\ failures \in 0..MaxFailures

\* docs/storage.md: one write connection, in the process that holds the lock, whatever fails
\* while it opens or closes.
OneWriter == writing \subseteq {lock}

\* The migrations recorded are those up to the version, also after a crash in between.
SchemaRecorded == schema.applied = 1..schema.version

\* While a host serves, a running row is one of its own: those a crash left behind were
\* marked interrupted before the first request.
RunningIsMine ==
    \A h \in Hosts : host[h] \in {"readers", "open"} /\ run.status = "running" => run.by = h

\* Every read connection that is open is in the pool or with one reader, also when close() runs in
\* between, but for those whose own opening or closing raised; and a database that serves reads has
\* lost none: all its connections are there, whatever was cancelled or raised before.
Reading(h) == {r \in Readers : HostOf[r] = h /\ reader[r] = "read"}
PoolConserved ==
    \A h \in Hosts : /\ conns[h] = pool[h] + Cardinality(Reading(h)) + lost[h]
                     /\ host[h] = "open" => conns[h] = PoolSize /\ lost[h] = 0

\* The inductive invariant needs no more than where the lock and the write connection are, and
\* when a connection may have been lost.
Connected == {"migrate", "recover", "readers", "open", "checkpoint"}
Holding == Connected \cup {"connect", "undo", "raised", "unlock"}
LocksExact ==
    \A h \in Hosts : /\ lock = h <=> host[h] \in Holding
                     /\ h \in writing => host[h] \in Connected \cup {"undo", "raised"}
                     /\ host[h] \in Connected => h \in writing
LossesExact ==
    \A h \in Hosts : host[h] \in {"new", "connect", "migrate", "recover", "readers"} => lost[h] = 0

IInv == TypeOK /\ LocksExact /\ SchemaRecorded /\ RunningIsMine /\ PoolConserved /\ LossesExact

\* A read that was accepted ends while the database stays open.  (close() may take the
\* connection that a waiting read was woken for: then nobody wakes it again.)
ReadsEnd ==
    \A r \in Readers : reader[r] = "wait" ~> reader[r] = "end" \/ host[HostOf[r]] # "open"
=============================================================================
