-------------------------- MODULE AgentPoolProofs --------------------------
(* Theorems about AgentPool for every set of sessions and runs and every bound. *)
EXTENDS AgentPool, FiniteSetTheorems, SequenceTheorems, TLAPS

\* A waiter that leaves a queue leaves a queue.
LEMMA WithoutType ==
    ASSUME NEW S, NEW q \in Seq(S), NEW x
    PROVE  Without(q, x) \in Seq(S)
<1>1. CASE \E i \in DOMAIN q : q[i] = x
  <2>. DEFINE i == CHOOSE j \in DOMAIN q : q[j] = x
  <2>1. i \in 1..Len(q)
    BY <1>1
  <2>2. Without(q, x) = SubSeq(q, 1, i - 1) \o SubSeq(q, i + 1, Len(q))
    BY <1>1 DEF Without, RemoveAt
  <2>. HIDE DEF i
  <2>3. SubSeq(q, 1, i - 1) \in Seq(S)
    <3>1. \A j \in 1..(i - 1) : q[j] \in S
      BY <2>1
    <3>. QED BY <2>1, <3>1, SubSeqProperties
  <2>4. SubSeq(q, i + 1, Len(q)) \in Seq(S)
    <3>1. \A j \in (i + 1)..Len(q) : q[j] \in S
      BY <2>1
    <3>. QED BY <2>1, <3>1, SubSeqProperties
  <2>. QED BY <2>2, <2>3, <2>4, ConcatProperties
<1>2. CASE ~\E i \in DOMAIN q : q[i] = x
  BY <1>2 DEF Without
<1>. QED BY <1>1, <1>2

\* _refresh_state only writes the state of an entry.
LEMMA RefreshedFields ==
    ASSUME NEW e \in EntryType
    PROVE  /\ Refreshed(e) \in EntryType
           /\ Refreshed(e).open = e.open /\ Refreshed(e).disposed = e.disposed
           /\ Refreshed(e).lock = e.lock /\ Refreshed(e).waiters = e.waiters
           /\ Refreshed(e).pending = e.pending /\ Refreshed(e).current = e.current
           /\ Refreshed(e).compacting = e.compacting /\ Refreshed(e).closing = e.closing
           /\ Refreshed(e).harness = e.harness /\ Refreshed(e).cancelReq = e.cancelReq
           /\ Refreshed(e).failed = e.failed /\ Refreshed(e).removing = e.removing
           /\ Refreshed(e).state = PoolState(Refreshed(e))
<1>1. PoolState(e) \in {"idle", "queued", "running", "cancelling", "failed", "closed"}
  BY DEF PoolState
<1>2. Refreshed(e) = [e EXCEPT !.state = PoolState(e)]
  BY DEF Refreshed
<1>3. PoolState(Refreshed(e)) = PoolState(e)
  BY <1>2 DEF PoolState, EntryType
<1>. QED BY <1>1, <1>2, <1>3 DEF EntryType

\* A step in which no run changes its place in the accounts of the pool.
SamePlaces ==
    /\ slots' = slots
    /\ \A r \in Runs :
           /\ run'[r].pc \in Active <=> run[r].pc \in Active
           /\ run'[r].pc \in Queued <=> run[r].pc \in Queued
           /\ run'[r].pc = "slot" <=> run[r].pc = "slot"
    /\ \A s \in Sessions :
           /\ sess'[s].lock = sess[s].lock
           /\ sess'[s].pending = sess[s].pending
           /\ sess'[s].compacting \in {"prepare", "run"}
                  <=> sess[s].compacting \in {"prepare", "run"}

LEMMA SamePlacesKeep ==
    ASSUME IInv, SamePlaces
    PROVE  HoldsLock' /\ PendingExact' /\ SlotsConserved'
<1>. USE PoolAssumption
<1>1. HoldsLock'
  BY DEF IInv, HoldsLock, SamePlaces
<1>2. PendingExact'
  <2>1. \A s \in Sessions : QueuedRuns(s)' = QueuedRuns(s)
    BY DEF QueuedRuns, RunsOf, SamePlaces
  <2>. QED BY <2>1 DEF IInv, PendingExact, SamePlaces
<1>3. SlotsConserved'
  <2>1. ActiveRuns' = ActiveRuns /\ Compacting' = Compacting
    BY DEF ActiveRuns, IsActive, Compacting, Compacts, SamePlaces
  <2>. QED BY <2>1 DEF IInv, SlotsConserved, SamePlaces
<1>. QED BY <1>1, <1>2, <1>3

\* A step that closes no session and starts no task.
NothingReopens ==
    /\ \A r \in Runs : run'[r].pc \in Live => run[r].pc \in Live
    /\ \A s \in Sessions : sess'[s].disposed => sess[s].disposed

LEMMA ClosedStaysDrained ==
    ASSUME IInv, NothingReopens
    PROVE  ClosedIsDrained'
BY DEF IInv, ClosedIsDrained, NothingReopens, RunsOf

\* _request_cancel only writes cancel_requested and the state.
LEMMA CancelRequestedFields ==
    ASSUME NEW e \in EntryType
    PROVE  /\ CancelRequested(e) \in EntryType
           /\ CancelRequested(e).disposed = e.disposed
           /\ CancelRequested(e).lock = e.lock
           /\ CancelRequested(e).pending = e.pending
           /\ CancelRequested(e).compacting = e.compacting
           /\ e.state = PoolState(e)
                  => CancelRequested(e).state = PoolState(CancelRequested(e))
<1>1. CASE e.current = None
  BY <1>1 DEF CancelRequested
<1>2. CASE e.current # None
  <2>. DEFINE f == [e EXCEPT !.cancelReq = TRUE]
  <2>1. f \in EntryType
    BY DEF EntryType
  <2>2. /\ f.disposed = e.disposed /\ f.lock = e.lock
        /\ f.pending = e.pending /\ f.compacting = e.compacting
    BY DEF EntryType
  <2>3. CancelRequested(e) = Refreshed(f)
    BY <1>2 DEF CancelRequested
  <2>. HIDE DEF f
  <2>. QED BY <2>1, <2>2, <2>3, RefreshedFields
<1>. QED BY <1>1, <1>2

\* The abort of a stream leaves the task of its run where it is.
LEMMA AbortedFields ==
    ASSUME TypeOK, NEW r \in Runs
    PROVE  Aborted(r) \in RunType /\ Aborted(r).pc = run[r].pc
<1>1. run[r] \in RunType
  BY DEF TypeOK
<1>. QED BY <1>1 DEF Aborted, RunType

LEMMA CancelKeeps ==
    ASSUME IInv, NEW s \in Sessions, NEW hard \in BOOLEAN, Cancel(s, hard)
    PROVE  IInv'
<1>. USE PoolAssumption
<1>. DEFINE r == sess[s].current
<1>1. sess[s] \in EntryType /\ r \in Runs
  BY DEF IInv, TypeOK, EntryType, Cancel
<1>2. sess'[s] = CancelRequested(sess[s]) /\ sess' \in [Sessions -> EntryType]
  BY <1>1, CancelRequestedFields DEF Cancel, IInv, TypeOK
<1>3. /\ run' \in [Runs -> RunType]
      /\ \A x \in Runs : run'[x].pc = run[x].pc
  <2>1. Aborted(r) \in RunType /\ Aborted(r).pc = run[r].pc
    BY <1>1, AbortedFields DEF IInv
  <2>. DEFINE n == [Aborted(r) EXCEPT !.forced = @ \/ hard]
  <2>2. n \in RunType /\ n.pc = run[r].pc
    BY <2>1 DEF RunType
  <2>3. run' = [run EXCEPT ![r] = n]
    BY DEF Cancel
  <2>. HIDE DEF n
  <2>. QED BY <1>1, <2>2, <2>3 DEF IInv, TypeOK
<1>4. \A x \in Sessions : x # s => sess'[x] = sess[x]
  BY DEF Cancel, IInv, TypeOK
<1>5. TypeOK'
  BY <1>2, <1>3 DEF Cancel, IInv, TypeOK
<1>6. SamePlaces
  BY <1>1, <1>2, <1>3, <1>4, CancelRequestedFields DEF Cancel, SamePlaces
<1>7. StateFresh'
  BY <1>1, <1>2, <1>4, CancelRequestedFields DEF IInv, StateFresh, PoolState
<1>8. ClosedIsDrained'
  <2>1. NothingReopens
    BY <1>1, <1>2, <1>3, <1>4, CancelRequestedFields DEF NothingReopens
  <2>. QED BY <2>1, ClosedStaysDrained
<1>9. ShutdownStages'
  BY <1>3 DEF Cancel, IInv, ShutdownStages
<1>. QED BY <1>5, <1>6, <1>7, <1>8, <1>9, SamePlacesKeep DEF IInv

LEMMA RegisterKeeps ==
    ASSUME IInv, NEW s \in Sessions, Register(s)
    PROVE  IInv'
<1>1. TypeOK' /\ ShutdownStages' /\ StateFresh'
  BY DEF Register, IInv, TypeOK, PoolType, ShutdownStages, StateFresh, PoolState
<1>2. SamePlaces /\ NothingReopens
  BY DEF Register, SamePlaces, NothingReopens
<1>. QED BY <1>1, <1>2, SamePlacesKeep, ClosedStaysDrained DEF IInv

\* A step of one run that leaves its place, and the pool and the sessions, as they are.
LEMMA OwnStepKeeps ==
    ASSUME IInv, NEW r \in Runs, NEW n \in RunType,
           run' = [run EXCEPT ![r] = n],
           n.pc = run[r].pc \/ {n.pc, run[r].pc} \subseteq Active,
           UNCHANGED <<pool, slots, slotQueue>>,
           sess' \in [Sessions -> EntryType],
           \A s \in Sessions :
               \/ sess'[s] = sess[s]
               \/ \E h \in Runs : sess'[s] = [sess[s] EXCEPT !.harness = h]
    PROVE  IInv'
<1>1. TypeOK'
  BY DEF IInv, TypeOK
<1>2. \A s \in Sessions :
          /\ sess[s] \in EntryType
          /\ sess'[s].lock = sess[s].lock /\ sess'[s].pending = sess[s].pending
          /\ sess'[s].compacting = sess[s].compacting
          /\ sess'[s].disposed = sess[s].disposed /\ sess'[s].state = sess[s].state
          /\ sess'[s].current = sess[s].current
          /\ sess'[s].cancelReq = sess[s].cancelReq /\ sess'[s].failed = sess[s].failed
  <2>. TAKE s \in Sessions
  <2>1. sess[s] \in EntryType
    BY DEF IInv, TypeOK
  <2>2. CASE sess'[s] = sess[s]
    BY <2>1, <2>2
  <2>3. ASSUME NEW h \in Runs, sess'[s] = [sess[s] EXCEPT !.harness = h]
        PROVE  /\ sess'[s].lock = sess[s].lock /\ sess'[s].pending = sess[s].pending
               /\ sess'[s].compacting = sess[s].compacting
               /\ sess'[s].disposed = sess[s].disposed
               /\ sess'[s].state = sess[s].state /\ sess'[s].current = sess[s].current
               /\ sess'[s].cancelReq = sess[s].cancelReq
               /\ sess'[s].failed = sess[s].failed
    BY <2>1, <2>3 DEF EntryType
  <2>. QED BY <2>1, <2>2, <2>3
<1>3. \A x \in Runs : /\ x # r => run'[x] = run[x]
                      /\ x = r => run'[x] = n
  BY DEF IInv, TypeOK
<1>4. SamePlaces /\ NothingReopens
  BY <1>2, <1>3 DEF SamePlaces, NothingReopens, Active, Queued, Live
<1>5. StateFresh'
  BY <1>2 DEF IInv, StateFresh, PoolState
<1>6. ShutdownStages'
  BY <1>4 DEF IInv, ShutdownStages, NothingReopens
<1>. QED BY <1>1, <1>4, <1>5, <1>6, SamePlacesKeep, ClosedStaysDrained DEF IInv

\* The types of the entry and of the run an action of run r is about
LEMMA Typed ==
    ASSUME IInv, NEW r \in Runs
    PROVE  /\ run[r] \in RunType
           /\ SessionOf[r] \in Sessions /\ sess[SessionOf[r]] \in EntryType
BY PoolAssumption DEF IInv, TypeOK

LEMMA ConsumeKeeps ==
    ASSUME IInv, NEW r \in Runs, Consume(r)
    PROVE  IInv'
<1>. DEFINE n == [run[r] EXCEPT !.items = @ - 1]
<1>1. n \in RunType /\ n.pc = run[r].pc
  BY Typed, PoolAssumption DEF Consume, RunType
<1>2. run' = [run EXCEPT ![r] = n] /\ sess' \in [Sessions -> EntryType]
  BY DEF Consume, IInv, TypeOK
<1>. HIDE DEF n
<1>. QED BY <1>1, <1>2, OwnStepKeeps DEF Consume

LEMMA OccupyKeeps ==
    ASSUME IInv, NEW r \in Runs, Occupy(r)
    PROVE  IInv'
<1>. DEFINE n == [run[r] EXCEPT !.pc = "gen"]
            t == SessionOf[r]
<1>1. n \in RunType /\ {n.pc, run[r].pc} \subseteq Active
  BY Typed DEF Occupy, RunType, Active, Queued, Live
<1>2. run' = [run EXCEPT ![r] = n]
  BY DEF Occupy
<1>3. [sess[t] EXCEPT !.harness = r] \in EntryType
  BY Typed DEF EntryType
<1>4. sess' = [sess EXCEPT ![t] = [sess[t] EXCEPT !.harness = r]]
  BY DEF Occupy
<1>5. sess' \in [Sessions -> EntryType]
  BY <1>3, <1>4 DEF IInv, TypeOK
<1>6. \A s \in Sessions :
          \/ sess'[s] = sess[s]
          \/ \E h \in Runs : sess'[s] = [sess[s] EXCEPT !.harness = h]
  BY <1>4 DEF IInv, TypeOK
<1>. HIDE DEF n
<1>. QED BY <1>1, <1>2, <1>5, <1>6, OwnStepKeeps DEF Occupy

LEMMA YieldKeeps ==
    ASSUME IInv, NEW r \in Runs, NEW fatal \in BOOLEAN, Yield(r, fatal)
    PROVE  IInv'
<1>. DEFINE n == [run[r] EXCEPT !.yielded = @ + 1, !.errored = @ \/ fatal,
                     !.items = IF @ < QueueSize THEN @ + 1 ELSE @,
                     !.pc = IF run[r].items < QueueSize THEN "gen" ELSE "put"]
<1>1. run[r] \in RunType /\ run[r].pc = "gen" /\ run[r].yielded < MaxEvents
  BY Typed DEF Yield
<1>2. /\ run[r].yielded + 1 \in 0..MaxEvents
      /\ (IF run[r].items < QueueSize THEN run[r].items + 1 ELSE run[r].items)
             \in 0..QueueSize
      /\ (run[r].errored \/ fatal) \in BOOLEAN
  BY <1>1, PoolAssumption DEF RunType
<1>3. n \in RunType /\ {n.pc, run[r].pc} \subseteq Active
  BY <1>1, <1>2 DEF RunType, Active, Queued, Live
<1>4. run' = [run EXCEPT ![r] = n] /\ sess' \in [Sessions -> EntryType]
  BY DEF Yield, IInv, TypeOK
<1>. HIDE DEF n
<1>. QED BY <1>3, <1>4, OwnStepKeeps DEF Yield

LEMMA PutResumesKeeps ==
    ASSUME IInv, NEW r \in Runs, PutResumes(r)
    PROVE  IInv'
<1>. DEFINE n == [run[r] EXCEPT !.items = @ + 1, !.pc = "gen"]
<1>1. run[r] \in RunType /\ run[r].pc = "put" /\ run[r].items < QueueSize
  BY Typed DEF PutResumes, Room
<1>2. run[r].items + 1 \in 0..QueueSize
  BY <1>1, PoolAssumption DEF RunType
<1>3. n \in RunType /\ {n.pc, run[r].pc} \subseteq Active
  BY <1>1, <1>2 DEF RunType, Active, Queued, Live
<1>4. run' = [run EXCEPT ![r] = n] /\ sess' \in [Sessions -> EntryType]
  BY DEF PutResumes, IInv, TypeOK
<1>. HIDE DEF n
<1>. QED BY <1>3, <1>4, OwnStepKeeps DEF PutResumes

LEMMA FiniteCounts ==
    /\ IsFiniteSet(ActiveRuns) /\ IsFiniteSet(Compacting)
    /\ \A s : IsFiniteSet(QueuedRuns(s)) /\ Cardinality(QueuedRuns(s)) \in Nat
BY PoolAssumption, FS_Subset, FS_CardinalityType
   DEF ActiveRuns, Compacting, QueuedRuns, RunsOf

Count(x, S) == IF x \in S THEN 1 ELSE 0

\* Moving an element into or out of a finite set
LEMMA MovedIn ==
    ASSUME NEW S, IsFiniteSet(S), NEW x
    PROVE  Cardinality(S \cup {x}) = Cardinality(S) + 1 - Count(x, S)
<1>1. Cardinality(S \cup {x})
          = IF x \in S THEN Cardinality(S) ELSE Cardinality(S) + 1
  BY FS_AddElement
<1>. QED BY <1>1, FS_CardinalityType DEF Count

LEMMA MovedOut ==
    ASSUME NEW S, IsFiniteSet(S), NEW x
    PROVE  Cardinality(S \ {x}) = Cardinality(S) - Count(x, S)
BY FS_CardinalityType, FS_RemoveElement DEF Count

\* pending_runs is positive while a run is queued, so it can be decremented.
LEMMA PendingPositive ==
    ASSUME IInv, NEW r \in Runs, run[r].pc \in Queued
    PROVE  sess[SessionOf[r]].pending - 1 \in Nat
<1>. DEFINE Q == QueuedRuns(SessionOf[r])
<1>1. r \in Q /\ IsFiniteSet(Q)
  BY FiniteCounts DEF QueuedRuns, RunsOf
<1>2. /\ IsFiniteSet(Q \ {r})
      /\ Cardinality(Q \ {r}) = Cardinality(Q) - 1
  BY <1>1, FS_RemoveElement
<1>3. Cardinality(Q \ {r}) \in Nat
  BY <1>2, FS_CardinalityType
<1>4. sess[SessionOf[r]].pending = Cardinality(Q)
  BY Typed DEF IInv, PendingExact
<1>. QED BY <1>2, <1>3, <1>4

\* A run becomes n and the entry of its session g: the invariant is kept when the lock, the
\* slot and the place in pending_runs are moved with the run.
LEMMA MoveKeeps ==
    ASSUME IInv, NEW r \in Runs, NEW n \in RunType, NEW g \in EntryType,
           UNCHANGED pool, slots' \in Nat, slotQueue' \in Seq(Runs \cup Sessions),
           run' = [run EXCEPT ![r] = n],
           sess' = [sess EXCEPT ![SessionOf[r]] = g],
           g.state = PoolState(g),
           g.compacting = sess[SessionOf[r]].compacting,
           g.disposed = sess[SessionOf[r]].disposed,
           slots' = slots + Count(run[r].pc, Active) - Count(n.pc, Active),
           g.pending = sess[SessionOf[r]].pending + Count(n.pc, Queued)
                                                  - Count(run[r].pc, Queued),
           n.pc \in Active \cup {"slot"} => g.lock = r,
           \A x \in Runs \ {r} : sess[SessionOf[r]].lock = x => g.lock = x,
           n.pc \in Live /\ run[r].pc \notin Live
               => pool.accepting /\ ~sess[SessionOf[r]].disposed
    PROVE  IInv'
<1>. DEFINE t == SessionOf[r]
            e == sess[t]
<1>1. t \in Sessions /\ e \in EntryType /\ run[r] \in RunType
  BY Typed
<1>2. /\ sess'[t] = g /\ \A s \in Sessions \ {t} : sess'[s] = sess[s]
      /\ run'[r] = n /\ \A x \in Runs \ {r} : run'[x] = run[x]
  BY <1>1 DEF IInv, TypeOK
<1>3. TypeOK'
  BY <1>1 DEF IInv, TypeOK
<1>4. HoldsLock'
  <2>. SUFFICES ASSUME NEW x \in Runs, run'[x].pc \in Active \cup {"slot"}
                PROVE  sess'[SessionOf[x]].lock = x
    BY DEF HoldsLock
  <2>1. CASE x = r
    BY <1>2, <2>1
  <2>2. CASE x # r
    <3>1. sess[SessionOf[x]].lock = x /\ SessionOf[x] \in Sessions
      BY <1>2, <2>2, Typed DEF IInv, HoldsLock
    <3>. QED BY <1>2, <2>2, <3>1
  <2>. QED BY <2>1, <2>2
<1>5. PendingExact'
  <2>. SUFFICES ASSUME NEW s \in Sessions
                PROVE  sess'[s].pending = Cardinality(QueuedRuns(s)')
    BY DEF PendingExact
  <2>1. sess[s].pending = Cardinality(QueuedRuns(s))
    BY DEF IInv, PendingExact
  <2>2. CASE s = t
    <3>1. QueuedRuns(s)' = IF n.pc \in Queued THEN QueuedRuns(s) \cup {r}
                                              ELSE QueuedRuns(s) \ {r}
      BY <1>2, <2>2 DEF QueuedRuns, RunsOf
    <3>2. r \in QueuedRuns(s) <=> run[r].pc \in Queued
      BY <2>2 DEF QueuedRuns, RunsOf
    <3>3. Cardinality(QueuedRuns(s)')
              = Cardinality(QueuedRuns(s)) + Count(n.pc, Queued)
                                           - Count(r, QueuedRuns(s))
      <4>1. CASE n.pc \in Queued
        <5>1. Count(n.pc, Queued) = 1 /\ Count(r, QueuedRuns(s)) \in Nat
          BY <4>1 DEF Count
        <5>2. QueuedRuns(s)' = QueuedRuns(s) \cup {r}
          BY <3>1, <4>1
        <5>3. Cardinality(QueuedRuns(s) \cup {r})
                  = Cardinality(QueuedRuns(s)) + 1 - Count(r, QueuedRuns(s))
          BY FiniteCounts, MovedIn
        <5>. QED BY <5>1, <5>2, <5>3
      <4>2. CASE n.pc \notin Queued
        <5>1. Count(n.pc, Queued) = 0 /\ Count(r, QueuedRuns(s)) \in Nat
          BY <4>2 DEF Count
        <5>2. QueuedRuns(s)' = QueuedRuns(s) \ {r}
          BY <3>1, <4>2
        <5>. QED BY <5>1, <5>2, FiniteCounts, MovedOut
      <4>. QED BY <4>1, <4>2
    <3>. QED BY <1>2, <2>1, <2>2, <3>2, <3>3 DEF Count
  <2>3. CASE s # t
    <3>1. QueuedRuns(s)' = QueuedRuns(s)
      BY <1>2, <2>3 DEF QueuedRuns, RunsOf
    <3>. QED BY <1>2, <2>1, <2>3, <3>1
  <2>. QED BY <2>2, <2>3
<1>6. SlotsConserved'
  <2>1. ActiveRuns' = IF n.pc \in Active THEN ActiveRuns \cup {r} ELSE ActiveRuns \ {r}
    BY <1>2 DEF ActiveRuns, IsActive
  <2>2. Compacting' = Compacting
    BY <1>2 DEF Compacting, Compacts
  <2>3. r \in ActiveRuns <=> run[r].pc \in Active
    BY DEF ActiveRuns, IsActive
  <2>4. Cardinality(ActiveRuns')
            = Cardinality(ActiveRuns) + Count(n.pc, Active) - Count(r, ActiveRuns)
    <3>1. CASE n.pc \in Active
      <4>1. Count(n.pc, Active) = 1 /\ Count(r, ActiveRuns) \in Nat
        BY <3>1 DEF Count
      <4>2. ActiveRuns' = ActiveRuns \cup {r}
        BY <2>1, <3>1
      <4>3. Cardinality(ActiveRuns \cup {r})
                = Cardinality(ActiveRuns) + 1 - Count(r, ActiveRuns)
        BY FiniteCounts, MovedIn
      <4>. QED BY <4>1, <4>2, <4>3
    <3>2. CASE n.pc \notin Active
      <4>1. Count(n.pc, Active) = 0 /\ Count(r, ActiveRuns) \in Nat
        BY <3>2 DEF Count
      <4>2. ActiveRuns' = ActiveRuns \ {r}
        BY <2>1, <3>2
      <4>3. Cardinality(ActiveRuns \ {r})
                = Cardinality(ActiveRuns) - Count(r, ActiveRuns)
        BY FiniteCounts, MovedOut
      <4>4. Cardinality(ActiveRuns) \in Nat
        BY FiniteCounts, FS_CardinalityType
      <4>. QED BY <4>1, <4>2, <4>3, <4>4
    <3>. QED BY <3>1, <3>2
  <2>5. Cardinality(ActiveRuns) \in Nat /\ Cardinality(Compacting) \in Nat
    BY FiniteCounts, FS_CardinalityType
  <2>6. slots \in Nat /\ slots + Cardinality(ActiveRuns) + Cardinality(Compacting)
                             = MaxConcurrency
    BY DEF IInv, TypeOK, SlotsConserved
  <2>. QED BY <2>2, <2>3, <2>4, <2>5, <2>6 DEF SlotsConserved, Count
<1>7. StateFresh'
  BY <1>2 DEF IInv, StateFresh, PoolState
<1>8. ClosedIsDrained'
  <2>. SUFFICES ASSUME NEW s \in Sessions, sess'[s].disposed, NEW x \in RunsOf(s)
                PROVE  run'[x].pc \notin Live
    BY DEF ClosedIsDrained, RunsOf
  <2>1. sess[s].disposed /\ run[x].pc \notin Live /\ x \in Runs /\ SessionOf[x] = s
    BY <1>2 DEF IInv, ClosedIsDrained, RunsOf
  <2>. QED BY <1>2, <2>1
<1>9. ShutdownStages'
  BY <1>2 DEF IInv, ShutdownStages
<1>. QED BY <1>3, <1>4, <1>5, <1>6, <1>7, <1>8, <1>9 DEF IInv

\* Whatever way a run ends, its lock, its slot and its place in pending_runs go with it.
LEMMA FinishKeeps ==
    ASSUME IInv, NEW r \in Runs, NEW result \in {"completed", "cancelled", "failed"},
           NEW left \in BOOLEAN, run[r].pc \in Live, Finish(r, result, left)
    PROVE  IInv'
<1>. DEFINE t == SessionOf[r]
            e == sess[t]
            l == IF e.lock = r THEN None ELSE e.lock
            c == IF e.current = r THEN None ELSE e.current
            q == e.cancelReq /\ e.current # r
            b == result = "failed"
            h == IF left /\ e.harness = r THEN None ELSE e.harness
            f == [e EXCEPT !.lock = l, !.waiters = Without(e.waiters, r),
                           !.pending = PendingAfter(r), !.current = c,
                           !.cancelReq = q, !.failed = b, !.harness = h]
            n == [run[r] EXCEPT !.pc = "ended", !.status = result, !.forced = FALSE,
                     !.errored = FALSE, !.yielded = 0,
                     !.stream = IF @ = "open" THEN "closed" ELSE @]
<1>1. t \in Sessions /\ e \in EntryType /\ run[r] \in RunType
  BY Typed
<1>2. PendingAfter(r) \in Nat
  BY <1>1, PendingPositive DEF PendingAfter, EntryType
<1>3. f \in EntryType
  <2>1. Without(e.waiters, r) \in Seq(Runs)
    BY <1>1, WithoutType DEF EntryType
  <2>2. /\ l \in Runs \cup {None} /\ c \in Runs \cup {None} /\ h \in Runs \cup {None}
        /\ q \in BOOLEAN /\ b \in BOOLEAN
    BY <1>1 DEF EntryType
  <2>. HIDE DEF e, l, c, q, b, h
  <2>. QED BY <1>1, <1>2, <2>1, <2>2 DEF EntryType
<1>4. /\ f.lock = IF e.lock = r THEN None ELSE e.lock
      /\ f.pending = PendingAfter(r)
      /\ f.compacting = e.compacting /\ f.disposed = e.disposed
  BY <1>1 DEF EntryType
<1>5. n \in RunType /\ n.pc = "ended"
  <2>1. /\ 0 \in 0..MaxEvents
        /\ (IF run[r].stream = "open" THEN "closed" ELSE run[r].stream)
               \in {"open", "aborted", "closed"}
    BY <1>1, PoolAssumption DEF RunType
  <2>. QED BY <1>1, <2>1 DEF RunType
<1>6. /\ sess' = [sess EXCEPT ![t] = Refreshed(f)]
      /\ run' = [run EXCEPT ![r] = n]
  BY DEF Finish
<1>. HIDE DEF f, n
<1>. DEFINE g == Refreshed(f)
<1>7. /\ g \in EntryType /\ g.state = PoolState(g)
      /\ g.lock = (IF e.lock = r THEN None ELSE e.lock)
      /\ g.pending = PendingAfter(r)
      /\ g.compacting = e.compacting /\ g.disposed = e.disposed
  BY <1>3, <1>4, RefreshedFields
<1>8. sess' = [sess EXCEPT ![t] = g]
  BY <1>6
<1>. HIDE DEF g
<1>9. slots' = slots + Count(run[r].pc, Active) - Count(n.pc, Active)
  BY <1>5 DEF Finish, SlotsAfter, Count, IInv, TypeOK, Active
<1>10. g.pending = e.pending + Count(n.pc, Queued) - Count(run[r].pc, Queued)
  BY <1>1, <1>5, <1>7 DEF PendingAfter, Count, Queued, EntryType
<1>11. slots' \in Nat
  BY DEF Finish, SlotsAfter, IInv, TypeOK
<1>12. slotQueue' \in Seq(Runs \cup Sessions)
  BY WithoutType DEF Finish, IInv, TypeOK
<1>13. n.pc \notin Active \cup {"slot"} /\ n.pc \notin Live
  BY <1>5 DEF Live, Active, Queued
<1>14. \A x \in Runs \ {r} : e.lock = x => g.lock = x
  BY <1>7
<1>15. UNCHANGED pool /\ run' = [run EXCEPT ![r] = n]
  BY <1>6 DEF Finish
<1>. QED
  BY <1>5, <1>7, <1>8, <1>9, <1>10, <1>11, <1>12, <1>13, <1>14, <1>15, MoveKeeps

LEMMA SubmitKeeps ==
    ASSUME IInv, NEW r \in Runs, Submit(r)
    PROVE  IInv'
<1>. DEFINE t == SessionOf[r]
            e == sess[t]
            f == [e EXCEPT !.waiters = Append(@, r), !.pending = @ + 1, !.failed = FALSE]
            n == [run[r] EXCEPT !.pc = "lock"]
            g == Refreshed(f)
<1>1. t \in Sessions /\ e \in EntryType /\ run[r] \in RunType
  BY Typed
<1>2. /\ f \in EntryType /\ f.lock = e.lock /\ f.pending = e.pending + 1
      /\ f.compacting = e.compacting /\ f.disposed = e.disposed
  <2>1. Append(e.waiters, r) \in Seq(Runs) /\ e.pending + 1 \in Nat
    BY <1>1 DEF EntryType
  <2>. HIDE DEF e
  <2>. QED BY <1>1, <2>1 DEF EntryType
<1>3. n \in RunType /\ n.pc = "lock" /\ run[r].pc = "new"
  BY <1>1 DEF Submit, RunType, Live, Active, Queued
<1>4. sess' = [sess EXCEPT ![t] = g] /\ run' = [run EXCEPT ![r] = n]
  BY DEF Submit
<1>. HIDE DEF f, n
<1>5. /\ g \in EntryType /\ g.state = PoolState(g) /\ g.lock = e.lock
      /\ g.pending = e.pending + 1
      /\ g.compacting = e.compacting /\ g.disposed = e.disposed
  BY <1>2, RefreshedFields
<1>. HIDE DEF g
<1>6. slots' \in Nat /\ slotQueue' \in Seq(Runs \cup Sessions) /\ UNCHANGED pool
  BY DEF Submit, IInv, TypeOK
<1>7. slots' = slots + Count(run[r].pc, Active) - Count(n.pc, Active)
  BY <1>3 DEF Submit, Count, Active, IInv, TypeOK
<1>8. g.pending = e.pending + Count(n.pc, Queued) - Count(run[r].pc, Queued)
  BY <1>1, <1>3, <1>5 DEF Count, Queued, EntryType
<1>9. n.pc \notin Active \cup {"slot"} /\ \A x \in Runs \ {r} : e.lock = x => g.lock = x
  BY <1>3, <1>5 DEF Active
<1>10. pool.accepting /\ ~e.disposed
  BY DEF Submit, Admits
<1>. QED
  BY <1>3, <1>4, <1>5, <1>6, <1>7, <1>8, <1>9, <1>10, MoveKeeps

LEMMA AwaitSlotKeeps ==
    ASSUME IInv, NEW r \in Runs, AwaitSlot(r)
    PROVE  IInv'
<1>. DEFINE t == SessionOf[r]
            e == sess[t]
            g == [e EXCEPT !.lock = r, !.waiters = Tail(@)]
            n == [run[r] EXCEPT !.pc = "slot"]
<1>1. t \in Sessions /\ e \in EntryType /\ run[r] \in RunType
  BY Typed
<1>2. e.lock = None /\ e.waiters # <<>> /\ run[r].pc = "lock"
  BY DEF AwaitSlot, HasTurn
<1>3. g \in EntryType /\ g.lock = r /\ g.pending = e.pending /\ g.state = PoolState(g)
      /\ g.compacting = e.compacting /\ g.disposed = e.disposed
  <2>1. Tail(e.waiters) \in Seq(Runs)
    BY <1>1, <1>2 DEF EntryType
  <2>2. e.state = PoolState(e)
    BY <1>1 DEF IInv, StateFresh
  <2>. HIDE DEF e
  <2>3. /\ g \in EntryType /\ g.lock = r /\ g.pending = e.pending
        /\ g.compacting = e.compacting /\ g.disposed = e.disposed
        /\ g.state = e.state /\ g.current = e.current
        /\ g.cancelReq = e.cancelReq /\ g.failed = e.failed
    BY <1>1, <2>1 DEF EntryType
  <2>. HIDE DEF g
  <2>. QED BY <2>2, <2>3 DEF PoolState
<1>4. n \in RunType /\ n.pc = "slot"
  BY <1>1 DEF RunType, Live, Active, Queued
<1>5. /\ sess' = [sess EXCEPT ![t] = g] /\ run' = [run EXCEPT ![r] = n]
      /\ slots' = slots /\ slotQueue' = Append(slotQueue, r) /\ UNCHANGED pool
  BY DEF AwaitSlot
<1>. HIDE DEF g, n
<1>6. slots' \in Nat /\ slotQueue' \in Seq(Runs \cup Sessions)
  BY <1>5 DEF IInv, TypeOK
<1>7. slots' = slots + Count(run[r].pc, Active) - Count(n.pc, Active)
  BY <1>2, <1>4, <1>5 DEF Count, Active, IInv, TypeOK
<1>8. g.pending = e.pending + Count(n.pc, Queued) - Count(run[r].pc, Queued)
  BY <1>1, <1>2, <1>3, <1>4 DEF Count, Queued, EntryType
<1>9. /\ \A x \in Runs \ {r} : e.lock = x => g.lock = x
      /\ run[r].pc \in Live
  BY <1>2, PoolAssumption DEF Live, Queued
<1>. QED
  BY <1>3, <1>4, <1>5, <1>6, <1>7, <1>8, <1>9, MoveKeeps

LEMMA BeginKeeps ==
    ASSUME IInv, NEW r \in Runs, Begin(r)
    PROVE  IInv'
<1>. DEFINE t == SessionOf[r]
            e == sess[t]
            f == [e EXCEPT !.lock = r, !.waiters = Without(@, r), !.pending = @ - 1,
                           !.current = r, !.cancelReq = FALSE]
            n == [run[r] EXCEPT !.pc = "start"]
            g == Refreshed(f)
<1>1. t \in Sessions /\ e \in EntryType /\ run[r] \in RunType
  BY Typed
<1>2. /\ run[r].pc \in Queued /\ slots > 0
      /\ e.lock = None \/ e.lock = r
  BY DEF Begin, HasTurn, SlotFree, SlotGranted, Queued, IInv, HoldsLock
<1>3. /\ f \in EntryType /\ f.lock = r /\ f.pending = e.pending - 1
      /\ f.compacting = e.compacting /\ f.disposed = e.disposed
  <2>1. Without(e.waiters, r) \in Seq(Runs) /\ e.pending - 1 \in Nat
    BY <1>1, <1>2, WithoutType, PendingPositive DEF EntryType
  <2>. HIDE DEF e
  <2>. QED BY <1>1, <2>1 DEF EntryType
<1>4. n \in RunType /\ n.pc = "start"
  BY <1>1 DEF RunType, Live, Active, Queued
<1>5. /\ sess' = [sess EXCEPT ![t] = g] /\ run' = [run EXCEPT ![r] = n]
      /\ slots' = slots - 1 /\ slotQueue' = Without(slotQueue, r) /\ UNCHANGED pool
  BY DEF Begin
<1>. HIDE DEF f, n
<1>6. /\ g \in EntryType /\ g.state = PoolState(g) /\ g.lock = r
      /\ g.pending = e.pending - 1
      /\ g.compacting = e.compacting /\ g.disposed = e.disposed
  BY <1>3, RefreshedFields
<1>. HIDE DEF g
<1>7. slots' \in Nat /\ slotQueue' \in Seq(Runs \cup Sessions)
  BY <1>2, <1>5, WithoutType DEF IInv, TypeOK
<1>8. slots' = slots + Count(run[r].pc, Active) - Count(n.pc, Active)
  BY <1>2, <1>4, <1>5 DEF Count, Active, Queued, IInv, TypeOK
<1>9. g.pending = e.pending + Count(n.pc, Queued) - Count(run[r].pc, Queued)
  BY <1>1, <1>2, <1>4, <1>6 DEF Count, Queued, EntryType
<1>10. /\ \A x \in Runs \ {r} : e.lock = x => g.lock = x
       /\ run[r].pc \in Live
  BY <1>2, PoolAssumption DEF Live
<1>. QED
  BY <1>4, <1>5, <1>6, <1>7, <1>8, <1>9, <1>10, MoveKeeps

LEMMA TaskDoneKeeps ==
    ASSUME IInv, NEW r \in Runs, TaskDone(r)
    PROVE  IInv'
<1>. DEFINE t == SessionOf[r]
            e == sess[t]
            n == [run[r] EXCEPT !.pc = "gone"]
            g == Refreshed(e)
<1>1. t \in Sessions /\ e \in EntryType /\ run[r] \in RunType
  BY Typed
<1>2. n \in RunType /\ n.pc = "gone" /\ run[r].pc = "ended"
  BY <1>1 DEF TaskDone, RunType
<1>3. /\ g \in EntryType /\ g.state = PoolState(g) /\ g.lock = e.lock
      /\ g.pending = e.pending
      /\ g.compacting = e.compacting /\ g.disposed = e.disposed
  BY <1>1, RefreshedFields
<1>4. /\ sess' = [sess EXCEPT ![t] = g] /\ run' = [run EXCEPT ![r] = n]
      /\ UNCHANGED <<pool, slots, slotQueue>>
  BY DEF TaskDone
<1>. HIDE DEF g, n
<1>5. slots' \in Nat /\ slotQueue' \in Seq(Runs \cup Sessions)
  BY <1>4 DEF IInv, TypeOK
<1>6. slots' = slots + Count(run[r].pc, Active) - Count(n.pc, Active)
  BY <1>2, <1>4 DEF Count, Active, IInv, TypeOK
<1>7. g.pending = e.pending + Count(n.pc, Queued) - Count(run[r].pc, Queued)
  BY <1>1, <1>2, <1>3 DEF Count, Queued, EntryType
<1>8. /\ n.pc \notin Active \cup {"slot"} /\ n.pc \notin Live
      /\ \A x \in Runs \ {r} : e.lock = x => g.lock = x
  BY <1>2, <1>3 DEF Live, Active, Queued
<1>. QED
  BY <1>2, <1>3, <1>4, <1>5, <1>6, <1>7, <1>8, MoveKeeps

LEMMA NoQueuedWhenDrained ==
    ASSUME NEW s \in Sessions, Drained(s)
    PROVE  Cardinality(QueuedRuns(s)) = 0
<1>1. QueuedRuns(s) = {}
  BY DEF Drained, QueuedRuns, RunsOf, Live
<1>. QED BY <1>1, FS_EmptySet

\* The entry of s becomes g while every run stays where it is: what belongs to the runs of
\* the session may only be dropped when none of them is left.
LEMMA EntryKeeps ==
    ASSUME IInv, NEW s \in Sessions, NEW g \in EntryType,
           UNCHANGED <<slots, slotQueue>>, pool' \in PoolType, ShutdownStages',
           sess' = [sess EXCEPT ![s] = g],
           run' \in [Runs -> RunType], \A r \in Runs : run'[r].pc = run[r].pc,
           g.state = PoolState(g),
           g.compacting \in {"prepare", "run"} <=> Compacts(s),
           g.lock = sess[s].lock \/ Drained(s),
           g.pending = sess[s].pending \/ (g.pending = 0 /\ Drained(s)),
           g.disposed => sess[s].disposed \/ Drained(s)
    PROVE  IInv'
<1>1. sess'[s] = g /\ \A x \in Sessions \ {s} : sess'[x] = sess[x]
  BY DEF IInv, TypeOK
<1>2. TypeOK'
  BY DEF IInv, TypeOK
<1>3. HoldsLock'
  <2>. SUFFICES ASSUME NEW x \in Runs, run'[x].pc \in Active \cup {"slot"}
                PROVE  sess'[SessionOf[x]].lock = x
    BY DEF HoldsLock
  <2>1. sess[SessionOf[x]].lock = x /\ SessionOf[x] \in Sessions
    BY Typed DEF IInv, HoldsLock
  <2>2. SessionOf[x] = s => ~Drained(s)
    BY DEF Drained, RunsOf, Live, Queued
  <2>. QED BY <1>1, <2>1, <2>2
<1>4. \A x : QueuedRuns(x)' = QueuedRuns(x)
  BY DEF QueuedRuns, RunsOf
<1>5. PendingExact'
  <2>. SUFFICES ASSUME NEW x \in Sessions
                PROVE  sess'[x].pending = Cardinality(QueuedRuns(x)')
    BY DEF PendingExact
  <2>1. sess[x].pending = Cardinality(QueuedRuns(x)) /\ QueuedRuns(x)' = QueuedRuns(x)
    BY <1>4 DEF IInv, PendingExact
  <2>. QED BY <1>1, <2>1, NoQueuedWhenDrained
<1>6. SlotsConserved'
  <2>1. ActiveRuns' = ActiveRuns /\ Compacting' = Compacting
    BY <1>1 DEF ActiveRuns, IsActive, Compacting, Compacts
  <2>. QED BY <2>1 DEF IInv, SlotsConserved
<1>7. StateFresh'
  BY <1>1 DEF IInv, StateFresh, PoolState
<1>8. ClosedIsDrained'
  <2>. SUFFICES ASSUME NEW x \in Sessions, sess'[x].disposed, NEW r \in RunsOf(x)
                PROVE  run[r].pc \notin Live
    BY DEF ClosedIsDrained, RunsOf
  <2>1. sess[x].disposed \/ Drained(x)
    BY <1>1
  <2>. QED BY <2>1 DEF IInv, ClosedIsDrained, Drained
<1>. QED BY <1>2, <1>3, <1>5, <1>6, <1>7, <1>8 DEF IInv

\* shutdown() sees the stages of a step that leaves it and every run alone.
LEMMA StagesKept ==
    ASSUME IInv, pool'.shutdown = pool.shutdown, pool'.accepting = pool.accepting,
           pool'.at = pool.at, \A r \in Runs : run'[r].pc = run[r].pc
    PROVE  ShutdownStages'
BY DEF IInv, ShutdownStages

LEMMA DisposedFields ==
    ASSUME NEW e \in EntryType
    PROVE  LET g == DisposedEntry(e) IN
           /\ g \in EntryType /\ g.state = PoolState(g)
           /\ g.lock = e.lock /\ g.pending = e.pending /\ g.compacting = e.compacting
<1>. DEFINE f == [e EXCEPT !.disposed = TRUE]
<1>1. /\ f \in EntryType
      /\ f.lock = e.lock /\ f.pending = e.pending /\ f.compacting = e.compacting
  BY DEF EntryType
<1>2. DisposedEntry(e) = Refreshed(f)
  BY DEF DisposedEntry
<1>. HIDE DEF f
<1>. QED BY <1>1, <1>2, RefreshedFields

LEMMA ReapKeeps ==
    ASSUME IInv, NEW s \in Sessions, Reap(s)
    PROVE  IInv'
<1>. DEFINE e == sess[s]
            g == [e EXCEPT !.harness = None]
<1>1. e \in EntryType /\ e.state = PoolState(e)
  BY DEF IInv, TypeOK, StateFresh
<1>2. sess' = [sess EXCEPT ![s] = g] /\ UNCHANGED <<pool, slots, slotQueue, run>>
  BY DEF Reap
<1>3. /\ g \in EntryType /\ g.lock = e.lock /\ g.pending = e.pending
      /\ g.compacting = e.compacting /\ g.disposed = e.disposed
      /\ g.state = e.state /\ g.current = e.current
      /\ g.cancelReq = e.cancelReq /\ g.failed = e.failed
  <2>. HIDE DEF e
  <2>. QED BY <1>1 DEF EntryType
<1>. HIDE DEF g
<1>4. g.state = PoolState(g)
  BY <1>1, <1>3 DEF PoolState
<1>5. ShutdownStages' /\ pool' \in PoolType /\ run' \in [Runs -> RunType]
  BY <1>2, StagesKept DEF IInv, TypeOK
<1>. QED BY <1>2, <1>3, <1>4, <1>5, EntryKeeps DEF Compacts

LEMMA CloseFailsKeeps ==
    ASSUME IInv, NEW s \in Sessions, CloseFails(s)
    PROVE  IInv'
<1>. DEFINE e == sess[s]
            g == [e EXCEPT !.closing = FALSE]
<1>1. e \in EntryType /\ e.state = PoolState(e)
  BY DEF IInv, TypeOK, StateFresh
<1>2. sess' = [sess EXCEPT ![s] = g] /\ UNCHANGED <<pool, slots, slotQueue, run>>
  BY DEF CloseFails
<1>3. /\ g \in EntryType /\ g.lock = e.lock /\ g.pending = e.pending
      /\ g.compacting = e.compacting /\ g.disposed = e.disposed
      /\ g.state = e.state /\ g.current = e.current
      /\ g.cancelReq = e.cancelReq /\ g.failed = e.failed
  <2>. HIDE DEF e
  <2>. QED BY <1>1 DEF EntryType
<1>. HIDE DEF g
<1>4. g.state = PoolState(g)
  BY <1>1, <1>3 DEF PoolState
<1>5. ShutdownStages' /\ pool' \in PoolType /\ run' \in [Runs -> RunType]
  BY <1>2, StagesKept DEF IInv, TypeOK
<1>. QED BY <1>2, <1>3, <1>4, <1>5, EntryKeeps DEF Compacts

LEMMA CloseSessionKeeps ==
    ASSUME IInv, NEW s \in Sessions, NEW remove \in BOOLEAN, CloseSession(s, remove)
    PROVE  IInv'
<1>. DEFINE e == sess[s]
            f == [e EXCEPT !.open = FALSE, !.closing = TRUE, !.removing = remove]
            g == CancelRequested(f)
<1>1. e \in EntryType /\ e.state = PoolState(e)
  BY DEF IInv, TypeOK, StateFresh
<1>2. /\ sess' = [sess EXCEPT ![s] = g] /\ UNCHANGED <<pool, slots, slotQueue>>
      /\ run' = [r \in Runs |-> IF SessionOf[r] = s THEN Aborted(r) ELSE run[r]]
  BY DEF CloseSession
<1>3. /\ f \in EntryType /\ f.lock = e.lock /\ f.pending = e.pending
      /\ f.compacting = e.compacting /\ f.disposed = e.disposed
      /\ f.state = e.state /\ f.current = e.current
      /\ f.cancelReq = e.cancelReq /\ f.failed = e.failed
  <2>. HIDE DEF e
  <2>. QED BY <1>1 DEF EntryType
<1>. HIDE DEF f
<1>4. f.state = PoolState(f)
  BY <1>1, <1>3 DEF PoolState
<1>5. /\ g \in EntryType /\ g.lock = e.lock /\ g.pending = e.pending
      /\ g.compacting = e.compacting /\ g.disposed = e.disposed
      /\ g.state = PoolState(g)
  BY <1>3, <1>4, CancelRequestedFields
<1>. HIDE DEF g
<1>6. run' \in [Runs -> RunType] /\ \A r \in Runs : run'[r].pc = run[r].pc
  BY <1>2, AbortedFields DEF IInv, TypeOK
<1>7. ShutdownStages' /\ pool' \in PoolType
  BY <1>2, <1>6, StagesKept DEF IInv, TypeOK
<1>. QED BY <1>2, <1>5, <1>6, <1>7, EntryKeeps DEF Compacts

LEMMA CloseEndsKeeps ==
    ASSUME IInv, NEW s \in Sessions, CloseEnds(s)
    PROVE  IInv'
<1>. DEFINE e == sess[s]
            f == DisposedEntry(e)
            g == [f EXCEPT !.closing = FALSE]
<1>1. e \in EntryType
  BY DEF IInv, TypeOK
<1>2. sess' = [sess EXCEPT ![s] = g] /\ UNCHANGED <<pool, slots, slotQueue, run>>
  BY DEF CloseEnds
<1>3. /\ f \in EntryType /\ f.state = PoolState(f)
      /\ f.lock = e.lock /\ f.pending = e.pending /\ f.compacting = e.compacting
  BY <1>1, DisposedFields
<1>4. /\ g \in EntryType /\ g.lock = f.lock /\ g.pending = f.pending
      /\ g.compacting = f.compacting /\ g.disposed = f.disposed
      /\ g.state = f.state /\ g.current = f.current
      /\ g.cancelReq = f.cancelReq /\ g.failed = f.failed
  <2>. HIDE DEF f
  <2>. QED BY <1>3 DEF EntryType
<1>. HIDE DEF g, f
<1>5. g.state = PoolState(g)
  BY <1>3, <1>4 DEF PoolState
<1>6. ShutdownStages' /\ pool' \in PoolType /\ run' \in [Runs -> RunType] /\ Drained(s)
  BY <1>2, StagesKept DEF IInv, TypeOK, CloseEnds
<1>. QED BY <1>2, <1>3, <1>4, <1>5, <1>6, EntryKeeps DEF Compacts

LEMMA FreshTyped ==
    /\ FreshEntry \in EntryType
    /\ FreshEntry.pending = 0 /\ FreshEntry.lock = None /\ FreshEntry.disposed = FALSE
    /\ FreshEntry.compacting = "no" /\ FreshEntry.state = "idle"
    /\ FreshEntry.current = None /\ FreshEntry.failed = FALSE
<1>1. <<>> \in Seq(Runs)
  OBVIOUS
<1>. QED BY <1>1 DEF FreshEntry, EntryType

LEMMA RemoveEndsKeeps ==
    ASSUME IInv, NEW s \in Sessions, RemoveEnds(s)
    PROVE  IInv'
<1>. DEFINE e == sess[s]
            g == [FreshEntry EXCEPT !.compacting = e.compacting, !.harness = e.harness]
<1>1. e \in EntryType
  BY DEF IInv, TypeOK
<1>2. /\ sess' = [sess EXCEPT ![s] = g] /\ UNCHANGED <<slots, slotQueue, run>>
      /\ pool' = [pool EXCEPT !.registered = @ \ {s}, !.visited = @ \ {s}]
  BY DEF RemoveEnds
<1>3. Drained(s)
  BY DEF RemoveEnds, Idle, Drained
<1>4. /\ g \in EntryType /\ g.pending = 0 /\ g.lock = None /\ g.disposed = FALSE
      /\ g.compacting = e.compacting /\ g.state = "idle" /\ g.current = None
      /\ g.failed = FALSE
  <2>. HIDE DEF e
  <2>. QED BY <1>1, FreshTyped DEF EntryType
<1>. HIDE DEF g
<1>5. g.state = PoolState(g)
  BY <1>4 DEF PoolState
<1>6. /\ pool' \in PoolType /\ run' \in [Runs -> RunType]
      /\ pool'.shutdown = pool.shutdown /\ pool'.accepting = pool.accepting
      /\ pool'.at = pool.at
  BY <1>2 DEF IInv, TypeOK, PoolType
<1>7. ShutdownStages'
  BY <1>2, <1>6, StagesKept
<1>8. g.disposed => e.disposed \/ Drained(s)
  BY <1>3
<1>. QED BY <1>2, <1>3, <1>4, <1>5, <1>6, <1>7, <1>8, EntryKeeps, NoQueuedWhenDrained
         DEF Compacts

\* Once the closing loop of shutdown() runs, every session is drained.
LEMMA ShutdownClosing ==
    ASSUME IInv, NEW s \in Sessions, pool.shutdown = "close"
    PROVE  Drained(s)
BY DEF IInv, ShutdownStages, Drained, RunsOf

\* The closing loop disposes a session or leaves every session as it is.
LEMMA DisposingKeeps ==
    ASSUME IInv, NEW s \in Sessions, pool.shutdown = "close", pool' \in PoolType,
           pool'.shutdown = "close", pool'.accepting = pool.accepting,
           UNCHANGED <<slots, slotQueue, run>>,
           sess' = sess \/ sess' = [sess EXCEPT ![s] = DisposedEntry(sess[s])]
    PROVE  IInv'
<1>. DEFINE e == sess[s]
            g == DisposedEntry(e)
<1>1. e \in EntryType
  BY DEF IInv, TypeOK
<1>2. /\ g \in EntryType /\ g.state = PoolState(g)
      /\ g.lock = e.lock /\ g.pending = e.pending /\ g.compacting = e.compacting
  BY <1>1, DisposedFields
<1>3. ShutdownStages' /\ Drained(s) /\ run' \in [Runs -> RunType]
  BY ShutdownClosing DEF IInv, ShutdownStages, TypeOK
<1>4. CASE sess' = [sess EXCEPT ![s] = g]
  <2>. HIDE DEF g
  <2>. QED BY <1>2, <1>3, <1>4, EntryKeeps DEF Compacts
<1>5. CASE sess' = sess
  <2>1. SamePlaces /\ NothingReopens
    BY <1>5 DEF SamePlaces, NothingReopens
  <2>2. TypeOK' /\ StateFresh'
    BY <1>5 DEF IInv, TypeOK, StateFresh, PoolState
  <2>. QED BY <1>3, <2>1, <2>2, SamePlacesKeep, ClosedStaysDrained DEF IInv
<1>. QED BY <1>4, <1>5

LEMMA ShutdownVisitsKeeps ==
    ASSUME IInv, NEW s \in Sessions, ShutdownVisits(s)
    PROVE  IInv'
<1>1. /\ pool' \in PoolType /\ pool.shutdown = "close"
      /\ pool'.shutdown = "close" /\ pool'.accepting = pool.accepting
  <2>1. (IF s \in Owned /\ ~sess[s].disposed THEN s ELSE None) \in Sessions \cup {None}
    OBVIOUS
  <2>. QED BY <2>1 DEF ShutdownVisits, IInv, TypeOK, PoolType
<1>2. sess' = sess \/ sess' = [sess EXCEPT ![s] = DisposedEntry(sess[s])]
  BY DEF ShutdownVisits
<1>. QED BY <1>1, <1>2, DisposingKeeps DEF ShutdownVisits

LEMMA ShutdownClosesKeeps ==
    ASSUME IInv, ShutdownCloses
    PROVE  IInv'
<1>1. pool.shutdown = "close" /\ pool.at \in Sessions
  BY DEF ShutdownCloses, IInv, ShutdownStages, TypeOK, PoolType
<1>2. pool' \in PoolType /\ pool'.shutdown = "close" /\ pool'.accepting = pool.accepting
  BY <1>1 DEF ShutdownCloses, IInv, TypeOK, PoolType
<1>3. sess' = sess \/ sess' = [sess EXCEPT ![pool.at] = DisposedEntry(sess[pool.at])]
  BY DEF ShutdownCloses
<1>. QED BY <1>1, <1>2, <1>3, DisposingKeeps DEF ShutdownCloses

\* A step of shutdown() itself that leaves the sessions and the places of the runs alone
LEMMA StageKeeps ==
    ASSUME IInv, pool' \in PoolType, run' \in [Runs -> RunType], ShutdownStages',
           \A r \in Runs : run'[r].pc = run[r].pc, UNCHANGED <<slots, slotQueue, sess>>
    PROVE  IInv'
<1>1. SamePlaces /\ NothingReopens
  BY DEF SamePlaces, NothingReopens
<1>2. TypeOK' /\ StateFresh'
  BY DEF IInv, TypeOK, StateFresh, PoolState
<1>. QED BY <1>1, <1>2, SamePlacesKeep, ClosedStaysDrained DEF IInv

LEMMA ShutdownTimeoutKeeps ==
    ASSUME IInv, ShutdownTimeout
    PROVE  IInv'
<1>1. pool' \in PoolType /\ ShutdownStages'
  BY DEF ShutdownTimeout, IInv, TypeOK, PoolType, ShutdownStages
<1>2. run' \in [Runs -> RunType] /\ \A r \in Runs : run'[r].pc = run[r].pc
  <2>. SUFFICES ASSUME NEW r \in Runs
                PROVE  run'[r] \in RunType /\ run'[r].pc = run[r].pc
    BY DEF ShutdownTimeout
  <2>. DEFINE b == run[r].forced \/ r \in Overdue
  <2>1. run[r] \in RunType /\ b \in BOOLEAN
    BY Typed DEF RunType
  <2>2. run'[r] = [run[r] EXCEPT !.forced = b]
    BY DEF ShutdownTimeout
  <2>. HIDE DEF b
  <2>. QED BY <2>1, <2>2 DEF RunType
<1>. QED BY <1>1, <1>2, StageKeeps DEF ShutdownTimeout

LEMMA ShutdownDrainedKeeps ==
    ASSUME IInv, ShutdownDrained
    PROVE  IInv'
<1>1. Cardinality(pool.registered) \in Nat
  BY PoolAssumption, FS_Subset, FS_CardinalityType DEF IInv, TypeOK, PoolType
<1>2. pool' \in PoolType
  BY <1>1 DEF ShutdownDrained, IInv, TypeOK, PoolType
<1>3. \A r \in Runs : run[r].pc \notin Live
  BY PoolAssumption DEF ShutdownDrained, Drained, RunsOf
<1>4. ShutdownStages'
  BY <1>3 DEF ShutdownDrained, IInv, TypeOK, PoolType, ShutdownStages
<1>5. run' \in [Runs -> RunType]
  BY DEF ShutdownDrained, IInv, TypeOK
<1>. QED BY <1>2, <1>4, <1>5, StageKeeps DEF ShutdownDrained

LEMMA ShutdownStopsKeeps ==
    ASSUME IInv, ShutdownFails \/ ShutdownEnds
    PROVE  IInv'
<1>1. pool' \in PoolType /\ ShutdownStages' /\ run' \in [Runs -> RunType]
  BY DEF ShutdownFails, ShutdownEnds, IInv, TypeOK, PoolType, ShutdownStages
<1>. QED BY <1>1, StageKeeps DEF ShutdownFails, ShutdownEnds

LEMMA ShutdownBeginsKeeps ==
    ASSUME IInv, ShutdownBegins
    PROVE  IInv'
<1>. DEFINE told == {s \in pool.registered : ~sess[s].disposed}
<1>1. pool' \in PoolType /\ ~pool'.accepting /\ pool'.shutdown = "wait" /\ pool'.at = None
  BY DEF ShutdownBegins, IInv, TypeOK, PoolType, ShutdownStages
<1>2. \A s \in Sessions :
          /\ sess'[s] \in EntryType
          /\ sess'[s].lock = sess[s].lock /\ sess'[s].pending = sess[s].pending
          /\ sess'[s].compacting = sess[s].compacting
          /\ sess'[s].disposed = sess[s].disposed
          /\ sess'[s].state = PoolState(sess'[s])
  <2>. TAKE s \in Sessions
  <2>. DEFINE e == sess[s]
              f == [e EXCEPT !.open = FALSE]
              g == Refreshed(CancelRequested(f))
  <2>1. e \in EntryType /\ e.state = PoolState(e)
    BY DEF IInv, TypeOK, StateFresh
  <2>2. CASE s \notin told
    <3>1. sess'[s] = e
      BY <2>2 DEF ShutdownBegins
    <3>. QED BY <2>1, <3>1
  <2>3. CASE s \in told
    <3>1. sess'[s] = g
      BY <2>3 DEF ShutdownBegins
    <3>2. /\ f \in EntryType /\ f.lock = e.lock /\ f.pending = e.pending
          /\ f.compacting = e.compacting /\ f.disposed = e.disposed
      <4>. HIDE DEF e
      <4>. QED BY <2>1 DEF EntryType
    <3>. HIDE DEF f
    <3>3. /\ g \in EntryType /\ g.lock = e.lock /\ g.pending = e.pending
          /\ g.compacting = e.compacting /\ g.disposed = e.disposed
          /\ g.state = PoolState(g)
      BY <3>2, CancelRequestedFields, RefreshedFields
    <3>. HIDE DEF g
    <3>. QED BY <3>1, <3>3
  <2>. QED BY <2>2, <2>3
<1>3. run' \in [Runs -> RunType] /\ \A r \in Runs : run'[r].pc = run[r].pc
  BY AbortedFields DEF ShutdownBegins, IInv, TypeOK
<1>4. UNCHANGED <<slots, slotQueue>> /\ sess' \in [Sessions -> EntryType]
  BY <1>2 DEF ShutdownBegins
<1>5. TypeOK'
  BY <1>1, <1>3, <1>4 DEF IInv, TypeOK
<1>6. SamePlaces /\ NothingReopens
  BY <1>2, <1>3, <1>4 DEF SamePlaces, NothingReopens
<1>7. StateFresh'
  BY <1>2 DEF StateFresh, PoolState
<1>8. ShutdownStages'
  BY <1>1 DEF ShutdownStages
<1>. QED BY <1>5, <1>6, <1>7, <1>8, SamePlacesKeep, ClosedStaysDrained DEF IInv

\* compact_session moves a slot with its stage.
LEMMA CompactStageKeeps ==
    ASSUME IInv, NEW s \in Sessions, NEW stage \in {"no", "wait", "prepare", "run"},
           CompactStage(s, stage), UNCHANGED <<pool, run>>,
           slots' \in Nat, slotQueue' \in Seq(Runs \cup Sessions),
           slots' = slots + Count(sess[s].compacting, {"prepare", "run"})
                          - Count(stage, {"prepare", "run"})
    PROVE  IInv'
<1>. DEFINE e == sess[s]
            g == [e EXCEPT !.compacting = stage]
<1>1. e \in EntryType /\ e.state = PoolState(e)
  BY DEF IInv, TypeOK, StateFresh
<1>2. /\ g \in EntryType /\ g.lock = e.lock /\ g.pending = e.pending
      /\ g.compacting = stage /\ g.disposed = e.disposed
      /\ g.state = e.state /\ g.current = e.current
      /\ g.cancelReq = e.cancelReq /\ g.failed = e.failed
  <2>. HIDE DEF e
  <2>. QED BY <1>1 DEF EntryType
<1>3. sess' = [sess EXCEPT ![s] = g]
  BY DEF CompactStage
<1>. HIDE DEF g
<1>4. sess'[s] = g /\ \A x \in Sessions \ {s} : sess'[x] = sess[x]
  BY <1>3 DEF IInv, TypeOK
<1>5. TypeOK'
  BY <1>2, <1>3 DEF IInv, TypeOK
<1>6. HoldsLock' /\ PendingExact'
  <2>1. \A x \in Sessions :
            sess'[x].lock = sess[x].lock /\ sess'[x].pending = sess[x].pending
    BY <1>2, <1>4
  <2>2. \A x : QueuedRuns(x)' = QueuedRuns(x)
    BY DEF QueuedRuns, RunsOf
  <2>. QED BY <2>1, <2>2, PoolAssumption DEF IInv, HoldsLock, PendingExact
<1>7. SlotsConserved'
  <2>1. Compacting' = IF stage \in {"prepare", "run"} THEN Compacting \cup {s}
                                                    ELSE Compacting \ {s}
    BY <1>2, <1>4 DEF Compacting, Compacts
  <2>2. ActiveRuns' = ActiveRuns
    BY DEF ActiveRuns, IsActive
  <2>3. Count(s, Compacting) = Count(e.compacting, {"prepare", "run"})
    BY DEF Count, Compacting, Compacts
  <2>4. Cardinality(ActiveRuns) \in Nat /\ Cardinality(Compacting) \in Nat
    BY FiniteCounts, FS_CardinalityType
  <2>5. slots \in Nat /\ slots + Cardinality(ActiveRuns) + Cardinality(Compacting)
                             = MaxConcurrency
    BY DEF IInv, TypeOK, SlotsConserved
  <2>6. Count(s, Compacting) \in Nat
    BY DEF Count
  <2>7. CASE stage \in {"prepare", "run"}
    <3>1. Compacting' = Compacting \cup {s} /\ Count(stage, {"prepare", "run"}) = 1
      BY <2>1, <2>7 DEF Count
    <3>2. Cardinality(Compacting \cup {s})
              = Cardinality(Compacting) + 1 - Count(s, Compacting)
      BY FiniteCounts, MovedIn
    <3>. QED BY <2>2, <2>3, <2>4, <2>5, <2>6, <3>1, <3>2 DEF SlotsConserved
  <2>8. CASE stage \notin {"prepare", "run"}
    <3>1. Compacting' = Compacting \ {s} /\ Count(stage, {"prepare", "run"}) = 0
      BY <2>1, <2>8 DEF Count
    <3>2. Cardinality(Compacting \ {s}) = Cardinality(Compacting) - Count(s, Compacting)
      BY FiniteCounts, MovedOut
    <3>. QED BY <2>2, <2>3, <2>4, <2>5, <2>6, <3>1, <3>2 DEF SlotsConserved
  <2>. QED BY <2>7, <2>8
<1>8. StateFresh'
  BY <1>1, <1>2, <1>4 DEF IInv, StateFresh, PoolState
<1>9. NothingReopens
  BY <1>2, <1>4 DEF NothingReopens
<1>10. ShutdownStages'
  BY StagesKept
<1>. QED BY <1>5, <1>6, <1>7, <1>8, <1>9, <1>10, ClosedStaysDrained DEF IInv

LEMMA CompactKeeps ==
    ASSUME IInv, NEW s \in Sessions, Compact(s)
    PROVE  IInv'
<1>1. sess[s].compacting = "no" /\ UNCHANGED <<pool, run>>
  BY DEF Compact
<1>2. CASE SlotFree
  <2>1. /\ CompactStage(s, "prepare") /\ slots' = slots - 1 /\ slots \in Nat /\ slots > 0
        /\ slotQueue' \in Seq(Runs \cup Sessions)
    BY <1>2 DEF Compact, SlotFree, IInv, TypeOK
  <2>. QED BY <1>1, <2>1, CompactStageKeeps DEF Count
<1>3. CASE ~SlotFree
  <2>1. /\ CompactStage(s, "wait") /\ slots' = slots /\ slots \in Nat
        /\ slotQueue' \in Seq(Runs \cup Sessions)
    BY <1>3 DEF Compact, IInv, TypeOK
  <2>. QED BY <1>1, <2>1, CompactStageKeeps DEF Count
<1>. QED BY <1>2, <1>3

LEMMA CompactGrantedKeeps ==
    ASSUME IInv, NEW s \in Sessions, CompactGranted(s)
    PROVE  IInv'
<1>1. /\ sess[s].compacting = "wait" /\ UNCHANGED <<pool, run>>
      /\ slots \in Nat /\ slots > 0
  BY DEF CompactGranted, SlotGranted, IInv, TypeOK
<1>2. slotQueue' \in Seq(Runs \cup Sessions)
  BY DEF CompactGranted, SlotGranted, IInv, TypeOK
<1>3. CASE Idle(s)
  <2>1. CompactStage(s, "prepare") /\ slots' = slots - 1
    BY <1>3 DEF CompactGranted
  <2>. QED BY <1>1, <1>2, <2>1, CompactStageKeeps DEF Count
<1>4. CASE ~Idle(s)
  <2>1. CompactStage(s, "no") /\ slots' = slots
    BY <1>4 DEF CompactGranted
  <2>. QED BY <1>1, <1>2, <2>1, CompactStageKeeps DEF Count
<1>. QED BY <1>3, <1>4

LEMMA CompactRunsKeeps ==
    ASSUME IInv, NEW s \in Sessions, CompactRuns(s)
    PROVE  IInv'
<1>1. /\ sess[s].compacting = "prepare" /\ CompactStage(s, "run")
      /\ UNCHANGED <<pool, slots, slotQueue, run>>
      /\ slots \in Nat /\ slotQueue \in Seq(Runs \cup Sessions)
  BY DEF CompactRuns, IInv, TypeOK
<1>. QED BY <1>1, CompactStageKeeps DEF Count

LEMMA CompactEndsKeeps ==
    ASSUME IInv, NEW s \in Sessions, CompactEnds(s)
    PROVE  IInv'
<1>1. /\ sess[s].compacting \in {"prepare", "run"} /\ CompactStage(s, "no")
      /\ slots' = slots + 1 /\ UNCHANGED <<pool, slotQueue, run>>
      /\ slots \in Nat /\ slotQueue \in Seq(Runs \cup Sessions)
  BY DEF CompactEnds, IInv, TypeOK
<1>. QED BY <1>1, CompactStageKeeps DEF Count

-----------------------------------------------------------------------------
LEMMA InitIInv == Init => IInv
<1>. SUFFICES ASSUME Init
              PROVE  IInv
  OBVIOUS
<1>1. \A s \in Sessions : sess[s] = FreshEntry
  BY DEF Init
<1>2. \A r \in Runs : run[r] = FreshRun /\ run[r].pc = "new"
  BY DEF Init, FreshRun
<1>3. FreshRun \in RunType
  BY PoolAssumption DEF FreshRun, RunType
<1>4. TypeOK
  <2>1. slotQueue \in Seq(Runs \cup Sessions) /\ slots \in Nat
    BY PoolAssumption DEF Init
  <2>2. sess \in [Sessions -> EntryType] /\ run \in [Runs -> RunType]
    BY <1>3, FreshTyped DEF Init
  <2>3. pool \in PoolType
    BY DEF Init, PoolType
  <2>. QED BY <2>1, <2>2, <2>3 DEF TypeOK
<1>5. HoldsLock /\ ClosedIsDrained
  BY <1>2 DEF HoldsLock, ClosedIsDrained, RunsOf, Active, Queued, Live
<1>6. PendingExact
  <2>1. \A s \in Sessions : QueuedRuns(s) = {}
    BY <1>2 DEF QueuedRuns, RunsOf, Queued
  <2>. QED BY <1>1, <2>1, FreshTyped, FS_EmptySet DEF PendingExact
<1>7. SlotsConserved
  <2>1. ActiveRuns = {} /\ Compacting = {}
    BY <1>1, <1>2, FreshTyped DEF ActiveRuns, IsActive, Active, Compacting, Compacts
  <2>. QED BY <2>1, FS_EmptySet, PoolAssumption DEF SlotsConserved, Init
<1>8. StateFresh
  BY <1>1, FreshTyped DEF StateFresh, PoolState
<1>9. ShutdownStages
  BY DEF Init, ShutdownStages
<1>. QED BY <1>4, <1>5, <1>6, <1>7, <1>8, <1>9 DEF IInv

\* Every step of the pool keeps the accounts of its lock, its slots and its sessions.
LEMMA NextIInv == IInv /\ [Next]_vars => IInv'
<1>. SUFFICES ASSUME IInv, [Next]_vars
              PROVE  IInv'
  OBVIOUS
<1>1. ASSUME NEW s \in Sessions, Caller(s)
      PROVE  IInv'
  <2>1. CASE Register(s) \/ Compact(s)
    BY <2>1, RegisterKeeps, CompactKeeps
  <2>2. ASSUME NEW flag \in BOOLEAN, Cancel(s, flag) \/ CloseSession(s, flag)
        PROVE  IInv'
    BY <2>2, CancelKeeps, CloseSessionKeeps
  <2>. QED BY <1>1, <2>1, <2>2 DEF Caller
<1>2. ASSUME NEW s \in Sessions, SessionStep(s)
      PROVE  IInv'
  <2>1. CASE CompactGranted(s) \/ CompactRuns(s) \/ CompactEnds(s)
    BY <2>1, CompactGrantedKeeps, CompactRunsKeeps, CompactEndsKeeps
  <2>2. CASE CloseFails(s) \/ CloseEnds(s) \/ RemoveEnds(s) \/ Reap(s)
    BY <2>2, CloseFailsKeeps, CloseEndsKeeps, RemoveEndsKeeps, ReapKeeps
  <2>. QED BY <1>2, <2>1, <2>2 DEF SessionStep
<1>3. ASSUME NEW r \in Runs, Submit(r) \/ Consume(r)
      PROVE  IInv'
  BY <1>3, SubmitKeeps, ConsumeKeeps
<1>4. ASSUME NEW r \in Runs, RunStep(r)
      PROVE  IInv'
  <2>1. CASE Refused(r)
    <3>1. run[r].pc \in Live /\ Finish(r, "cancelled", FALSE)
      BY <2>1 DEF Refused, HasTurn, Live, Queued
    <3>. QED BY <3>1, FinishKeeps
  <2>2. CASE AwaitSlot(r) \/ Begin(r) \/ Occupy(r)
    BY <2>2, AwaitSlotKeeps, BeginKeeps, OccupyKeeps
  <2>3. CASE AlreadyRunning(r)
    <3>1. run[r].pc \in Live /\ Finish(r, "failed", FALSE)
      BY <2>3 DEF AlreadyRunning, Live, Active
    <3>. QED BY <3>1, FinishKeeps
  <2>4. ASSUME NEW fatal \in BOOLEAN, Yield(r, fatal) \/ PutRefused(r, fatal)
        PROVE  IInv'
    <3>1. CASE Yield(r, fatal)
      BY <3>1, YieldKeeps
    <3>2. CASE PutRefused(r, fatal)
      <4>1. /\ run[r].pc \in Live /\ Finish(r, Outcome(r, fatal), FALSE)
            /\ Outcome(r, fatal) \in {"completed", "cancelled", "failed"}
        BY <3>2 DEF PutRefused, Outcome, Live, Active
      <4>. QED BY <4>1, FinishKeeps
    <3>. QED BY <2>4, <3>1, <3>2
  <2>5. CASE PutResumes(r) \/ TaskDone(r)
    BY <2>5, PutResumesKeeps, TaskDoneKeeps
  <2>6. CASE GeneratorEnds(r)
    <3>1. /\ run[r].pc \in Live /\ Finish(r, Outcome(r, FALSE), TRUE)
          /\ Outcome(r, FALSE) \in {"completed", "cancelled", "failed"}
      BY <2>6 DEF GeneratorEnds, Outcome, Live, Active
    <3>. QED BY <3>1, FinishKeeps
  <2>7. ASSUME NEW left \in BOOLEAN, GeneratorRaises(r, left) \/ Cancelled(r, left)
        PROVE  IInv'
    <3>1. CASE GeneratorRaises(r, left)
      <4>1. run[r].pc \in Live /\ Finish(r, "failed", left)
        BY <3>1 DEF GeneratorRaises, Live, Active
      <4>. QED BY <4>1, FinishKeeps
    <3>2. CASE Cancelled(r, left)
      <4>1. run[r].pc \in Live /\ Finish(r, "cancelled", left)
        BY <3>2 DEF Cancelled
      <4>. QED BY <4>1, FinishKeeps
    <3>. QED BY <2>7, <3>1, <3>2
  <2>. QED BY <1>4, <2>1, <2>2, <2>3, <2>4, <2>5, <2>6, <2>7 DEF RunStep
<1>5. CASE Shutdown
  <2>1. CASE ShutdownBegins \/ ShutdownTimeout \/ ShutdownDrained
    BY <2>1, ShutdownBeginsKeeps, ShutdownTimeoutKeeps, ShutdownDrainedKeeps
  <2>2. ASSUME NEW s \in Sessions, ShutdownVisits(s)
        PROVE  IInv'
    BY <2>2, ShutdownVisitsKeeps
  <2>3. CASE ShutdownCloses \/ ShutdownFails \/ ShutdownEnds
    BY <2>3, ShutdownClosesKeeps, ShutdownStopsKeeps
  <2>. QED BY <1>5, <2>1, <2>2, <2>3 DEF Shutdown
<1>6. CASE UNCHANGED vars
  <2>1. SamePlaces /\ NothingReopens
    BY <1>6 DEF vars, SamePlaces, NothingReopens
  <2>2. TypeOK' /\ StateFresh' /\ ShutdownStages'
    BY <1>6 DEF vars, IInv, TypeOK, StateFresh, PoolState, ShutdownStages
  <2>. QED BY <2>1, <2>2, SamePlacesKeep, ClosedStaysDrained DEF IInv
<1>. QED BY <1>1, <1>2, <1>3, <1>4, <1>5, <1>6 DEF Next

\* The inductive invariant: everything below follows from it.
THEOREM PoolInvariant == Spec => []IInv
BY InitIInv, NextIInv, PTL DEF Spec

\* The variables keep their types; in particular no step takes a slot or a place in
\* pending_runs that is not there.
THEOREM PoolTypes == Spec => []TypeOK
<1>1. IInv => TypeOK
  BY DEF IInv
<1>. QED BY <1>1, PoolInvariant, PTL

\* Two runs of one session are never executed together: an executing run holds the turn
\* lock of its session, and a lock has one holder.
THEOREM TurnsExclusive == Spec => []TurnExclusion
<1>1. IInv => TurnExclusion
  <2>. SUFFICES ASSUME IInv, NEW r1 \in Runs, NEW r2 \in Runs,
                       IsActive(r1), IsActive(r2), SessionOf[r1] = SessionOf[r2]
                PROVE  r1 = r2
    BY DEF TurnExclusion
  <2>1. sess[SessionOf[r1]].lock = r1 /\ sess[SessionOf[r2]].lock = r2
    BY DEF IInv, HoldsLock, IsActive
  <2>. QED BY <2>1
<1>. QED BY <1>1, PoolInvariant, PTL

\* Each slot of the semaphore is free, or held by one executing run or one compaction.
THEOREM SlotsNeverLost == Spec => []SlotsConserved
<1>1. IInv => SlotsConserved
  BY DEF IInv
<1>. QED BY <1>1, PoolInvariant, PTL

\* pending_runs is the number of queued runs of the session.
THEOREM PendingCounts == Spec => []PendingExact
<1>1. IInv => PendingExact
  BY DEF IInv
<1>. QED BY <1>1, PoolInvariant, PTL

\* The stored state of a session is the one its fields call for.
THEOREM StatesFresh == Spec => []StateFresh
<1>1. IInv => StateFresh
  BY DEF IInv
<1>. QED BY <1>1, PoolInvariant, PTL

\* A disposed session has no task that is not done.
THEOREM ClosedSessionsDrained == Spec => []ClosedIsDrained
<1>1. IInv => ClosedIsDrained
  BY DEF IInv
<1>. QED BY <1>1, PoolInvariant, PTL

\* The accounts of the pool balance at every step.
THEOREM AccountsBalance == Spec => []Accounts
<1>1. TypeOK /\ PendingExact /\ SlotsConserved => Accounts
  BY DEF Accounts
<1>. QED BY <1>1, PoolTypes, PendingCounts, SlotsNeverLost, PTL

(* The closing loop of shutdown(): a second invariant, on top of IInv *)

\* No session is reopened.
ClosedStay == \A s \in Sessions : sess[s].disposed => sess'[s].disposed

LEMMA ClosedStayKeeps ==
    ASSUME VisitedClosed, TypeOK, ClosedStay, UNCHANGED pool
    PROVE  VisitedClosed'
  BY DEF VisitedClosed, TypeOK, PoolType, ClosedStay

\* A step that writes the entry of one session keeps it closed.
LEMMA OneEntryStays ==
    ASSUME IInv, NEW s \in Sessions, NEW e, e.disposed = sess[s].disposed,
           sess' = [sess EXCEPT ![s] = e]
    PROVE  ClosedStay
  BY DEF IInv, TypeOK, ClosedStay

\* The way out of _run writes the entry, but not whether it is disposed.
LEMMA FinishStays ==
    ASSUME IInv, NEW r \in Runs, NEW result, NEW left \in BOOLEAN, Finish(r, result, left)
    PROVE  ClosedStay /\ UNCHANGED pool
<1>. SUFFICES ASSUME NEW s \in Sessions, sess[s].disposed
              PROVE  sess'[s].disposed
  BY DEF ClosedStay, Finish
<1>. QED BY PoolAssumption DEF Finish, Refreshed, IInv, TypeOK, EntryType

LEMMA RunStepStays ==
    ASSUME IInv, NEW r \in Runs, Submit(r) \/ RunStep(r) \/ Consume(r)
    PROVE  ClosedStay /\ UNCHANGED pool
<1>. USE PoolAssumption
<1>. DEFINE s == SessionOf[r]
            e == sess[s]
<1>0. s \in Sessions /\ e \in EntryType
  BY DEF IInv, TypeOK
<1>. HIDE DEF s
<1>1. CASE Submit(r)
  <2>. DEFINE f == [e EXCEPT !.waiters = Append(e.waiters, r), !.pending = e.pending + 1,
                             !.failed = FALSE]
  <2>1. sess' = [sess EXCEPT ![s] = Refreshed(f)] /\ UNCHANGED pool
    BY <1>1 DEF Submit, s
  <2>2. Refreshed(f).disposed = e.disposed
    BY <1>0 DEF Refreshed, EntryType
  <2>. HIDE DEF f
  <2>. QED BY <1>0, <2>1, <2>2, OneEntryStays
<1>2. CASE Refused(r) \/ AlreadyRunning(r) \/ GeneratorEnds(r)
  BY <1>2, FinishStays DEF Refused, AlreadyRunning, GeneratorEnds
<1>3. CASE \E flag \in BOOLEAN :
               PutRefused(r, flag) \/ GeneratorRaises(r, flag) \/ Cancelled(r, flag)
  <2>1. PICK flag \in BOOLEAN : PutRefused(r, flag) \/ GeneratorRaises(r, flag) \/ Cancelled(r, flag)
    BY <1>3
  <2>2. CASE PutRefused(r, flag)
    BY <2>2, FinishStays DEF PutRefused
  <2>3. CASE GeneratorRaises(r, flag)
    BY <2>3, FinishStays DEF GeneratorRaises
  <2>4. CASE Cancelled(r, flag)
    BY <2>4, FinishStays DEF Cancelled
  <2>. QED BY <2>1, <2>2, <2>3, <2>4
<1>4. CASE AwaitSlot(r)
  <2>. DEFINE f == [e EXCEPT !.lock = r, !.waiters = Tail(e.waiters)]
  <2>1. sess' = [sess EXCEPT ![s] = f] /\ UNCHANGED pool
    BY <1>4 DEF AwaitSlot, s
  <2>2. f.disposed = e.disposed
    BY <1>0 DEF EntryType
  <2>. HIDE DEF f
  <2>. QED BY <1>0, <2>1, <2>2, OneEntryStays
<1>5. CASE Begin(r)
  <2>. DEFINE f == [e EXCEPT !.lock = r, !.waiters = Without(e.waiters, r),
                             !.pending = e.pending - 1, !.current = r, !.cancelReq = FALSE]
  <2>1. sess' = [sess EXCEPT ![s] = Refreshed(f)] /\ UNCHANGED pool
    BY <1>5 DEF Begin, s
  <2>2. Refreshed(f).disposed = e.disposed
    BY <1>0 DEF Refreshed, EntryType
  <2>. HIDE DEF f
  <2>. QED BY <1>0, <2>1, <2>2, OneEntryStays
<1>6. CASE TaskDone(r)
  <2>1. sess' = [sess EXCEPT ![s] = Refreshed(e)] /\ UNCHANGED pool
    BY <1>6 DEF TaskDone, s
  <2>. QED BY <1>0, <2>1, RefreshedFields, OneEntryStays
<1>7. CASE Occupy(r)
  <2>. DEFINE f == [e EXCEPT !.harness = r]
  <2>1. sess' = [sess EXCEPT ![s] = f] /\ UNCHANGED pool
    BY <1>0, <1>7 DEF Occupy, s, IInv, TypeOK
  <2>2. f.disposed = e.disposed
    BY <1>0 DEF EntryType
  <2>. HIDE DEF f
  <2>. QED BY <1>0, <2>1, <2>2, OneEntryStays
<1>8. CASE Consume(r) \/ PutResumes(r) \/ \E fatal \in BOOLEAN : Yield(r, fatal)
  BY <1>8 DEF Consume, PutResumes, Yield, ClosedStay
<1>. QED BY <1>1, <1>2, <1>3, <1>4, <1>5, <1>6, <1>7, <1>8 DEF RunStep

LEMMA StageStays ==
    ASSUME IInv, NEW s \in Sessions, NEW stage, CompactStage(s, stage)
    PROVE  ClosedStay
<1>. DEFINE e == [sess[s] EXCEPT !.compacting = stage]
<1>1. sess[s] \in EntryType
  BY DEF IInv, TypeOK
<1>2. e.disposed = sess[s].disposed
  BY <1>1 DEF EntryType
<1>3. sess' = [sess EXCEPT ![s] = e]
  BY DEF CompactStage
<1>. HIDE DEF e
<1>. QED BY <1>2, <1>3, OneEntryStays

LEMMA SessionStepStays ==
    ASSUME IInv, NEW s \in Sessions,
           \/ Compact(s) \/ CompactGranted(s) \/ CompactRuns(s) \/ CompactEnds(s)
           \/ CloseFails(s) \/ CloseEnds(s) \/ Reap(s)
           \/ \E flag \in BOOLEAN : Cancel(s, flag) \/ CloseSession(s, flag)
    PROVE  ClosedStay /\ UNCHANGED pool
<1>0. sess[s] \in EntryType
  BY DEF IInv, TypeOK
<1>1. CASE Compact(s) \/ CompactGranted(s) \/ CompactRuns(s) \/ CompactEnds(s)
  BY <1>1, StageStays DEF Compact, CompactGranted, CompactRuns, CompactEnds
<1>2. CASE CloseFails(s)
  <2>. DEFINE e == [sess[s] EXCEPT !.closing = FALSE]
  <2>1. sess' = [sess EXCEPT ![s] = e] /\ UNCHANGED pool
    BY <1>2 DEF CloseFails
  <2>2. e.disposed = sess[s].disposed
    BY <1>0 DEF EntryType
  <2>. HIDE DEF e
  <2>. QED BY <2>1, <2>2, OneEntryStays
<1>3. CASE CloseEnds(s)
  <2>. DEFINE e == [sess[s] EXCEPT !.disposed = TRUE]
              f == [Refreshed(e) EXCEPT !.closing = FALSE]
  <2>1. sess' = [sess EXCEPT ![s] = f] /\ UNCHANGED pool
    BY <1>3 DEF CloseEnds, DisposedEntry
  <2>2. e \in EntryType /\ e.disposed
    BY <1>0 DEF EntryType
  <2>. HIDE DEF e
  <2>3. Refreshed(e) \in EntryType /\ Refreshed(e).disposed
    BY <2>2, RefreshedFields
  <2>4. f.disposed
    BY <2>3 DEF EntryType
  <2>. HIDE DEF f
  <2>. QED BY <2>1, <2>4 DEF ClosedStay, IInv, TypeOK
<1>4. CASE Reap(s)
  <2>. DEFINE e == [sess[s] EXCEPT !.harness = None]
  <2>1. sess' = [sess EXCEPT ![s] = e] /\ UNCHANGED pool
    BY <1>4 DEF Reap
  <2>2. e.disposed = sess[s].disposed
    BY <1>0 DEF EntryType
  <2>. HIDE DEF e
  <2>. QED BY <2>1, <2>2, OneEntryStays
<1>5. ASSUME NEW flag \in BOOLEAN, Cancel(s, flag)
      PROVE  ClosedStay /\ UNCHANGED pool
  BY <1>0, <1>5, CancelRequestedFields, OneEntryStays DEF Cancel
<1>6. ASSUME NEW flag \in BOOLEAN, CloseSession(s, flag)
      PROVE  ClosedStay /\ UNCHANGED pool
  <2>. DEFINE e == [sess[s] EXCEPT !.open = FALSE, !.closing = TRUE, !.removing = flag]
  <2>1. e \in EntryType /\ e.disposed = sess[s].disposed
    BY <1>0 DEF EntryType
  <2>2. sess' = [sess EXCEPT ![s] = CancelRequested(e)] /\ UNCHANGED pool
    BY <1>6 DEF CloseSession
  <2>. HIDE DEF e
  <2>. QED BY <2>1, <2>2, CancelRequestedFields, OneEntryStays
<1>. QED BY <1>1, <1>2, <1>3, <1>4, <1>5, <1>6

\* Sessions come and go during the closing loop.
LEMMA MembershipKeeps ==
    ASSUME IInv, VisitedClosed, NEW s \in Sessions, Register(s) \/ RemoveEnds(s)
    PROVE  VisitedClosed'
<1>1. CASE Register(s)
  BY <1>1 DEF Register, VisitedClosed, IInv, TypeOK, PoolType
<1>2. CASE RemoveEnds(s)
  <2>1. /\ pool'.registered = pool.registered \ {s} /\ pool'.visited = pool.visited \ {s}
        /\ pool'.at = pool.at /\ pool'.shutdown = pool.shutdown
    BY <1>2 DEF RemoveEnds, IInv, TypeOK, PoolType
  <2>2. \A t \in Sessions \ {s} : sess'[t] = sess[t]
    BY <1>2 DEF RemoveEnds, IInv, TypeOK
  <2>. QED BY <2>1, <2>2 DEF VisitedClosed, IInv, TypeOK, PoolType
<1>. QED BY <1>1, <1>2

LEMMA ShutdownVisitedKeeps ==
    ASSUME IInv, VisitedClosed, Shutdown
    PROVE  VisitedClosed'
<1>1. CASE ShutdownBegins \/ ShutdownTimeout \/ ShutdownFails \/ ShutdownEnds
  BY <1>1 DEF ShutdownBegins, ShutdownTimeout, ShutdownFails, ShutdownEnds, VisitedClosed,
              IInv, TypeOK, PoolType
<1>2. CASE ShutdownDrained
  BY <1>2 DEF ShutdownDrained, VisitedClosed, IInv, TypeOK, PoolType
<1>3. ASSUME NEW s \in Sessions, ShutdownVisits(s)
      PROVE  VisitedClosed'
  <2>1. /\ pool'.visited = pool.visited \cup {s} /\ pool'.registered = pool.registered
        /\ pool.at = None /\ pool.shutdown = "close" /\ s \in pool.registered
        /\ pool'.at = IF s \in Owned /\ ~sess[s].disposed THEN s ELSE None
    BY <1>3 DEF ShutdownVisits, Unvisited, IInv, TypeOK, PoolType
  <2>2. None \notin Sessions
    BY PoolAssumption
  <2>3. ClosedStay /\ (s = pool'.at \/ sess'[s].disposed)
    BY <1>3, <2>1 DEF ShutdownVisits, DisposedEntry, Refreshed, ClosedStay, IInv, TypeOK, EntryType
  <2>. QED BY <2>1, <2>2, <2>3 DEF VisitedClosed, ClosedStay, IInv, TypeOK, PoolType
<1>4. CASE ShutdownCloses
  <2>1. /\ pool'.visited = pool.visited /\ pool'.registered = pool.registered
        /\ pool.at \in Sessions /\ pool.shutdown = "close"
    BY <1>4 DEF ShutdownCloses, IInv, ShutdownStages, TypeOK, PoolType
  <2>2. ClosedStay /\ (pool.at \in pool.registered => sess'[pool.at].disposed)
    BY <1>4, <2>1 DEF ShutdownCloses, DisposedEntry, Refreshed, ClosedStay, IInv, TypeOK, EntryType
  <2>. QED BY <2>1, <2>2 DEF VisitedClosed, ClosedStay, IInv, TypeOK, PoolType
<1>. QED BY <1>1, <1>2, <1>3, <1>4 DEF Shutdown

LEMMA NextVisited == IInv /\ VisitedClosed /\ [Next]_vars => VisitedClosed'
<1>. SUFFICES ASSUME IInv, VisitedClosed, [Next]_vars
              PROVE  VisitedClosed'
  OBVIOUS
<1>0. TypeOK
  BY DEF IInv
<1>1. ASSUME NEW s \in Sessions, Caller(s) \/ SessionStep(s)
      PROVE  VisitedClosed'
  BY <1>0, <1>1, MembershipKeeps, SessionStepStays, ClosedStayKeeps DEF Caller, SessionStep
<1>2. ASSUME NEW r \in Runs, Submit(r) \/ RunStep(r) \/ Consume(r)
      PROVE  VisitedClosed'
  BY <1>0, <1>2, RunStepStays, ClosedStayKeeps
<1>3. CASE Shutdown
  BY <1>3, ShutdownVisitedKeeps
<1>4. CASE UNCHANGED vars
  BY <1>4 DEF vars, VisitedClosed
<1>. QED BY <1>1, <1>2, <1>3, <1>4 DEF Next

\* shutdown() only returns when every session it knows is closed, although sessions are
\* registered and removed while it closes them one after the other.
THEOREM ShutdownClosesAll == Spec => ShutdownDisposesAll
<1>1. Init => VisitedClosed
  BY DEF Init, VisitedClosed
<1>2. ASSUME IInv, VisitedClosed, [Next]_vars
      PROVE  [pool'.shutdown = "done" /\ pool.shutdown # "done" =>
                 \A s \in pool.registered : sess[s].disposed]_vars
  <2>. SUFFICES ASSUME pool'.shutdown = "done", pool.shutdown # "done"
                PROVE  \A s \in pool.registered : sess[s].disposed
    OBVIOUS
  <2>1. ShutdownEnds
    <3>1. ASSUME NEW s \in Sessions, Caller(s) \/ SessionStep(s)
          PROVE  pool'.shutdown = pool.shutdown
      <4>1. CASE Register(s) \/ RemoveEnds(s)
        BY <1>2, <4>1 DEF Register, RemoveEnds, IInv, TypeOK, PoolType
      <4>2. CASE ~(Register(s) \/ RemoveEnds(s))
        BY <1>2, <3>1, <4>2, SessionStepStays DEF Caller, SessionStep
      <4>. QED BY <4>1, <4>2
    <3>2. ASSUME NEW r \in Runs, Submit(r) \/ RunStep(r) \/ Consume(r)
          PROVE  pool' = pool
      BY <1>2, <3>2, RunStepStays
    <3>3. CASE Shutdown
      BY <3>3, <1>2 DEF Shutdown, ShutdownBegins, ShutdownTimeout, ShutdownDrained, ShutdownVisits,
                  ShutdownCloses, ShutdownFails, IInv, ShutdownStages, TypeOK, PoolType
    <3>4. CASE UNCHANGED vars
      BY <3>4 DEF vars
    <3>. QED BY <1>2, <3>1, <3>2, <3>3, <3>4 DEF Next
  <2>2. None \notin Sessions
    BY PoolAssumption
  <2>. QED BY <1>2, <2>1, <2>2 DEF ShutdownEnds, Unvisited, VisitedClosed, IInv, TypeOK, PoolType
<1>. QED BY <1>1, <1>2, NextVisited, PoolInvariant, PTL DEF Spec, ShutdownDisposesAll

(* The refinement of TurnScheduler: a third invariant, on top of IInv *)

\* What RemoveAt leaves of a queue
LEMMA RemoveAtElements ==
    ASSUME NEW S, NEW q \in Seq(S), NEW i \in 1..Len(q)
    PROVE  /\ RemoveAt(q, i) \in Seq(S)
           /\ Len(RemoveAt(q, i)) = Len(q) - 1
           /\ \A k \in 1..(Len(q) - 1) : RemoveAt(q, i)[k] = IF k < i THEN q[k] ELSE q[k + 1]
<1>. DEFINE a == SubSeq(q, 1, i - 1)
            b == SubSeq(q, i + 1, Len(q))
<1>1. a \in Seq(S) /\ Len(a) = i - 1 /\ \A k \in 1..(i - 1) : a[k] = q[k]
  <2>1. \A j \in 1..(i - 1) : q[j] \in S
    OBVIOUS
  <2>2. a \in Seq(S) /\ Len(a) = IF 1 <= i - 1 THEN i - 1 - 1 + 1 ELSE 0
    BY <2>1, SubSeqProperties
  <2>3. \A k \in 1..(i - 1) : a[k] = q[1 + k - 1]
    BY <2>1, SubSeqProperties
  <2>. HIDE DEF a
  <2>. QED BY <2>2, <2>3
<1>2. b \in Seq(S) /\ Len(b) = Len(q) - i /\ \A k \in 1..(Len(q) - i) : b[k] = q[i + k]
  <2>1. \A j \in (i + 1)..Len(q) : q[j] \in S
    OBVIOUS
  <2>2. b \in Seq(S) /\ Len(b) = IF i + 1 <= Len(q) THEN Len(q) - (i + 1) + 1 ELSE 0
    BY <2>1, SubSeqProperties
  <2>3. \A k \in 1..(Len(q) - (i + 1) + 1) : b[k] = q[(i + 1) + k - 1]
    BY <2>1, SubSeqProperties
  <2>. HIDE DEF b
  <2>. QED BY <2>2, <2>3
<1>3. RemoveAt(q, i) = a \o b
  BY DEF RemoveAt
<1>. HIDE DEF a, b
<1>4. a \o b \in Seq(S) /\ Len(a \o b) = Len(a) + Len(b)
  BY <1>1, <1>2, ConcatProperties
<1>5. \A k \in 1..(Len(a) + Len(b)) : (a \o b)[k] = IF k <= Len(a) THEN a[k] ELSE b[k - Len(a)]
  BY <1>1, <1>2, ConcatProperties
<1>6. ASSUME NEW k \in 1..(Len(q) - 1)
      PROVE  (a \o b)[k] = IF k < i THEN q[k] ELSE q[k + 1]
  <2>1. (a \o b)[k] = IF k <= Len(a) THEN a[k] ELSE b[k - Len(a)]
    BY <1>1, <1>2, <1>5
  <2>2. CASE k < i
    BY <1>1, <2>1, <2>2
  <2>3. CASE ~(k < i)
    <3>1. k - Len(a) \in 1..(Len(q) - i) /\ ~(k <= Len(a))
      BY <1>1, <2>3
    <3>2. b[k - Len(a)] = q[i + (k - Len(a))] /\ i + (k - Len(a)) = k + 1
      BY <1>1, <1>2, <3>1
    <3>. QED BY <2>1, <2>3, <3>1, <3>2
  <2>. QED BY <2>2, <2>3
<1>. QED BY <1>1, <1>2, <1>3, <1>4, <1>6

\* A waiter that stands in a queue once leaves it from its only place.
LEMMA WithoutOnce ==
    ASSUME NEW q, NEW x, NEW i \in DOMAIN q, q[i] = x, \A j \in DOMAIN q : q[j] = x => j = i
    PROVE  Without(q, x) = RemoveAt(q, i)
<1>1. (CHOOSE j \in DOMAIN q : q[j] = x) = i
  OBVIOUS
<1>. QED BY <1>1 DEF Without

LEMMA HeadLeaves ==
    ASSUME NEW S, NEW q \in Seq(S), q # <<>>
    PROVE  RemoveAt(q, 1) = Tail(q)
<1>. DEFINE a == RemoveAt(q, 1)
            b == Tail(q)
<1>1. a \in Seq(S) /\ Len(a) = Len(q) - 1 /\ \A k \in 1..(Len(q) - 1) : a[k] = q[k + 1]
  <2>1. 1 \in 1..Len(q) /\ \A k \in 1..(Len(q) - 1) : ~(k < 1)
    OBVIOUS
  <2>. QED BY <2>1, RemoveAtElements
<1>2. b \in Seq(S) /\ Len(b) = Len(q) - 1 /\ \A k \in 1..Len(b) : b[k] = q[k + 1]
  BY HeadTailProperties
<1>3. a = b
  <2>. HIDE DEF a, b
  <2>. QED BY <1>1, <1>2, SeqEqual
<1>. QED BY <1>3

\* Somebody leaves a queue with one more waiter at its head.
LEMMA OtherLeaves ==
    ASSUME NEW S, NEW q \in Seq(S), NEW x \in S, NEW i \in 1..Len(q)
    PROVE  /\ <<x>> \o q \in Seq(S) /\ i + 1 \in 1..Len(<<x>> \o q)
           /\ (<<x>> \o q)[i + 1] = q[i]
           /\ RemoveAt(<<x>> \o q, i + 1) = <<x>> \o RemoveAt(q, i)
<1>. DEFINE p == <<x>> \o q
            m == RemoveAt(q, i)
<1>1. /\ p \in Seq(S) /\ Len(p) = Len(q) + 1
      /\ \A k \in 1..(Len(q) + 1) : p[k] = IF k = 1 THEN x ELSE q[k - 1]
  OBVIOUS
<1>2. /\ m \in Seq(S) /\ Len(m) = Len(q) - 1
      /\ \A k \in 1..(Len(q) - 1) : m[k] = IF k < i THEN q[k] ELSE q[k + 1]
  BY RemoveAtElements
<1>. HIDE DEF m
<1>3. /\ <<x>> \o m \in Seq(S) /\ Len(<<x>> \o m) = Len(q)
      /\ \A k \in 1..Len(q) : (<<x>> \o m)[k] = IF k = 1 THEN x ELSE m[k - 1]
  BY <1>2
<1>. HIDE DEF p
<1>4. /\ RemoveAt(p, i + 1) \in Seq(S) /\ Len(RemoveAt(p, i + 1)) = Len(p) - 1
      /\ \A k \in 1..(Len(p) - 1) :
             RemoveAt(p, i + 1)[k] = IF k < i + 1 THEN p[k] ELSE p[k + 1]
  <2>1. ASSUME NEW j \in 1..Len(p)
        PROVE  /\ RemoveAt(p, j) \in Seq(S) /\ Len(RemoveAt(p, j)) = Len(p) - 1
               /\ \A k \in 1..(Len(p) - 1) :
                      RemoveAt(p, j)[k] = IF k < j THEN p[k] ELSE p[k + 1]
    BY <1>1, RemoveAtElements
  <2>2. i + 1 \in 1..Len(p)
    BY <1>1
  <2>. QED BY <2>1, <2>2
<1>5. ASSUME NEW k \in 1..Len(q)
      PROVE  RemoveAt(p, i + 1)[k] = (<<x>> \o m)[k]
  <2>1. RemoveAt(p, i + 1)[k] = IF k < i + 1 THEN p[k] ELSE p[k + 1]
    BY <1>1, <1>4
  <2>2. (<<x>> \o m)[k] = IF k = 1 THEN x ELSE m[k - 1]
    BY <1>3
  <2>3. CASE k = 1
    BY <1>1, <2>1, <2>2, <2>3
  <2>4. CASE k # 1
    <3>1. m[k - 1] = IF k - 1 < i THEN q[k - 1] ELSE q[k]
      <4>1. k - 1 \in 1..(Len(q) - 1) /\ (k - 1) + 1 = k
        BY <2>4
      <4>. QED BY <1>2, <4>1
    <3>2. p[k] = q[k - 1] /\ p[k + 1] = q[k]
      <4>1. k \in 1..(Len(q) + 1) /\ k + 1 \in 1..(Len(q) + 1) /\ k + 1 # 1 /\ (k + 1) - 1 = k
        OBVIOUS
      <4>2. p[k + 1] = q[(k + 1) - 1]
        BY <1>1, <4>1
      <4>. QED BY <1>1, <2>4, <4>1, <4>2
    <3>3. (k < i + 1) <=> (k - 1 < i)
      OBVIOUS
    <3>. QED BY <2>1, <2>2, <2>4, <3>1, <3>2, <3>3
  <2>. QED BY <2>3, <2>4
<1>6. RemoveAt(p, i + 1) = <<x>> \o m
  <2>. DEFINE a == RemoveAt(p, i + 1)
              b == <<x>> \o m
  <2>1. /\ a \in Seq(S) /\ b \in Seq(S) /\ Len(a) = Len(b)
        /\ \A k \in 1..Len(a) : a[k] = b[k]
    BY <1>1, <1>3, <1>4, <1>5
  <2>. HIDE DEF a, b
  <2>2. a = b
    BY <2>1, SeqEqual
  <2>. QED BY <2>2 DEF a, b
<1>. QED BY <1>1, <1>6 DEF m, p

LEMMA OtherArrives ==
    ASSUME NEW S, NEW q \in Seq(S), NEW x \in S, NEW y \in S
    PROVE  Append(<<x>> \o q, y) = <<x>> \o Append(q, y)
<1>. DEFINE a == Append(<<x>> \o q, y)
            b == <<x>> \o Append(q, y)
<1>1. /\ a \in Seq(S) /\ Len(a) = Len(q) + 2
      /\ \A k \in 1..(Len(q) + 2) :
             a[k] = IF k = 1 THEN x ELSE IF k = Len(q) + 2 THEN y ELSE q[k - 1]
  OBVIOUS
<1>2. /\ b \in Seq(S) /\ Len(b) = Len(q) + 2
      /\ \A k \in 1..(Len(q) + 2) :
             b[k] = IF k = 1 THEN x ELSE IF k = Len(q) + 2 THEN y ELSE q[k - 1]
  OBVIOUS
<1>3. a = b
  <2>. HIDE DEF a, b
  <2>. QED BY <1>1, <1>2, SeqEqual
<1>. QED BY <1>3

\* A step in which no run enters, passes or leaves the line of its session.
SameRuns ==
    \A r \in Runs :
        \/ run'[r].pc = run[r].pc
        \/ {run[r].pc, run'[r].pc} \subseteq Active
        \/ {run[r].pc, run'[r].pc} \subseteq {"ended", "gone"}
SameLocks ==
    \A s \in Sessions :
        sess'[s].lock = sess[s].lock /\ sess'[s].waiters = sess[s].waiters
Quiet == SameRuns /\ SameLocks

LEMMA QuietKeeps ==
    ASSUME IInv, LinesExact, Quiet
    PROVE  LinesExact' /\ UNCHANGED <<Phase, Line>>
<1>1. \A r \in Runs :
          /\ run'[r].pc = "new" <=> run[r].pc = "new"
          /\ run'[r].pc = "lock" <=> run[r].pc = "lock"
          /\ run'[r].pc = "slot" <=> run[r].pc = "slot"
          /\ run'[r].pc \in Active <=> run[r].pc \in Active
  BY DEF Quiet, SameRuns, Active
<1>2. LinesExact'
  <2>. SUFFICES ASSUME NEW s \in Sessions
                PROVE  /\ \A i \in DOMAIN sess'[s].waiters :
                              /\ sess'[s].waiters[i] \in RunsOf(s)
                              /\ run'[sess'[s].waiters[i]].pc = "lock"
                       /\ \A i, j \in DOMAIN sess'[s].waiters :
                              sess'[s].waiters[i] = sess'[s].waiters[j] => i = j
                       /\ \A x \in RunsOf(s) : run'[x].pc = "lock" =>
                              \E i \in DOMAIN sess'[s].waiters : sess'[s].waiters[i] = x
                       /\ sess'[s].lock # None =>
                              /\ sess'[s].lock \in RunsOf(s)
                              /\ run'[sess'[s].lock].pc \in Active \cup {"slot"}
    BY DEF LinesExact, RunsOf
  <2>1. sess'[s].lock = sess[s].lock /\ sess'[s].waiters = sess[s].waiters
    BY DEF Quiet, SameLocks
  <2>. QED BY <1>1, <2>1 DEF LinesExact, RunsOf
<1>3. \A r \in Runs : TurnPhase(r)' = TurnPhase(r)
  BY <1>1 DEF TurnPhase, Queued
<1>4. \A s \in Sessions : TurnLine(sess[s])' = TurnLine(sess[s])
  <2>. SUFFICES ASSUME NEW s \in Sessions
                PROVE  TurnLine(sess[s])' = TurnLine(sess[s])
    OBVIOUS
  <2>1. sess'[s].lock = sess[s].lock /\ sess'[s].waiters = sess[s].waiters
    BY DEF Quiet, SameLocks
  <2>2. sess[s].lock # None => sess[s].lock \in Runs
    BY DEF LinesExact, RunsOf
  <2>. QED BY <1>1, <2>1, <2>2 DEF TurnLine
<1>. QED BY <1>2, <1>3, <1>4 DEF Phase, Line

\* One entry is written, but neither its lock nor its waiters.
LEMMA OneEntryQuiet ==
    ASSUME IInv, NEW s \in Sessions, NEW e, e.lock = sess[s].lock, e.waiters = sess[s].waiters,
           sess' = [sess EXCEPT ![s] = e]
    PROVE  SameLocks
BY DEF IInv, TypeOK, SameLocks

LEMMA OneRunQuiet ==
    ASSUME IInv, NEW r \in Runs, NEW n,
           \/ n.pc = run[r].pc
           \/ {run[r].pc, n.pc} \subseteq Active
           \/ {run[r].pc, n.pc} \subseteq {"ended", "gone"},
           run' = [run EXCEPT ![r] = n]
    PROVE  SameRuns
BY DEF IInv, TypeOK, SameRuns

\* _request_cancel leaves the lock alone.
LEMMA CancelRequestedLine ==
    ASSUME NEW e \in EntryType
    PROVE  /\ CancelRequested(e) \in EntryType
           /\ CancelRequested(e).lock = e.lock /\ CancelRequested(e).waiters = e.waiters
<1>1. CASE e.current = None
  BY <1>1 DEF CancelRequested
<1>2. CASE e.current # None
  <2>. DEFINE f == [e EXCEPT !.cancelReq = TRUE]
  <2>1. f \in EntryType /\ f.lock = e.lock /\ f.waiters = e.waiters
    BY DEF EntryType
  <2>2. CancelRequested(e) = Refreshed(f)
    BY <1>2 DEF CancelRequested
  <2>. HIDE DEF f
  <2>. QED BY <2>1, <2>2, RefreshedFields
<1>. QED BY <1>1, <1>2

LEMMA StageQuiet ==
    ASSUME IInv, NEW s \in Sessions, NEW stage, CompactStage(s, stage)
    PROVE  SameLocks
<1>. DEFINE e == [sess[s] EXCEPT !.compacting = stage]
<1>1. sess[s] \in EntryType
  BY DEF IInv, TypeOK
<1>2. e.lock = sess[s].lock /\ e.waiters = sess[s].waiters
  BY <1>1 DEF EntryType
<1>3. sess' = [sess EXCEPT ![s] = e]
  BY DEF CompactStage
<1>. HIDE DEF e
<1>. QED BY <1>2, <1>3, OneEntryQuiet

\* What callers ask of one session, and what follows from it, moves no run.
LEMMA SessionQuiet ==
    ASSUME IInv, LinesExact, NEW s \in Sessions, Caller(s) \/ SessionStep(s)
    PROVE  Quiet
<1>0. sess[s] \in EntryType
  BY DEF IInv, TypeOK
<1>1. CASE Register(s)
  BY <1>1 DEF Register, Quiet, SameRuns, SameLocks
<1>2. CASE Compact(s) \/ CompactGranted(s) \/ CompactRuns(s) \/ CompactEnds(s)
  <2>1. \E stage : CompactStage(s, stage)
    BY <1>2 DEF Compact, CompactGranted, CompactRuns, CompactEnds
  <2>2. UNCHANGED run
    BY <1>2 DEF Compact, CompactGranted, CompactRuns, CompactEnds
  <2>. QED BY <2>1, <2>2, StageQuiet DEF Quiet, SameRuns
<1>3. ASSUME NEW hard \in BOOLEAN, Cancel(s, hard)
      PROVE  Quiet
  <2>. DEFINE r == sess[s].current
              n == [Aborted(r) EXCEPT !.forced = @ \/ hard]
  <2>1. r \in Runs
    BY <1>0, <1>3 DEF Cancel, EntryType
  <2>2. Aborted(r) \in RunType /\ Aborted(r).pc = run[r].pc
    BY <2>1, AbortedFields DEF IInv
  <2>3. n.pc = run[r].pc
    BY <2>2 DEF RunType
  <2>4. run' = [run EXCEPT ![r] = n] /\ sess' = [sess EXCEPT ![s] = CancelRequested(sess[s])]
    BY <1>3 DEF Cancel
  <2>. HIDE DEF n
  <2>5. SameRuns
    BY <2>1, <2>3, <2>4, OneRunQuiet
  <2>6. SameLocks
    BY <1>0, <2>4, CancelRequestedLine, OneEntryQuiet
  <2>. QED BY <2>5, <2>6 DEF Quiet
<1>4. ASSUME NEW remove \in BOOLEAN, CloseSession(s, remove)
      PROVE  Quiet
  <2>. DEFINE e == [sess[s] EXCEPT !.open = FALSE, !.closing = TRUE, !.removing = remove]
  <2>1. e \in EntryType /\ e.lock = sess[s].lock /\ e.waiters = sess[s].waiters
    BY <1>0 DEF EntryType
  <2>2. sess' = [sess EXCEPT ![s] = CancelRequested(e)]
    BY <1>4 DEF CloseSession
  <2>3. \A r \in Runs : run'[r].pc = run[r].pc
    BY <1>4, AbortedFields DEF CloseSession, IInv
  <2>. HIDE DEF e
  <2>4. SameLocks
    BY <2>1, <2>2, CancelRequestedLine, OneEntryQuiet
  <2>. QED BY <2>3, <2>4 DEF Quiet, SameRuns
<1>5. CASE CloseFails(s)
  <2>. DEFINE e == [sess[s] EXCEPT !.closing = FALSE]
  <2>1. sess' = [sess EXCEPT ![s] = e] /\ UNCHANGED run
    BY <1>5 DEF CloseFails
  <2>2. e.lock = sess[s].lock /\ e.waiters = sess[s].waiters
    BY <1>0 DEF EntryType
  <2>. HIDE DEF e
  <2>. QED BY <2>1, <2>2, OneEntryQuiet DEF Quiet, SameRuns
<1>6. CASE CloseEnds(s)
  <2>. DEFINE e == [sess[s] EXCEPT !.disposed = TRUE]
              f == [Refreshed(e) EXCEPT !.closing = FALSE]
  <2>1. sess' = [sess EXCEPT ![s] = f] /\ UNCHANGED run
    BY <1>6 DEF CloseEnds, DisposedEntry
  <2>2. e \in EntryType /\ e.lock = sess[s].lock /\ e.waiters = sess[s].waiters
    BY <1>0 DEF EntryType
  <2>. HIDE DEF e
  <2>3. /\ Refreshed(e) \in EntryType
        /\ Refreshed(e).lock = e.lock /\ Refreshed(e).waiters = e.waiters
    BY <2>2, RefreshedFields
  <2>4. f.lock = sess[s].lock /\ f.waiters = sess[s].waiters
    BY <2>2, <2>3 DEF EntryType
  <2>. HIDE DEF f
  <2>. QED BY <2>1, <2>4, OneEntryQuiet DEF Quiet, SameRuns
<1>7. CASE RemoveEnds(s)
  <2>1. \A r \in RunsOf(s) : run[r].pc \notin Live
    BY <1>7 DEF RemoveEnds, Drained, Idle
  <2>2. sess[s].lock = None
    BY <2>1 DEF LinesExact, Live, Queued
  <2>3. sess[s].waiters = <<>>
    <3>1. \A i \in DOMAIN sess[s].waiters : FALSE
      BY <2>1 DEF LinesExact, Live, Queued
    <3>2. sess[s].waiters \in Seq(Runs)
      BY <1>0 DEF EntryType
    <3>3. DOMAIN sess[s].waiters = 1..Len(sess[s].waiters) /\ Len(sess[s].waiters) \in Nat
      BY <3>2
    <3>4. Len(sess[s].waiters) = 0
      BY <3>1, <3>3
    <3>. QED BY <3>2, <3>4, EmptySeq
  <2>. DEFINE f == [FreshEntry EXCEPT !.compacting = sess[s].compacting,
                                      !.harness = sess[s].harness]
  <2>4. f.lock = None /\ f.waiters = <<>>
    BY DEF FreshEntry
  <2>5. sess' = [sess EXCEPT ![s] = f] /\ UNCHANGED run
    BY <1>7 DEF RemoveEnds
  <2>. HIDE DEF f
  <2>. QED BY <2>2, <2>3, <2>4, <2>5, OneEntryQuiet DEF Quiet, SameRuns
<1>8. CASE Reap(s)
  <2>. DEFINE e == [sess[s] EXCEPT !.harness = None]
  <2>1. sess' = [sess EXCEPT ![s] = e] /\ UNCHANGED run
    BY <1>8 DEF Reap
  <2>2. e.lock = sess[s].lock /\ e.waiters = sess[s].waiters
    BY <1>0 DEF EntryType
  <2>. HIDE DEF e
  <2>. QED BY <2>1, <2>2, OneEntryQuiet DEF Quiet, SameRuns
<1>. QED BY <1>1, <1>2, <1>3, <1>4, <1>5, <1>6, <1>7, <1>8 DEF Caller, SessionStep

\* Nor does shutdown(): it marks entries, aborts streams and cancels tasks.
LEMMA ShutdownQuiet ==
    ASSUME IInv, Shutdown
    PROVE  Quiet
<1>0. \A s \in Sessions : sess[s] \in EntryType
  BY DEF IInv, TypeOK
<1>1. CASE ShutdownBegins
  <2>1. ASSUME NEW s \in Sessions
        PROVE  sess'[s].lock = sess[s].lock /\ sess'[s].waiters = sess[s].waiters
    <3>. DEFINE e == [sess[s] EXCEPT !.open = FALSE]
    <3>1. e \in EntryType /\ e.lock = sess[s].lock /\ e.waiters = sess[s].waiters
      BY <1>0 DEF EntryType
    <3>2. sess'[s] = Refreshed(CancelRequested(e)) \/ sess'[s] = sess[s]
      BY <1>1 DEF ShutdownBegins
    <3>. HIDE DEF e
    <3>. QED BY <3>1, <3>2, CancelRequestedLine, RefreshedFields
  <2>2. \A r \in Runs : run'[r].pc = run[r].pc
    BY <1>1, AbortedFields DEF ShutdownBegins, IInv
  <2>. QED BY <2>1, <2>2 DEF Quiet, SameRuns, SameLocks
<1>2. CASE ShutdownTimeout
  <2>1. \A r \in Runs : run'[r].pc = run[r].pc
    BY <1>2 DEF ShutdownTimeout, IInv, TypeOK, RunType
  <2>. QED BY <1>2, <2>1 DEF ShutdownTimeout, Quiet, SameRuns, SameLocks
<1>3. CASE ShutdownDrained \/ ShutdownFails \/ ShutdownEnds
  BY <1>3 DEF ShutdownDrained, ShutdownFails, ShutdownEnds, Quiet, SameRuns, SameLocks
<1>4. ASSUME NEW s \in Sessions, sess' = [sess EXCEPT ![s] = DisposedEntry(sess[s])]
      PROVE  SameLocks
  <2>. DEFINE e == [sess[s] EXCEPT !.disposed = TRUE]
  <2>1. e \in EntryType /\ e.lock = sess[s].lock /\ e.waiters = sess[s].waiters
    BY <1>0 DEF EntryType
  <2>2. DisposedEntry(sess[s]) = Refreshed(e)
    BY DEF DisposedEntry
  <2>. HIDE DEF e
  <2>. QED BY <1>4, <2>1, <2>2, RefreshedFields, OneEntryQuiet
<1>5. ASSUME NEW s \in Sessions, ShutdownVisits(s)
      PROVE  Quiet
  <2>1. sess' = sess \/ sess' = [sess EXCEPT ![s] = DisposedEntry(sess[s])]
    BY <1>5 DEF ShutdownVisits
  <2>. QED BY <1>4, <1>5, <2>1 DEF ShutdownVisits, Quiet, SameRuns, SameLocks
<1>6. CASE ShutdownCloses
  <2>1. pool.at \in Sessions
    BY <1>6 DEF ShutdownCloses, IInv, TypeOK, PoolType
  <2>2. sess' = sess \/ sess' = [sess EXCEPT ![pool.at] = DisposedEntry(sess[pool.at])]
    BY <1>6 DEF ShutdownCloses
  <2>. QED BY <1>4, <1>6, <2>1, <2>2 DEF ShutdownCloses, Quiet, SameRuns, SameLocks
<1>. QED BY <1>1, <1>2, <1>3, <1>5, <1>6 DEF Shutdown


(* The steps that move a run r of session t *)

\* What a step that changes run r, and the entry of its session to g, leaves alone
LEMMA OthersStay ==
    ASSUME IInv, NEW r \in Runs, NEW n, NEW g,
           run' = [run EXCEPT ![r] = n], sess' = [sess EXCEPT ![SessionOf[r]] = g]
    PROVE  /\ SessionOf[r] \in Sessions
           /\ run'[r] = n /\ \A x \in Runs \ {r} : run'[x] = run[x]
           /\ sess'[SessionOf[r]] = g
           /\ \A s \in Sessions \ {SessionOf[r]} : sess'[s] = sess[s]
BY Typed DEF IInv, TypeOK

LEMMA OtherLinesStay ==
    ASSUME IInv, LinesExact, NEW r \in Runs, NEW n, NEW g,
           run' = [run EXCEPT ![r] = n], sess' = [sess EXCEPT ![SessionOf[r]] = g]
    PROVE  /\ \A x \in Runs \ {r} : TurnPhase(x)' = TurnPhase(x)
           /\ \A s \in Sessions \ {SessionOf[r]} : TurnLine(sess[s])' = TurnLine(sess[s])
<1>1. \A x \in Runs \ {r} : TurnPhase(x)' = TurnPhase(x)
  BY OthersStay DEF TurnPhase
<1>2. ASSUME NEW s \in Sessions \ {SessionOf[r]}
      PROVE  TurnLine(sess[s])' = TurnLine(sess[s])
  <2>1. sess'[s] = sess[s]
    BY OthersStay
  <2>2. sess[s].lock # None => sess[s].lock \in Runs \ {r}
    BY DEF LinesExact, RunsOf
  <2>3. sess[s].lock # None => run'[sess[s].lock] = run[sess[s].lock]
    BY <2>2, OthersStay
  <2>. QED BY <2>1, <2>3 DEF TurnLine
<1>. QED BY <1>1, <1>2

\* The line stays exact when it is exact for the session of the run that moves.
LEMMA OneLineKeeps ==
    ASSUME IInv, LinesExact, NEW r \in Runs, NEW n, NEW g,
           run' = [run EXCEPT ![r] = n], sess' = [sess EXCEPT ![SessionOf[r]] = g],
           \A i \in DOMAIN g.waiters :
               \/ g.waiters[i] \in RunsOf(SessionOf[r]) \ {r} /\ run[g.waiters[i]].pc = "lock"
               \/ g.waiters[i] = r /\ n.pc = "lock",
           \A i, j \in DOMAIN g.waiters : g.waiters[i] = g.waiters[j] => i = j,
           \A x \in RunsOf(SessionOf[r]) \ {r} :
               run[x].pc = "lock" => \E i \in DOMAIN g.waiters : g.waiters[i] = x,
           n.pc = "lock" => \E i \in DOMAIN g.waiters : g.waiters[i] = r,
           g.lock # None =>
               \/ g.lock = r /\ n.pc \in Active \cup {"slot"}
               \/ /\ g.lock \in RunsOf(SessionOf[r]) \ {r}
                  /\ run[g.lock].pc \in Active \cup {"slot"}
    PROVE  LinesExact'
<1>. SUFFICES ASSUME NEW s \in Sessions
              PROVE  /\ \A i \in DOMAIN sess'[s].waiters :
                            /\ sess'[s].waiters[i] \in RunsOf(s)
                            /\ run'[sess'[s].waiters[i]].pc = "lock"
                     /\ \A i, j \in DOMAIN sess'[s].waiters :
                            sess'[s].waiters[i] = sess'[s].waiters[j] => i = j
                     /\ \A x \in RunsOf(s) : run'[x].pc = "lock" =>
                            \E i \in DOMAIN sess'[s].waiters : sess'[s].waiters[i] = x
                     /\ sess'[s].lock # None =>
                            /\ sess'[s].lock \in RunsOf(s)
                            /\ run'[sess'[s].lock].pc \in Active \cup {"slot"}
  BY DEF LinesExact, RunsOf
<1>0. /\ run'[r] = n /\ \A x \in Runs \ {r} : run'[x] = run[x]
      /\ sess'[SessionOf[r]] = g
  BY Typed DEF IInv, TypeOK
<1>1. CASE s = SessionOf[r]
  <2>1. sess'[s] = g /\ run'[r] = n /\ \A x \in Runs \ {r} : run'[x] = run[x]
    BY <1>0, <1>1
  <2>2. r \in RunsOf(s)
    BY <1>1 DEF RunsOf
  <2>3. \A x \in RunsOf(s) \ {r} : run'[x] = run[x]
    BY <2>1 DEF RunsOf
  <2>4. \A i \in DOMAIN g.waiters :
            g.waiters[i] \in RunsOf(s) /\ run'[g.waiters[i]].pc = "lock"
    BY <1>1, <2>1, <2>2, <2>3
  <2>5. g.lock # None => g.lock \in RunsOf(s) /\ run'[g.lock].pc \in Active \cup {"slot"}
    BY <1>1, <2>1, <2>2, <2>3
  <2>6. \A x \in RunsOf(s) : run'[x].pc = "lock" => \E i \in DOMAIN g.waiters : g.waiters[i] = x
    BY <1>1, <2>1, <2>2, <2>3
  <2>. QED BY <2>1, <2>4, <2>5, <2>6
<1>2. CASE s # SessionOf[r]
  <2>1. sess'[s] = sess[s]
    BY <1>2, OthersStay
  <2>2. \A x \in RunsOf(s) : run'[x] = run[x]
    BY <1>2, OthersStay DEF RunsOf
  <2>. QED BY <2>1, <2>2 DEF LinesExact
<1>. QED BY <1>1, <1>2

\* _submit puts a new run at the end of its line.
LEMMA SubmitEnqueues ==
    ASSUME IInv, LinesExact, NEW r \in Runs, Submit(r)
    PROVE  LinesExact' /\ Turns!Enqueue(r)
<1>. DEFINE t == SessionOf[r]
            e == sess[t]
            w == Append(e.waiters, r)
            f == [e EXCEPT !.waiters = w, !.pending = e.pending + 1, !.failed = FALSE]
            n == [run[r] EXCEPT !.pc = "lock"]
<1>1. t \in Sessions /\ e \in EntryType /\ run[r] \in RunType /\ run[r].pc = "new"
  BY Typed DEF Submit
<1>2. n.pc = "lock"
  BY <1>1 DEF RunType
<1>3. f \in EntryType /\ f.waiters = w /\ f.lock = e.lock
  <2>1. w \in Seq(Runs) /\ e.pending + 1 \in Nat
    BY <1>1 DEF EntryType
  <2>. HIDE DEF w, e
  <2>. QED BY <1>1, <2>1 DEF EntryType
<1>4. run' = [run EXCEPT ![r] = n] /\ sess' = [sess EXCEPT ![t] = Refreshed(f)]
  BY DEF Submit
<1>. HIDE DEF f, n
<1>. DEFINE g == Refreshed(f)
<1>5. g.waiters = w /\ g.lock = e.lock
  BY <1>3, RefreshedFields
<1>6. sess' = [sess EXCEPT ![t] = g]
  BY <1>4
<1>. HIDE DEF g
<1>a. sess'[t] = g /\ run'[r] = n /\ \A x \in Runs \ {r} : run'[x] = run[x]
  BY <1>1, <1>4, <1>6 DEF IInv, TypeOK
<1>7. /\ DOMAIN e.waiters = 1..Len(e.waiters) /\ DOMAIN w = 1..(Len(e.waiters) + 1)
      /\ \A i \in 1..Len(e.waiters) : w[i] = e.waiters[i]
      /\ w[Len(e.waiters) + 1] = r /\ Len(e.waiters) \in Nat
  BY <1>1 DEF EntryType
<1>8. \A i \in DOMAIN e.waiters :
          e.waiters[i] \in RunsOf(t) \ {r} /\ run[e.waiters[i]].pc = "lock"
  BY <1>1 DEF LinesExact
<1>9. e.lock # None => e.lock \in RunsOf(t) \ {r} /\ run[e.lock].pc \in Active \cup {"slot"}
  BY <1>1 DEF LinesExact, Active
<1>10. \A i, j \in DOMAIN e.waiters : e.waiters[i] = e.waiters[j] => i = j
  BY <1>1 DEF LinesExact
<1>. HIDE DEF w
<1>11. LinesExact'
  <2>1. \A i \in DOMAIN w :
            \/ w[i] \in RunsOf(t) \ {r} /\ run[w[i]].pc = "lock"
            \/ w[i] = r /\ n.pc = "lock"
    BY <1>2, <1>7, <1>8
  <2>2. ASSUME NEW i \in DOMAIN w, NEW j \in DOMAIN w, w[i] = w[j]
        PROVE  i = j
    <3>1. \A k \in DOMAIN w :
              IF k \in DOMAIN e.waiters THEN w[k] # r ELSE k = Len(e.waiters) + 1 /\ w[k] = r
      <4>. SUFFICES ASSUME NEW k \in DOMAIN w
                    PROVE  IF k \in DOMAIN e.waiters THEN w[k] # r
                           ELSE k = Len(e.waiters) + 1 /\ w[k] = r
        OBVIOUS
      <4>1. CASE k \in DOMAIN e.waiters
        <5>1. w[k] = e.waiters[k]
          BY <1>7, <4>1
        <5>2. e.waiters[k] # r
          BY <1>8, <4>1
        <5>. QED BY <4>1, <5>1, <5>2
      <4>2. CASE k \notin DOMAIN e.waiters
        <5>1. k = Len(e.waiters) + 1
          BY <1>7, <4>2
        <5>. QED BY <1>7, <4>2, <5>1
      <4>. QED BY <4>1, <4>2
    <3>. QED BY <1>7, <1>10, <2>2, <3>1
  <2>3. \A x \in RunsOf(t) \ {r} : run[x].pc = "lock" => \E i \in DOMAIN w : w[i] = x
    <3>1. \A x \in RunsOf(t) : run[x].pc = "lock" => \E i \in DOMAIN e.waiters : e.waiters[i] = x
      BY <1>1 DEF LinesExact
    <3>2. \A i \in DOMAIN e.waiters : i \in DOMAIN w /\ w[i] = e.waiters[i]
      BY <1>7
    <3>. QED BY <3>1, <3>2
  <2>4. \E i \in DOMAIN w : w[i] = r
    BY <1>7
  <2>5. /\ \A i \in DOMAIN g.waiters :
               \/ g.waiters[i] \in RunsOf(t) \ {r} /\ run[g.waiters[i]].pc = "lock"
               \/ g.waiters[i] = r /\ n.pc = "lock"
        /\ \A i, j \in DOMAIN g.waiters : g.waiters[i] = g.waiters[j] => i = j
        /\ \A x \in RunsOf(t) \ {r} :
               run[x].pc = "lock" => \E i \in DOMAIN g.waiters : g.waiters[i] = x
        /\ \E i \in DOMAIN g.waiters : g.waiters[i] = r
        /\ g.lock # None => g.lock \in RunsOf(t) \ {r} /\ run[g.lock].pc \in Active \cup {"slot"}
    BY <1>5, <1>9, <2>1, <2>2, <2>3, <2>4
  <2>. QED BY <1>4, <1>6, <2>5, OneLineKeeps
<1>12. TurnPhase(r) = "new" /\ TurnPhase(r)' = "waiting"
  BY <1>1, <1>2, <1>a DEF TurnPhase, Queued, Active
<1>13. TurnLine(e)' = Append(TurnLine(e), r)
  <2>1. sess'[t].waiters = w /\ sess'[t].lock = e.lock
    BY <1>5, <1>a
  <2>2. e.lock # None => run'[e.lock] = run[e.lock]
    BY <1>9, <1>a DEF RunsOf
  <2>3. CASE e.lock # None /\ run[e.lock].pc = "slot"
    <3>1. TurnLine(e) = <<e.lock>> \o e.waiters /\ TurnLine(e)' = <<e.lock>> \o w
      BY <2>1, <2>2, <2>3 DEF TurnLine
    <3>2. e.lock \in Runs /\ e.waiters \in Seq(Runs)
      BY <1>1, <2>3 DEF EntryType
    <3>. QED BY <3>1, <3>2, OtherArrives DEF w
  <2>4. CASE ~(e.lock # None /\ run[e.lock].pc = "slot")
    <3>1. TurnLine(e) = e.waiters /\ TurnLine(e)' = w
      BY <2>1, <2>2, <2>4 DEF TurnLine
    <3>. QED BY <3>1 DEF w
  <2>. QED BY <2>3, <2>4
<1>14. Phase' = [Phase EXCEPT ![r] = "waiting"]
  BY <1>4, <1>12, OtherLinesStay DEF Phase
<1>15. Line' = [Line EXCEPT ![t] = Append(Line[t], r)]
  BY <1>1, <1>4, <1>6, <1>13, OtherLinesStay DEF Line
<1>. QED BY <1>11, <1>12, <1>14, <1>15 DEF Turns!Enqueue, Phase


\* A queue without one of its members keeps the others, each once.
LEMMA WithoutElements ==
    ASSUME NEW S, NEW q \in Seq(S), NEW x, \A i, j \in DOMAIN q : q[i] = q[j] => i = j
    PROVE  /\ \A k \in DOMAIN Without(q, x) :
                  \E j \in DOMAIN q : q[j] # x /\ Without(q, x)[k] = q[j]
           /\ \A k, m \in DOMAIN Without(q, x) :
                  Without(q, x)[k] = Without(q, x)[m] => k = m
           /\ \A j \in DOMAIN q :
                  q[j] # x => \E k \in DOMAIN Without(q, x) : Without(q, x)[k] = q[j]
<1>1. CASE \A i \in DOMAIN q : q[i] # x
  <2>1. Without(q, x) = q
    BY <1>1 DEF Without
  <2>. QED BY <1>1, <2>1
<1>0. DOMAIN q = 1..Len(q) /\ Len(q) \in Nat
  OBVIOUS
<1>2. ASSUME NEW i \in 1..Len(q), q[i] = x
      PROVE  /\ \A k \in DOMAIN Without(q, x) :
                    \E j \in DOMAIN q : q[j] # x /\ Without(q, x)[k] = q[j]
             /\ \A k, m \in DOMAIN Without(q, x) :
                    Without(q, x)[k] = Without(q, x)[m] => k = m
             /\ \A j \in DOMAIN q :
                    q[j] # x => \E k \in DOMAIN Without(q, x) : Without(q, x)[k] = q[j]
  <2>. DEFINE v == RemoveAt(q, i)
  <2>1. Without(q, x) = v
    BY <1>0, <1>2, WithoutOnce
  <2>2. /\ DOMAIN v = 1..(Len(q) - 1) /\ DOMAIN q = 1..Len(q) /\ Len(q) \in Nat
        /\ \A k \in 1..(Len(q) - 1) : v[k] = IF k < i THEN q[k] ELSE q[k + 1]
    <3>1. /\ v \in Seq(S) /\ Len(v) = Len(q) - 1
          /\ \A k \in 1..(Len(q) - 1) : v[k] = IF k < i THEN q[k] ELSE q[k + 1]
      BY RemoveAtElements
    <3>. HIDE DEF v
    <3>2. DOMAIN v = 1..Len(v)
      BY <3>1
    <3>. QED BY <1>0, <3>1, <3>2
  <2>. HIDE DEF v
  <2>3. \A k \in 1..(Len(q) - 1) :
            LET j == IF k < i THEN k ELSE k + 1
            IN  j \in DOMAIN q /\ j # i /\ v[k] = q[j]
    BY <2>2
  <2>4. \A k \in DOMAIN v : \E j \in DOMAIN q : q[j] # x /\ v[k] = q[j]
    BY <1>2, <2>2, <2>3
  <2>5. ASSUME NEW k \in DOMAIN v, NEW m \in DOMAIN v, v[k] = v[m]
        PROVE  k = m
    <3>1. (IF k < i THEN k ELSE k + 1) = (IF m < i THEN m ELSE m + 1)
      BY <2>2, <2>3, <2>5
    <3>. QED BY <2>2, <3>1
  <2>6. ASSUME NEW j \in DOMAIN q, q[j] # x
        PROVE  \E k \in DOMAIN v : v[k] = q[j]
    <3>1. CASE j < i
      BY <2>2, <3>1
    <3>2. CASE i < j
      <4>1. j - 1 \in DOMAIN v /\ ~(j - 1 < i) /\ (j - 1) + 1 = j
        BY <2>2, <3>2
      <4>2. v[j - 1] = q[(j - 1) + 1]
        BY <2>2, <4>1
      <4>. QED BY <4>1, <4>2
    <3>. QED BY <1>2, <2>2, <2>6, <3>1, <3>2
  <2>. QED BY <2>1, <2>4, <2>5, <2>6
<1>. QED BY <1>0, <1>1, <1>2

\* A run that leaves the waiters of its session leaves the line exact.
LEMMA LeavingKeeps ==
    ASSUME IInv, LinesExact, NEW r \in Runs, NEW n, NEW g,
           run' = [run EXCEPT ![r] = n], sess' = [sess EXCEPT ![SessionOf[r]] = g],
           n.pc # "lock", g.waiters = Without(sess[SessionOf[r]].waiters, r),
           g.lock # None =>
               \/ g.lock = r /\ n.pc \in Active \cup {"slot"}
               \/ g.lock = sess[SessionOf[r]].lock /\ g.lock # r
    PROVE  LinesExact'
<1>. DEFINE t == SessionOf[r]
            w == sess[t].waiters
            v == Without(w, r)
<1>1. t \in Sessions /\ w \in Seq(Runs)
  BY Typed DEF EntryType
<1>2. /\ \A i \in DOMAIN w : w[i] \in RunsOf(t) /\ run[w[i]].pc = "lock"
      /\ \A i, j \in DOMAIN w : w[i] = w[j] => i = j
      /\ \A x \in RunsOf(t) : run[x].pc = "lock" => \E i \in DOMAIN w : w[i] = x
      /\ sess[t].lock # None =>
             sess[t].lock \in RunsOf(t) /\ run[sess[t].lock].pc \in Active \cup {"slot"}
  BY <1>1 DEF LinesExact
<1>3. /\ \A k \in DOMAIN v : \E j \in DOMAIN w : w[j] # r /\ v[k] = w[j]
      /\ \A k, m \in DOMAIN v : v[k] = v[m] => k = m
      /\ \A j \in DOMAIN w : w[j] # r => \E k \in DOMAIN v : v[k] = w[j]
  <2>. HIDE DEF w
  <2>. QED BY <1>1, <1>2, WithoutElements
<1>4. g.waiters = v
  OBVIOUS
<1>. HIDE DEF v
<1>5. \A k \in DOMAIN v : v[k] \in RunsOf(t) \ {r} /\ run[v[k]].pc = "lock"
  BY <1>2, <1>3
<1>6. \A x \in RunsOf(t) \ {r} : run[x].pc = "lock" => \E k \in DOMAIN v : v[k] = x
  BY <1>2, <1>3
<1>7. g.lock # None =>
          \/ g.lock = r /\ n.pc \in Active \cup {"slot"}
          \/ g.lock \in RunsOf(t) \ {r} /\ run[g.lock].pc \in Active \cup {"slot"}
  BY <1>2
<1>8. /\ \A i \in DOMAIN g.waiters :
             g.waiters[i] \in RunsOf(t) \ {r} /\ run[g.waiters[i]].pc = "lock"
      /\ \A i, j \in DOMAIN g.waiters : g.waiters[i] = g.waiters[j] => i = j
      /\ \A x \in RunsOf(t) \ {r} :
             run[x].pc = "lock" => \E i \in DOMAIN g.waiters : g.waiters[i] = x
  BY <1>3, <1>4, <1>5, <1>6
<1>. QED BY <1>7, <1>8, OneLineKeeps

\* A run that holds the turn lock is not among its waiters.
LEMMA HolderIsNoWaiter ==
    ASSUME IInv, LinesExact, NEW r \in Runs, run[r].pc # "lock"
    PROVE  Without(sess[SessionOf[r]].waiters, r) = sess[SessionOf[r]].waiters
<1>1. \A i \in DOMAIN sess[SessionOf[r]].waiters : sess[SessionOf[r]].waiters[i] # r
  BY Typed DEF LinesExact
<1>. QED BY <1>1 DEF Without

\* The run whose turn it is leaves the head of the waiters.
LEMMA HeadHasTurn ==
    ASSUME IInv, LinesExact, NEW r \in Runs, HasTurn(r)
    PROVE  LET w == sess[SessionOf[r]].waiters IN
           /\ w \in Seq(Runs) /\ w # <<>> /\ Head(w) = r
           /\ Without(w, r) = Tail(w)
           /\ <<r>> \o Tail(w) = w
<1>. DEFINE w == sess[SessionOf[r]].waiters
<1>1. w \in Seq(Runs) /\ w # <<>> /\ Head(w) = r
  BY Typed DEF HasTurn, EntryType
<1>2. \A i, j \in DOMAIN w : w[i] = w[j] => i = j
  BY Typed DEF LinesExact
<1>. HIDE DEF w
<1>3. 1 \in DOMAIN w /\ w[1] = r
  BY <1>1
<1>4. Without(w, r) = RemoveAt(w, 1)
  BY <1>2, <1>3, WithoutOnce
<1>5. Without(w, r) = Tail(w)
  BY <1>1, <1>4, HeadLeaves
<1>6. <<r>> \o Tail(w) = w
  BY <1>1
<1>. QED BY <1>1, <1>5, <1>6 DEF w


\* The place of a run in the line does not change when it has the lock and waits for its slot.
LEMMA AwaitSlotStutters ==
    ASSUME IInv, LinesExact, NEW r \in Runs, AwaitSlot(r)
    PROVE  LinesExact' /\ UNCHANGED <<Phase, Line>>
<1>. DEFINE t == SessionOf[r]
            e == sess[t]
            g == [e EXCEPT !.lock = r, !.waiters = Tail(e.waiters)]
            n == [run[r] EXCEPT !.pc = "slot"]
<1>1. /\ t \in Sessions /\ e \in EntryType /\ run[r] \in RunType /\ run[r].pc = "lock"
      /\ e.lock = None /\ HasTurn(r) /\ r # None
  BY Typed, PoolAssumption DEF AwaitSlot, HasTurn
<1>2. /\ e.waiters \in Seq(Runs) /\ e.waiters # <<>>
      /\ Without(e.waiters, r) = Tail(e.waiters)
      /\ <<r>> \o Tail(e.waiters) = e.waiters
  BY <1>1, HeadHasTurn
<1>3. g.lock = r /\ g.waiters = Tail(e.waiters) /\ n.pc = "slot"
  BY <1>1 DEF EntryType, RunType
<1>4. run' = [run EXCEPT ![r] = n] /\ sess' = [sess EXCEPT ![t] = g]
  BY DEF AwaitSlot
<1>. HIDE DEF g, n
<1>5. sess'[t] = g /\ run'[r] = n
  BY <1>1, <1>4 DEF IInv, TypeOK
<1>6. LinesExact'
  BY <1>2, <1>3, <1>4, LeavingKeeps
<1>7. TurnPhase(r) = "waiting" /\ TurnPhase(r)' = "waiting"
  BY <1>1, <1>3, <1>5 DEF TurnPhase, Queued, Active
<1>8. TurnLine(e)' = TurnLine(e)
  <2>1. TurnLine(e) = e.waiters
    BY <1>1 DEF TurnLine
  <2>2. TurnLine(e)' = <<r>> \o Tail(e.waiters)
    BY <1>1, <1>3, <1>5 DEF TurnLine
  <2>. QED BY <1>2, <2>1, <2>2
<1>9. \A x \in Runs : TurnPhase(x)' = TurnPhase(x)
  BY <1>4, <1>7, OtherLinesStay
<1>10. \A s \in Sessions : TurnLine(sess[s])' = TurnLine(sess[s])
  BY <1>4, <1>8, OtherLinesStay
<1>. QED BY <1>6, <1>9, <1>10 DEF Phase, Line

\* A slot is free, so fewer than max_concurrency runs execute.
LEMMA SlotBoundsExecution ==
    ASSUME IInv, slots > 0
    PROVE  Cardinality(Turns!Executing) < MaxConcurrency
<1>1. Turns!Executing = ActiveRuns
  BY DEF Turns!Executing, Phase, TurnPhase, ActiveRuns, IsActive, Active, Queued
<1>2. slots \in Nat /\ Cardinality(ActiveRuns) \in Nat /\ Cardinality(Compacting) \in Nat
  BY FiniteCounts, FS_CardinalityType DEF IInv, TypeOK
<1>3. slots + Cardinality(ActiveRuns) + Cardinality(Compacting) = MaxConcurrency
  BY DEF IInv, SlotsConserved
<1>4. Cardinality(ActiveRuns) < MaxConcurrency
  BY <1>2, <1>3, PoolAssumption
<1>. QED BY <1>1, <1>4

\* A run that becomes current was first in the line of an idle session.
LEMMA BeginStarts ==
    ASSUME IInv, LinesExact, NEW r \in Runs, Begin(r)
    PROVE  LinesExact' /\ Turns!Start(r)
<1>. DEFINE t == SessionOf[r]
            e == sess[t]
            v == Without(e.waiters, r)
            f == [e EXCEPT !.lock = r, !.waiters = v, !.pending = e.pending - 1,
                           !.current = r, !.cancelReq = FALSE]
            n == [run[r] EXCEPT !.pc = "start"]
<1>1. /\ t \in Sessions /\ e \in EntryType /\ run[r] \in RunType /\ r # None
      /\ HasTurn(r) \/ run[r].pc = "slot"
      /\ run[r].pc \in Queued /\ slots > 0
  BY Typed, PoolAssumption DEF Begin, HasTurn, Queued, SlotFree, SlotGranted
<1>2. e.waiters \in Seq(Runs) /\ v \in Seq(Runs)
  BY <1>1, WithoutType DEF EntryType
<1>3. f \in EntryType /\ f.lock = r /\ f.waiters = v
  <2>1. e.pending - 1 \in Nat
    BY <1>1, PendingPositive
  <2>. HIDE DEF e, v
  <2>. QED BY <1>1, <1>2, <2>1 DEF EntryType
<1>4. run' = [run EXCEPT ![r] = n] /\ sess' = [sess EXCEPT ![t] = Refreshed(f)]
  BY DEF Begin
<1>5. n.pc = "start"
  BY <1>1 DEF RunType
<1>. HIDE DEF f, n
<1>. DEFINE g == Refreshed(f)
<1>6. g.lock = r /\ g.waiters = v
  BY <1>3, RefreshedFields
<1>7. sess' = [sess EXCEPT ![t] = g]
  BY <1>4
<1>. HIDE DEF g
<1>8. sess'[t] = g /\ run'[r] = n
  BY <1>1, <1>4, <1>7 DEF IInv, TypeOK
<1>9. LinesExact'
  BY <1>4, <1>5, <1>6, <1>7, LeavingKeeps DEF Active
<1>10. TurnLine(e)' = v
  BY <1>1, <1>5, <1>6, <1>8 DEF TurnLine
<1>11. TurnLine(e) # <<>> /\ Head(TurnLine(e)) = r /\ Tail(TurnLine(e)) = v
  <2>1. CASE HasTurn(r)
    <3>1. e.lock = None
      BY <2>1 DEF HasTurn
    <3>2. e.waiters # <<>> /\ Head(e.waiters) = r /\ v = Tail(e.waiters)
      BY <2>1, HeadHasTurn
    <3>. QED BY <3>1, <3>2 DEF TurnLine
  <2>2. CASE run[r].pc = "slot"
    <3>1. e.lock = r
      BY <2>2 DEF IInv, HoldsLock
    <3>2. v = e.waiters
      BY <2>2, HolderIsNoWaiter
    <3>3. TurnLine(e) = <<r>> \o e.waiters
      BY <1>1, <2>2, <3>1 DEF TurnLine
    <3>4. <<r>> \o e.waiters # <<>> /\ Head(<<r>> \o e.waiters) = r
          /\ Tail(<<r>> \o e.waiters) = e.waiters
      BY <1>2
    <3>. QED BY <3>2, <3>3, <3>4
  <2>. QED BY <1>1, <2>1, <2>2
<1>12. \A x \in RunsOf(t) : run[x].pc \notin Active
  <2>. SUFFICES ASSUME NEW x \in RunsOf(t), run[x].pc \in Active
                PROVE  FALSE
    OBVIOUS
  <2>1. x \in Runs /\ e.lock = x /\ x # None
    BY PoolAssumption DEF IInv, HoldsLock, RunsOf
  <2>2. CASE HasTurn(r)
    BY <2>1, <2>2 DEF HasTurn
  <2>3. CASE run[r].pc = "slot"
    BY <2>1, <2>3 DEF IInv, HoldsLock, Active
  <2>. QED BY <1>1, <2>2, <2>3
<1>13. Turns!Idle(t)
  BY <1>12 DEF Turns!Idle, Turns!Executing, Phase, TurnPhase, RunsOf, Queued
<1>14. TurnPhase(r)' = "active"
  BY <1>5, <1>8 DEF TurnPhase, Active, Queued
<1>15. Phase' = [Phase EXCEPT ![r] = "active"]
  BY <1>4, <1>14, OtherLinesStay DEF Phase
<1>16. Line' = [Line EXCEPT ![t] = Tail(Line[t])]
  BY <1>1, <1>4, <1>7, <1>10, <1>11, OtherLinesStay DEF Line
<1>17. Line[t] = TurnLine(e)
  BY <1>1 DEF Line
<1>18. Turns!Cardinality(Turns!Executing) < MaxConcurrency
  <2>1. Turns!Cardinality(Turns!Executing) = Cardinality(Turns!Executing)
    BY DEF Turns!Cardinality, Cardinality
  <2>. QED BY <1>1, <2>1, SlotBoundsExecution
<1>19. Line[t] # <<>> /\ Head(Line[t]) = r
  BY <1>11, <1>17
<1>20. Turns!Start(r)
  BY <1>13, <1>15, <1>16, <1>18, <1>19 DEF Turns!Start
<1>. QED BY <1>9, <1>20


\* A run that ends while it waits leaves its line, one that executes leaves no trace in it.
LEMMA FinishLeaves ==
    ASSUME IInv, LinesExact, NEW r \in Runs, NEW result \in {"completed", "cancelled", "failed"},
           NEW left \in BOOLEAN, run[r].pc \in Live, Finish(r, result, left)
    PROVE  LinesExact' /\ (Turns!Drop(r) \/ Turns!End(r))
<1>. DEFINE t == SessionOf[r]
            e == sess[t]
            w == e.waiters
            v == Without(w, r)
            l == IF e.lock = r THEN None ELSE e.lock
            c == IF e.current = r THEN None ELSE e.current
            q == e.cancelReq /\ e.current # r
            b == result = "failed"
            h == IF left /\ e.harness = r THEN None ELSE e.harness
            f == [e EXCEPT !.lock = l, !.waiters = v, !.pending = PendingAfter(r),
                           !.current = c, !.cancelReq = q, !.failed = b, !.harness = h]
            n == [run[r] EXCEPT !.pc = "ended", !.status = result, !.forced = FALSE,
                     !.errored = FALSE, !.yielded = 0,
                     !.stream = IF @ = "open" THEN "closed" ELSE @]
<1>1. t \in Sessions /\ e \in EntryType /\ run[r] \in RunType /\ r # None
  BY Typed, PoolAssumption
<1>2. w \in Seq(Runs) /\ v \in Seq(Runs)
  BY <1>1, WithoutType DEF EntryType
<1>3. f \in EntryType /\ f.lock = l /\ f.waiters = v
  <2>1. PendingAfter(r) \in Nat
    BY <1>1, PendingPositive DEF PendingAfter, EntryType
  <2>2. /\ l \in Runs \cup {None} /\ c \in Runs \cup {None} /\ h \in Runs \cup {None}
        /\ q \in BOOLEAN /\ b \in BOOLEAN
    BY <1>1 DEF EntryType
  <2>. HIDE DEF e, w, v, l, c, q, b, h
  <2>. QED BY <1>1, <1>2, <2>1, <2>2 DEF EntryType
<1>4. n.pc = "ended"
  BY <1>1 DEF RunType
<1>5. run' = [run EXCEPT ![r] = n] /\ sess' = [sess EXCEPT ![t] = Refreshed(f)]
  BY DEF Finish
<1>. HIDE DEF f, n
<1>. DEFINE g == Refreshed(f)
<1>6. g.lock = l /\ g.waiters = v
  BY <1>3, RefreshedFields
<1>7. sess' = [sess EXCEPT ![t] = g]
  BY <1>5
<1>. HIDE DEF g
<1>8. /\ sess'[t] = g /\ run'[r] = n
      /\ \A x \in Runs \ {r} : run'[x] = run[x]
  BY <1>1, <1>5, <1>7 DEF IInv, TypeOK
<1>9. LinesExact'
  <2>1. n.pc # "lock"
    BY <1>4
  <2>2. g.lock # None => g.lock = e.lock /\ g.lock # r
    BY <1>6
  <2>. QED BY <1>5, <1>6, <1>7, <2>1, <2>2, LeavingKeeps
<1>10. TurnPhase(r)' = "over"
  BY <1>4, <1>8 DEF TurnPhase, Active, Queued
<1>11. Phase' = [Phase EXCEPT ![r] = "over"]
  BY <1>5, <1>10, OtherLinesStay DEF Phase
<1>12. Line' = [Line EXCEPT ![t] = TurnLine(e)']
  BY <1>1, <1>5, <1>7, OtherLinesStay DEF Line
<1>13. Line[t] = TurnLine(e) /\ Phase[r] = TurnPhase(r)
  BY <1>1 DEF Line, Phase
<1>14. ASSUME NEW i \in DOMAIN Line[t], Line[t][i] = r, TurnLine(e)' = RemoveAt(Line[t], i),
              run[r].pc \in Queued
       PROVE  Turns!Drop(r)
  <2>1. Phase[r] = "waiting"
    BY <1>13, <1>14 DEF TurnPhase, Queued, Active
  <2>2. Line' = [Line EXCEPT ![t] = RemoveAt(Line[t], i)]
    BY <1>12, <1>14
  <2>. QED BY <1>11, <1>14, <2>1, <2>2 DEF Turns!Drop, Turns!RemoveAt, RemoveAt
<1>15. CASE run[r].pc = "lock"
  <2>0. DOMAIN w = 1..Len(w)
    BY <1>2
  <2>1. PICK i \in 1..Len(w) : w[i] = r
    BY <1>1, <1>15, <2>0 DEF LinesExact, RunsOf
  <2>2. \A j \in DOMAIN w : w[j] = r => j = i
    BY <1>1, <2>0, <2>1 DEF LinesExact
  <2>3. v = RemoveAt(w, i)
    <3>. HIDE DEF w
    <3>. QED BY <2>0, <2>1, <2>2, WithoutOnce
  <2>5. e.lock # None => e.lock \in Runs \ {r} /\ run[e.lock].pc # "lock"
    BY <1>1, <1>15 DEF LinesExact, RunsOf, Active
  <2>6. l = e.lock
    BY <1>1, <2>5
  <2>7. e.lock # None => run'[e.lock] = run[e.lock]
    BY <1>8, <2>5
  <2>8. CASE e.lock # None /\ run[e.lock].pc = "slot"
    <3>1. TurnLine(e) = <<e.lock>> \o w /\ TurnLine(e)' = <<e.lock>> \o v
      BY <1>6, <1>8, <2>6, <2>7, <2>8 DEF TurnLine
    <3>2. /\ i + 1 \in 1..Len(<<e.lock>> \o w) /\ (<<e.lock>> \o w)[i + 1] = r
          /\ RemoveAt(<<e.lock>> \o w, i + 1) = <<e.lock>> \o v
          /\ <<e.lock>> \o w \in Seq(Runs)
      <4>1. PICK x \in Runs : x = e.lock
        BY <2>5, <2>8
      <4>. HIDE DEF w, v, e
      <4>2. w \in Seq(Runs)
        BY <1>2
      <4>3. /\ <<x>> \o w \in Seq(Runs) /\ i + 1 \in 1..Len(<<x>> \o w)
            /\ (<<x>> \o w)[i + 1] = w[i]
            /\ RemoveAt(<<x>> \o w, i + 1) = <<x>> \o RemoveAt(w, i)
        BY <4>2, OtherLeaves
      <4>. QED BY <2>1, <2>3, <4>1, <4>3
    <3>3. i + 1 \in DOMAIN (<<e.lock>> \o w)
      BY <3>2
    <3>. QED BY <1>9, <1>13, <1>14, <1>15, <3>1, <3>2, <3>3 DEF Queued
  <2>9. CASE ~(e.lock # None /\ run[e.lock].pc = "slot")
    <3>1. TurnLine(e) = w /\ TurnLine(e)' = v
      BY <1>6, <1>8, <2>6, <2>7, <2>9 DEF TurnLine
    <3>. QED BY <1>9, <1>13, <1>14, <1>15, <2>0, <2>1, <2>3, <3>1 DEF Queued
  <2>. QED BY <2>8, <2>9
<1>16. CASE run[r].pc = "slot"
  <2>1. e.lock = r /\ v = w
    BY <1>16, HolderIsNoWaiter DEF IInv, HoldsLock
  <2>2. TurnLine(e) = <<r>> \o w /\ TurnLine(e)' = w
    BY <1>1, <1>6, <1>8, <1>16, <2>1 DEF TurnLine
  <2>3. /\ 1 \in DOMAIN (<<r>> \o w) /\ (<<r>> \o w)[1] = r
        /\ <<r>> \o w \in Seq(Runs) /\ <<r>> \o w # <<>>
        /\ Tail(<<r>> \o w) = w
    <3>. HIDE DEF w
    <3>. QED BY <1>2
  <2>4. RemoveAt(<<r>> \o w, 1) = w
    <3>. HIDE DEF w
    <3>. QED BY <2>3, HeadLeaves
  <2>. QED BY <1>9, <1>13, <1>14, <1>16, <2>2, <2>3, <2>4 DEF Queued
<1>17. CASE run[r].pc \in Active
  <2>1. e.lock = r /\ v = w
    BY <1>17, HolderIsNoWaiter DEF IInv, HoldsLock, Active
  <2>2. TurnLine(e) = w /\ TurnLine(e)' = w
    BY <1>1, <1>6, <1>8, <1>17, <2>1 DEF TurnLine, Active
  <2>3. Line' = Line
    BY <1>1, <1>12, <2>2 DEF Line
  <2>4. Phase[r] = "active"
    BY <1>13, <1>17 DEF TurnPhase, Active, Queued
  <2>. QED BY <1>9, <1>11, <2>3, <2>4 DEF Turns!End
<1>. QED BY <1>15, <1>16, <1>17 DEF Live, Queued


\* Events, their consumer and the callback of a finished task move no run.
LEMMA EventsQuiet ==
    ASSUME IInv, NEW r \in Runs,
           \/ Consume(r) \/ Occupy(r) \/ PutResumes(r) \/ TaskDone(r)
           \/ \E fatal \in BOOLEAN : Yield(r, fatal)
    PROVE  Quiet
<1>. DEFINE t == SessionOf[r]
<1>0. t \in Sessions /\ sess[t] \in EntryType /\ run[r] \in RunType
  BY Typed
<1>1. CASE Consume(r) \/ PutResumes(r) \/ \E fatal \in BOOLEAN : Yield(r, fatal)
  <2>1. SameLocks
    BY <1>1 DEF Consume, PutResumes, Yield, SameLocks
  <2>2. CASE Consume(r)
    <3>. DEFINE n == [run[r] EXCEPT !.items = @ - 1]
    <3>1. n.pc = run[r].pc /\ run' = [run EXCEPT ![r] = n]
      BY <1>0, <2>2 DEF Consume, RunType
    <3>. HIDE DEF n
    <3>. QED BY <2>1, <3>1, OneRunQuiet DEF Quiet
  <2>3. CASE PutResumes(r)
    <3>. DEFINE n == [run[r] EXCEPT !.items = @ + 1, !.pc = "gen"]
    <3>1. {run[r].pc, n.pc} \subseteq Active /\ run' = [run EXCEPT ![r] = n]
      BY <1>0, <2>3 DEF PutResumes, RunType, Active
    <3>. HIDE DEF n
    <3>. QED BY <2>1, <3>1, OneRunQuiet DEF Quiet
  <2>4. ASSUME NEW fatal \in BOOLEAN, Yield(r, fatal)
        PROVE  Quiet
    <3>. DEFINE n == [run[r] EXCEPT !.yielded = @ + 1, !.errored = @ \/ fatal,
                         !.items = IF @ < QueueSize THEN @ + 1 ELSE @,
                         !.pc = IF run[r].items < QueueSize THEN "gen" ELSE "put"]
    <3>1. {run[r].pc, n.pc} \subseteq Active /\ run' = [run EXCEPT ![r] = n]
      BY <1>0, <2>4 DEF Yield, RunType, Active
    <3>. HIDE DEF n
    <3>. QED BY <2>1, <3>1, OneRunQuiet DEF Quiet
  <2>. QED BY <1>1, <2>2, <2>3, <2>4
<1>2. CASE Occupy(r)
  <2>. DEFINE n == [run[r] EXCEPT !.pc = "gen"]
              g == [sess[t] EXCEPT !.harness = r]
  <2>1. {run[r].pc, n.pc} \subseteq Active /\ run' = [run EXCEPT ![r] = n]
    BY <1>0, <1>2 DEF Occupy, RunType, Active
  <2>2. g.lock = sess[t].lock /\ g.waiters = sess[t].waiters
    BY <1>0 DEF EntryType
  <2>3. sess' = [sess EXCEPT ![t] = g]
    BY <1>0, <1>2 DEF Occupy, IInv, TypeOK
  <2>. HIDE DEF n, g
  <2>. QED BY <1>0, <2>1, <2>2, <2>3, OneRunQuiet, OneEntryQuiet DEF Quiet
<1>3. CASE TaskDone(r)
  <2>. DEFINE n == [run[r] EXCEPT !.pc = "gone"]
  <2>1. {run[r].pc, n.pc} \subseteq {"ended", "gone"} /\ run' = [run EXCEPT ![r] = n]
    BY <1>0, <1>3 DEF TaskDone, RunType
  <2>2. /\ Refreshed(sess[t]).lock = sess[t].lock
        /\ Refreshed(sess[t]).waiters = sess[t].waiters
    BY <1>0, RefreshedFields
  <2>3. sess' = [sess EXCEPT ![t] = Refreshed(sess[t])]
    BY <1>3 DEF TaskDone
  <2>. HIDE DEF n
  <2>. QED BY <1>0, <2>1, <2>2, <2>3, OneRunQuiet, OneEntryQuiet DEF Quiet
<1>. QED BY <1>1, <1>2, <1>3

\* A step of the pool is a step of the abstract scheduler or changes nothing it sees.
LEMMA PoolStepIsTurn ==
    ASSUME IInv, LinesExact, [Next]_vars
    PROVE  LinesExact' /\ (Turns!TurnNext \/ UNCHANGED <<Phase, Line>>)
<1>1. ASSUME NEW s \in Sessions, Caller(s) \/ SessionStep(s)
      PROVE  LinesExact' /\ UNCHANGED <<Phase, Line>>
  BY <1>1, SessionQuiet, QuietKeeps
<1>2. CASE Shutdown
  BY <1>2, ShutdownQuiet, QuietKeeps
<1>3. CASE UNCHANGED vars
  <2>1. Quiet
    BY <1>3 DEF vars, Quiet, SameRuns, SameLocks
  <2>. QED BY <2>1, QuietKeeps
<1>4. ASSUME NEW r \in Runs, Submit(r) \/ RunStep(r) \/ Consume(r)
      PROVE  LinesExact' /\ (Turns!TurnNext \/ UNCHANGED <<Phase, Line>>)
  <2>1. CASE Submit(r)
    BY <2>1, SubmitEnqueues DEF Turns!TurnNext
  <2>2. CASE AwaitSlot(r)
    BY <2>2, AwaitSlotStutters
  <2>3. CASE Begin(r)
    BY <2>3, BeginStarts DEF Turns!TurnNext
  <2>4. CASE \/ Consume(r) \/ Occupy(r) \/ PutResumes(r) \/ TaskDone(r)
             \/ \E fatal \in BOOLEAN : Yield(r, fatal)
    BY <2>4, EventsQuiet, QuietKeeps
  <2>5. ASSUME NEW result \in {"completed", "cancelled", "failed"}, NEW left \in BOOLEAN,
               run[r].pc \in Live, Finish(r, result, left)
        PROVE  LinesExact' /\ Turns!TurnNext
    BY <2>5, FinishLeaves DEF Turns!TurnNext
  <2>6. CASE Refused(r)
    BY <2>5, <2>6 DEF Refused, HasTurn, Live, Queued
  <2>7. CASE AlreadyRunning(r)
    BY <2>5, <2>7 DEF AlreadyRunning, Live, Active
  <2>8. CASE GeneratorEnds(r)
    <3>1. Outcome(r, FALSE) \in {"completed", "cancelled", "failed"}
      BY DEF Outcome
    <3>. QED BY <2>5, <2>8, <3>1 DEF GeneratorEnds, Live, Active
  <2>9. ASSUME NEW flag \in BOOLEAN,
               PutRefused(r, flag) \/ GeneratorRaises(r, flag) \/ Cancelled(r, flag)
        PROVE  LinesExact' /\ Turns!TurnNext
    <3>1. CASE PutRefused(r, flag)
      <4>1. Outcome(r, flag) \in {"completed", "cancelled", "failed"}
        BY DEF Outcome
      <4>. QED BY <2>5, <3>1, <4>1 DEF PutRefused, Live, Active
    <3>2. CASE GeneratorRaises(r, flag)
      BY <2>5, <3>2 DEF GeneratorRaises, Live, Active
    <3>3. CASE Cancelled(r, flag)
      BY <2>5, <3>3 DEF Cancelled
    <3>. QED BY <2>9, <3>1, <3>2, <3>3
  <2>. QED BY <1>4, <2>1, <2>2, <2>3, <2>4, <2>6, <2>7, <2>8, <2>9 DEF RunStep
<1>. QED BY <1>1, <1>2, <1>3, <1>4 DEF Next

\* AsyncAgentPool keeps what TurnScheduler promises: the runs of a session are started one at
\* a time in the order of their submission, never more than max_concurrency of all sessions
\* are executed, and a run leaves its line by starting or by being dropped.
THEOREM PoolImplementsTurns == Spec => ImplementsTurns
<1>1. Init => LinesExact /\ Turns!TurnInit
  <2>. SUFFICES ASSUME Init
                PROVE  LinesExact /\ Turns!TurnInit
    OBVIOUS
  <2>1. \A s \in Sessions : sess[s].waiters = <<>> /\ sess[s].lock = None
    BY DEF Init, FreshEntry
  <2>2. \A r \in Runs : run[r].pc = "new"
    BY DEF Init, FreshRun
  <2>3. LinesExact
    BY <2>1, <2>2 DEF LinesExact, RunsOf
  <2>4. Phase = [r \in Runs |-> "new"]
    BY <2>2 DEF Phase, TurnPhase, Active, Queued
  <2>5. Line = [s \in Sessions |-> <<>>]
    BY <2>1 DEF Line, TurnLine
  <2>. QED BY <2>3, <2>4, <2>5 DEF Turns!TurnInit
<1>2. IInv /\ LinesExact /\ [Next]_vars => LinesExact' /\ [Turns!TurnNext]_<<Phase, Line>>
  BY PoolStepIsTurn
<1>. QED
  BY <1>1, <1>2, PoolInvariant, PTL DEF Spec, ImplementsTurns, Turns!TurnSpec, Turns!turnVars

\* The waiters of a turn lock are the runs that wait for it, each once.
THEOREM LinesStayExact == Spec => []LinesExact
<1>1. Init => LinesExact
  BY DEF Init, FreshEntry, FreshRun, LinesExact, RunsOf
<1>2. IInv /\ LinesExact /\ [Next]_vars => LinesExact'
  BY PoolStepIsTurn
<1>. QED BY <1>1, <1>2, PoolInvariant, PTL DEF Spec

\* A session is executed by one run at a time, knows who waits for it, shows the state it is in
\* and closes empty.
THEOREM SessionsSound == Spec => []SessionsAreSound
<1>1. TurnExclusion /\ LinesExact /\ StateFresh /\ ClosedIsDrained => SessionsAreSound
  BY DEF SessionsAreSound
<1>. QED BY <1>1, TurnsExclusive, LinesStayExact, StatesFresh, ClosedSessionsDrained, PTL
=============================================================================
