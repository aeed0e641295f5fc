------------------------ MODULE DurableRuntimeProofs ------------------------
(* Theorems about DurableRuntime for every set of runs and messages, every number of events, *)
(* crashes and failures.                                                                     *)
EXTENDS DurableRuntime, FiniteSetTheorems, SequenceTheorems, TLAPS

-----------------------------------------------------------------------------
(* Lines of distinct elements *)

\* One that joins a line of distinct elements
LEMMA Joined ==
    ASSUME NEW S, NEW q \in Seq(S), NEW c \in S
    PROVE  /\ Append(q, c) \in Seq(S)
           /\ Range(Append(q, c)) = Range(q) \cup {c}
           /\ IsInjective(q) /\ c \notin Range(q) => IsInjective(Append(q, c))
<1>1. /\ Append(q, c) \in Seq(S) /\ Len(Append(q, c)) = Len(q) + 1
      /\ \A i \in 1..Len(q) : Append(q, c)[i] = q[i]
      /\ Append(q, c)[Len(q) + 1] = c
  BY AppendProperties
<1>2. /\ Len(q) \in Nat /\ DOMAIN q = 1..Len(q) /\ DOMAIN Append(q, c) = 1..(Len(q) + 1)
  BY <1>1
<1>3. \A i \in 1..(Len(q) + 1) : i \in 1..Len(q) \/ i = Len(q) + 1
  BY <1>2
<1>4. Range(Append(q, c)) = Range(q) \cup {c}
  BY <1>1, <1>2, <1>3 DEF Range
<1>5. ASSUME IsInjective(q), c \notin Range(q)
      PROVE  IsInjective(Append(q, c))
  BY <1>1, <1>2, <1>3, <1>5 DEF IsInjective, Range
<1>. QED BY <1>1, <1>4, <1>5

\* The first of a line of distinct elements leaves it.
LEMMA Served ==
    ASSUME NEW S, NEW q \in Seq(S), q # <<>>, IsInjective(q)
    PROVE  /\ Head(q) \in S /\ Tail(q) \in Seq(S)
           /\ Head(q) \in Range(q)
           /\ Range(Tail(q)) = Range(q) \ {Head(q)}
           /\ IsInjective(Tail(q))
<1>1. /\ Head(q) \in S /\ Tail(q) \in Seq(S) /\ Len(Tail(q)) = Len(q) - 1
      /\ \A i \in 1..Len(Tail(q)) : Tail(q)[i] = q[i + 1]
  BY HeadTailProperties
<1>2. Len(q) \in Nat \ {0} /\ DOMAIN q = 1..Len(q) /\ DOMAIN Tail(q) = 1..(Len(q) - 1)
  BY <1>1, EmptySeq
<1>3. Head(q) = q[1] /\ 1 \in DOMAIN q
  BY <1>2
<1>4. \A j \in DOMAIN q : j # 1 => j - 1 \in DOMAIN Tail(q) /\ Tail(q)[j - 1] = q[j]
  BY <1>1, <1>2
<1>5. \A i \in DOMAIN Tail(q) : i + 1 \in DOMAIN q /\ i + 1 # 1 /\ Tail(q)[i] = q[i + 1]
  BY <1>1, <1>2
<1>6. Range(Tail(q)) = Range(q) \ {Head(q)}
  <2>1. \A e \in Range(Tail(q)) : e \in Range(q) /\ e # Head(q)
    BY <1>3, <1>5 DEF Range, IsInjective
  <2>2. \A e \in Range(q) : e # Head(q) => e \in Range(Tail(q))
    BY <1>3, <1>4 DEF Range
  <2>. QED BY <2>1, <2>2
<1>7. IsInjective(Tail(q))
  <2>. SUFFICES ASSUME NEW i \in DOMAIN Tail(q), NEW j \in DOMAIN Tail(q), Tail(q)[i] = Tail(q)[j]
                PROVE  i = j
    BY DEF IsInjective
  <2>1. i + 1 = j + 1
    BY <1>5 DEF IsInjective
  <2>. QED BY <2>1, <1>2
<1>. QED BY <1>1, <1>3, <1>6, <1>7 DEF Range

\* One leaves a line of distinct elements, wherever it stands.
LEMMA Left ==
    ASSUME NEW S, NEW q \in Seq(S), NEW c, IsInjective(q)
    PROVE  /\ Without(q, c) \in Seq(S)
           /\ Range(Without(q, c)) = Range(q) \ {c}
           /\ IsInjective(Without(q, c))
<1>0. Len(q) \in Nat /\ DOMAIN q = 1..Len(q) /\ \A j \in DOMAIN q : q[j] \in S
  BY LenProperties, ElementOfSeq
<1>1. CASE \E i \in DOMAIN q : q[i] = c
  <2>. DEFINE i == CHOOSE j \in DOMAIN q : q[j] = c
              a == SubSeq(q, 1, i - 1)
              b == SubSeq(q, i + 1, Len(q))
  <2>1. i \in 1..Len(q) /\ q[i] = c
    BY <1>0, <1>1
  <2>2. Without(q, c) = a \o b
    BY <1>1 DEF Without, RemoveAt
  <2>. HIDE DEF i
  <2>3. /\ a \in Seq(S) /\ Len(a) = i - 1
        /\ \A j \in 1..(i - 1) : a[j] = q[j]
    <3>1. /\ 1 \in Int /\ i - 1 \in Int
          /\ \A j \in 1..(i - 1) : q[j] \in S
      BY <1>0, <2>1
    <3>2. /\ SubSeq(q, 1, i - 1) \in Seq(S)
          /\ Len(SubSeq(q, 1, i - 1)) = IF 1 <= i - 1 THEN (i - 1) - 1 + 1 ELSE 0
          /\ \A j \in 1..((i - 1) - 1 + 1) : SubSeq(q, 1, i - 1)[j] = q[1 + j - 1]
      BY <3>1, SubSeqProperties
    <3>3. (i - 1) - 1 + 1 = i - 1 /\ (IF 1 <= i - 1 THEN (i - 1) - 1 + 1 ELSE 0) = i - 1
      BY <2>1
    <3>4. \A j \in 1..(i - 1) : 1 + j - 1 = j
      BY <2>1
    <3>. QED BY <3>2, <3>3, <3>4
  <2>4. /\ b \in Seq(S) /\ Len(b) = Len(q) - i
        /\ \A j \in 1..(Len(q) - i) : b[j] = q[i + j]
    <3>1. /\ i + 1 \in Int /\ Len(q) \in Int
          /\ \A j \in (i + 1)..Len(q) : q[j] \in S
      BY <1>0, <2>1
    <3>2. /\ SubSeq(q, i + 1, Len(q)) \in Seq(S)
          /\ Len(SubSeq(q, i + 1, Len(q))) = IF i + 1 <= Len(q) THEN Len(q) - (i + 1) + 1 ELSE 0
          /\ \A j \in 1..(Len(q) - (i + 1) + 1) : SubSeq(q, i + 1, Len(q))[j] = q[(i + 1) + j - 1]
      BY <3>1, SubSeqProperties
    <3>3. /\ Len(q) - (i + 1) + 1 = Len(q) - i
          /\ (IF i + 1 <= Len(q) THEN Len(q) - (i + 1) + 1 ELSE 0) = Len(q) - i
      <4>1. Len(q) \in Nat /\ i \in Nat /\ i <= Len(q)
        BY <1>0, <2>1
      <4>. QED BY <4>1
    <3>4. \A j \in 1..(Len(q) - i) : (i + 1) + j - 1 = i + j
      BY <1>0, <2>1
    <3>. QED BY <3>2, <3>3, <3>4
  <2>. DEFINE w == a \o b
  <2>. HIDE DEF a, b
  <2>5. /\ w \in Seq(S) /\ Len(w) = Len(q) - 1
        /\ \A j \in 1..(Len(q) - 1) : w[j] = IF j < i THEN q[j] ELSE q[j + 1]
    <3>1. /\ w \in Seq(S) /\ Len(w) = Len(a) + Len(b)
          /\ \A j \in 1..(Len(a) + Len(b)) : w[j] = IF j <= Len(a) THEN a[j] ELSE b[j - Len(a)]
      BY <2>3, <2>4, ConcatProperties, Zenon
    <3>2. Len(a) + Len(b) = Len(q) - 1
      BY <1>0, <2>1, <2>3, <2>4
    <3>3. ASSUME NEW j \in 1..(Len(q) - 1)
          PROVE  w[j] = IF j < i THEN q[j] ELSE q[j + 1]
      <4>1. CASE j < i
        <5>1. j \in 1..(i - 1) /\ j <= Len(a)
          BY <1>0, <2>1, <2>3, <4>1
        <5>. QED BY <3>1, <3>2, <5>1, <2>3, <4>1
      <4>2. CASE ~(j < i)
        <5>1. j - (i - 1) \in 1..(Len(q) - i) /\ ~(j <= Len(a)) /\ i + (j - (i - 1)) = j + 1
          BY <1>0, <2>1, <2>3, <4>2
        <5>2. w[j] = b[j - Len(a)]
          BY <3>1, <3>2, <5>1
        <5>3. b[j - (i - 1)] = q[i + (j - (i - 1))]
          BY <5>1, <2>4
        <5>. QED BY <5>1, <5>2, <5>3, <2>3, <4>2
      <4>. QED BY <4>1, <4>2
    <3>. QED BY <3>1, <3>2, <3>3
  <2>. HIDE DEF w
  <2>6. DOMAIN w = 1..(Len(q) - 1)
    BY <2>5, LenProperties
  <2>7. \A j \in DOMAIN q : j # i =>
            \E k \in DOMAIN w : w[k] = q[j]
    <3>. SUFFICES ASSUME NEW j \in DOMAIN q, j # i PROVE \E k \in DOMAIN w : w[k] = q[j]
      OBVIOUS
    <3>1. CASE j < i
      <4>1. j \in DOMAIN w /\ w[j] = q[j]
        BY <1>0, <2>1, <2>5, <2>6, <3>1
      <4>. QED BY <4>1
    <3>2. CASE j > i
      <4>1. j - 1 \in 1..(Len(q) - 1) /\ ~(j - 1 < i) /\ (j - 1) + 1 = j
        BY <1>0, <2>1, <3>2
      <4>2. w[j - 1] = q[j]
        BY <4>1, <2>5
      <4>. QED BY <4>1, <4>2, <2>6
    <3>. QED BY <3>1, <3>2, <1>0, <2>1
  <2>. DEFINE at(k) == IF k < i THEN k ELSE k + 1
  <2>8. \A k \in DOMAIN w : at(k) \in DOMAIN q /\ at(k) # i /\ w[k] = q[at(k)]
    BY <1>0, <2>1, <2>5, <2>6
  <2>9. \A k, l \in DOMAIN w : at(k) = at(l) => k = l
    BY <1>0, <2>1, <2>6
  <2>. HIDE DEF at
  <2>10. Range(w) = Range(q) \ {c}
    BY <2>1, <2>7, <2>8, <1>0 DEF Range, IsInjective
  <2>11. IsInjective(w)
    BY <2>8, <2>9 DEF IsInjective
  <2>. QED BY <2>2, <2>5, <2>10, <2>11 DEF w
<1>2. CASE ~\E i \in DOMAIN q : q[i] = c
  BY <1>2 DEF Without, Range
<1>. QED BY <1>1, <1>2

\* Two neighbours of a line change places.
LEMMA Swapped ==
    ASSUME NEW S, NEW q \in Seq(S), IsInjective(q), NEW i \in 1..(Len(q) - 1),
           NEW w, w = [q EXCEPT ![i] = q[i + 1], ![i + 1] = q[i]]
    PROVE  w \in Seq(S) /\ Range(w) = Range(q) /\ IsInjective(w)
<1>1. /\ Len(q) \in Nat /\ DOMAIN q = 1..Len(q) /\ q \in [1..Len(q) -> S]
      /\ \A j \in DOMAIN q : q[j] \in S
  BY LenProperties, ElementOfSeq
<1>2. i \in DOMAIN q /\ i + 1 \in DOMAIN q /\ i # i + 1
  BY <1>1
<1>. DEFINE at(j) == IF j = i THEN i + 1 ELSE IF j = i + 1 THEN i ELSE j
<1>3. DOMAIN w = DOMAIN q /\ \A j \in DOMAIN q : w[j] = q[at(j)]
  BY <1>1, <1>2
<1>4. \A j \in DOMAIN q : at(j) \in DOMAIN q /\ at(at(j)) = j
  BY <1>2
<1>5. w \in [1..Len(q) -> S]
  BY <1>1, <1>2
<1>6. w \in Seq(S)
  BY <1>1, <1>5, SeqDef
<1>. HIDE DEF at
<1>7. IsInjective(w)
  <2>. SUFFICES ASSUME NEW j \in DOMAIN q, NEW k \in DOMAIN q, w[j] = w[k]
                PROVE  j = k
    BY <1>3 DEF IsInjective
  <2>1. at(j) = at(k)
    BY <1>3, <1>4 DEF IsInjective
  <2>. QED BY <2>1, <1>4
<1>8. Range(w) \subseteq Range(q)
  BY <1>3, <1>4 DEF Range
<1>9. Range(q) \subseteq Range(w)
  <2>1. \A j \in DOMAIN q : w[at(j)] = q[j]
    BY <1>3, <1>4
  <2>. QED BY <2>1, <1>3, <1>4 DEF Range
<1>. QED BY <1>6, <1>7, <1>8, <1>9

\* Two lines without a common element
LEMMA Joint ==
    ASSUME NEW S, NEW p \in Seq(S), NEW q \in Seq(S)
    PROVE  /\ p \o q \in Seq(S)
           /\ Range(p \o q) = Range(p) \cup Range(q)
           /\ IsInjective(p) /\ IsInjective(q) /\ Range(p) \cap Range(q) = {}
                => IsInjective(p \o q)
<1>. DEFINE w == p \o q
<1>1. /\ w \in Seq(S) /\ Len(w) = Len(p) + Len(q)
      /\ \A j \in 1..(Len(p) + Len(q)) : w[j] = IF j <= Len(p) THEN p[j] ELSE q[j - Len(p)]
  BY ConcatProperties, Zenon
<1>2. /\ Len(p) \in Nat /\ DOMAIN p = 1..Len(p) /\ Len(q) \in Nat /\ DOMAIN q = 1..Len(q)
      /\ DOMAIN w = 1..(Len(p) + Len(q))
  BY <1>1, LenProperties
<1>. HIDE DEF w
<1>3. \A j \in DOMAIN p : j \in DOMAIN w /\ w[j] = p[j]
  BY <1>1, <1>2
<1>4. \A j \in DOMAIN q : Len(p) + j \in DOMAIN w /\ w[Len(p) + j] = q[j]
  <2>. SUFFICES ASSUME NEW j \in DOMAIN q
                PROVE  Len(p) + j \in DOMAIN w /\ w[Len(p) + j] = q[j]
    OBVIOUS
  <2>1. /\ Len(p) + j \in 1..(Len(p) + Len(q)) /\ ~(Len(p) + j <= Len(p))
        /\ (Len(p) + j) - Len(p) = j
    BY <1>2
  <2>. QED BY <2>1, <1>1, <1>2
<1>5. \A j \in DOMAIN w : \/ j \in DOMAIN p /\ w[j] = p[j]
                          \/ j \notin DOMAIN p /\ j - Len(p) \in DOMAIN q /\ w[j] = q[j - Len(p)]
  <2>. SUFFICES ASSUME NEW j \in DOMAIN w
                PROVE  \/ j \in DOMAIN p /\ w[j] = p[j]
                       \/ j \notin DOMAIN p /\ j - Len(p) \in DOMAIN q /\ w[j] = q[j - Len(p)]
    OBVIOUS
  <2>1. CASE j <= Len(p)
    BY <1>1, <1>2, <2>1
  <2>2. CASE ~(j <= Len(p))
    <3>1. j - Len(p) \in DOMAIN q /\ j \notin DOMAIN p /\ j \in 1..(Len(p) + Len(q))
      BY <1>2, <2>2
    <3>. QED BY <3>1, <2>2, <1>1
  <2>. QED BY <2>1, <2>2
<1>6. Range(w) = Range(p) \cup Range(q)
  <2>1. Range(w) \subseteq Range(p) \cup Range(q)
    BY <1>5 DEF Range
  <2>2. Range(p) \subseteq Range(w) /\ Range(q) \subseteq Range(w)
    BY <1>3, <1>4 DEF Range
  <2>. QED BY <2>1, <2>2
<1>7. ASSUME IsInjective(p), IsInjective(q), Range(p) \cap Range(q) = {}
      PROVE  IsInjective(w)
  <2>. SUFFICES ASSUME NEW j \in DOMAIN w, NEW k \in DOMAIN w, w[j] = w[k]
                PROVE  j = k
    BY DEF IsInjective
  <2>0. \A a \in DOMAIN p, b \in DOMAIN q : p[a] # q[b]
    BY <1>7 DEF Range
  <2>1. j \in DOMAIN p <=> k \in DOMAIN p
    BY <1>5, <2>0
  <2>2. CASE j \in DOMAIN p
    BY <1>5, <1>7, <2>1, <2>2 DEF IsInjective
  <2>3. CASE j \notin DOMAIN p
    <3>1. j - Len(p) = k - Len(p)
      BY <1>5, <1>7, <2>1, <2>3 DEF IsInjective
    <3>. QED BY <3>1, <1>2
  <2>. QED BY <2>2, <2>3
<1>. QED BY <1>1, <1>6, <1>7 DEF w

\* What Contains says in terms of the elements of a line
LEMMA ContainsIs ==
    ASSUME NEW S, NEW q \in Seq(S), NEW x
    PROVE  Contains(q, x) <=> x \in Range(q)
<1>1. DOMAIN q = 1..Len(q)
  BY LenProperties
<1>. QED BY <1>1 DEF Contains, Range

-----------------------------------------------------------------------------
(* The invariant, on the side of the runs and on the side of the queues *)

\* One failure more
LEMMA FailsCounts ==
    ASSUME TypeOK, Fails
    PROVE  /\ faults' \in [crashes : 0..MaxCrashes, failures : 0..MaxFailures]
           /\ faults'.failures > 0 /\ ~Healthy'
<1>1. /\ faults \in [crashes : 0..MaxCrashes, failures : 0..MaxFailures]
      /\ faults.failures < MaxFailures /\ faults' = [faults EXCEPT !.failures = faults.failures + 1]
  BY DEF TypeOK, Fails
<1>2. MaxFailures \in Nat /\ faults.failures \in Nat
  BY <1>1, RuntimeAssumption
<1>3. faults.failures + 1 \in 0..MaxFailures /\ faults.failures + 1 > 0 /\ faults.failures + 1 # 0
  BY <1>1, <1>2
<1>4. faults'.failures = faults.failures + 1
  BY <1>1
<1>5. faults' \in [crashes : 0..MaxCrashes, failures : 0..MaxFailures]
  BY <1>1, <1>3
<1>. QED BY <1>3, <1>4, <1>5 DEF Healthy

\* What a step does to the counters, unless the process stops
GoesOn == faults' = faults \/ Fails

\* A step that does not touch the queues, nor what was handed to the session
LEMMA RunSideKeeps ==
    ASSUME IInv, UNCHANGED <<pending, consumed, ops, seen>>,
           session'.queue = session.queue, GoesOn
    PROVE  QueuesExact' /\ HandedExact'
<1>1. QueuesExact'
  BY DEF IInv, QueuesExact, Fresh
<1>2. HandedExact'
  <2>1. CASE Fails
    BY <2>1, FailsCounts DEF HandedExact, IInv
  <2>2. CASE faults' = faults
    BY <2>2 DEF HandedExact, IInv, Healthy
  <2>. QED BY <2>1, <2>2 DEF GoesOn
<1>. QED BY <1>1, <1>2

\* A step that touches neither the runs nor the host
LEMMA QueueSideKeeps ==
    ASSUME IInv, UNCHANGED <<row, runVars, poolVars, host>>, GoesOn
    PROVE  RowsExact' /\ RunsExact' /\ HostExact'
<1>1. faults.failures > 0 => faults'.failures > 0
  BY FailsCounts DEF GoesOn, IInv
<1>2. UNCHANGED <<row, task, final, aborts, pool, result, unread, host>>
  BY DEF runVars, poolVars
<1>3. RowsExact'
  BY <1>1, <1>2 DEF IInv, RowsExact
<1>4. RunsExact'
  <2>1. /\ \A r : Held(r)' <=> Held(r)
        /\ \A r : Final(r)' = Final(r)
    BY <1>2 DEF Held, Final
  <2>. QED BY <1>1, <1>2, <2>1 DEF IInv, RunsExact
<1>5. HostExact'
  BY <1>2 DEF IInv, HostExact
<1>. QED BY <1>3, <1>4, <1>5

-----------------------------------------------------------------------------
(* The queues *)

\* The types of what a step of the queues changes, by part
LEMMA QueueTypes ==
    ASSUME IInv, UNCHANGED <<row, runVars, poolVars, host>>, GoesOn,
           pending' \in [Kinds -> Seq(Messages)], consumed' \subseteq Messages,
           seen' \in Seq(Messages),
           session' \in [loaded : BOOLEAN, harness : Runs \cup {None},
                         queue : [Kinds -> Seq(Messages)]],
           ops' \subseteq [run : Runs, kind : Kinds, msg : Messages, stage : Stages \cup Runs],
           \A o, p \in ops' : o = p
    PROVE  TypeOK'
<1>1. faults' \in [crashes : 0..MaxCrashes, failures : 0..MaxFailures]
  BY FailsCounts DEF GoesOn, IInv, TypeOK
<1>. QED BY <1>1 DEF IInv, TypeOK, runVars, poolVars

\* The call that holds the lock goes on or returns.
LEMMA CallMoves ==
    ASSUME IInv, NEW o \in ops, NEW stage
    PROVE  /\ ops = {o}
           /\ o \in [run : Runs, kind : Kinds, msg : Messages, stage : Stages \cup Runs]
           /\ Returns(o) => ops' = {}
           /\ Moves(o, stage) => ops' = {[o EXCEPT !.stage = stage]}
<1>1. ops = {o}
  BY DEF IInv, TypeOK
<1>. QED BY <1>1 DEF IInv, TypeOK, Returns, Moves

\* A message that waits in no queue and was never consumed has not been handed to the session.
LEMMA FreshIsNew ==
    ASSUME IInv, Healthy, NEW m \in Messages, m \notin consumed,
           \A o \in ops : o.msg = m => o.stage # "consume"
    PROVE  m \notin Range(seen) /\ \A k \in Kinds : m \notin Range(session.queue[k])
<1>1. \A x \in Range(seen) \cup UNION {Range(session.queue[k]) : k \in Kinds} :
          x \in consumed \/ \E o \in ops : o.msg = x /\ o.stage = "consume"
  BY DEF IInv, HandedExact
<1>. QED BY <1>1

\* Fresh, in terms of the elements of the queues
LEMMA FreshIs ==
    ASSUME TypeOK, NEW m
    PROVE  Fresh(m) <=> m \notin consumed /\ \A k \in Kinds : m \notin Range(pending[k])
BY ContainsIs DEF TypeOK, Fresh

\* A message joins a queue.
LEMMA Joins ==
    ASSUME IInv, NEW k \in Kinds, NEW m \in Messages, Fresh(m),
           pending' = [pending EXCEPT ![k] = Append(@, m)], consumed' = consumed
    PROVE  /\ pending' \in [Kinds -> Seq(Messages)]
           /\ \A j \in Kinds : IsInjective(pending'[j]) /\ Range(pending'[j]) \cap consumed' = {}
           /\ Range(pending'["steer"]) \cap Range(pending'["follow_up"]) = {}
           /\ pending'[k] # <<>>
           /\ pending[k] = <<>> => Head(pending'[k]) = m
<1>1. /\ pending \in [Kinds -> Seq(Messages)]
      /\ m \notin consumed /\ \A j \in Kinds : m \notin Range(pending[j])
  BY FreshIs DEF IInv, TypeOK
<1>2. /\ Append(pending[k], m) \in Seq(Messages)
      /\ Range(Append(pending[k], m)) = Range(pending[k]) \cup {m}
      /\ IsInjective(Append(pending[k], m))
  BY <1>1, Joined DEF IInv, QueuesExact
<1>3. /\ pending'[k] = Append(pending[k], m)
      /\ \A j \in Kinds : j # k => pending'[j] = pending[j]
  BY <1>1
<1>4. \A j \in Kinds : IsInjective(pending'[j]) /\ Range(pending'[j]) \cap consumed' = {}
  BY <1>1, <1>2, <1>3 DEF IInv, QueuesExact
<1>5. Range(pending'["steer"]) \cap Range(pending'["follow_up"]) = {}
  <2>1. CASE k = "steer"
    BY <1>1, <1>2, <1>3, <2>1 DEF IInv, QueuesExact, Kinds
  <2>2. CASE k = "follow_up"
    BY <1>1, <1>2, <1>3, <2>2 DEF IInv, QueuesExact, Kinds
  <2>. QED BY <2>1, <2>2 DEF Kinds
<1>6. pending'[k] # <<>> /\ (pending[k] = <<>> => Head(pending'[k]) = m)
  BY <1>1, <1>3, AppendProperties
<1>. QED BY <1>1, <1>2, <1>4, <1>5, <1>6

\* The head of a queue leaves it, consumed.
LEMMA Leaves ==
    ASSUME IInv, NEW k \in Kinds, NEW m \in Messages,
           pending[k] # <<>>, Head(pending[k]) = m,
           pending' = [pending EXCEPT ![k] = Tail(@)], consumed' = consumed \cup {m}
    PROVE  /\ pending' \in [Kinds -> Seq(Messages)] /\ consumed' \subseteq Messages
           /\ \A j \in Kinds : IsInjective(pending'[j]) /\ Range(pending'[j]) \cap consumed' = {}
           /\ Range(pending'["steer"]) \cap Range(pending'["follow_up"]) = {}
<1>1. pending \in [Kinds -> Seq(Messages)] /\ consumed \subseteq Messages
  BY DEF IInv, TypeOK
<1>2. /\ Tail(pending[k]) \in Seq(Messages) /\ m \in Range(pending[k])
      /\ Range(Tail(pending[k])) = Range(pending[k]) \ {m}
      /\ IsInjective(Tail(pending[k]))
  BY <1>1, Served DEF IInv, QueuesExact
<1>3. /\ pending'[k] = Tail(pending[k])
      /\ \A j \in Kinds : j # k => pending'[j] = pending[j] /\ m \notin Range(pending[j])
  BY <1>1, <1>2 DEF IInv, QueuesExact, Kinds
<1>4. \A j \in Kinds : IsInjective(pending'[j]) /\ Range(pending'[j]) \cap consumed' = {}
  BY <1>1, <1>2, <1>3 DEF IInv, QueuesExact
<1>5. Range(pending'["steer"]) \cap Range(pending'["follow_up"]) = {}
  <2>1. CASE k = "steer"
    BY <1>2, <1>3, <2>1 DEF IInv, QueuesExact, Kinds
  <2>2. CASE k = "follow_up"
    BY <1>2, <1>3, <2>2 DEF IInv, QueuesExact, Kinds
  <2>. QED BY <2>1, <2>2 DEF Kinds
<1>. QED BY <1>1, <1>2, <1>4, <1>5

\* A failure ends what can be said of the messages that were handed over.
LEMMA HandedFails == ASSUME IInv, Fails PROVE HandedExact'
BY FailsCounts DEF HandedExact, IInv

\* A step that hands nothing over
LEMMA HandedKeeps ==
    ASSUME IInv, UNCHANGED <<seen, faults>>, session'.queue = session.queue,
           consumed \subseteq consumed',
           \A o \in ops : o.stage = "consume" => o \in ops' \/ o.msg \in consumed'
    PROVE  HandedExact'
<1>. SUFFICES ASSUME Healthy'
              PROVE  HandedExact'
  BY DEF HandedExact
<1>1. Healthy
  BY DEF Healthy
<1>2. \A k \in Kinds : session'.queue[k] = session.queue[k]
  OBVIOUS
<1>3. ASSUME NEW m, m \in consumed \/ \E o \in ops : o.msg = m /\ o.stage = "consume"
      PROVE  m \in consumed' \/ \E o \in ops' : o.msg = m /\ o.stage = "consume"
  BY <1>3
<1>. QED BY <1>1, <1>2, <1>3 DEF HandedExact, IInv

LEMMA QueueForKeeps ==
    ASSUME IInv, NEW r \in Runs, NEW k \in Kinds, NEW m \in Messages, QueueFor(r, k, m)
    PROVE  IInv'
<1>1. /\ ops = {} /\ ops' = {Call(r, k, m, "enqueue")} /\ Fresh(m)
      /\ UNCHANGED <<durable, runVars, poolVars, session, host, seen, faults>>
  BY DEF QueueFor, LockFree
<1>2. UNCHANGED <<row, pending, consumed>>
  BY <1>1 DEF durable
<1>3. TypeOK'
  <2>1. /\ ops' \subseteq [run : Runs, kind : Kinds, msg : Messages, stage : Stages \cup Runs]
        /\ \A o, p \in ops' : o = p
    BY <1>1 DEF Call, Stages
  <2>. QED BY <1>1, <1>2, <2>1, QueueTypes DEF IInv, TypeOK, GoesOn
<1>4. QueuesExact'
  <2>1. Fresh(m)'
    BY <1>1, <1>2 DEF Fresh
  <2>2. \A o \in ops' : o.stage = "enqueue" /\ o.msg = m
    BY <1>1 DEF Call
  <2>. QED BY <1>2, <2>1, <2>2 DEF IInv, QueuesExact
<1>5. HandedExact'
  BY <1>1, <1>2, HandedKeeps
<1>6. RowsExact' /\ RunsExact' /\ HostExact'
  BY <1>1, <1>2, QueueSideKeeps DEF GoesOn
<1>. QED BY <1>3, <1>4, <1>5, <1>6 DEF IInv

LEMMA DispatchNextKeeps ==
    ASSUME IInv, NEW r \in Runs, NEW k \in Kinds, DispatchNext(r, k)
    PROVE  IInv'
<1>1. /\ ops = {} /\ ops' = {Call(r, k, Head(pending[k]), "dispatch")} /\ pending[k] # <<>>
      /\ UNCHANGED <<durable, runVars, poolVars, session, host, seen, faults>>
  BY DEF DispatchNext, LockFree
<1>2. UNCHANGED <<row, pending, consumed>>
  BY <1>1 DEF durable
<1>3. Head(pending[k]) \in Messages
  BY <1>1, HeadTailProperties DEF IInv, TypeOK
<1>4. TypeOK'
  <2>1. /\ ops' \subseteq [run : Runs, kind : Kinds, msg : Messages, stage : Stages \cup Runs]
        /\ \A o, p \in ops' : o = p
    BY <1>1, <1>3 DEF Call, Stages
  <2>. QED BY <1>1, <1>2, <2>1, QueueTypes DEF IInv, TypeOK, GoesOn
<1>5. QueuesExact'
  <2>1. \A o \in ops' : o.stage = "dispatch" /\ o.kind = k /\ o.msg = Head(pending[k])
    BY <1>1 DEF Call
  <2>. QED BY <1>1, <1>2, <2>1 DEF IInv, QueuesExact
<1>6. HandedExact'
  BY <1>1, <1>2, HandedKeeps
<1>7. RowsExact' /\ RunsExact' /\ HostExact'
  BY <1>1, <1>2, QueueSideKeeps DEF GoesOn
<1>. QED BY <1>4, <1>5, <1>6, <1>7 DEF IInv

LEMMA EnqueueKeeps ==
    ASSUME IInv, NEW k \in Kinds, NEW m \in Messages, Enqueue(k, m)
    PROVE  IInv'
<1>1. /\ ops = {} /\ ops' = {} /\ Fresh(m) /\ consumed' = consumed
      /\ pending' = [pending EXCEPT ![k] = Append(@, m)]
      /\ UNCHANGED <<row, runVars, poolVars, session, host, seen, faults>>
  BY DEF Enqueue, LockFree
<1>2. TypeOK'
  BY <1>1, Joins, QueueTypes DEF IInv, TypeOK, GoesOn
<1>3. QueuesExact'
  BY <1>1, Joins DEF QueuesExact
<1>4. HandedExact'
  BY <1>1, HandedKeeps
<1>5. RowsExact' /\ RunsExact' /\ HostExact'
  BY <1>1, QueueSideKeeps DEF GoesOn
<1>. QED BY <1>2, <1>3, <1>4, <1>5 DEF IInv

\* What Inserts does to the queues
LEMMA InsertsExact ==
    ASSUME IInv, NEW o \in ops, Inserts(o)
    PROVE  /\ pending' \in [Kinds -> Seq(Messages)] /\ consumed' = consumed
           /\ \A j \in Kinds : IsInjective(pending'[j]) /\ Range(pending'[j]) \cap consumed' = {}
           /\ Range(pending'["steer"]) \cap Range(pending'["follow_up"]) = {}
           /\ pending'[o.kind] # <<>>
           /\ pending[o.kind] = <<>> => Head(pending'[o.kind]) = o.msg
<1>1. o.kind \in Kinds /\ o.msg \in Messages
  BY DEF IInv, TypeOK
<1>2. Fresh(o.msg) /\ consumed' = consumed /\ pending' = [pending EXCEPT ![o.kind] = Append(@, o.msg)]
  BY DEF Inserts, IInv, QueuesExact
<1>. QED BY <1>1, <1>2, Joins

LEMMA EnqueuedKeeps ==
    ASSUME IInv, NEW o \in ops, Enqueued(o)
    PROVE  IInv'
<1>1. /\ Inserts(o) /\ o.stage = "enqueue" /\ ops = {o}
      /\ o \in [run : Runs, kind : Kinds, msg : Messages, stage : Stages \cup Runs]
      /\ IF pending[o.kind] = <<>> THEN ops' = {[o EXCEPT !.stage = "dispatch"]} ELSE ops' = {}
      /\ UNCHANGED <<row, runVars, poolVars, session, host, seen, faults>>
  BY CallMoves DEF Enqueued, Inserts
<1>2. TypeOK'
  <2>1. /\ ops' \subseteq [run : Runs, kind : Kinds, msg : Messages, stage : Stages \cup Runs]
        /\ \A x, y \in ops' : x = y
    BY <1>1 DEF Stages
  <2>2. consumed \subseteq Messages
    BY DEF IInv, TypeOK
  <2>. QED BY <1>1, <2>1, <2>2, InsertsExact, QueueTypes DEF IInv, TypeOK, GoesOn
<1>3. QueuesExact'
  BY <1>1, InsertsExact DEF QueuesExact
<1>4. HandedExact'
  BY <1>1, InsertsExact, HandedKeeps
<1>5. RowsExact' /\ RunsExact' /\ HostExact'
  BY <1>1, QueueSideKeeps DEF GoesOn
<1>. QED BY <1>2, <1>3, <1>4, <1>5 DEF IInv

\* What Removes does to the queues
LEMMA RemovesExact ==
    ASSUME IInv, NEW o \in ops, Removes(o)
    PROVE  /\ pending' \in [Kinds -> Seq(Messages)] /\ consumed' \subseteq Messages
           /\ \A j \in Kinds : IsInjective(pending'[j]) /\ Range(pending'[j]) \cap consumed' = {}
           /\ Range(pending'["steer"]) \cap Range(pending'["follow_up"]) = {}
           /\ consumed' = consumed \cup {o.msg}
<1>1. o.kind \in Kinds /\ o.msg \in Messages
  BY DEF IInv, TypeOK
<1>2. /\ pending[o.kind] # <<>> /\ Head(pending[o.kind]) = o.msg
      /\ consumed' = consumed \cup {o.msg} /\ pending' = [pending EXCEPT ![o.kind] = Tail(@)]
  BY DEF Removes, IInv, QueuesExact
<1>. QED BY <1>1, <1>2, Leaves

LEMMA ConsumeKeeps ==
    ASSUME IInv, NEW o \in ops, Consume(o)
    PROVE  IInv'
<1>1. /\ Removes(o) /\ ops = {o} /\ ops' = {}
      /\ UNCHANGED <<row, runVars, poolVars, session, host, seen, faults>>
  BY CallMoves DEF Consume
<1>2. TypeOK'
  BY <1>1, RemovesExact, QueueTypes DEF IInv, TypeOK, GoesOn
<1>3. QueuesExact'
  BY <1>1, RemovesExact DEF QueuesExact
<1>4. HandedExact'
  BY <1>1, RemovesExact, HandedKeeps
<1>5. RowsExact' /\ RunsExact' /\ HostExact'
  BY <1>1, QueueSideKeeps DEF GoesOn
<1>. QED BY <1>2, <1>3, <1>4, <1>5 DEF IInv

LEMMA ConsumeFailsKeeps ==
    ASSUME IInv, NEW o \in ops, ConsumeFails(o)
    PROVE  IInv'
<1>1. /\ ops' = {} /\ Fails
      /\ UNCHANGED <<durable, row, pending, consumed, runVars, poolVars, session, host, seen>>
  BY CallMoves DEF ConsumeFails, durable
<1>2. TypeOK'
  BY <1>1, QueueTypes DEF IInv, TypeOK, GoesOn
<1>3. QueuesExact'
  BY <1>1 DEF IInv, QueuesExact
<1>4. RowsExact' /\ RunsExact' /\ HostExact'
  BY <1>1, QueueSideKeeps DEF GoesOn
<1>. QED BY <1>1, <1>2, <1>3, <1>4, HandedFails DEF IInv

LEMMA QueueAuditFailsKeeps ==
    ASSUME IInv, NEW o \in ops, QueueAuditFails(o)
    PROVE  IInv'
<1>1. /\ ops' = {} /\ Fails /\ (Inserts(o) \/ Removes(o))
      /\ UNCHANGED <<row, runVars, poolVars, session, host, seen>>
  BY CallMoves DEF QueueAuditFails
<1>2. /\ pending' \in [Kinds -> Seq(Messages)] /\ consumed' \subseteq Messages
      /\ \A j \in Kinds : IsInjective(pending'[j]) /\ Range(pending'[j]) \cap consumed' = {}
      /\ Range(pending'["steer"]) \cap Range(pending'["follow_up"]) = {}
  <2>1. consumed \subseteq Messages
    BY DEF IInv, TypeOK
  <2>. QED BY <1>1, <2>1, InsertsExact, RemovesExact
<1>3. TypeOK'
  BY <1>1, <1>2, QueueTypes DEF IInv, TypeOK, GoesOn
<1>4. QueuesExact'
  BY <1>1, <1>2 DEF QueuesExact
<1>5. RowsExact' /\ RunsExact' /\ HostExact'
  BY <1>1, QueueSideKeeps DEF GoesOn
<1>. QED BY <1>1, <1>3, <1>4, <1>5, HandedFails DEF IInv

\* A waiting message becomes the last of the steering queue, or stays in it.
LEMMA Retargets ==
    ASSUME IInv, NEW m, \E k \in Kinds : Contains(pending[k], m),
           pending' = Retargeted(m), consumed' = consumed
    PROVE  /\ pending' \in [Kinds -> Seq(Messages)] /\ m \in Messages
           /\ \A j \in Kinds : IsInjective(pending'[j]) /\ Range(pending'[j]) \cap consumed' = {}
           /\ Range(pending'["steer"]) \cap Range(pending'["follow_up"]) = {}
           /\ pending'["steer"] # <<>>
<1>1. /\ pending \in [Kinds -> Seq(Messages)] /\ "steer" \in Kinds /\ "follow_up" \in Kinds
      /\ \A k \in Kinds : k = "steer" \/ k = "follow_up"
      /\ \A k \in Kinds : IsInjective(pending[k]) /\ Range(pending[k]) \cap consumed = {}
      /\ Range(pending["steer"]) \cap Range(pending["follow_up"]) = {}
  BY DEF IInv, TypeOK, QueuesExact, Kinds
<1>2. \A k \in Kinds : Contains(pending[k], m) <=> m \in Range(pending[k])
  BY <1>1, ContainsIs
<1>3. \A k \in Kinds : Range(pending[k]) \subseteq Messages
  BY <1>1, LenProperties, ElementOfSeq DEF Range
<1>4. CASE Contains(pending["steer"], m)
  <2>1. pending' = pending /\ m \in Range(pending["steer"])
    BY <1>1, <1>2, <1>4 DEF Retargeted
  <2>2. pending["steer"] # <<>>
    BY <2>1, <1>1 DEF Range
  <2>. QED BY <1>1, <1>3, <2>1, <2>2
<1>5. CASE ~Contains(pending["steer"], m)
  <2>1. /\ m \in Range(pending["follow_up"]) /\ m \notin Range(pending["steer"]) /\ m \in Messages
    BY <1>1, <1>2, <1>3, <1>5
  <2>. DEFINE f == Without(pending["follow_up"], m)
              s == Append(pending["steer"], m)
  <2>2. /\ f \in Seq(Messages) /\ Range(f) = Range(pending["follow_up"]) \ {m} /\ IsInjective(f)
    BY <1>1, Left
  <2>3. /\ s \in Seq(Messages) /\ Range(s) = Range(pending["steer"]) \cup {m} /\ IsInjective(s)
    BY <1>1, <2>1, Joined
  <2>4. s # <<>>
    BY <1>1, <2>1, AppendProperties
  <2>5. pending' = [pending EXCEPT !["follow_up"] = f, !["steer"] = s]
    BY <1>5 DEF Retargeted
  <2>. HIDE DEF f, s
  <2>6. pending' \in [Kinds -> Seq(Messages)] /\ pending'["follow_up"] = f /\ pending'["steer"] = s
    BY <1>1, <2>2, <2>3, <2>5
  <2>. QED BY <1>1, <2>1, <2>2, <2>3, <2>4, <2>6
<1>. QED BY <1>4, <1>5

LEMMA SteersExact ==
    ASSUME IInv, NEW r \in Runs, NEW m, Steers(r, m), consumed' = consumed
    PROVE  /\ ops = {} /\ pending' = Retargeted(m) /\ m \in Messages
           /\ pending' \in [Kinds -> Seq(Messages)]
           /\ \A j \in Kinds : IsInjective(pending'[j]) /\ Range(pending'[j]) \cap consumed' = {}
           /\ Range(pending'["steer"]) \cap Range(pending'["follow_up"]) = {}
           /\ pending'["steer"] # <<>>
<1>1. ops = {} /\ (\E k \in Kinds : Contains(pending[k], m)) /\ pending' = Retargeted(m)
  BY Zenon DEF Steers, LockFree
<1>. QED BY <1>1, Retargets

LEMMA SteerQueuedKeeps ==
    ASSUME IInv, NEW r \in Runs, NEW m \in Messages, SteerQueued(r, m)
    PROVE  IInv'
<1>1. /\ Steers(r, m)
      /\ ops' = IF Head(Retargeted(m)["steer"]) = m
                THEN ops \cup {Call(r, "steer", m, "dispatch")} ELSE ops
      /\ UNCHANGED <<row, consumed, runVars, poolVars, session, host, seen, faults>>
  BY DEF SteerQueued
<1>2. /\ ops = {} /\ ops' \subseteq {Call(r, "steer", m, "dispatch")}
      /\ ops' # {} => Head(pending'["steer"]) = m
  <2>1. ops = {} /\ pending' = Retargeted(m)
    BY <1>1, SteersExact
  <2>. QED BY <1>1, <2>1
<1>3. TypeOK'
  <2>1. /\ ops' \subseteq [run : Runs, kind : Kinds, msg : Messages, stage : Stages \cup Runs]
        /\ \A o, p \in ops' : o = p
    BY <1>2 DEF Call, Stages, Kinds
  <2>. QED BY <1>1, <2>1, SteersExact, QueueTypes DEF IInv, TypeOK, GoesOn
<1>4. QueuesExact'
  <2>1. \A o \in ops' : o.stage = "dispatch" /\ o.kind = "steer" /\ o.msg = m
    BY <1>2 DEF Call
  <2>. QED BY <1>1, <1>2, <2>1, SteersExact DEF QueuesExact
<1>5. HandedExact'
  BY <1>1, <1>2, HandedKeeps
<1>6. RowsExact' /\ RunsExact' /\ HostExact'
  BY <1>1, QueueSideKeeps DEF GoesOn
<1>. QED BY <1>3, <1>4, <1>5, <1>6 DEF IInv

LEMMA SteerAuditFailsKeeps ==
    ASSUME IInv, NEW r \in Runs, NEW m \in Messages, SteerAuditFails(r, m)
    PROVE  IInv'
<1>1. /\ Steers(r, m) /\ Fails
      /\ UNCHANGED <<row, consumed, runVars, poolVars, session, ops, host, seen>>
  BY DEF SteerAuditFails
<1>2. TypeOK'
  BY <1>1, SteersExact, QueueTypes DEF IInv, TypeOK, GoesOn
<1>3. QueuesExact'
  <2>1. ops' = {}
    BY <1>1, SteersExact
  <2>. QED BY <1>1, <2>1, SteersExact DEF QueuesExact
<1>4. RowsExact' /\ RunsExact' /\ HostExact'
  BY <1>1, QueueSideKeeps DEF GoesOn
<1>. QED BY <1>1, <1>2, <1>3, <1>4, HandedFails DEF IInv

LEMMA RemoveQueuedKeeps ==
    ASSUME IInv, NEW m \in Messages, RemoveQueued(m)
    PROVE  IInv'
<1>1. /\ ops = {} /\ ops' = {} /\ consumed' = consumed
      /\ pending' = [k \in Kinds |-> Without(pending[k], m)]
      /\ UNCHANGED <<row, runVars, poolVars, session, host, seen, faults>>
  BY DEF RemoveQueued, LockFree
<1>2. \A k \in Kinds : /\ pending'[k] \in Seq(Messages) /\ IsInjective(pending'[k])
                       /\ Range(pending'[k]) \subseteq Range(pending[k])
  <2>. SUFFICES ASSUME NEW k \in Kinds
                PROVE  /\ pending'[k] \in Seq(Messages) /\ IsInjective(pending'[k])
                       /\ Range(pending'[k]) \subseteq Range(pending[k])
    OBVIOUS
  <2>1. pending[k] \in Seq(Messages) /\ IsInjective(pending[k]) /\ pending'[k] = Without(pending[k], m)
    BY <1>1 DEF IInv, TypeOK, QueuesExact
  <2>. QED BY <2>1, Left
<1>3. pending' \in [Kinds -> Seq(Messages)]
  BY <1>1, <1>2
<1>4. TypeOK'
  BY <1>1, <1>3, QueueTypes DEF IInv, TypeOK, GoesOn
<1>5. QueuesExact'
  BY <1>1, <1>2 DEF IInv, QueuesExact, Kinds
<1>6. HandedExact'
  BY <1>1, HandedKeeps
<1>7. RowsExact' /\ RunsExact' /\ HostExact'
  BY <1>1, QueueSideKeeps DEF GoesOn
<1>. QED BY <1>4, <1>5, <1>6, <1>7 DEF IInv

LEMMA MoveQueuedKeeps ==
    ASSUME IInv, NEW k \in Kinds, NEW i \in DOMAIN pending[k], MoveQueued(k, i)
    PROVE  IInv'
<1>. DEFINE w == [pending[k] EXCEPT ![i] = pending[k][i + 1], ![i + 1] = pending[k][i]]
<1>1. /\ ops = {} /\ ops' = {} /\ consumed' = consumed /\ i \in 1..(Len(pending[k]) - 1)
      /\ pending' = [pending EXCEPT ![k] = w]
      /\ UNCHANGED <<row, runVars, poolVars, session, host, seen, faults>>
  BY DEF MoveQueued, LockFree
<1>2. pending \in [Kinds -> Seq(Messages)] /\ IsInjective(pending[k])
  BY DEF IInv, TypeOK, QueuesExact
<1>3. w \in Seq(Messages) /\ Range(w) = Range(pending[k]) /\ IsInjective(w)
  <2>1. pending[k] \in Seq(Messages)
    BY <1>2
  <2>. QED BY <1>1, <1>2, <2>1, Swapped
<1>. HIDE DEF w
<1>4. pending'[k] = w /\ \A j \in Kinds : j # k => pending'[j] = pending[j]
  BY <1>1, <1>2
<1>5. pending' \in [Kinds -> Seq(Messages)]
  BY <1>1, <1>2, <1>3
<1>6. TypeOK'
  BY <1>1, <1>5, QueueTypes DEF IInv, TypeOK, GoesOn
<1>7. QueuesExact'
  <2>1. \A j \in Kinds : IsInjective(pending'[j]) /\ Range(pending'[j]) = Range(pending[j])
    BY <1>3, <1>4 DEF IInv, QueuesExact
  <2>. QED BY <1>1, <2>1 DEF IInv, QueuesExact, Kinds
<1>8. HandedExact'
  BY <1>1, HandedKeeps
<1>9. RowsExact' /\ RunsExact' /\ HostExact'
  BY <1>1, QueueSideKeeps DEF GoesOn
<1>. QED BY <1>6, <1>7, <1>8, <1>9 DEF IInv

LEMMA PoolQueuesKeeps ==
    ASSUME IInv, NEW o \in ops, PoolQueues(o)
    PROVE  IInv'
<1>1. /\ ops = {o} /\ o.stage = "dispatch"
      /\ o \in [run : Runs, kind : Kinds, msg : Messages, stage : Stages \cup Runs]
      /\ UNCHANGED <<durable, row, pending, consumed, runVars, poolVars, session, host, seen, faults>>
  BY CallMoves DEF PoolQueues, durable
<1>2. \/ ops' = {}
      \/ session.harness \in Runs /\ ops' = {[o EXCEPT !.stage = session.harness]}
  <2>1. session.harness # None => session.harness \in Runs
    BY DEF IInv, TypeOK
  <2>. QED BY <2>1, CallMoves DEF PoolQueues
<1>3. /\ ops' \subseteq [run : Runs, kind : Kinds, msg : Messages, stage : Stages \cup Runs]
      /\ \A x, y \in ops' : x = y
      /\ \A x \in ops' : x.kind = o.kind /\ x.msg = o.msg /\ x.stage \in Runs
  BY <1>1, <1>2
<1>4. TypeOK'
  BY <1>1, <1>3, QueueTypes DEF IInv, TypeOK, GoesOn
<1>5. QueuesExact'
  <2>1. pending[o.kind] # <<>> /\ Head(pending[o.kind]) = o.msg
    BY <1>1 DEF IInv, QueuesExact
  <2>2. \A x \in ops' : x.stage # "enqueue"
    BY <1>3, RuntimeAssumption DEF Stages
  <2>. QED BY <1>1, <1>3, <2>1, <2>2 DEF IInv, QueuesExact
<1>6. HandedExact'
  BY <1>1, HandedKeeps
<1>7. RowsExact' /\ RunsExact' /\ HostExact'
  BY <1>1, QueueSideKeeps DEF GoesOn
<1>. QED BY <1>4, <1>5, <1>6, <1>7 DEF IInv

LEMMA SessionQueuesKeeps ==
    ASSUME IInv, NEW o \in ops, SessionQueues(o)
    PROVE  IInv'
<1>1. /\ ops = {o} /\ o.stage \in Runs /\ o.stage # "consume" /\ o.stage # "enqueue"
      /\ o \in [run : Runs, kind : Kinds, msg : Messages, stage : Stages \cup Runs]
      /\ UNCHANGED <<durable, row, pending, consumed, runVars, poolVars, host, seen, faults>>
  BY CallMoves, RuntimeAssumption DEF SessionQueues, durable, Stages
<1>2. pending[o.kind] # <<>> /\ Head(pending[o.kind]) = o.msg
  BY <1>1 DEF IInv, QueuesExact
<1>3. session \in [loaded : BOOLEAN, harness : Runs \cup {None}, queue : [Kinds -> Seq(Messages)]]
  BY DEF IInv, TypeOK
<1>4. RowsExact' /\ RunsExact' /\ HostExact'
  BY <1>1, QueueSideKeeps DEF GoesOn
<1>5. CASE ops' = {} /\ session' = session
  <2>1. TypeOK'
    BY <1>1, <1>5, QueueTypes DEF IInv, TypeOK, GoesOn
  <2>2. QueuesExact'
    BY <1>1, <1>5 DEF IInv, QueuesExact
  <2>3. HandedExact'
    BY <1>1, <1>5, HandedKeeps
  <2>. QED BY <1>4, <2>1, <2>2, <2>3 DEF IInv
<1>6. CASE /\ ops' = {[o EXCEPT !.stage = "consume"]}
           /\ session' = [session EXCEPT !.queue[o.kind] = Append(@, o.msg)]
  <2>. DEFINE q == session.queue
              x == [o EXCEPT !.stage = "consume"]
  <2>1. /\ o.msg \in Messages /\ o.kind \in Kinds
        /\ x \in [run : Runs, kind : Kinds, msg : Messages, stage : Stages \cup Runs]
        /\ x.stage = "consume" /\ x.kind = o.kind /\ x.msg = o.msg /\ ops' = {x}
    BY <1>1, <1>6 DEF Stages
  <2>2. /\ session'.queue = [q EXCEPT ![o.kind] = Append(@, o.msg)]
        /\ session'.loaded = session.loaded /\ session'.harness = session.harness
        /\ session' \in [loaded : BOOLEAN, harness : Runs \cup {None},
                         queue : [Kinds -> Seq(Messages)]]
    <3>1. Append(q[o.kind], o.msg) \in Seq(Messages)
      BY <1>3, <2>1
    <3>. QED BY <1>3, <1>6, <3>1
  <2>3. TypeOK'
    <3>1. /\ ops' \subseteq [run : Runs, kind : Kinds, msg : Messages, stage : Stages \cup Runs]
          /\ \A y, z \in ops' : y = z
      BY <2>1
    <3>. QED BY <1>1, <2>2, <3>1, QueueTypes DEF IInv, TypeOK, GoesOn
  <2>4. QueuesExact'
    <3>1. \A y \in ops' : y.stage = "consume" /\ y.kind = o.kind /\ y.msg = o.msg
      BY <2>1
    <3>. QED BY <1>1, <1>2, <3>1 DEF IInv, QueuesExact
  <2>5. HandedExact'
    <3>. SUFFICES ASSUME Healthy'
                  PROVE  HandedExact'
      BY DEF HandedExact
    <3>1. Healthy
      BY <1>1 DEF Healthy
    <3>2. o.msg \notin consumed
      <4>1. pending[o.kind] \in Seq(Messages)
        BY <2>1 DEF IInv, TypeOK
      <4>2. o.msg \in Range(pending[o.kind])
        BY <1>2, <4>1, Served, <2>1 DEF IInv, QueuesExact
      <4>. QED BY <2>1, <4>2 DEF IInv, QueuesExact
    <3>3. o.msg \notin Range(seen) /\ \A k \in Kinds : o.msg \notin Range(q[k])
      BY <1>1, <2>1, <3>1, <3>2, FreshIsNew
    <3>4. /\ IsInjective(seen) /\ \A k \in Kinds : IsInjective(q[k])
          /\ Range(q["steer"]) \cap Range(q["follow_up"]) = {}
          /\ \A k \in Kinds : Range(seen) \cap Range(q[k]) = {}
          /\ \A m \in Range(seen) \cup UNION {Range(q[k]) : k \in Kinds} :
               m \in consumed \/ \E y \in ops : y.msg = m /\ y.stage = "consume"
      BY <3>1 DEF IInv, HandedExact
    <3>. DEFINE a == session'.queue
    <3>5. /\ IsInjective(a[o.kind]) /\ Range(a[o.kind]) = Range(q[o.kind]) \cup {o.msg}
          /\ \A k \in Kinds : k # o.kind => a[k] = q[k]
      <4>1. q[o.kind] \in Seq(Messages) /\ a[o.kind] = Append(q[o.kind], o.msg)
            /\ \A k \in Kinds : k # o.kind => a[k] = q[k]
        BY <1>3, <2>1, <2>2
      <4>. QED BY <2>1, <3>3, <3>4, <4>1, Joined
    <3>6. \A k \in Kinds : IsInjective(a[k]) /\ Range(seen) \cap Range(a[k]) = {}
      BY <3>3, <3>4, <3>5
    <3>7. Range(a["steer"]) \cap Range(a["follow_up"]) = {}
      <4>1. CASE o.kind = "steer"
        BY <3>3, <3>4, <3>5, <4>1 DEF Kinds
      <4>2. CASE o.kind = "follow_up"
        BY <3>3, <3>4, <3>5, <4>2 DEF Kinds
      <4>. QED BY <2>1, <4>1, <4>2 DEF Kinds
    <3>8. ASSUME NEW m \in Range(seen) \cup UNION {Range(a[k]) : k \in Kinds}
          PROVE  m \in consumed \/ \E y \in ops' : y.msg = m /\ y.stage = "consume"
      <4>1. m = o.msg \/ m \in Range(seen) \cup UNION {Range(q[k]) : k \in Kinds}
        BY <3>5
      <4>2. CASE m = o.msg
        BY <2>1, <4>2
      <4>3. CASE m \in Range(seen) \cup UNION {Range(q[k]) : k \in Kinds}
        <5>1. ~\E y \in ops : y.msg = m /\ y.stage = "consume"
          BY <1>1
        <5>. QED BY <3>4, <4>3, <5>1
      <4>. QED BY <4>1, <4>2, <4>3
    <3>. QED BY <1>1, <3>4, <3>6, <3>7, <3>8 DEF HandedExact
  <2>. QED BY <1>4, <2>3, <2>4, <2>5 DEF IInv
<1>. QED BY <1>5, <1>6, CallMoves DEF SessionQueues

LEMMA DrainKeeps ==
    ASSUME IInv, NEW k \in Kinds, Drain(k)
    PROVE  IInv'
<1>. DEFINE q == session.queue
            a == session'.queue
            m == Head(q[k])
<1>1. /\ q[k] # <<>> /\ seen' = Append(seen, m)
      /\ session' = [session EXCEPT !.queue[k] = Tail(@)]
      /\ UNCHANGED <<durable, row, pending, consumed, runVars, poolVars, ops, host, faults>>
  BY DEF Drain, durable
<1>2. /\ session \in [loaded : BOOLEAN, harness : Runs \cup {None}, queue : [Kinds -> Seq(Messages)]]
      /\ q \in [Kinds -> Seq(Messages)] /\ q[k] \in Seq(Messages) /\ seen \in Seq(Messages)
  BY DEF IInv, TypeOK
<1>3. m \in Messages /\ Tail(q[k]) \in Seq(Messages)
  BY <1>1, <1>2, HeadTailProperties
<1>4. /\ a[k] = Tail(q[k]) /\ \A j \in Kinds : j # k => a[j] = q[j]
      /\ session' \in [loaded : BOOLEAN, harness : Runs \cup {None},
                       queue : [Kinds -> Seq(Messages)]]
  BY <1>1, <1>2, <1>3
<1>5. TypeOK'
  <2>1. seen' \in Seq(Messages)
    BY <1>1, <1>2, <1>3
  <2>. QED BY <1>1, <1>4, <2>1, QueueTypes DEF IInv, TypeOK, GoesOn
<1>6. QueuesExact'
  BY <1>1 DEF IInv, QueuesExact, Fresh
<1>7. HandedExact'
  <2>. SUFFICES ASSUME Healthy'
                PROVE  HandedExact'
    BY DEF HandedExact
  <2>1. Healthy
    BY <1>1 DEF Healthy
  <2>2. /\ IsInjective(seen) /\ \A j \in Kinds : IsInjective(q[j])
        /\ Range(q["steer"]) \cap Range(q["follow_up"]) = {}
        /\ \A j \in Kinds : Range(seen) \cap Range(q[j]) = {}
        /\ \A x \in Range(seen) \cup UNION {Range(q[j]) : j \in Kinds} :
             x \in consumed \/ \E y \in ops : y.msg = x /\ y.stage = "consume"
    BY <2>1 DEF IInv, HandedExact
  <2>3. /\ m \in Range(q[k]) /\ Range(a[k]) = Range(q[k]) \ {m} /\ IsInjective(a[k])
    BY <1>1, <1>2, <1>4, <2>2, Served
  <2>4. m \notin Range(seen) /\ \A j \in Kinds : j # k => m \notin Range(q[j])
    BY <2>2, <2>3 DEF Kinds
  <2>5. Range(seen') = Range(seen) \cup {m} /\ IsInjective(seen')
    BY <1>1, <1>2, <1>3, <2>2, <2>4, Joined
  <2>6. \A j \in Kinds : /\ IsInjective(a[j]) /\ Range(a[j]) \subseteq Range(q[j]) \ {m}
                         /\ Range(seen') \cap Range(a[j]) = {}
    BY <1>4, <2>2, <2>3, <2>4, <2>5
  <2>7. Range(a["steer"]) \cap Range(a["follow_up"]) = {}
    BY <2>2, <2>6 DEF Kinds
  <2>8. \A x \in Range(seen') \cup UNION {Range(a[j]) : j \in Kinds} :
            x \in consumed \/ \E y \in ops : y.msg = x /\ y.stage = "consume"
    <3>1. Range(seen') \cup UNION {Range(a[j]) : j \in Kinds}
              \subseteq Range(seen) \cup UNION {Range(q[j]) : j \in Kinds}
      BY <2>3, <2>5, <2>6
    <3>. QED BY <2>2, <3>1
  <2>. QED BY <1>1, <2>5, <2>6, <2>7, <2>8 DEF HandedExact
<1>8. RowsExact' /\ RunsExact' /\ HostExact'
  BY <1>1, QueueSideKeeps DEF GoesOn
<1>. QED BY <1>5, <1>6, <1>7, <1>8 DEF IInv

-----------------------------------------------------------------------------
(* The runs *)

TaskPlaces == {"none", "create", "created", "load", "failing", "read", "mark", "final", "dead",
               "left"}
Sessions == [loaded : BOOLEAN, harness : Runs \cup {None}, queue : [Kinds -> Seq(Messages)]]
Pools == [accepting : BOOLEAN, line : Seq(Runs), current : Runs \cup {None}, cancelReq : BOOLEAN]
Hosts == [stop : {"no", "asked", "pool", "drivers", "done", "failed"},
          loader : Runs \cup {None, "shutdown"}]

LEMMA Typed ==
    ASSUME IInv
    PROVE  /\ row \in [Runs -> Queueable \cup Terminal \cup {None}] /\ task \in [Runs -> TaskPlaces]
           /\ final \in [Runs -> Terminal \cup {None}] /\ aborts \subseteq Runs
           /\ pool \in Pools /\ result \in [Runs -> {"completed", "cancelled", "failed", None}]
           /\ unread \in [Runs -> [items : 0..MaxEvents, yielded : 0..MaxEvents]]
           /\ session \in Sessions /\ host \in Hosts
BY DEF IInv, TypeOK, TaskPlaces, Sessions, Pools, Hosts

\* The types of what a step of the runs changes, by part
LEMMA RunTypes ==
    ASSUME IInv, UNCHANGED <<pending, consumed, ops, seen>>, GoesOn,
           row' \in [Runs -> Queueable \cup Terminal \cup {None}], task' \in [Runs -> TaskPlaces],
           final' \in [Runs -> Terminal \cup {None}], aborts' \subseteq Runs,
           pool' \in Pools, result' \in [Runs -> {"completed", "cancelled", "failed", None}],
           unread' \in [Runs -> [items : 0..MaxEvents, yielded : 0..MaxEvents]],
           session' \in Sessions, host' \in Hosts
    PROVE  TypeOK'
<1>1. faults' \in [crashes : 0..MaxCrashes, failures : 0..MaxFailures]
  BY FailsCounts DEF GoesOn, IInv, TypeOK
<1>. QED BY <1>1 DEF IInv, TypeOK, TaskPlaces, Sessions, Pools, Hosts

LEMMA FailuresStay ==
    ASSUME IInv, GoesOn, faults.failures > 0
    PROVE  faults'.failures > 0
BY FailsCounts DEF GoesOn, IInv

\* A step that concerns one run, and the rows
LEMMA RowsStep ==
    ASSUME IInv, GoesOn, NEW r \in Runs,
           \A x \in Runs \ {r} : row'[x] = row[x] /\ task'[x] = task[x],
           task'[r] = "create" => row'[r] = None,
           task'[r] \in {"created", "load", "failing"} => row'[r] = "pending",
           task'[r] \in Driven => row'[r] \in Queueable,
           row'[r] = "running" => task'[r] \in Driven \/ faults'.failures > 0
    PROVE  RowsExact'
BY FailuresStay DEF IInv, RowsExact

\* A step that leaves the rows and the tasks alone
LEMMA RowsStay ==
    ASSUME IInv, GoesOn, UNCHANGED <<row, task>>
    PROVE  RowsExact'
BY FailuresStay DEF IInv, RowsExact

\* A step that concerns one run, and the pool
LEMMA RunsStep ==
    ASSUME IInv, GoesOn, NEW r \in Runs,
           IsInjective(pool'.line), pool'.current \notin Range(pool'.line),
           \A x \in Runs \ {r} :
               /\ (Held(x))' <=> Held(x)
               /\ task'[x] = task[x] /\ result'[x] = result[x] /\ final'[x] = final[x]
               /\ unread'[x] = unread[x] /\ (x \in aborts' <=> x \in aborts),
           unread'[r].items <= unread'[r].yielded,
           (Held(r))' => /\ result'[r] = None
                         /\ (task'[r] \in {"read", "mark"}
                               \/ (task'[r] = "dead" /\ faults'.failures > 0)),
           task'[r] \in Submitting => result'[r] = None,
           task'[r] \in Driven => (Held(r))' \/ result'[r] # None,
           task'[r] = "final" => result'[r] # None /\ final'[r] = (Final(r))',
           r \in aborts' => task'[r] \in Driven \/ faults'.failures > 0
    PROVE  RunsExact'
<1>. SUFFICES ASSUME NEW x \in Runs, x # r
              PROVE  /\ unread'[x].items <= unread'[x].yielded
                     /\ (Held(x))' => /\ result'[x] = None
                                      /\ (task'[x] \in {"read", "mark"}
                                            \/ (task'[x] = "dead" /\ faults'.failures > 0))
                     /\ task'[x] \in Submitting => result'[x] = None
                     /\ task'[x] \in Driven => (Held(x))' \/ result'[x] # None
                     /\ task'[x] = "final" => result'[x] # None /\ final'[x] = (Final(x))'
                     /\ x \in aborts' => task'[x] \in Driven \/ faults'.failures > 0
  BY DEF RunsExact
<1>1. (Final(x))' = Final(x)
  BY DEF Final
<1>. QED BY <1>1, FailuresStay DEF IInv, RunsExact

\* A step that concerns one run, and the host
LEMMA HostStep ==
    ASSUME IInv, NEW r \in Runs, UNCHANGED host,
           pool'.accepting = pool.accepting,
           pool.current = None => pool'.current = None,
           pool.line = <<>> => pool'.line = <<>>,
           \A x \in Runs \ {r} : task'[x] = task[x],
           task'[r] = "load" => task[r] = "load",
           task'[r] \in Driven \cup {"dead"} => task[r] \in Driven \cup {"dead"}
    PROVE  HostExact'
BY DEF IInv, HostExact

\* A step of one task of a run that changes nothing but its place, its row, the abort and its final
\* status
LEMMA TaskStep ==
    ASSUME IInv, GoesOn, NEW r \in Runs, NEW place \in TaskPlaces, Goes(r, place),
           UNCHANGED <<pool, result, session, host, pending, consumed, ops, seen>>,
           row' \in [Runs -> Queueable \cup Terminal \cup {None}],
           \A x \in Runs \ {r} : row'[x] = row[x],
           place = "create" => row'[r] = None,
           place \in {"created", "load", "failing"} => row'[r] = "pending",
           place \in Driven => row'[r] \in Queueable,
           row'[r] = "running" => place \in Driven \/ faults'.failures > 0,
           unread' \in [Runs -> [items : 0..MaxEvents, yielded : 0..MaxEvents]],
           \A x \in Runs \ {r} : unread'[x] = unread[x],
           unread'[r].items <= unread'[r].yielded,
           final' \in [Runs -> Terminal \cup {None}],
           \A x \in Runs \ {r} : final'[x] = final[x],
           aborts' = aborts \/ aborts' = aborts \ {r},
           Held(r) => place \in {"read", "mark"} \/ (place = "dead" /\ faults'.failures > 0),
           place \in Submitting => result[r] = None,
           place \in Driven => Held(r) \/ result[r] # None,
           place = "final" => result[r] # None /\ final'[r] = (Final(r))',
           r \in aborts' => place \in Driven \/ faults'.failures > 0,
           place = "load" => task[r] = "load",
           place \in Driven \cup {"dead"} => task[r] \in Driven \cup {"dead"}
    PROVE  IInv'
<1>1. task' \in [Runs -> TaskPlaces] /\ task'[r] = place /\ \A x \in Runs \ {r} : task'[x] = task[x]
  BY Typed DEF Goes
<1>2. /\ \A x : (Held(x))' <=> Held(x)
      /\ \A x \in Runs \ {r} : x \in aborts' <=> x \in aborts
      /\ aborts' \subseteq Runs
  BY Typed DEF Held
<1>3. TypeOK'
  BY <1>1, <1>2, Typed, RunTypes
<1>4. RowsExact'
  BY <1>1, RowsStep
<1>5. RunsExact'
  <2>1. Held(r) => result[r] = None
    BY DEF IInv, RunsExact
  <2>2. IsInjective(pool'.line) /\ pool'.current \notin Range(pool'.line)
    BY DEF IInv, RunsExact
  <2>. QED BY <1>1, <1>2, <2>1, <2>2, RunsStep
<1>6. HostExact'
  BY <1>1, HostStep
<1>7. QueuesExact' /\ HandedExact'
  BY RunSideKeeps
<1>. QED BY <1>3, <1>4, <1>5, <1>6, <1>7 DEF IInv

\* What the invariant says of one run
LEMMA RunOf ==
    ASSUME IInv, NEW r \in Runs
    PROVE  /\ task[r] = "create" => row[r] = None
           /\ task[r] \in {"created", "load", "failing"} => row[r] = "pending"
           /\ task[r] \in Driven => row[r] \in Queueable
           /\ row[r] = "running" => task[r] \in Driven \/ faults.failures > 0
           /\ unread[r] \in [items : 0..MaxEvents, yielded : 0..MaxEvents]
           /\ unread[r].items <= unread[r].yielded
           /\ Held(r) => /\ result[r] = None
                         /\ task[r] \in {"read", "mark"} \/ (task[r] = "dead" /\ faults.failures > 0)
           /\ task[r] \in Submitting => result[r] = None /\ ~Held(r)
           /\ task[r] \in Driven => Held(r) \/ result[r] # None
           /\ task[r] = "final" => result[r] # None /\ final[r] = Final(r)
           /\ r \in aborts => task[r] \in Driven \/ faults.failures > 0
<1>1. task[r] \in Submitting => task[r] \notin {"read", "mark", "dead"}
  BY DEF Submitting
<1>. QED BY <1>1 DEF IInv, TypeOK, RowsExact, RunsExact

LEMMA SubmitKeeps ==
    ASSUME IInv, NEW r \in Runs, Submit(r)
    PROVE  IInv'
<1>1. /\ task[r] = "none" /\ row[r] = None /\ Goes(r, "create")
      /\ UNCHANGED <<durable, row, pending, consumed, final, aborts, pool, result, unread, session,
                     ops, host, seen, faults>>
  BY DEF Submit, durable, poolVars
<1>2. "create" \in TaskPlaces /\ "create" \in Submitting /\ "none" \in Submitting
      /\ "create" \notin Driven /\ "none" \notin Driven
  BY DEF TaskPlaces, Submitting, Driven
<1>. QED BY <1>1, <1>2, RunOf, Typed, TaskStep, RuntimeAssumption DEF GoesOn, Queueable

LEMMA CreatedKeeps ==
    ASSUME IInv, NEW r \in Runs, Created(r)
    PROVE  IInv'
<1>1. /\ task[r] = "create" /\ Goes(r, "created") /\ row' = [row EXCEPT ![r] = "pending"]
      /\ UNCHANGED <<pending, consumed, final, aborts, pool, result, unread, session,
                     ops, host, seen, faults>>
  BY DEF Created, poolVars
<1>2. "created" \in TaskPlaces /\ "created" \in Submitting /\ "create" \in Submitting
      /\ "created" \notin Driven /\ "create" \notin Driven
  BY DEF TaskPlaces, Submitting, Driven
<1>3. row' \in [Runs -> Queueable \cup Terminal \cup {None}] /\ row'[r] = "pending"
      /\ \A x \in Runs \ {r} : row'[x] = row[x]
  BY <1>1, Typed DEF Queueable
<1>. QED BY <1>1, <1>2, <1>3, RunOf, Typed, TaskStep DEF GoesOn, Driven

LEMMA AuditFailsKeeps ==
    ASSUME IInv, NEW r \in Runs, AuditFails(r)
    PROVE  IInv'
<1>1. /\ task[r] = "created" /\ Goes(r, "left") /\ Fails
      /\ UNCHANGED <<durable, row, pending, consumed, final, aborts, pool, result, unread, session,
                     ops, host, seen>>
  BY DEF AuditFails, durable, poolVars
<1>2. "left" \in TaskPlaces /\ "left" \notin Submitting /\ "created" \in Submitting
      /\ "left" \notin Driven /\ "created" \notin Driven
  BY DEF TaskPlaces, Submitting, Driven
<1>3. faults'.failures > 0
  BY <1>1, FailsCounts DEF IInv
<1>. QED BY <1>1, <1>2, <1>3, RunOf, Typed, TaskStep DEF GoesOn

LEMMA SubmissionFailedKeeps ==
    ASSUME IInv, NEW r \in Runs, SubmissionFailed(r)
    PROVE  IInv'
<1>1. /\ task[r] = "failing" /\ Goes(r, "left") /\ row' = [row EXCEPT ![r] = "failed"]
      /\ UNCHANGED <<pending, consumed, final, aborts, pool, result, unread, session,
                     ops, host, seen, faults>>
  BY DEF SubmissionFailed, poolVars
<1>2. "left" \in TaskPlaces /\ "left" \notin Submitting /\ "failing" \in Submitting
      /\ "left" \notin Driven /\ "failing" \notin Driven
  BY DEF TaskPlaces, Submitting, Driven
<1>3. row' \in [Runs -> Queueable \cup Terminal \cup {None}] /\ row'[r] = "failed"
      /\ \A x \in Runs \ {r} : row'[x] = row[x]
  BY <1>1, Typed DEF Terminal
<1>. QED BY <1>1, <1>2, <1>3, RunOf, Typed, TaskStep DEF GoesOn

LEMMA DriverReadsKeeps ==
    ASSUME IInv, NEW r \in Runs, DriverReads(r)
    PROVE  IInv'
<1>1. /\ task[r] = "read" /\ Goes(r, "mark") /\ unread[r].items > 0
      /\ unread' = [unread EXCEPT ![r].items = @ - 1]
      /\ UNCHANGED <<durable, row, pending, consumed, final, aborts, pool, result, session,
                     ops, host, seen, faults>>
  BY DEF DriverReads, durable
<1>2. "mark" \in TaskPlaces /\ "mark" \notin Submitting /\ "mark" \in Driven /\ "read" \in Driven
  BY DEF TaskPlaces, Submitting, Driven
<1>3. /\ unread' \in [Runs -> [items : 0..MaxEvents, yielded : 0..MaxEvents]]
      /\ unread'[r].items <= unread'[r].yielded /\ \A x \in Runs \ {r} : unread'[x] = unread[x]
  <2>1. /\ unread[r].items - 1 \in 0..MaxEvents /\ unread[r].items - 1 <= unread[r].yielded
    BY <1>1, RunOf, RuntimeAssumption
  <2>2. unread \in [Runs -> [items : 0..MaxEvents, yielded : 0..MaxEvents]]
    BY Typed
  <2>3. unread'[r] = [unread[r] EXCEPT !.items = unread[r].items - 1]
    BY <1>1, <2>2
  <2>. QED BY <1>1, <2>1, <2>2, <2>3
<1>. QED BY <1>1, <1>2, <1>3, RunOf, Typed, TaskStep DEF GoesOn

LEMMA DriverMarksKeeps ==
    ASSUME IInv, NEW r \in Runs, DriverMarks(r)
    PROVE  IInv'
<1>1. /\ task[r] = "mark" /\ Goes(r, "read") /\ row' = [row EXCEPT ![r] = "running"]
      /\ UNCHANGED <<pending, consumed, final, aborts, pool, result, unread, session,
                     ops, host, seen, faults>>
  BY DEF DriverMarks, poolVars
<1>2. "read" \in TaskPlaces /\ "read" \notin Submitting /\ "mark" \in Driven /\ "read" \in Driven
  BY DEF TaskPlaces, Submitting, Driven
<1>3. row' \in [Runs -> Queueable \cup Terminal \cup {None}] /\ row'[r] = "running"
      /\ row'[r] \in Queueable /\ \A x \in Runs \ {r} : row'[x] = row[x]
  BY <1>1, Typed DEF Queueable
<1>. QED BY <1>1, <1>2, <1>3, RunOf, Typed, TaskStep DEF GoesOn

LEMMA DriverWaitsKeeps ==
    ASSUME IInv, NEW r \in Runs, DriverWaits(r)
    PROVE  IInv'
<1>1. /\ task[r] = "read" /\ Goes(r, "final") /\ result[r] # None
      /\ final' = [final EXCEPT ![r] = Final(r)]
      /\ UNCHANGED <<durable, row, pending, consumed, aborts, pool, result, unread, session,
                     ops, host, seen, faults>>
  BY DEF DriverWaits, durable, poolVars
<1>2. "final" \in TaskPlaces /\ "final" \notin Submitting /\ "final" \in Driven /\ "read" \in Driven
  BY DEF TaskPlaces, Submitting, Driven
<1>3. Final(r) \in Terminal /\ (Final(r))' = Final(r)
  BY <1>1, Typed DEF Final, Terminal
<1>4. final' \in [Runs -> Terminal \cup {None}] /\ final'[r] = Final(r)
      /\ \A x \in Runs \ {r} : final'[x] = final[x]
  BY <1>1, <1>3, Typed
<1>. QED BY <1>1, <1>2, <1>3, <1>4, RunOf, Typed, TaskStep DEF GoesOn

LEMMA DriverEndsKeeps ==
    ASSUME IInv, NEW r \in Runs, DriverEnds(r)
    PROVE  IInv'
<1>1. /\ task[r] = "final" /\ Goes(r, "left") /\ row' = [row EXCEPT ![r] = final[r]]
      /\ aborts' = aborts \ {r}
      /\ UNCHANGED <<pending, consumed, final, pool, result, unread, session, ops, host, seen, faults>>
  BY DEF DriverEnds, poolVars
<1>2. "left" \in TaskPlaces /\ "left" \notin Submitting /\ "final" \in Driven /\ "left" \notin Driven
  BY DEF TaskPlaces, Submitting, Driven
<1>3. final[r] \in Terminal /\ result[r] # None
  BY <1>1, RunOf, Typed DEF Final, Terminal
<1>4. row' \in [Runs -> Queueable \cup Terminal \cup {None}] /\ row'[r] \in Terminal
      /\ \A x \in Runs \ {r} : row'[x] = row[x]
  BY <1>1, <1>3, Typed
<1>5. row'[r] # "running" /\ ~Held(r)
  BY <1>3, <1>4, RunOf DEF Terminal
<1>. QED BY <1>1, <1>2, <1>4, <1>5, RunOf, Typed, TaskStep DEF GoesOn

LEMMA DriverFailsKeeps ==
    ASSUME IInv, NEW r \in Runs, NEW written \in BOOLEAN, DriverFails(r, written)
    PROVE  IInv'
<1>1. /\ task[r] \in {"mark", "final"} /\ Goes(r, "dead") /\ Fails /\ aborts' = aborts \ {r}
      /\ row' = IF written
                THEN [row EXCEPT ![r] = IF task[r] = "mark" THEN "running" ELSE final[r]]
                ELSE row
      /\ UNCHANGED <<pending, consumed, final, pool, result, unread, session, ops, host, seen>>
  BY DEF DriverFails, poolVars
<1>2. "dead" \in TaskPlaces /\ "dead" \notin Submitting /\ task[r] \in Driven /\ "dead" \notin Driven
  BY <1>1 DEF TaskPlaces, Submitting, Driven
<1>3. row' \in [Runs -> Queueable \cup Terminal \cup {None}]
      /\ \A x \in Runs \ {r} : row'[x] = row[x]
  BY <1>1, Typed DEF Queueable
<1>4. faults'.failures > 0
  BY <1>1, FailsCounts DEF IInv
<1>. QED BY <1>1, <1>2, <1>3, <1>4, RunOf, Typed, TaskStep DEF GoesOn

\* A run joins the line of the pool.
LEMMA JoinsLine ==
    ASSUME IInv, NEW r \in Runs, task[r] \in {"created", "load"},
           pool' = [pool EXCEPT !.line = Append(@, r)]
    PROVE  /\ pool' \in Pools /\ pool'.accepting = pool.accepting /\ pool'.current = pool.current
           /\ IsInjective(pool'.line) /\ pool'.current \notin Range(pool'.line)
           /\ (Held(r))' /\ \A x \in Runs \ {r} : (Held(x))' <=> Held(x)
<1>1. pool \in Pools /\ pool.line \in Seq(Runs)
  BY Typed DEF Pools
<1>2. ~Held(r) /\ IsInjective(pool.line) /\ pool.current \notin Range(pool.line)
  BY RunOf DEF Submitting, IInv, RunsExact
<1>3. r \notin Range(pool.line) /\ r # pool.current
  BY <1>2 DEF Held
<1>4. /\ Append(pool.line, r) \in Seq(Runs) /\ Range(Append(pool.line, r)) = Range(pool.line) \cup {r}
      /\ IsInjective(Append(pool.line, r))
  BY <1>1, <1>2, <1>3, Joined
<1>5. /\ pool' \in Pools /\ pool'.accepting = pool.accepting /\ pool'.current = pool.current
      /\ pool'.line = Append(pool.line, r)
  BY <1>1, <1>4 DEF Pools
<1>. QED BY <1>2, <1>3, <1>4, <1>5 DEF Held

LEMMA EnterKeeps ==
    ASSUME IInv, NEW r \in Runs, Enter(r)
    PROVE  IInv'
<1>1. /\ task[r] = "created" /\ host.loader = None
      /\ UNCHANGED <<durable, row, pending, consumed, final, aborts, result, unread, session, ops,
                     seen, faults>>
  BY DEF Enter, durable
<1>2. task[r] \in Submitting /\ row[r] = "pending" /\ result[r] = None /\ ~Held(r) /\ r \in Runs
  BY <1>1, RunOf DEF Submitting
<1>3. CASE host.stop # "no" /\ Goes(r, "failing") /\ UNCHANGED <<host, pool>>
  <2>1. "failing" \in TaskPlaces /\ "failing" \in Submitting /\ "failing" \notin Driven
        /\ "created" \notin Driven
    BY DEF TaskPlaces, Submitting, Driven
  <2>. QED BY <1>1, <1>2, <1>3, <2>1, RunOf, Typed, TaskStep DEF GoesOn
<1>4. CASE host.stop = "no" /\ Goes(r, "load") /\ host' = [host EXCEPT !.loader = r] /\ UNCHANGED pool
  <2>1. /\ task' \in [Runs -> TaskPlaces] /\ task'[r] = "load"
        /\ \A x \in Runs \ {r} : task'[x] = task[x]
    BY <1>4, Typed DEF Goes, TaskPlaces
  <2>2. host' \in Hosts /\ host'.loader = r /\ host'.stop = "no"
    BY <1>4, Typed DEF Hosts
  <2>3. TypeOK'
    BY <1>1, <1>4, <2>1, <2>2, Typed, RunTypes DEF GoesOn
  <2>4. RowsExact'
    BY <1>1, <1>2, <2>1, RowsStep DEF GoesOn, Driven
  <2>5. RunsExact'
    <3>1. \A x : (Held(x))' <=> Held(x)
      BY <1>4 DEF Held
    <3>2. IsInjective(pool'.line) /\ pool'.current \notin Range(pool'.line)
      BY <1>4 DEF IInv, RunsExact
    <3>3. "load" \notin Driven /\ "created" \notin Driven
      BY DEF Driven
    <3>. QED BY <1>1, <1>2, <1>4, <2>1, <3>1, <3>2, <3>3, RunOf, RunsStep DEF GoesOn
  <2>6. HostExact'
    <3>1. \A x \in Runs : task[x] # "load"
      BY <1>1, RuntimeAssumption DEF IInv, HostExact
    <3>. QED BY <1>4, <2>1, <2>2, <3>1 DEF HostExact
  <2>7. QueuesExact' /\ HandedExact'
    BY <1>1, RunSideKeeps DEF GoesOn
  <2>. QED BY <2>3, <2>4, <2>5, <2>6, <2>7 DEF IInv
<1>5. CASE host.stop = "no" /\ Goes(r, "read") /\ pool' = [pool EXCEPT !.line = Append(@, r)]
           /\ UNCHANGED host
  <2>1. /\ task' \in [Runs -> TaskPlaces] /\ task'[r] = "read"
        /\ \A x \in Runs \ {r} : task'[x] = task[x]
    BY <1>5, Typed DEF Goes, TaskPlaces
  <2>2. TypeOK'
    BY <1>1, <1>5, <2>1, JoinsLine, Typed, RunTypes DEF GoesOn
  <2>3. RowsExact'
    BY <1>1, <1>2, <2>1, RowsStep DEF GoesOn, Driven, Queueable
  <2>4. RunsExact'
    <3>1. "read" \notin Submitting /\ "read" \in Driven /\ "created" \notin Driven
      BY DEF Submitting, Driven
    <3>. QED BY <1>1, <1>2, <1>5, <2>1, <3>1, JoinsLine, RunOf, RunsStep DEF GoesOn
  <2>5. HostExact'
    BY <1>1, <1>5, <2>1, JoinsLine DEF IInv, HostExact
  <2>6. QueuesExact' /\ HandedExact'
    BY <1>1, RunSideKeeps DEF GoesOn
  <2>. QED BY <2>2, <2>3, <2>4, <2>5, <2>6 DEF IInv
<1>6. \/ host.stop # "no" /\ Goes(r, "failing") /\ UNCHANGED <<host, pool>>
      \/ host.stop = "no" /\ Goes(r, "load") /\ host' = [host EXCEPT !.loader = r] /\ UNCHANGED pool
      \/ host.stop = "no" /\ Goes(r, "read") /\ pool' = [pool EXCEPT !.line = Append(@, r)]
           /\ UNCHANGED host
  BY Zenon DEF Enter
<1>. QED BY <1>3, <1>4, <1>5, <1>6

LEMMA LoadedKeeps ==
    ASSUME IInv, NEW r \in Runs, Loaded(r)
    PROVE  IInv'
<1>1. /\ task[r] = "load" /\ Goes(r, "read") /\ pool' = [pool EXCEPT !.line = Append(@, r)]
      /\ session' = [session EXCEPT !.loaded = TRUE] /\ host' = [host EXCEPT !.loader = None]
      /\ UNCHANGED <<durable, row, pending, consumed, final, aborts, result, unread, ops, seen, faults>>
  BY DEF Loaded, durable
<1>2. task[r] \in Submitting /\ row[r] = "pending" /\ result[r] = None /\ ~Held(r)
  BY <1>1, RunOf DEF Submitting
<1>3. /\ task' \in [Runs -> TaskPlaces] /\ task'[r] = "read"
      /\ \A x \in Runs \ {r} : task'[x] = task[x]
  BY <1>1, Typed DEF Goes, TaskPlaces
<1>4. /\ session' \in Sessions /\ session'.queue = session.queue
      /\ host' \in Hosts /\ host'.loader = None /\ host'.stop = host.stop
  BY <1>1, Typed DEF Sessions, Hosts
<1>5. host.loader = r /\ host.stop \in {"no", "asked"}
  BY <1>1 DEF IInv, HostExact
<1>6. TypeOK'
  BY <1>1, <1>3, <1>4, JoinsLine, Typed, RunTypes DEF GoesOn
<1>7. RowsExact'
  BY <1>1, <1>2, <1>3, RowsStep DEF GoesOn, Driven, Queueable
<1>8. RunsExact'
  <2>1. "read" \notin Submitting /\ "read" \in Driven /\ "load" \notin Driven
    BY DEF Submitting, Driven
  <2>. QED BY <1>1, <1>2, <1>3, <2>1, JoinsLine, RunOf, RunsStep DEF GoesOn
<1>9. HostExact'
  <2>1. \A x \in Runs : task'[x] # "load"
    BY <1>1, <1>3, <1>5 DEF IInv, HostExact
  <2>. QED BY <1>4, <1>5, <2>1, RuntimeAssumption DEF HostExact
<1>10. QueuesExact' /\ HandedExact'
  BY <1>1, <1>4, RunSideKeeps DEF GoesOn
<1>. QED BY <1>6, <1>7, <1>8, <1>9, <1>10 DEF IInv

LEMMA LoadFailsKeeps ==
    ASSUME IInv, NEW r \in Runs, LoadFails(r)
    PROVE  IInv'
<1>1. /\ task[r] = "load" /\ Goes(r, "failing") /\ host' = [host EXCEPT !.loader = None]
      /\ UNCHANGED <<durable, row, pending, consumed, final, aborts, pool, result, unread, session,
                     ops, seen, faults>>
  BY DEF LoadFails, durable, poolVars
<1>2. task[r] \in Submitting /\ row[r] = "pending" /\ result[r] = None /\ ~Held(r)
  BY <1>1, RunOf DEF Submitting
<1>3. /\ task' \in [Runs -> TaskPlaces] /\ task'[r] = "failing"
      /\ \A x \in Runs \ {r} : task'[x] = task[x]
  BY <1>1, Typed DEF Goes, TaskPlaces
<1>4. host' \in Hosts /\ host'.loader = None /\ host'.stop = host.stop
  BY <1>1, Typed DEF Hosts
<1>5. host.loader = r
  BY <1>1 DEF IInv, HostExact
<1>6. TypeOK'
  BY <1>1, <1>3, <1>4, Typed, RunTypes DEF GoesOn
<1>7. RowsExact'
  BY <1>1, <1>2, <1>3, RowsStep DEF GoesOn, Driven
<1>8. RunsExact'
  <2>1. \A x : (Held(x))' <=> Held(x)
    BY <1>1 DEF Held
  <2>2. IsInjective(pool'.line) /\ pool'.current \notin Range(pool'.line)
    BY <1>1 DEF IInv, RunsExact
  <2>3. "failing" \notin Driven /\ "load" \notin Driven
    BY DEF Driven
  <2>. QED BY <1>1, <1>2, <1>3, <2>1, <2>2, <2>3, RunOf, RunsStep DEF GoesOn
<1>9. HostExact'
  <2>1. \A x \in Runs : task'[x] # "load"
    BY <1>1, <1>3, <1>5 DEF IInv, HostExact
  <2>2. "failing" \notin Driven \cup {"dead"}
    BY DEF Driven
  <2>. QED BY <1>1, <1>3, <1>4, <2>1, <2>2, RuntimeAssumption DEF IInv, HostExact
<1>10. QueuesExact' /\ HandedExact'
  BY <1>1, RunSideKeeps DEF GoesOn
<1>. QED BY <1>6, <1>7, <1>8, <1>9, <1>10 DEF IInv

\* A step of the pool or of the session, which leaves the tasks and the rows alone
LEMMA PoolKeeps ==
    ASSUME IInv, UNCHANGED <<row, task, final, host, pending, consumed, ops, seen, faults>>,
           aborts' \subseteq Runs, pool' \in Pools,
           result' \in [Runs -> {"completed", "cancelled", "failed", None}],
           unread' \in [Runs -> [items : 0..MaxEvents, yielded : 0..MaxEvents]],
           session' \in Sessions, session'.queue = session.queue,
           pool'.accepting = pool.accepting,
           pool.current = None /\ pool.line = <<>> => pool'.current = None,
           pool.line = <<>> => pool'.line = <<>>,
           RunsExact'
    PROVE  IInv'
<1>1. TypeOK'
  BY Typed, RunTypes DEF GoesOn
<1>2. RowsExact'
  BY RowsStay DEF GoesOn
<1>3. HostExact'
  BY DEF IInv, HostExact
<1>4. QueuesExact' /\ HandedExact'
  BY RunSideKeeps DEF GoesOn
<1>. QED BY <1>1, <1>2, <1>3, <1>4 DEF IInv

LEMMA PoolBeginsKeeps ==
    ASSUME IInv, PoolBegins
    PROVE  IInv'
<1>1. /\ pool.current = None /\ pool.line # <<>> /\ pool.accepting
      /\ pool' = [pool EXCEPT !.current = Head(pool.line), !.line = Tail(pool.line),
                              !.cancelReq = FALSE]
      /\ UNCHANGED <<row, pending, consumed, task, final, aborts, result, unread, session, ops, host,
                     seen, faults>>
  BY DEF PoolBegins, durable, runVars
<1>2. pool \in Pools /\ pool.line \in Seq(Runs) /\ IsInjective(pool.line)
  BY Typed DEF Pools, IInv, RunsExact
<1>3. /\ Head(pool.line) \in Runs /\ Tail(pool.line) \in Seq(Runs) /\ Head(pool.line) \in Range(pool.line)
      /\ Range(Tail(pool.line)) = Range(pool.line) \ {Head(pool.line)}
      /\ IsInjective(Tail(pool.line))
  BY <1>1, <1>2, Served
<1>4. /\ pool' \in Pools /\ pool'.accepting = pool.accepting
      /\ pool'.current = Head(pool.line) /\ pool'.line = Tail(pool.line)
  BY <1>1, <1>2, <1>3 DEF Pools
<1>5. RunsExact'
  <2>0. PICK r \in Runs : r = Head(pool.line)
    BY <1>3
  <2>1. r \in Runs /\ Held(r)
    BY <2>0, <1>3 DEF Held
  <2>2. \A x \in Runs : (Held(x))' <=> Held(x)
    BY <1>1, <1>3, <1>4, RuntimeAssumption DEF Held
  <2>3. (Final(r))' = Final(r)
    BY <1>1 DEF Final
  <2>4. IsInjective(pool'.line) /\ pool'.current \notin Range(pool'.line)
    BY <1>3, <1>4
  <2>. QED BY <1>1, <2>1, <2>2, <2>3, <2>4, RunOf, RunsStep DEF GoesOn
<1>. QED BY <1>1, <1>4, <1>5, Typed, PoolKeeps

\* A step that changes neither the pool nor what RunsExact looks at
LEMMA RunsStay ==
    ASSUME IInv, UNCHANGED <<task, final, aborts, result, unread, faults>>,
           pool'.current = pool.current, pool'.line = pool.line
    PROVE  RunsExact'
<1>1. \A x : /\ (Held(x))' <=> Held(x)
             /\ (Final(x))' = Final(x)
  BY DEF Held, Final
<1>. QED BY <1>1 DEF IInv, RunsExact

LEMMA HarnessKeeps ==
    ASSUME IInv, NEW h \in Runs \cup {None}, session' = [session EXCEPT !.harness = h],
           UNCHANGED <<durable, runVars, poolVars, ops, host, seen, faults>>
    PROVE  IInv'
<1>1. session' \in Sessions /\ session'.queue = session.queue
  BY Typed DEF Sessions
<1>2. UNCHANGED <<row, task, final, aborts, host, pending, consumed, ops, seen, faults, pool, result,
                  unread>>
  BY DEF durable, runVars, poolVars
<1>3. RunsExact'
  BY <1>2, RunsStay
<1>. QED BY <1>1, <1>2, <1>3, Typed, PoolKeeps

LEMMA PoolYieldsKeeps ==
    ASSUME IInv, NEW r \in Runs, PoolYields(r)
    PROVE  IInv'
<1>1. /\ unread[r].yielded < MaxEvents
      /\ unread' = [unread EXCEPT ![r] = [items |-> @.items + 1, yielded |-> @.yielded + 1]]
      /\ UNCHANGED <<row, pending, consumed, task, final, aborts, pool, result, session, ops, host,
                     seen, faults>>
  BY DEF PoolYields, durable, runVars
<1>2. /\ unread \in [Runs -> [items : 0..MaxEvents, yielded : 0..MaxEvents]]
      /\ unread[r].items <= unread[r].yielded
      /\ unread[r].items \in 0..MaxEvents /\ unread[r].yielded \in 0..MaxEvents
  BY Typed, RunOf
<1>3. /\ unread[r].items + 1 \in 0..MaxEvents /\ unread[r].yielded + 1 \in 0..MaxEvents
      /\ unread[r].items + 1 <= unread[r].yielded + 1
  BY <1>1, <1>2, RuntimeAssumption
<1>4. unread'[r] = [items |-> unread[r].items + 1, yielded |-> unread[r].yielded + 1]
  BY <1>1, <1>2
<1>5. /\ unread' \in [Runs -> [items : 0..MaxEvents, yielded : 0..MaxEvents]]
      /\ unread'[r].items <= unread'[r].yielded
      /\ \A x \in Runs \ {r} : unread'[x] = unread[x]
  BY <1>1, <1>2, <1>3, <1>4
<1>6. RunsExact'
  <2>1. \A x : /\ (Held(x))' <=> Held(x)
               /\ (Final(x))' = Final(x)
    BY <1>1 DEF Held, Final
  <2>2. IsInjective(pool'.line) /\ pool'.current \notin Range(pool'.line)
    BY <1>1 DEF IInv, RunsExact
  <2>. QED BY <1>1, <1>5, <2>1, <2>2, RunOf, RunsStep DEF GoesOn
<1>. QED BY <1>1, <1>5, <1>6, Typed, PoolKeeps

LEMMA PoolEndsKeeps ==
    ASSUME IInv, NEW r \in Runs, NEW status \in {"completed", "cancelled", "failed"},
           NEW left \in BOOLEAN, PoolEnds(r, status, left)
    PROVE  IInv'
<1>1. /\ pool.current = r /\ result' = [result EXCEPT ![r] = status]
      /\ pool' = [pool EXCEPT !.current = None, !.cancelReq = FALSE]
      /\ session' = IF left THEN [session EXCEPT !.harness = None] ELSE session
      /\ UNCHANGED <<row, pending, consumed, task, final, aborts, unread, ops, host, seen, faults>>
  BY DEF PoolEnds, durable, runVars
<1>2. session' \in Sessions /\ session'.queue = session.queue
  BY <1>1, Typed DEF Sessions
<1>3. /\ pool' \in Pools /\ pool'.accepting = pool.accepting
      /\ pool'.current = None /\ pool'.line = pool.line
  BY <1>1, Typed DEF Pools
<1>4. /\ result' \in [Runs -> {"completed", "cancelled", "failed", None}] /\ result'[r] = status
      /\ \A x \in Runs \ {r} : result'[x] = result[x]
  BY <1>1, Typed
<1>5. RunsExact'
  <2>1. /\ pool.line \in Seq(Runs) /\ r \notin Range(pool.line) /\ IsInjective(pool.line) /\ Held(r)
    BY <1>1, Typed DEF IInv, RunsExact, Pools, Held
  <2>2. Range(pool.line) \subseteq Runs
    BY <2>1, LenProperties, ElementOfSeq DEF Range
  <2>3. IsInjective(pool'.line) /\ pool'.current \notin Range(pool'.line)
    BY <1>3, <2>1, <2>2, RuntimeAssumption
  <2>4. ~(Held(r))' /\ \A x \in Runs \ {r} : (Held(x))' <=> Held(x)
    BY <1>1, <1>3, <2>1, RuntimeAssumption DEF Held
  <2>5. status # None
    BY RuntimeAssumption DEF Terminal
  <2>6. task[r] \notin Submitting /\ task[r] # "final"
    BY <2>1, RunOf DEF Submitting
  <2>. QED BY <1>1, <1>4, <2>1, <2>3, <2>4, <2>5, <2>6, RunOf, RunsStep DEF GoesOn
<1>. QED BY <1>1, <1>2, <1>3, <1>4, <1>5, Typed, PoolKeeps

LEMMA PoolRefusesKeeps ==
    ASSUME IInv, NEW r \in Runs, PoolRefuses(r)
    PROVE  IInv'
<1>1. /\ Contains(pool.line, r) /\ result' = [result EXCEPT ![r] = "cancelled"]
      /\ pool' = [pool EXCEPT !.line = Without(@, r)]
      /\ UNCHANGED <<row, pending, consumed, task, final, aborts, unread, session, ops, host, seen,
                     faults>>
  BY DEF PoolRefuses, durable, runVars
<1>2. pool \in Pools /\ pool.line \in Seq(Runs) /\ IsInjective(pool.line)
      /\ pool.current \notin Range(pool.line) /\ r \in Range(pool.line)
  BY <1>1, Typed, ContainsIs DEF Pools, IInv, RunsExact
<1>3. /\ Without(pool.line, r) \in Seq(Runs)
      /\ Range(Without(pool.line, r)) = Range(pool.line) \ {r}
      /\ IsInjective(Without(pool.line, r))
  BY <1>2, Left
<1>4. /\ pool' \in Pools /\ pool'.accepting = pool.accepting
      /\ pool'.current = pool.current /\ pool'.line = Without(pool.line, r)
  BY <1>1, <1>2, <1>3 DEF Pools
<1>5. /\ result' \in [Runs -> {"completed", "cancelled", "failed", None}] /\ result'[r] = "cancelled"
      /\ \A x \in Runs \ {r} : result'[x] = result[x]
  BY <1>1, Typed
<1>6. RunsExact'
  <2>1. Held(r) /\ r # pool.current
    BY <1>2 DEF Held
  <2>2. IsInjective(pool'.line) /\ pool'.current \notin Range(pool'.line)
    BY <1>2, <1>3, <1>4
  <2>3. ~(Held(r))' /\ \A x \in Runs \ {r} : (Held(x))' <=> Held(x)
    BY <1>3, <1>4, <2>1 DEF Held
  <2>4. "cancelled" # None
    BY RuntimeAssumption DEF Terminal
  <2>5. task[r] \notin Submitting /\ task[r] # "final"
    BY <2>1, RunOf DEF Submitting
  <2>. QED BY <1>1, <1>5, <2>1, <2>2, <2>3, <2>4, <2>5, RunOf, RunsStep DEF GoesOn
<1>7. pool.line # <<>>
  BY <1>2 DEF Range
<1>. QED BY <1>1, <1>4, <1>5, <1>6, <1>7, Typed, PoolKeeps

LEMMA CancelKeeps ==
    ASSUME IInv, NEW r \in Runs, NEW hard \in BOOLEAN, Cancel(r, hard)
    PROVE  IInv'
<1>1. /\ row[r] \notin Terminal /\ pool.current = r
      /\ pool' = [pool EXCEPT !.cancelReq = TRUE]
      /\ aborts' = IF hard THEN aborts \cup {r} ELSE aborts
      /\ UNCHANGED <<row, pending, consumed, task, final, result, unread, session, ops, host, seen,
                     faults>>
  BY DEF Cancel, durable
<1>2. /\ pool' \in Pools /\ pool'.accepting = pool.accepting
      /\ pool'.current = pool.current /\ pool'.line = pool.line
  BY <1>1, Typed DEF Pools
<1>3. aborts' \subseteq Runs /\ \A x \in Runs \ {r} : x \in aborts' <=> x \in aborts
  BY <1>1, Typed
<1>4. RunsExact'
  <2>1. Held(r)
    BY <1>1 DEF Held
  <2>2. \A x : (Held(x))' <=> Held(x)
    BY <1>2 DEF Held
  <2>3. IsInjective(pool'.line) /\ pool'.current \notin Range(pool'.line)
    BY <1>2 DEF IInv, RunsExact
  <2>4. task[r] # "final" /\ (task[r] \in Driven \/ faults.failures > 0)
    BY <2>1, RunOf DEF Driven
  <2>. QED BY <1>1, <1>3, <2>1, <2>2, <2>3, <2>4, RunOf, RunsStep DEF GoesOn
<1>. QED BY <1>1, <1>2, <1>3, <1>4, Typed, PoolKeeps

-----------------------------------------------------------------------------
(* shutdown, and the end of the process *)

LEMMA ShutdownBeginsKeeps ==
    ASSUME IInv, ShutdownBegins
    PROVE  IInv'
<1>1. /\ host.stop \in {"no", "failed"} /\ host' = [host EXCEPT !.stop = "asked"]
      /\ UNCHANGED <<row, pending, consumed, task, final, aborts, pool, result, unread, session, ops,
                     seen, faults>>
  BY DEF ShutdownBegins, durable, runVars, poolVars
<1>2. host' \in Hosts /\ host'.stop = "asked" /\ host'.loader = host.loader
  BY <1>1, Typed DEF Hosts
<1>3. TypeOK'
  BY <1>1, <1>2, Typed, RunTypes DEF GoesOn
<1>4. RowsExact' /\ RunsExact' /\ QueuesExact' /\ HandedExact'
  BY <1>1, RowsStay, RunsStay, RunSideKeeps DEF GoesOn
<1>5. HostExact'
  BY <1>1, <1>2 DEF IInv, HostExact
<1>. QED BY <1>3, <1>4, <1>5 DEF IInv

LEMMA ShutdownPoolKeeps ==
    ASSUME IInv, ShutdownPool
    PROVE  IInv'
<1>1. /\ host.loader = None /\ host' = [stop |-> "pool", loader |-> "shutdown"]
      /\ pool' = [pool EXCEPT !.accepting = FALSE,
                              !.cancelReq = pool.cancelReq \/ pool.current # None]
      /\ UNCHANGED <<row, pending, consumed, task, final, aborts, result, unread, session, ops,
                     seen, faults>>
  BY DEF ShutdownPool, durable, runVars
<1>2. /\ pool' \in Pools /\ ~pool'.accepting
      /\ pool'.current = pool.current /\ pool'.line = pool.line
  BY <1>1, Typed DEF Pools
<1>3. TypeOK'
  BY <1>1, <1>2, Typed, RunTypes DEF GoesOn, Hosts
<1>4. RowsExact' /\ RunsExact' /\ QueuesExact' /\ HandedExact'
  BY <1>1, <1>2, RowsStay, RunsStay, RunSideKeeps DEF GoesOn
<1>5. HostExact'
  <2>1. \A x \in Runs : task[x] # "load"
    BY <1>1, RuntimeAssumption DEF IInv, HostExact
  <2>2. "shutdown" \notin Runs
    BY RuntimeAssumption
  <2>. QED BY <1>1, <1>2, <2>1, <2>2 DEF HostExact
<1>. QED BY <1>3, <1>4, <1>5 DEF IInv

\* The session and its queues are gone.
LEMMA UnloadedFields ==
    /\ Unloaded \in Sessions /\ \A k \in Kinds : Unloaded.queue[k] = <<>>
    /\ Range(<<>>) = {} /\ IsInjective(<<>>)
BY DEF Unloaded, Sessions, Range, IsInjective

LEMMA ShutdownPoolEndsKeeps ==
    ASSUME IInv, ShutdownPoolEnds
    PROVE  IInv'
<1>1. /\ host.stop = "pool" /\ pool.current = None /\ pool.line = <<>>
      /\ host' = [stop |-> "drivers", loader |-> None] /\ session' = Unloaded
      /\ UNCHANGED <<row, pending, consumed, task, final, aborts, pool, result, unread, ops,
                     seen, faults>>
  BY DEF ShutdownPoolEnds, durable, runVars, poolVars
<1>2. TypeOK'
  BY <1>1, UnloadedFields, Typed, RunTypes DEF GoesOn, Hosts
<1>3. RowsExact' /\ RunsExact'
  BY <1>1, RowsStay, RunsStay DEF GoesOn
<1>4. HostExact'
  <2>1. \A x \in Runs : task[x] # "load"
    BY <1>1 DEF IInv, HostExact
  <2>2. ~pool.accepting
    BY <1>1 DEF IInv, HostExact
  <2>. QED BY <1>1, <2>1, <2>2, RuntimeAssumption DEF HostExact
<1>5. QueuesExact'
  BY <1>1 DEF IInv, QueuesExact, Fresh
<1>6. HandedExact'
  <2>. SUFFICES ASSUME Healthy'
                PROVE  HandedExact'
    BY DEF HandedExact
  <2>1. Healthy
    BY <1>1 DEF Healthy
  <2>2. \A k \in Kinds : session'.queue[k] = <<>>
    BY <1>1, UnloadedFields
  <2>3. "steer" \in Kinds
    BY DEF Kinds
  <2>. QED BY <1>1, <2>1, <2>2, <2>3, UnloadedFields DEF HandedExact, IInv
<1>. QED BY <1>2, <1>3, <1>4, <1>5, <1>6 DEF IInv

LEMMA ShutdownEndsKeeps ==
    ASSUME IInv, ShutdownEnds
    PROVE  IInv'
<1>1. /\ host.stop = "drivers" /\ \A x \in Runs : task[x] \notin Driven
      /\ host' = [host EXCEPT !.stop = IF \E x \in Runs : task[x] = "dead" THEN "failed" ELSE "done"]
      /\ task' = [x \in Runs |-> IF task[x] = "dead" THEN "left" ELSE task[x]]
      /\ UNCHANGED <<row, pending, consumed, final, aborts, pool, result, unread, session, ops,
                     seen, faults>>
  BY DEF ShutdownEnds, DriversDrained, durable, poolVars
<1>2. host' \in Hosts /\ host'.stop \in {"failed", "done"} /\ host'.loader = host.loader
  BY <1>1, Typed DEF Hosts
<1>3. /\ task' \in [Runs -> TaskPlaces]
      /\ \A x \in Runs : task'[x] = IF task[x] = "dead" THEN "left" ELSE task[x]
  BY <1>1, Typed DEF TaskPlaces
<1>4. TypeOK'
  BY <1>1, <1>2, <1>3, Typed, RunTypes DEF GoesOn
<1>5. RowsExact'
  BY <1>1, <1>3 DEF IInv, RowsExact, Driven
<1>6. ~pool.accepting /\ pool.current = None /\ pool.line = <<>> /\ host.loader \notin Runs
  BY <1>1 DEF IInv, HostExact
<1>7. RunsExact'
  <2>1. \A x \in Runs : ~(Held(x))'
    BY <1>1, <1>6, UnloadedFields, RuntimeAssumption DEF Held
  <2>2. IsInjective(pool'.line) /\ pool'.current \notin Range(pool'.line)
    BY <1>1 DEF IInv, RunsExact
  <2>3. \A x \in Runs : task'[x] \notin Driven /\ (task'[x] \in Submitting => task[x] \in Submitting)
    BY <1>1, <1>3 DEF Driven, Submitting
  <2>4. \A x \in Runs : /\ unread'[x].items <= unread'[x].yielded
                        /\ task'[x] \in Submitting => result'[x] = None
                        /\ x \in aborts' => faults'.failures > 0
    BY <1>1, <2>3, RunOf
  <2>. QED BY <2>1, <2>2, <2>3, <2>4 DEF RunsExact, Driven
<1>8. HostExact'
  <2>1. \A x \in Runs : task'[x] # "load" /\ task'[x] \notin Driven \cup {"dead"}
    BY <1>1, <1>3, <1>6 DEF IInv, HostExact, Driven
  <2>. QED BY <1>1, <1>2, <1>6, <2>1 DEF HostExact
<1>9. QueuesExact' /\ HandedExact'
  BY <1>1, RunSideKeeps DEF GoesOn
<1>. QED BY <1>4, <1>5, <1>7, <1>8, <1>9 DEF IInv

LEMMA RestartKeeps ==
    ASSUME IInv, Restart
    PROVE  IInv'
<1>1. /\ faults.crashes < MaxCrashes /\ faults' = [faults EXCEPT !.crashes = @ + 1]
      /\ row' = [r \in Runs |-> Recovered(row[r])]
      /\ task' = [r \in Runs |-> IF row[r] = None THEN "none" ELSE "left"]
      /\ final' = [r \in Runs |-> None] /\ aborts' = {}
      /\ pool' = EmptyPool /\ result' = [r \in Runs |-> None]
      /\ unread' = [r \in Runs |-> [items |-> 0, yielded |-> 0]]
      /\ session' = Unloaded /\ ops' = {} /\ host' = FreshHost
      /\ UNCHANGED <<pending, consumed, seen>>
  BY DEF Restart
<1>2. faults' \in [crashes : 0..MaxCrashes, failures : 0..MaxFailures] /\ faults'.crashes > 0
  <2>1. faults \in [crashes : 0..MaxCrashes, failures : 0..MaxFailures] /\ faults.crashes \in Nat
    BY RuntimeAssumption DEF IInv, TypeOK
  <2>2. faults.crashes + 1 \in 0..MaxCrashes /\ faults.crashes + 1 > 0
    BY <1>1, <2>1, RuntimeAssumption
  <2>. QED BY <1>1, <2>1, <2>2
<1>3. /\ row' \in [Runs -> Queueable \cup Terminal \cup {None}]
      /\ \A r \in Runs : row'[r] # "running"
  BY <1>1, Typed DEF Recovered, Terminal, Queueable
<1>4. \A r \in Runs : task'[r] \in {"none", "left"}
  BY <1>1
<1>5. TypeOK'
  <2>1. /\ pool' \in Pools /\ session' \in Sessions /\ host' \in Hosts
        /\ unread' \in [Runs -> [items : 0..MaxEvents, yielded : 0..MaxEvents]]
    BY <1>1, UnloadedFields, RuntimeAssumption DEF EmptyPool, FreshHost, Pools, Hosts
  <2>2. task' \in [Runs -> TaskPlaces]
    BY <1>1 DEF TaskPlaces
  <2>. QED BY <1>1, <1>2, <1>3, <2>1, <2>2 DEF IInv, TypeOK, TaskPlaces, Sessions, Pools, Hosts
<1>6. RowsExact'
  BY <1>3, <1>4 DEF RowsExact, Driven
<1>7. RunsExact'
  <2>1. \A r \in Runs : ~(Held(r))'
    BY <1>1, RuntimeAssumption DEF Held, EmptyPool, Range
  <2>2. IsInjective(pool'.line) /\ pool'.current \notin Range(pool'.line)
    BY <1>1 DEF EmptyPool, IsInjective, Range
  <2>3. \A r \in Runs : unread'[r].items <= unread'[r].yielded /\ result'[r] = None
    BY <1>1
  <2>. QED BY <1>1, <1>4, <2>1, <2>2, <2>3 DEF RunsExact, Driven
<1>8. HostExact'
  BY <1>1, <1>4, RuntimeAssumption DEF HostExact, FreshHost
<1>9. QueuesExact' /\ HandedExact'
  <2>1. ~Healthy'
    BY <1>2, RuntimeAssumption DEF Healthy
  <2>. QED BY <1>1, <2>1 DEF IInv, QueuesExact, HandedExact
<1>. QED BY <1>5, <1>6, <1>7, <1>8, <1>9 DEF IInv

-----------------------------------------------------------------------------
(* The theorems *)

LEMMA InitIInv == ASSUME Init PROVE IInv
<1>1. TypeOK
  <2>1. /\ pool \in Pools /\ session \in Sessions /\ host \in Hosts
        /\ unread \in [Runs -> [items : 0..MaxEvents, yielded : 0..MaxEvents]]
        /\ faults \in [crashes : 0..MaxCrashes, failures : 0..MaxFailures]
    BY UnloadedFields, RuntimeAssumption DEF Init, EmptyPool, FreshHost, Pools, Hosts
  <2>. QED BY <2>1 DEF Init, TypeOK, TaskPlaces, Sessions, Pools, Hosts, Kinds
<1>2. RowsExact
  <2>1. \A r \in Runs : row[r] = None /\ task[r] = "none"
    BY DEF Init
  <2>2. None # "running"
    BY RuntimeAssumption DEF Queueable
  <2>. QED BY <2>1, <2>2 DEF RowsExact, Driven
<1>3. RunsExact
  <2>1. \A r \in Runs : ~Held(r)
    BY RuntimeAssumption DEF Init, Held, EmptyPool, Range
  <2>. QED BY <2>1 DEF Init, RunsExact, Driven, EmptyPool, IsInjective, Range
<1>4. HostExact
  BY RuntimeAssumption DEF Init, HostExact, FreshHost
<1>5. QueuesExact
  BY UnloadedFields DEF Init, QueuesExact, Kinds
<1>6. HandedExact
  BY UnloadedFields DEF Init, HandedExact, Unloaded, Kinds
<1>. QED BY <1>1, <1>2, <1>3, <1>4, <1>5, <1>6 DEF IInv

LEMMA NextIInv == ASSUME IInv, [Next]_vars PROVE IInv'
<1>1. ASSUME NEW r \in Runs, SubmitStep(r) \/ Submit(r)
      PROVE  IInv'
  BY <1>1, SubmitKeeps, CreatedKeeps, AuditFailsKeeps, EnterKeeps, LoadedKeeps, LoadFailsKeeps,
     SubmissionFailedKeeps DEF SubmitStep
<1>2. ASSUME NEW r \in Runs, DriverStep(r)
      PROVE  IInv'
  BY <1>2, DriverReadsKeeps, DriverMarksKeeps, DriverWaitsKeeps, DriverEndsKeeps, DriverFailsKeeps
     DEF DriverStep
<1>3. ASSUME NEW r \in Runs, PoolStep(r)
      PROVE  IInv'
  BY <1>3, HarnessKeeps, PoolYieldsKeeps, PoolRefusesKeeps, PoolEndsKeeps DEF PoolStep, Activates
<1>4. ASSUME NEW r \in Runs, NEW hard \in BOOLEAN, Cancel(r, hard)
      PROVE  IInv'
  BY <1>4, CancelKeeps
<1>5. ASSUME NEW r \in Runs, NEW k \in Kinds, DispatchNext(r, k)
      PROVE  IInv'
  BY <1>5, DispatchNextKeeps
<1>6. ASSUME NEW r \in Runs, NEW m \in Messages,
             SteerQueued(r, m) \/ SteerAuditFails(r, m) \/ \E k \in Kinds : QueueFor(r, k, m)
      PROVE  IInv'
  BY <1>6, SteerQueuedKeeps, SteerAuditFailsKeeps, QueueForKeeps
<1>7. ASSUME NEW m \in Messages, RemoveQueued(m) \/ \E k \in Kinds : Enqueue(k, m)
      PROVE  IInv'
  BY <1>7, RemoveQueuedKeeps, EnqueueKeeps
<1>8. ASSUME NEW k \in Kinds, Drain(k) \/ \E i \in DOMAIN pending[k] : MoveQueued(k, i)
      PROVE  IInv'
  BY <1>8, DrainKeeps, MoveQueuedKeeps
<1>9. ASSUME NEW o \in ops, QueueStep(o)
      PROVE  IInv'
  BY <1>9, EnqueuedKeeps, PoolQueuesKeeps, SessionQueuesKeeps, ConsumeKeeps, ConsumeFailsKeeps,
     QueueAuditFailsKeeps DEF QueueStep
<1>10. ASSUME PoolBegins \/ Reaped
       PROVE  IInv'
  BY <1>10, PoolBeginsKeeps, HarnessKeeps DEF Reaped
<1>11. ASSUME ShutdownBegins \/ ShutdownStep \/ Restart
       PROVE  IInv'
  BY <1>11, ShutdownBeginsKeeps, ShutdownPoolKeeps, ShutdownPoolEndsKeeps, ShutdownEndsKeeps,
     RestartKeeps DEF ShutdownStep
<1>12. CASE UNCHANGED vars
  <2>1. UNCHANGED <<row, task, final, aborts, pool, result, unread, host, session, pending, consumed,
                    ops, seen, faults>>
    BY <1>12 DEF vars, durable, runVars, poolVars
  <2>. QED BY <2>1, RunsStay, Typed, PoolKeeps
<1>. QED BY <1>1, <1>2, <1>3, <1>4, <1>5, <1>6, <1>7, <1>8, <1>9, <1>10, <1>11, <1>12 DEF Next

\* The inductive invariant of the runtime: rows and tasks, pool and results, shutdown, the durable
\* queues and what was handed to the session agree, however submissions, drivers, cancellations,
\* queue calls, failures and restarts interleave.
THEOREM RuntimeInvariant == Spec => []IInv
<1>1. Init => IInv
  BY InitIInv
<1>2. IInv /\ [Next]_vars => IInv'
  BY NextIInv
<1>. QED BY <1>1, <1>2, PTL DEF Spec

LEMMA IInvAccounts == ASSUME IInv PROVE Accounted
<1>1. RunningIsDriven
  <2>. SUFFICES ASSUME NEW r \in Runs, row[r] = "running", ~(faults.failures > 0)
                PROVE  task[r] \in Driven /\ (r = pool.current \/ Contains(pool.line, r)
                                                 \/ result[r] # None)
    BY DEF RunningIsDriven
  <2>1. task[r] \in Driven /\ (Held(r) \/ result[r] # None)
    BY RunOf
  <2>2. pool.line \in Seq(Runs)
    BY Typed DEF Pools
  <2>. QED BY <2>1, <2>2, ContainsIs DEF Held
<1>2. ShutdownDrains
  <2>. SUFFICES ASSUME host.stop = "done"
                PROVE  /\ pool.current = None /\ pool.line = <<>>
                       /\ faults.failures = 0 => aborts = {}
                       /\ \A r \in Runs : task[r] \notin Driven \cup {"dead"}
    BY DEF ShutdownDrains
  <2>1. /\ pool.current = None /\ pool.line = <<>>
        /\ \A r \in Runs : task[r] \notin Driven \cup {"dead"}
    BY DEF IInv, HostExact
  <2>2. faults.failures = 0 => ~(faults.failures > 0)
    OBVIOUS
  <2>. QED BY <2>1, <2>2, RunOf, Typed
<1>. QED BY <1>1, <1>2 DEF Accounted

\* A running row has its driver in this process and a run or a result behind it, and a shutdown()
\* that returned has left neither drivers, nor runs, nor aborts behind.
THEOREM RuntimeAccounts == Spec => []Accounted
BY RuntimeInvariant, IInvAccounts, PTL

LEMMA IInvQueuesOnce == ASSUME IInv PROVE NotTwice
<1>. SUFFICES ASSUME Healthy
              PROVE  LET handed == seen \o session.queue["steer"] \o session.queue["follow_up"] IN
                     /\ IsInjective(handed)
                     /\ \A i \in DOMAIN handed : \A k \in Kinds :
                            Contains(pending[k], handed[i]) =>
                                \E o \in ops : o.msg = handed[i] /\ o.stage = "consume"
  BY DEF NotTwice
<1>. DEFINE q == session.queue
            half == seen \o q["steer"]
            handed == half \o q["follow_up"]
<1>1. /\ seen \in Seq(Messages) /\ q["steer"] \in Seq(Messages) /\ q["follow_up"] \in Seq(Messages)
      /\ pending \in [Kinds -> Seq(Messages)] /\ "steer" \in Kinds /\ "follow_up" \in Kinds
  BY DEF IInv, TypeOK, Kinds
<1>2. /\ IsInjective(seen) /\ IsInjective(q["steer"]) /\ IsInjective(q["follow_up"])
      /\ Range(q["steer"]) \cap Range(q["follow_up"]) = {}
      /\ Range(seen) \cap Range(q["steer"]) = {} /\ Range(seen) \cap Range(q["follow_up"]) = {}
  BY <1>1 DEF IInv, HandedExact
<1>3. half \in Seq(Messages) /\ Range(half) = Range(seen) \cup Range(q["steer"]) /\ IsInjective(half)
  BY <1>1, <1>2, Joint
<1>. HIDE DEF half
<1>4. IsInjective(handed) /\ Range(handed) = Range(half) \cup Range(q["follow_up"])
  BY <1>1, <1>2, <1>3, Joint
<1>. HIDE DEF handed
<1>5. ASSUME NEW i \in DOMAIN handed, NEW k \in Kinds, Contains(pending[k], handed[i])
      PROVE  \E o \in ops : o.msg = handed[i] /\ o.stage = "consume"
  <2>1. handed[i] \in Range(seen) \cup UNION {Range(q[j]) : j \in Kinds}
    <3>1. handed[i] \in Range(handed)
      BY DEF Range
    <3>. QED BY <3>1, <1>1, <1>3, <1>4
  <2>2. handed[i] \in consumed \/ \E o \in ops : o.msg = handed[i] /\ o.stage = "consume"
    BY <2>1 DEF IInv, HandedExact
  <2>3. handed[i] \in Range(pending[k])
    BY <1>1, <1>5, ContainsIs
  <2>4. handed[i] \notin consumed
    BY <2>3 DEF IInv, QueuesExact
  <2>. QED BY <2>2, <2>4
<1>. QED BY <1>4, <1>5 DEF handed, half

\* While nothing fails, a message reaches the agent at most once, and one that was handed to the
\* session waits in no durable queue any more, unless its call is about to consume it.
THEOREM RuntimeQueuesOnce == Spec => []QueuedOnce
<1>1. IInv => QueuedOnce
  BY IInvQueuesOnce DEF QueuedOnce
<1>. QED BY <1>1, RuntimeInvariant, PTL

\* The steps that write a row
LEMMA RowWrites ==
    ASSUME [Next]_vars, row' # row
    PROVE  \/ Restart
           \/ \E r \in Runs : \/ Created(r) \/ SubmissionFailed(r) \/ DriverMarks(r) \/ DriverEnds(r)
                              \/ \E written \in BOOLEAN : DriverFails(r, written)
<1>. SUFFICES ASSUME Next, ~Restart, ~(row' = row),
                     ~\E r \in Runs : \/ Created(r) \/ SubmissionFailed(r) \/ DriverMarks(r) \/ DriverEnds(r)
                                      \/ \E written \in BOOLEAN : DriverFails(r, written)
              PROVE  FALSE
  BY DEF vars, durable
<1>1. ASSUME NEW r \in Runs, SubmitStep(r) \/ Submit(r) \/ DriverStep(r) \/ PoolStep(r)
      PROVE  row' = row
  <2>1. CASE Submit(r) \/ AuditFails(r) \/ Enter(r) \/ Loaded(r) \/ LoadFails(r)
    BY <2>1 DEF Submit, AuditFails, Enter, Loaded, LoadFails, durable
  <2>2. CASE DriverReads(r) \/ DriverWaits(r)
    BY <2>2 DEF DriverReads, DriverWaits, durable
  <2>3. CASE PoolStep(r)
    BY <2>3 DEF PoolStep, Activates, PoolYields, PoolRefuses, PoolEnds, durable
  <2>. QED BY <1>1, <2>1, <2>2, <2>3 DEF SubmitStep, DriverStep
<1>2. ASSUME NEW r \in Runs, NEW hard \in BOOLEAN, Cancel(r, hard)
      PROVE  row' = row
  BY <1>2 DEF Cancel, durable
<1>3. ASSUME NEW r \in Runs, NEW k \in Kinds, DispatchNext(r, k)
      PROVE  row' = row
  BY <1>3 DEF DispatchNext, durable
<1>4. ASSUME NEW r \in Runs, NEW m \in Messages,
             SteerQueued(r, m) \/ SteerAuditFails(r, m) \/ \E k \in Kinds : QueueFor(r, k, m)
      PROVE  row' = row
  BY <1>4 DEF SteerQueued, SteerAuditFails, QueueFor, durable
<1>5. ASSUME NEW m \in Messages, RemoveQueued(m) \/ \E k \in Kinds : Enqueue(k, m)
      PROVE  row' = row
  BY <1>5 DEF RemoveQueued, Enqueue
<1>6. ASSUME NEW k \in Kinds, Drain(k) \/ \E i \in DOMAIN pending[k] : MoveQueued(k, i)
      PROVE  row' = row
  BY <1>6 DEF Drain, MoveQueued, durable
<1>7. ASSUME NEW o \in ops, QueueStep(o)
      PROVE  row' = row
  BY <1>7 DEF QueueStep, Enqueued, PoolQueues, SessionQueues, Consume, ConsumeFails,
              QueueAuditFails, durable
<1>8. ASSUME PoolBegins \/ Reaped \/ ShutdownBegins \/ ShutdownStep
      PROVE  row' = row
  BY <1>8 DEF PoolBegins, Reaped, ShutdownBegins, ShutdownStep, ShutdownPool, ShutdownPoolEnds,
              ShutdownEnds, durable
<1>. QED BY <1>1, <1>2, <1>3, <1>4, <1>5, <1>6, <1>7, <1>8 DEF Next

LEMMA TerminalStep ==
    ASSUME IInv, [Next]_vars, NEW r \in Runs, row[r] \in Terminal
    PROVE  row'[r] = row[r]
<1>1. row[r] \notin {"pending", "running", None} /\ row[r] \notin Queueable
  BY RuntimeAssumption DEF Terminal, Queueable
<1>2. task[r] \notin {"create", "failing"} \cup Driven
  BY <1>1, RunOf
<1>3. CASE Restart
  BY <1>1, <1>3 DEF Restart, Recovered
<1>4. ASSUME NEW x \in Runs,
             \/ Created(x) \/ SubmissionFailed(x) \/ DriverMarks(x) \/ DriverEnds(x)
             \/ \E written \in BOOLEAN : DriverFails(x, written)
      PROVE  row'[r] = row[r]
  <2>1. task[x] \in {"create", "failing"} \cup Driven
    BY <1>4 DEF Created, SubmissionFailed, DriverMarks, DriverEnds, DriverFails, Driven
  <2>2. x # r
    BY <1>2, <2>1
  <2>3. \A y : row' = [row EXCEPT ![x] = y] => row'[r] = row[r]
    BY <2>2, Typed
  <2>. QED BY <1>4, <2>3 DEF Created, SubmissionFailed, DriverMarks, DriverEnds, DriverFails
<1>5. CASE row' = row
  BY <1>5
<1>. QED BY <1>3, <1>4, <1>5, RowWrites

LEMMA AbortStep ==
    ASSUME IInv, NEW r \in Runs, DriverEnds(r)
    PROVE  (row'[r] = "interrupted") <=> (r \in aborts /\ result[r] = "cancelled")
<1>1. row'[r] = Final(r)
  BY RunOf, Typed DEF DriverEnds
<1>2. result[r] # "interrupted"
  BY Typed, RuntimeAssumption DEF Terminal
<1>. QED BY <1>1, <1>2 DEF Final

\* A terminal row is never written again, by a driver, a failed submission or the recovery, and it
\* says "interrupted" exactly when the run was aborted and then cancelled.
THEOREM RuntimeEnds == Spec => EndsAreTrue
<1>1. IInv /\ [Next]_vars => [\A r \in Runs : row[r] \in Terminal => row'[r] = row[r]]_vars
  BY TerminalStep
<1>2. IInv /\ [Next]_vars =>
          [\A r \in Runs : DriverEnds(r) =>
              (row'[r] = "interrupted") <=> (r \in aborts /\ result[r] = "cancelled")]_vars
  BY AbortStep
<1>. QED BY <1>1, <1>2, RuntimeInvariant, PTL DEF Spec, EndsAreTrue, TerminalStands, AbortInterrupts

\* The steps that make a queue of the session longer
LEMMA SessionGrows ==
    ASSUME IInv, [Next]_vars, NEW k \in Kinds, Len(session'.queue[k]) > Len(session.queue[k])
    PROVE  \E o \in ops : SessionQueues(o)
<1>. SUFFICES ASSUME \A o \in ops : ~SessionQueues(o)
              PROVE  FALSE
  OBVIOUS
<1>0. /\ session \in Sessions /\ session.queue \in [Kinds -> Seq(Messages)]
      /\ \A j \in Kinds : session.queue[j] \in Seq(Messages) /\ Len(session.queue[j]) \in Nat
      /\ Len(<<>>) = 0
  BY Typed, LenProperties DEF Sessions
<1>1. session'.queue # session.queue /\ session' # Unloaded
  <2>1. Len(session.queue[k]) \in Nat
    BY <1>0
  <2>2. ~(Len(session.queue[k]) > Len(session.queue[k])) /\ ~(0 > Len(session.queue[k]))
    BY <2>1
  <2>. QED BY <2>2, <1>0, UnloadedFields
<1>2. ASSUME NEW h, session' = [session EXCEPT !.harness = h] \/ session' = [session EXCEPT !.loaded = h]
      PROVE  FALSE
  BY <1>0, <1>1, <1>2 DEF Sessions
<1>3. session' # session
  BY <1>1
<1>4. ASSUME NEW r \in Runs, SubmitStep(r) \/ Submit(r) \/ DriverStep(r) \/ PoolStep(r)
      PROVE  FALSE
  <2>1. CASE Submit(r) \/ SubmitStep(r)
    BY <1>2, <1>3, <2>1 DEF SubmitStep, Submit, Created, AuditFails, Enter, Loaded, LoadFails,
                            SubmissionFailed
  <2>2. CASE DriverStep(r)
    BY <1>3, <2>2 DEF DriverStep, DriverReads, DriverMarks, DriverWaits, DriverEnds, DriverFails
  <2>3. CASE PoolStep(r)
    BY <1>2, <1>3, <2>3 DEF PoolStep, Activates, PoolYields, PoolRefuses, PoolEnds
  <2>. QED BY <1>4, <2>1, <2>2, <2>3
<1>5. ASSUME NEW r \in Runs, NEW hard \in BOOLEAN, Cancel(r, hard)
      PROVE  FALSE
  BY <1>3, <1>5 DEF Cancel
<1>6. ASSUME NEW r \in Runs, NEW j \in Kinds, DispatchNext(r, j)
      PROVE  FALSE
  BY <1>3, <1>6 DEF DispatchNext
<1>7. ASSUME NEW r \in Runs, NEW m \in Messages,
             SteerQueued(r, m) \/ SteerAuditFails(r, m) \/ \E j \in Kinds : QueueFor(r, j, m)
      PROVE  FALSE
  BY <1>3, <1>7 DEF SteerQueued, SteerAuditFails, QueueFor
<1>8. ASSUME NEW m \in Messages, RemoveQueued(m) \/ \E j \in Kinds : Enqueue(j, m)
      PROVE  FALSE
  BY <1>3, <1>8 DEF RemoveQueued, Enqueue
<1>9. ASSUME NEW j \in Kinds, \E i \in DOMAIN pending[j] : MoveQueued(j, i)
      PROVE  FALSE
  BY <1>3, <1>9 DEF MoveQueued
<1>10. ASSUME NEW j \in Kinds, Drain(j)
       PROVE  FALSE
  <2>1. session' = [session EXCEPT !.queue[j] = Tail(@)] /\ session.queue[j] # <<>>
    BY <1>10 DEF Drain
  <2>2. session.queue[j] \in Seq(Messages)
    BY <1>0
  <2>3. Tail(session.queue[j]) \in Seq(Messages)
        /\ Len(Tail(session.queue[j])) = Len(session.queue[j]) - 1
    BY <2>1, <2>2, HeadTailProperties
  <2>4. session'.queue = [session.queue EXCEPT ![j] = Tail(session.queue[j])]
    BY <1>0, <2>1 DEF Sessions
  <2>5. session'.queue[k] = IF k = j THEN Tail(session.queue[j]) ELSE session.queue[k]
    BY <1>0, <2>4
  <2>6. Len(session.queue[k]) \in Nat /\ Len(session.queue[j]) \in Nat
    BY <1>0
  <2>7. CASE k = j
    <3>1. ~(Len(session.queue[j]) - 1 > Len(session.queue[j]))
      BY <2>6
    <3>. QED BY <2>3, <2>5, <2>7, <3>1
  <2>8. CASE k # j
    <3>1. ~(Len(session.queue[k]) > Len(session.queue[k]))
      BY <2>6
    <3>. QED BY <2>5, <2>8, <3>1
  <2>. QED BY <2>7, <2>8
<1>11. ASSUME NEW o \in ops, QueueStep(o)
       PROVE  FALSE
  BY <1>3, <1>11 DEF QueueStep, Enqueued, PoolQueues, Consume, ConsumeFails, QueueAuditFails
<1>12. ASSUME PoolBegins \/ Reaped \/ ShutdownBegins \/ ShutdownStep \/ Restart
       PROVE  FALSE
  BY <1>1, <1>2, <1>3, <1>12 DEF PoolBegins, Reaped, ShutdownBegins, ShutdownStep, ShutdownPool,
                                 ShutdownPoolEnds, ShutdownEnds, Restart
<1>13. CASE UNCHANGED vars
  BY <1>3, <1>13 DEF vars
<1>. QED BY <1>4, <1>5, <1>6, <1>7, <1>8, <1>9, <1>10, <1>11, <1>12, <1>13 DEF Next

LEMMA OrderStep ==
    ASSUME IInv, [Next]_vars, NEW k \in Kinds, Len(session'.queue[k]) > Len(session.queue[k])
    PROVE  pending[k] # <<>> /\ Last(session'.queue[k]) = Head(pending[k])
<1>1. PICK o \in ops : SessionQueues(o)
  BY SessionGrows
<1>2. /\ o.kind \in Kinds /\ o.msg \in Messages /\ o.stage # "enqueue"
  BY <1>1, RuntimeAssumption DEF IInv, TypeOK, SessionQueues, Stages
<1>3. pending[o.kind] # <<>> /\ Head(pending[o.kind]) = o.msg
  BY <1>2 DEF IInv, QueuesExact
<1>4. /\ session \in Sessions /\ session.queue \in [Kinds -> Seq(Messages)]
      /\ \A j \in Kinds : session.queue[j] \in Seq(Messages) /\ Len(session.queue[j]) \in Nat
  BY Typed, LenProperties DEF Sessions
<1>5. ~(Len(session.queue[k]) > Len(session.queue[k]))
  <2>1. Len(session.queue[k]) \in Nat
    BY <1>4
  <2>. QED BY <2>1
<1>6. session' = [session EXCEPT !.queue[o.kind] = Append(@, o.msg)]
  BY <1>1, <1>5 DEF SessionQueues
<1>7. session'.queue[k] = IF k = o.kind THEN Append(session.queue[k], o.msg) ELSE session.queue[k]
  BY <1>2, <1>4, <1>6 DEF Sessions
<1>8. k = o.kind /\ session'.queue[k] = Append(session.queue[k], o.msg)
  BY <1>5, <1>7
<1>9. Last(session'.queue[k]) = o.msg
  BY <1>2, <1>4, <1>8, AppendProperties DEF Last
<1>. QED BY <1>3, <1>8, <1>9

\* A message is handed to the run that was active when its call looked, never to the next one, and
\* the messages enter a queue of the session in the order of the durable queue.
THEOREM RuntimeHands == Spec => Handed
<1>1. IInv /\ [Next]_vars =>
          [\A k \in Kinds :
               Len(session'.queue[k]) > Len(session.queue[k]) =>
                   pending[k] # <<>> /\ Last(session'.queue[k]) = Head(pending[k])]_vars
  BY OrderStep
<1>2. [\A o \in ops :
           SessionQueues(o) /\ session' # session /\ o.stage = o.run
               => session.harness = o.run]_vars
  BY DEF SessionQueues, SameToken
<1>. QED BY <1>1, <1>2, RuntimeInvariant, PTL DEF Spec, Handed, HandedInOrder, HandedToItsRun

=============================================================================
