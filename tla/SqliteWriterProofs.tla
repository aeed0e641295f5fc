------------------------- MODULE SqliteWriterProofs -------------------------
(* Theorems about SqliteWriter for every set of calls, every queue and every number of failures. *)
EXTENDS SqliteWriter, FiniteSetTheorems, SequenceTheorems, TLAPS

-----------------------------------------------------------------------------
(* Lines of waiting callers *)

\* One that joins a line of distinct callers
LEMMA Joined ==
    ASSUME NEW S, NEW q \in Seq(S), NEW c \in S
    PROVE  /\ Append(q, c) \in Seq(S)
           /\ Range(Append(q, c)) = Range(q) \cup {c}
           /\ IsInjective(q) /\ c \notin Range(q) => IsInjective(Append(q, c))
<1>1. /\ Append(q, c) \in Seq(S) /\ Len(Append(q, c)) = Len(q) + 1
      /\ \A i \in 1..Len(q) : Append(q, c)[i] = q[i]
      /\ Append(q, c)[Len(q) + 1] = c
  BY AppendProperties
<1>2. /\ Len(q) \in Nat /\ DOMAIN q = 1..Len(q) /\ DOMAIN Append(q, c) = 1..(Len(q) + 1)
  BY <1>1
<1>3. \A i \in 1..(Len(q) + 1) : i \in 1..Len(q) \/ i = Len(q) + 1
  BY <1>2
<1>4. Range(Append(q, c)) = Range(q) \cup {c}
  BY <1>1, <1>2, <1>3 DEF Range
<1>5. ASSUME IsInjective(q), c \notin Range(q)
      PROVE  IsInjective(Append(q, c))
  BY <1>1, <1>2, <1>3, <1>5 DEF IsInjective, Range
<1>. QED BY <1>1, <1>4, <1>5

\* The first of a line of distinct callers leaves it.
LEMMA Served ==
    ASSUME NEW S, NEW q \in Seq(S), q # <<>>, IsInjective(q)
    PROVE  /\ Head(q) \in S /\ Tail(q) \in Seq(S)
           /\ Head(q) \in Range(q)
           /\ Range(Tail(q)) = Range(q) \ {Head(q)}
           /\ IsInjective(Tail(q))
<1>1. /\ Head(q) \in S /\ Tail(q) \in Seq(S) /\ Len(Tail(q)) = Len(q) - 1
      /\ \A i \in 1..Len(Tail(q)) : Tail(q)[i] = q[i + 1]
  BY HeadTailProperties
<1>2. Len(q) \in Nat \ {0} /\ DOMAIN q = 1..Len(q) /\ DOMAIN Tail(q) = 1..(Len(q) - 1)
  BY <1>1, EmptySeq
<1>3. Head(q) = q[1] /\ 1 \in DOMAIN q
  BY <1>2
<1>4. \A j \in DOMAIN q : j # 1 => j - 1 \in DOMAIN Tail(q) /\ Tail(q)[j - 1] = q[j]
  BY <1>1, <1>2
<1>5. \A i \in DOMAIN Tail(q) : i + 1 \in DOMAIN q /\ i + 1 # 1 /\ Tail(q)[i] = q[i + 1]
  BY <1>1, <1>2
<1>6. Range(Tail(q)) = Range(q) \ {Head(q)}
  <2>1. \A e \in Range(Tail(q)) : e \in Range(q) /\ e # Head(q)
    BY <1>3, <1>5 DEF Range, IsInjective
  <2>2. \A e \in Range(q) : e # Head(q) => e \in Range(Tail(q))
    BY <1>3, <1>4 DEF Range
  <2>. QED BY <2>1, <2>2
<1>7. IsInjective(Tail(q))
  <2>. SUFFICES ASSUME NEW i \in DOMAIN Tail(q), NEW j \in DOMAIN Tail(q), Tail(q)[i] = Tail(q)[j]
                PROVE  i = j
    BY DEF IsInjective
  <2>1. i + 1 = j + 1
    BY <1>5 DEF IsInjective
  <2>. QED BY <2>1, <1>2
<1>. QED BY <1>1, <1>3, <1>6, <1>7 DEF Range

\* One leaves a line of distinct callers, wherever it stands.
LEMMA Left ==
    ASSUME NEW S, NEW q \in Seq(S), NEW c, IsInjective(q)
    PROVE  /\ Without(q, c) \in Seq(S)
           /\ Range(Without(q, c)) = Range(q) \ {c}
           /\ IsInjective(Without(q, c))
<1>0. Len(q) \in Nat /\ DOMAIN q = 1..Len(q) /\ \A j \in DOMAIN q : q[j] \in S
  BY LenProperties, ElementOfSeq
<1>1. CASE \E i \in DOMAIN q : q[i] = c
  <2>. DEFINE i == CHOOSE j \in DOMAIN q : q[j] = c
              a == SubSeq(q, 1, i - 1)
              b == SubSeq(q, i + 1, Len(q))
  <2>1. i \in 1..Len(q) /\ q[i] = c
    BY <1>0, <1>1
  <2>2. Without(q, c) = a \o b
    BY <1>1 DEF Without, RemoveAt
  <2>. HIDE DEF i
  <2>3. /\ a \in Seq(S) /\ Len(a) = i - 1
        /\ \A j \in 1..(i - 1) : a[j] = q[j]
    <3>1. /\ 1 \in Int /\ i - 1 \in Int
          /\ \A j \in 1..(i - 1) : q[j] \in S
      BY <1>0, <2>1
    <3>2. /\ SubSeq(q, 1, i - 1) \in Seq(S)
          /\ Len(SubSeq(q, 1, i - 1)) = IF 1 <= i - 1 THEN (i - 1) - 1 + 1 ELSE 0
          /\ \A j \in 1..((i - 1) - 1 + 1) : SubSeq(q, 1, i - 1)[j] = q[1 + j - 1]
      BY <3>1, SubSeqProperties
    <3>3. (i - 1) - 1 + 1 = i - 1 /\ (IF 1 <= i - 1 THEN (i - 1) - 1 + 1 ELSE 0) = i - 1
      BY <2>1
    <3>4. \A j \in 1..(i - 1) : 1 + j - 1 = j
      BY <2>1
    <3>. QED BY <3>2, <3>3, <3>4
  <2>4. /\ b \in Seq(S) /\ Len(b) = Len(q) - i
        /\ \A j \in 1..(Len(q) - i) : b[j] = q[i + j]
    <3>1. /\ i + 1 \in Int /\ Len(q) \in Int
          /\ \A j \in (i + 1)..Len(q) : q[j] \in S
      BY <1>0, <2>1
    <3>2. /\ SubSeq(q, i + 1, Len(q)) \in Seq(S)
          /\ Len(SubSeq(q, i + 1, Len(q))) = IF i + 1 <= Len(q) THEN Len(q) - (i + 1) + 1 ELSE 0
          /\ \A j \in 1..(Len(q) - (i + 1) + 1) : SubSeq(q, i + 1, Len(q))[j] = q[(i + 1) + j - 1]
      BY <3>1, SubSeqProperties
    <3>3. /\ Len(q) - (i + 1) + 1 = Len(q) - i
          /\ (IF i + 1 <= Len(q) THEN Len(q) - (i + 1) + 1 ELSE 0) = Len(q) - i
      <4>1. Len(q) \in Nat /\ i \in Nat /\ i <= Len(q)
        BY <1>0, <2>1
      <4>. QED BY <4>1
    <3>4. \A j \in 1..(Len(q) - i) : (i + 1) + j - 1 = i + j
      BY <1>0, <2>1
    <3>. QED BY <3>2, <3>3, <3>4
  <2>. DEFINE w == a \o b
  <2>. HIDE DEF a, b
  <2>5. /\ w \in Seq(S) /\ Len(w) = Len(q) - 1
        /\ \A j \in 1..(Len(q) - 1) : w[j] = IF j < i THEN q[j] ELSE q[j + 1]
    <3>1. /\ w \in Seq(S) /\ Len(w) = Len(a) + Len(b)
          /\ \A j \in 1..(Len(a) + Len(b)) : w[j] = IF j <= Len(a) THEN a[j] ELSE b[j - Len(a)]
      BY <2>3, <2>4, ConcatProperties, Zenon
    <3>2. Len(a) + Len(b) = Len(q) - 1
      BY <1>0, <2>1, <2>3, <2>4
    <3>3. ASSUME NEW j \in 1..(Len(q) - 1)
          PROVE  w[j] = IF j < i THEN q[j] ELSE q[j + 1]
      <4>1. CASE j < i
        <5>1. j \in 1..(i - 1) /\ j <= Len(a)
          BY <1>0, <2>1, <2>3, <4>1
        <5>. QED BY <3>1, <3>2, <5>1, <2>3, <4>1
      <4>2. CASE ~(j < i)
        <5>1. j - (i - 1) \in 1..(Len(q) - i) /\ ~(j <= Len(a)) /\ i + (j - (i - 1)) = j + 1
          BY <1>0, <2>1, <2>3, <4>2
        <5>2. w[j] = b[j - Len(a)]
          BY <3>1, <3>2, <5>1
        <5>3. b[j - (i - 1)] = q[i + (j - (i - 1))]
          BY <5>1, <2>4
        <5>. QED BY <5>1, <5>2, <5>3, <2>3, <4>2
      <4>. QED BY <4>1, <4>2
    <3>. QED BY <3>1, <3>2, <3>3
  <2>. HIDE DEF w
  <2>6. DOMAIN w = 1..(Len(q) - 1)
    BY <2>5, LenProperties
  <2>7. \A j \in DOMAIN q : j # i =>
            \E k \in DOMAIN w : w[k] = q[j]
    <3>. SUFFICES ASSUME NEW j \in DOMAIN q, j # i PROVE \E k \in DOMAIN w : w[k] = q[j]
      OBVIOUS
    <3>1. CASE j < i
      <4>1. j \in DOMAIN w /\ w[j] = q[j]
        BY <1>0, <2>1, <2>5, <2>6, <3>1
      <4>. QED BY <4>1
    <3>2. CASE j > i
      <4>1. j - 1 \in 1..(Len(q) - 1) /\ ~(j - 1 < i) /\ (j - 1) + 1 = j
        BY <1>0, <2>1, <3>2
      <4>2. w[j - 1] = q[j]
        BY <4>1, <2>5
      <4>. QED BY <4>1, <4>2, <2>6
    <3>. QED BY <3>1, <3>2, <1>0, <2>1
  <2>. DEFINE at(k) == IF k < i THEN k ELSE k + 1
  <2>8. \A k \in DOMAIN w : at(k) \in DOMAIN q /\ at(k) # i /\ w[k] = q[at(k)]
    BY <1>0, <2>1, <2>5, <2>6
  <2>9. \A k, l \in DOMAIN w : at(k) = at(l) => k = l
    BY <1>0, <2>1, <2>6
  <2>. HIDE DEF at
  <2>10. Range(w) = Range(q) \ {c}
    BY <2>1, <2>7, <2>8, <1>0 DEF Range, IsInjective
  <2>11. IsInjective(w)
    BY <2>8, <2>9 DEF IsInjective
  <2>. QED BY <2>2, <2>5, <2>10, <2>11 DEF w
<1>2. CASE ~\E i \in DOMAIN q : q[i] = c
  BY <1>2 DEF Without, Range
<1>. QED BY <1>1, <1>2

-----------------------------------------------------------------------------
(* The invariant *)

\* The queue is finite, and what a request that is put or taken does to its length
LEMMA QueueCounts ==
    ASSUME WriterAssumption, TypeOK
    PROVE  /\ IsFiniteSet(queue) /\ Cardinality(queue) \in Nat
           /\ \A c : c \notin queue => Cardinality(queue \cup {c}) = Cardinality(queue) + 1
           /\ \A c \in queue : Cardinality(queue \ {c}) = Cardinality(queue) - 1
           /\ queue = {} => Cardinality(queue) = 0
<1>1. IsFiniteSet(Calls \cup {Stop})
  BY FS_AddElement DEF WriterAssumption
<1>2. IsFiniteSet(queue)
  BY <1>1, FS_Subset DEF TypeOK
<1>. QED BY <1>2, FS_CardinalityType, FS_AddElement, FS_RemoveElement, FS_EmptySet

\* A number is left for a call that has none.
LEMMA NumberLeft ==
    ASSUME WriterAssumption, TypeOK, NEW c \in Calls, number[c] = 0
    PROVE  Cardinality({d \in Calls : number[d] > 0}) + 1 \in 0..Cardinality(Calls)
<1>. DEFINE D == {d \in Calls : number[d] > 0}
<1>1. D \subseteq Calls \ {c}
  <2>1. ~(number[c] > 0)
    OBVIOUS
  <2>. QED BY <2>1
<1>2. /\ IsFiniteSet(Calls \ {c}) /\ Cardinality(Calls \ {c}) = Cardinality(Calls) - 1
      /\ Cardinality(Calls) \in Nat
  BY FS_RemoveElement, FS_CardinalityType DEF WriterAssumption
<1>3. Cardinality(D) \in Nat /\ Cardinality(D) <= Cardinality(Calls \ {c})
  BY <1>1, <1>2, FS_Subset, FS_CardinalityType
<1>. QED BY <1>2, <1>3

LEMMA InitIInv == ASSUME WriterAssumption, Init PROVE IInv
<1>1. Cardinality(Calls) \in Nat /\ Cardinality({}) = 0
  BY FS_CardinalityType, FS_EmptySet DEF WriterAssumption
<1>2. TypeOK
  <2>1. /\ call \in [Calls -> Places] /\ number \in [Calls -> 0..Cardinality(Calls)]
        /\ failures \in 0..MaxFailures
    BY <1>1 DEF Init, Places, WriterAssumption
  <2>2. /\ queue \subseteq Calls \cup {Stop} /\ Cardinality(queue) <= QueueSize
    BY <1>1 DEF Init, WriterAssumption
  <2>3. worker \in [at : {"get", "begin", "op", "rollback", "commit", "stopped"},
                    item : Calls \cup {Stop}]
    BY DEF Init, Waits
  <2>4. conn \in [open : BOOLEAN, parts : SUBSET (Calls \X Parts)]
    BY DEF Init
  <2>5. putters \in Seq(Calls) /\ woken \subseteq Calls /\ store \subseteq Calls \X Parts
    BY EmptySeq DEF Init
  <2>6. closing \in {"no", "join", "stop", "wait", "done"} /\ spoiled \in BOOLEAN
    BY DEF Init
  <2>. QED BY <2>1, <2>2, <2>3, <2>4, <2>5, <2>6 DEF TypeOK
<1>3. LineExact
  BY DEF Init, LineExact, IsInjective, Range
<1>. QED BY <1>2, <1>3
     DEF Init, IInv, WakeExact, RequestsExact, TransactionExact, ClosingExact, Waits, Busy

\* What put() does to a caller that is not in the queue nor in the line: he waits for the
\* answer, or at the end of the line.
LEMMA PutsKeeps ==
    ASSUME WriterAssumption, IInv, NEW c \in Calls, Puts(c), c \notin queue,
           closing \in {"no", "join"}, call[c] \in {"new", "blocked"},
           c \notin Range(putters), woken' = woken \ {c}, number' \in [Calls -> 0..Cardinality(Calls)],
           \A d \in Calls \ {c} : number'[d] = number[d],
           UNCHANGED <<worker, conn, store, spoiled, closing, failures>>
    PROVE  IInv'
<1>1. /\ call \in [Calls -> Places] /\ putters \in Seq(Calls) /\ c # Stop
      /\ QueueSize \in Nat \ {0} /\ Cardinality(queue) <= QueueSize
  BY DEF IInv, TypeOK, WriterAssumption
<1>2. Stop \notin queue /\ (Busy => worker.item # c)
  BY DEF IInv, RequestsExact, ClosingExact
<1>3. CASE Full
  <2>1. /\ call' = [call EXCEPT ![c] = "blocked"] /\ putters' = Append(putters, c) /\ queue' = queue
    BY <1>3 DEF Puts
  <2>2. /\ putters' \in Seq(Calls) /\ Range(putters') = Range(putters) \cup {c}
        /\ IsInjective(putters')
    BY <1>1, <2>1, Joined DEF IInv, LineExact
  <2>3. TypeOK'
    BY <1>1, <2>1, <2>2 DEF IInv, TypeOK, Places
  <2>4. LineExact'
    BY <1>1, <2>1, <2>2 DEF IInv, LineExact
  <2>5. WakeExact'
    BY <1>1, <1>3, <2>1 DEF IInv, WakeExact, Full
  <2>6. RequestsExact'
    BY <1>1, <1>2, <2>1 DEF IInv, RequestsExact, Busy, TypeOK
  <2>7. TransactionExact' /\ ClosingExact'
    BY <2>1 DEF IInv, TransactionExact, ClosingExact
  <2>. QED BY <2>3, <2>4, <2>5, <2>6, <2>7 DEF IInv
<1>4. CASE ~Full
  <2>1. /\ call' = [call EXCEPT ![c] = "waiting"] /\ queue' = queue \cup {c} /\ putters' = putters
    BY <1>4 DEF Puts
  <2>2. /\ Cardinality(queue') = Cardinality(queue) + 1 /\ Cardinality(queue) \in Nat
        /\ Cardinality(queue) < QueueSize
    BY <1>1, <1>4, <2>1, QueueCounts DEF Full, IInv
  <2>3. TypeOK'
    BY <1>1, <2>1, <2>2 DEF IInv, TypeOK, Places
  <2>4. LineExact'
    BY <1>1, <2>1 DEF IInv, LineExact
  <2>5. WakeExact'
    BY <1>1, <2>1, <2>2 DEF IInv, WakeExact, Full
  <2>6. RequestsExact'
    BY <1>1, <1>2, <2>1 DEF IInv, RequestsExact, Busy, TypeOK
  <2>7. TransactionExact' /\ ClosingExact'
    BY <1>1, <2>1 DEF IInv, TransactionExact, ClosingExact
  <2>. QED BY <2>3, <2>4, <2>5, <2>6, <2>7 DEF IInv
<1>. QED BY <1>3, <1>4

LEMMA SubmitKeeps ==
    ASSUME WriterAssumption, IInv, NEW c \in Calls, Submit(c)
    PROVE  IInv'
<1>1. /\ call \in [Calls -> Places] /\ number \in [Calls -> 0..Cardinality(Calls)]
      /\ call[c] = "new" /\ number[c] = 0 /\ c # Stop
  BY DEF IInv, TypeOK, RequestsExact, Submit, WriterAssumption
<1>2. c \notin queue /\ c \notin woken \cup Range(putters)
  BY <1>1 DEF IInv, RequestsExact, LineExact
<1>3. CASE Accepts
  <2>1. Puts(c) /\ closing = "no"
    BY <1>3 DEF Submit, Accepts
  <2>2. /\ number' \in [Calls -> 0..Cardinality(Calls)]
        /\ \A d \in Calls \ {c} : number'[d] = number[d]
    BY <1>1, <1>3, NumberLeft DEF Submit, IInv
  <2>3. woken' = woken \ {c} /\ UNCHANGED <<worker, conn, store, spoiled, closing, failures>>
    BY <1>2 DEF Submit
  <2>. QED BY <1>1, <1>2, <2>1, <2>2, <2>3, PutsKeeps
<1>4. CASE ~Accepts
  <2>1. /\ call' = [call EXCEPT ![c] = "rejected"]
        /\ UNCHANGED <<number, queue, putters, woken, worker, conn, store, spoiled, closing, failures>>
    BY <1>4 DEF Submit
  <2>2. TypeOK'
    BY <1>1, <2>1 DEF IInv, TypeOK, Places
  <2>3. LineExact' /\ RequestsExact'
    BY <1>1, <1>2, <2>1 DEF IInv, TypeOK, LineExact, RequestsExact, Busy
  <2>4. WakeExact' /\ TransactionExact' /\ ClosingExact'
    BY <2>1 DEF IInv, WakeExact, TransactionExact, ClosingExact, Full, Busy, Idle
  <2>. QED BY <2>2, <2>3, <2>4 DEF IInv
<1>. QED BY <1>3, <1>4

LEMMA PutResumesKeeps ==
    ASSUME WriterAssumption, IInv, NEW c \in Calls, PutResumes(c)
    PROVE  IInv'
<1>1. /\ number \in [Calls -> 0..Cardinality(Calls)] /\ c \in woken /\ Puts(c) /\ c # Stop
      /\ woken' = woken \ {c}
      /\ UNCHANGED <<number, worker, conn, store, spoiled, closing, failures>>
  BY DEF IInv, TypeOK, PutResumes, WriterAssumption
<1>2. /\ call[c] = "blocked" /\ c \notin Range(putters) /\ c \notin queue
      /\ closing \in {"no", "join"}
  BY <1>1 DEF IInv, TypeOK, LineExact, RequestsExact, ClosingExact
<1>. QED BY <1>1, <1>2, PutsKeeps

\* A caller that leaves the line or the answer it waits for is told nothing.
LEMMA CancelKeeps ==
    ASSUME WriterAssumption, IInv, NEW c \in Calls, Cancel(c)
    PROVE  IInv'
<1>1. /\ call \in [Calls -> Places] /\ putters \in Seq(Calls) /\ IsInjective(putters)
      /\ call' = [call EXCEPT ![c] = "cancelled"] /\ call[c] \in {"blocked", "waiting"}
      /\ UNCHANGED <<number, queue, worker, conn, store, spoiled, closing, failures>>
  BY DEF IInv, TypeOK, LineExact, Cancel
<1>2. RequestsExact'
  BY <1>1 DEF IInv, TypeOK, RequestsExact, Busy
<1>3. CASE c \in woken /\ ~Full /\ putters # <<>>
  <2>1. /\ woken' = (woken \ {c}) \cup {Head(putters)} /\ putters' = Tail(putters)
    BY <1>3 DEF Cancel, PassesOn, Wakes
  <2>2. /\ Head(putters) \in Calls /\ putters' \in Seq(Calls)
        /\ Head(putters) \in Range(putters)
        /\ Range(putters') = Range(putters) \ {Head(putters)}
        /\ IsInjective(putters')
    BY <1>1, <1>3, <2>1, Served
  <2>3. TypeOK'
    BY <1>1, <2>1, <2>2 DEF IInv, TypeOK, Places
  <2>4. LineExact'
    BY <1>1, <1>3, <2>1, <2>2 DEF IInv, LineExact
  <2>5. woken = {c} /\ woken' = {Head(putters)} /\ worker.at \notin {"get", "stopped"}
        /\ Cardinality(queue) + 1 >= QueueSize
    BY <1>3, <2>1 DEF IInv, WakeExact
  <2>6. WakeExact'
    BY <1>1, <2>5 DEF WakeExact
  <2>7. TransactionExact' /\ ClosingExact'
    BY <1>1, <1>3 DEF IInv, TransactionExact, ClosingExact
  <2>. QED BY <1>2, <2>3, <2>4, <2>6, <2>7 DEF IInv
<1>4. CASE c \in woken /\ ~Full /\ putters = <<>>
  <2>1. /\ woken' = woken \ {c} /\ putters' = putters
    BY <1>4 DEF Cancel, PassesOn, Wakes
  <2>2. TypeOK'
    BY <1>1, <2>1 DEF IInv, TypeOK, Places
  <2>3. LineExact'
    BY <1>1, <1>4, <2>1 DEF IInv, LineExact
  <2>4. WakeExact'
    BY <1>1, <1>4, <2>1 DEF IInv, WakeExact
  <2>5. TransactionExact' /\ ClosingExact'
    BY <1>1, <1>4, <2>1 DEF IInv, TransactionExact, ClosingExact
  <2>. QED BY <1>2, <2>2, <2>3, <2>4, <2>5 DEF IInv
<1>5. CASE ~(c \in woken /\ ~Full)
  <2>1. /\ woken' = woken \ {c} /\ putters' = Without(putters, c)
    BY <1>5 DEF Cancel, PassesOn
  <2>2. /\ putters' \in Seq(Calls) /\ IsInjective(putters')
        /\ Range(putters') = Range(putters) \ {c}
    BY <1>1, <2>1, Left
  <2>3. putters = <<>> => putters' = <<>>
    BY <2>1 DEF Without
  <2>4. TypeOK'
    BY <1>1, <2>1, <2>2 DEF IInv, TypeOK, Places
  <2>5. LineExact'
    BY <1>1, <2>1, <2>2 DEF IInv, LineExact
  <2>6. WakeExact'
    BY <1>1, <1>5, <2>1, <2>3 DEF IInv, WakeExact, Full
  <2>7. TransactionExact' /\ ClosingExact'
    BY <1>1, <2>1, <2>3 DEF IInv, TransactionExact, ClosingExact, Busy, Idle
  <2>. QED BY <1>2, <2>4, <2>5, <2>6, <2>7 DEF IInv
<1>. QED BY <1>3, <1>4, <1>5

-----------------------------------------------------------------------------
(* The worker *)

LEMMA GetKeeps ==
    ASSUME WriterAssumption, IInv, Get
    PROVE  IInv'
<1>1. PICK c \in queue :
          /\ IsNext(c) /\ queue' = queue \ {c}
          /\ worker' = [at |-> IF c = Stop THEN "stopped"
                               ELSE IF c \in Maintenance THEN "op" ELSE "begin", item |-> c]
  BY DEF Get
<1>2. /\ worker.at = "get" /\ woken = {} /\ c \in Calls \cup {Stop}
      /\ putters \in Seq(Calls) /\ IsInjective(putters)
      /\ UNCHANGED <<call, number, conn, store, spoiled, closing, failures>>
  BY <1>1 DEF Get, IInv, TypeOK, LineExact, WakeExact
<1>3. /\ Cardinality(queue') = Cardinality(queue) - 1 /\ Cardinality(queue) \in Nat
      /\ Cardinality(queue) <= QueueSize /\ QueueSize \in Nat \ {0}
  BY <1>1, QueueCounts DEF IInv, TypeOK, WriterAssumption
<1>4. worker' \in [at : {"get", "begin", "op", "rollback", "commit", "stopped"},
                   item : Calls \cup {Stop}]
  BY <1>1, <1>2
<1>5. RequestsExact'
  BY <1>1, <1>2 DEF IInv, RequestsExact, Busy, WriterAssumption
<1>6. TransactionExact'
  BY <1>1, <1>2 DEF IInv, TransactionExact
<1>7. ClosingExact' /\ (c = Stop => putters = <<>>)
  <2>1. CASE c = Stop
    <3>1. closing = "wait" /\ queue = {Stop} /\ putters = <<>>
      BY <1>1, <1>2, <2>1 DEF IInv, TypeOK, ClosingExact, Idle
    <3>2. queue' = {} /\ worker'.at = "stopped" /\ woken' = {} /\ putters' = <<>>
      BY <1>1, <1>2, <2>1, <3>1 DEF Get, Wakes
    <3>. QED BY <1>2, <3>1, <3>2 DEF ClosingExact, Busy
  <2>2. CASE c # Stop
    <3>1. closing \in {"no", "join"} /\ Stop \notin queue
      BY <1>1, <1>2, <2>2 DEF IInv, TypeOK, ClosingExact, Idle
    <3>2. Stop \notin queue' /\ worker'.at \in {"op", "begin"} /\ closing' = closing
      BY <1>1, <1>2, <2>2, <3>1
    <3>. QED BY <2>2, <3>1, <3>2 DEF ClosingExact
  <2>. QED BY <2>1, <2>2
<1>8. CASE putters = <<>>
  <2>1. woken' = {} /\ putters' = putters
    BY <1>2, <1>8 DEF Get, Wakes
  <2>2. TypeOK'
    BY <1>1, <1>2, <1>3, <1>4, <2>1 DEF IInv, TypeOK
  <2>3. LineExact' /\ WakeExact'
    BY <1>1, <1>2, <1>8, <2>1 DEF IInv, LineExact, WakeExact
  <2>. QED BY <1>5, <1>6, <1>7, <2>2, <2>3 DEF IInv
<1>9. CASE putters # <<>>
  <2>1. woken' = {Head(putters)} /\ putters' = Tail(putters)
    BY <1>2, <1>9 DEF Get, Wakes
  <2>2. /\ Head(putters) \in Calls /\ putters' \in Seq(Calls)
        /\ Head(putters) \in Range(putters)
        /\ Range(putters') = Range(putters) \ {Head(putters)}
        /\ IsInjective(putters')
    BY <1>2, <1>9, <2>1, Served
  <2>3. TypeOK'
    BY <1>1, <1>2, <1>3, <1>4, <2>1, <2>2 DEF IInv, TypeOK
  <2>4. LineExact'
    BY <1>2, <2>1, <2>2 DEF IInv, LineExact
  <2>5. Full /\ worker'.at \notin {"get", "stopped"}
    BY <1>1, <1>2, <1>7, <1>9 DEF IInv, WakeExact
  <2>6. WakeExact'
    BY <1>3, <2>1, <2>5 DEF WakeExact, Full
  <2>. QED BY <1>5, <1>6, <1>7, <2>3, <2>4, <2>6 DEF IInv
<1>. QED BY <1>8, <1>9

\* A step of the worker that keeps the request it is at
LEMMA GoesKeeps ==
    ASSUME WriterAssumption, IInv, NEW from \in {"begin", "op"}, Works(from),
           NEW at \in {"op", "rollback", "commit"}, Goes(at),
           UNCHANGED <<call, number, queue, putters, woken, store, closing>>, TransactionExact',
           conn' \in [open : BOOLEAN, parts : SUBSET (Calls \X Parts)],
           spoiled' \in BOOLEAN, failures' \in 0..MaxFailures
    PROVE  IInv'
<1>1. /\ worker' = [worker EXCEPT !.at = at] /\ worker.at = from
      /\ worker \in [at : {"get", "begin", "op", "rollback", "commit", "stopped"},
                     item : Calls \cup {Stop}]
  BY DEF Goes, Works, IInv, TypeOK
<1>2. worker'.at = at /\ worker'.item = worker.item
  BY <1>1
<1>3. TypeOK'
  BY <1>1 DEF IInv, TypeOK
<1>4. LineExact' /\ WakeExact' /\ RequestsExact' /\ ClosingExact'
  BY <1>1, <1>2 DEF IInv, LineExact, WakeExact, RequestsExact, ClosingExact, Full, Busy, Idle
<1>. QED BY <1>3, <1>4 DEF IInv

\* A step of the worker that answers the request it is at
LEMMA AnswersKeep ==
    ASSUME WriterAssumption, IInv, NEW from \in {"begin", "op", "rollback", "commit"}, Works(from),
           NEW result \in {"ok", "done", "error"}, Answers(result),
           UNCHANGED <<number, queue, putters, woken>>,
           conn'.open /\ ~spoiled' => FALSE,
           conn' \in [open : BOOLEAN, parts : SUBSET (Calls \X Parts)],
           store' \subseteq Calls \X Parts, spoiled' \in BOOLEAN, failures' \in 0..MaxFailures
    PROVE  IInv'
<1>. DEFINE i == worker.item
<1>1. /\ worker.at = from /\ woken = {} /\ worker' = Waits
      /\ i \in Calls \ queue /\ call[i] \in {"waiting", "cancelled"} /\ call \in [Calls -> Places]
  BY DEF Works, Answers, Done, IInv, TypeOK, RequestsExact, Busy
<1>2. /\ \A c \in Calls \ {i} : call'[c] = call[c]
      /\ call'[i] \in {result, "cancelled"} /\ call' \in [Calls -> Places]
  BY <1>1 DEF Answers, Places
<1>3. worker'.at = "get" /\ closing' = IF closing = "join" /\ queue = {} THEN "stop" ELSE closing
  BY <1>1 DEF Answers, Done, Waits
<1>4. TypeOK'
  BY <1>1, <1>2, <1>3 DEF IInv, TypeOK, Waits
<1>5. LineExact'
  BY <1>1, <1>2 DEF IInv, LineExact
<1>6. WakeExact'
  BY <1>1 DEF IInv, WakeExact, Full
<1>7. RequestsExact'
  <2>1. ~Busy' /\ queue' = queue /\ number' = number
    BY <1>3 DEF Busy
  <2>2. \A c \in Calls : call'[c] = "waiting" => c # i /\ call[c] = "waiting"
    BY <1>1, <1>2
  <2>3. \A c \in Calls : call'[c] = "new" => call[c] = "new"
    BY <1>2
  <2>4. \A c \in queue \ {Stop} : c \in Calls /\ c # i
    BY <1>1 DEF IInv, TypeOK
  <2>. QED BY <1>2, <2>1, <2>2, <2>3, <2>4 DEF IInv, RequestsExact
<1>8. TransactionExact'
  BY <1>3 DEF TransactionExact
<1>9. ClosingExact'
  <2>1. closing \in {"no", "join"} /\ Stop \notin queue
    BY <1>1 DEF IInv, TypeOK, ClosingExact, Busy
  <2>2. queue = {} => putters = <<>>
    <3>1. Cardinality({}) = 0 /\ QueueSize \in Nat \ {0}
      BY FS_EmptySet DEF WriterAssumption
    <3>. QED BY <3>1, <1>1 DEF IInv, WakeExact, Full
  <2>. QED BY <1>1, <1>3, <2>1, <2>2 DEF ClosingExact, Busy, Idle
<1>. QED BY <1>4, <1>5, <1>6, <1>7, <1>8, <1>9 DEF IInv

\* The types that only the worker's own steps touch
LEMMA WorkTyped ==
    ASSUME WriterAssumption, IInv
    PROVE  /\ conn \in [open : BOOLEAN, parts : SUBSET (Calls \X Parts)]
           /\ store \subseteq Calls \X Parts /\ spoiled \in BOOLEAN
           /\ failures \in 0..MaxFailures /\ MaxFailures \in Nat
           /\ [open |-> FALSE, parts |-> {}] \in [open : BOOLEAN, parts : SUBSET (Calls \X Parts)]
           /\ failures < MaxFailures => failures + 1 \in 0..MaxFailures
  BY DEF IInv, TypeOK, WriterAssumption

LEMMA BeginKeeps ==
    ASSUME WriterAssumption, IInv, Begin
    PROVE  IInv'
<1>1. Works("begin") /\ UNCHANGED <<number, queue, putters, woken, store, spoiled>>
  BY DEF Begin
<1>2. CASE /\ ~conn.open /\ conn' = [open |-> TRUE, parts |-> {}]
           /\ Goes("op") /\ UNCHANGED <<call, closing, failures>>
  <2>1. worker'.at = "op" /\ worker'.item = worker.item
    BY <1>2 DEF Goes, IInv, TypeOK
  <2>2. TransactionExact'
    BY <1>1, <1>2, <2>1 DEF TransactionExact, IInv, Works
  <2>3. /\ conn' \in [open : BOOLEAN, parts : SUBSET (Calls \X Parts)]
        /\ spoiled' \in BOOLEAN /\ failures' \in 0..MaxFailures
    BY <1>1, <1>2, WorkTyped
  <2>. QED BY <1>1, <1>2, <2>2, <2>3, GoesKeeps
<1>3. CASE /\ conn.open \/ failures < MaxFailures
           /\ failures' = IF conn.open THEN failures ELSE failures + 1
           /\ Answers("error") /\ UNCHANGED conn
  <2>1. /\ conn' \in [open : BOOLEAN, parts : SUBSET (Calls \X Parts)]
        /\ store' \subseteq Calls \X Parts /\ spoiled' \in BOOLEAN /\ failures' \in 0..MaxFailures
    BY <1>1, <1>3, WorkTyped
  <2>2. conn'.open /\ ~spoiled' => FALSE
    BY <1>1, <1>3 DEF IInv, TransactionExact, Works
  <2>. QED BY <1>1, <1>3, <2>1, <2>2, AnswersKeep
<1>. QED BY <1>2, <1>3 DEF Begin

\* One more part of the write is in the transaction.
LEMMA WritesKeep ==
    ASSUME WriterAssumption, IInv, Writes
    PROVE  IInv'
<1>1. PICK p \in Parts : conn' = [conn EXCEPT !.parts = @ \cup {<<worker.item, p>>}]
  BY DEF Writes
<1>2. /\ worker.at = "op" /\ worker.item \in Calls \ Maintenance
      /\ UNCHANGED <<call, number, queue, putters, woken, worker, store, spoiled, closing, failures>>
  BY DEF Writes, Works, IInv, RequestsExact, Busy
<1>3. /\ conn'.open = conn.open /\ conn'.parts = conn.parts \cup {<<worker.item, p>>}
      /\ conn' \in [open : BOOLEAN, parts : SUBSET (Calls \X Parts)]
  BY <1>1, <1>2, WorkTyped
<1>4. TypeOK'
  BY <1>2, <1>3 DEF IInv, TypeOK
<1>5. TransactionExact'
  BY <1>2, <1>3 DEF IInv, TransactionExact
<1>6. LineExact' /\ WakeExact' /\ RequestsExact' /\ ClosingExact'
  BY <1>2 DEF IInv, LineExact, WakeExact, RequestsExact, ClosingExact, Full, Busy, Idle
<1>. QED BY <1>4, <1>5, <1>6 DEF IInv

LEMMA OpReturnsKeeps ==
    ASSUME WriterAssumption, IInv, OpReturns
    PROVE  IInv'
<1>1. /\ Works("op")
      /\ UNCHANGED <<number, queue, putters, woken, conn, store, spoiled, failures>>
  BY DEF OpReturns
<1>2. /\ conn' \in [open : BOOLEAN, parts : SUBSET (Calls \X Parts)]
      /\ store' \subseteq Calls \X Parts /\ spoiled' \in BOOLEAN /\ failures' \in 0..MaxFailures
  BY <1>1, WorkTyped
<1>3. CASE worker.item \in Maintenance
  <2>1. Answers("done")
    BY <1>3 DEF OpReturns
  <2>2. conn'.open /\ ~spoiled' => FALSE
    BY <1>1, <1>3 DEF IInv, TransactionExact
  <2>. QED BY <1>1, <1>2, <2>1, <2>2, AnswersKeep
<1>4. CASE worker.item \notin Maintenance
  <2>1. /\ {worker.item} \X Parts \subseteq conn.parts
        /\ Goes("commit") /\ UNCHANGED <<call, closing>>
    BY <1>4 DEF OpReturns
  <2>2. worker'.at = "commit" /\ worker'.item = worker.item
    BY <2>1 DEF Goes, IInv, TypeOK
  <2>3. TransactionExact'
    BY <1>1, <1>4, <2>1, <2>2 DEF TransactionExact, IInv, Works
  <2>. QED BY <1>1, <1>2, <2>1, <2>3, GoesKeeps
<1>. QED BY <1>3, <1>4

LEMMA OpRaisesKeeps ==
    ASSUME WriterAssumption, IInv, OpRaises
    PROVE  IInv'
<1>1. /\ Works("op") /\ Raises
      /\ UNCHANGED <<number, queue, putters, woken, conn, store, spoiled, failures>>
  BY DEF OpRaises
<1>2. /\ conn' \in [open : BOOLEAN, parts : SUBSET (Calls \X Parts)]
      /\ store' \subseteq Calls \X Parts /\ spoiled' \in BOOLEAN /\ failures' \in 0..MaxFailures
  BY <1>1, WorkTyped
<1>3. CASE worker.item \in Maintenance
  <2>1. Answers("error")
    BY <1>1, <1>3 DEF Raises
  <2>2. conn'.open /\ ~spoiled' => FALSE
    BY <1>1, <1>3 DEF IInv, TransactionExact
  <2>. QED BY <1>1, <1>2, <2>1, <2>2, AnswersKeep
<1>4. CASE worker.item \notin Maintenance
  <2>1. Goes("rollback") /\ UNCHANGED <<call, closing>>
    BY <1>1, <1>4 DEF Raises
  <2>2. worker'.at = "rollback" /\ worker'.item = worker.item
    BY <2>1 DEF Goes, IInv, TypeOK
  <2>3. TransactionExact'
    BY <1>1, <1>4, <2>1, <2>2 DEF TransactionExact, IInv, Works
  <2>. QED BY <1>1, <1>2, <2>1, <2>3, GoesKeeps
<1>. QED BY <1>3, <1>4

LEMMA RollbackKeeps ==
    ASSUME WriterAssumption, IInv, Rollback
    PROVE  IInv'
<1>1. /\ Works("rollback") /\ Answers("error")
      /\ UNCHANGED <<number, queue, putters, woken, store>>
      /\ \/ conn' = [open |-> FALSE, parts |-> {}] /\ UNCHANGED <<spoiled, failures>>
         \/ failures < MaxFailures /\ failures' = failures + 1 /\ spoiled' = TRUE /\ UNCHANGED conn
  BY DEF Rollback, Fails
<1>2. /\ conn' \in [open : BOOLEAN, parts : SUBSET (Calls \X Parts)]
      /\ store' \subseteq Calls \X Parts /\ spoiled' \in BOOLEAN /\ failures' \in 0..MaxFailures
      /\ (conn'.open /\ ~spoiled' => FALSE)
  BY <1>1, WorkTyped
<1>. QED BY <1>1, <1>2, AnswersKeep

LEMMA CommitKeeps ==
    ASSUME WriterAssumption, IInv, Commit
    PROVE  IInv'
<1>1. Works("commit") /\ UNCHANGED <<number, queue, putters, woken>>
  BY DEF Commit
<1>2. CASE /\ Commits /\ conn' = [open |-> FALSE, parts |-> {}]
           /\ UNCHANGED <<spoiled, failures>>
  <2>1. /\ conn' \in [open : BOOLEAN, parts : SUBSET (Calls \X Parts)]
        /\ store' \subseteq Calls \X Parts /\ spoiled' \in BOOLEAN /\ failures' \in 0..MaxFailures
        /\ (conn'.open /\ ~spoiled' => FALSE)
    BY <1>2, WorkTyped DEF Commits
  <2>. QED BY <1>1, <1>2, <2>1, AnswersKeep DEF Commits
<1>3. CASE /\ Answers("error") /\ Fails /\ spoiled' = TRUE
           /\ conn' \in {conn, [open |-> FALSE, parts |-> {}]}
           /\ UNCHANGED store
  <2>1. /\ conn' \in [open : BOOLEAN, parts : SUBSET (Calls \X Parts)]
        /\ store' \subseteq Calls \X Parts /\ spoiled' \in BOOLEAN /\ failures' \in 0..MaxFailures
        /\ (conn'.open /\ ~spoiled' => FALSE)
    BY <1>3, WorkTyped DEF Fails
  <2>. QED BY <1>1, <1>3, <2>1, AnswersKeep
<1>. QED BY <1>2, <1>3 DEF Commit

-----------------------------------------------------------------------------
(* close() *)

\* STOP is put into an empty queue.
LEMMA StopsKeeps ==
    ASSUME WriterAssumption, IInv, Idle, closing \in {"no", "stop"}, Stops,
           UNCHANGED <<call, number, putters, woken, worker, conn, store, spoiled, failures>>
    PROVE  IInv'
<1>1. /\ queue = {} /\ queue' = {Stop} /\ closing' = "wait" /\ worker.at = "get" /\ woken = {}
  BY DEF Idle, Stops, IInv, WakeExact
<1>2. /\ Cardinality({}) = 0 /\ Cardinality({Stop}) = 1 /\ QueueSize \in Nat \ {0}
  BY FS_EmptySet, FS_Singleton DEF WriterAssumption
<1>3. putters = <<>>
  BY <1>1, <1>2 DEF IInv, WakeExact, Full
<1>4. TypeOK'
  BY <1>1, <1>2 DEF IInv, TypeOK
<1>5. LineExact' /\ WakeExact' /\ TransactionExact'
  BY <1>1, <1>3 DEF IInv, LineExact, WakeExact, TransactionExact
<1>6. RequestsExact'
  BY <1>1 DEF IInv, RequestsExact, Busy
<1>7. ClosingExact'
  BY <1>1, <1>3 DEF ClosingExact, Busy
<1>. QED BY <1>4, <1>5, <1>6, <1>7 DEF IInv

LEMMA ClosingKeeps ==
    ASSUME WriterAssumption, IInv, CloseBegins \/ Close
    PROVE  IInv'
<1>1. CASE CloseBegins /\ ~Idle
  <2>1. /\ closing = "no" /\ closing' = "join"
        /\ UNCHANGED <<call, number, queue, putters, woken, worker, conn, store, spoiled, failures>>
    BY <1>1 DEF CloseBegins
  <2>. QED BY <2>1 DEF IInv, TypeOK, LineExact, WakeExact, RequestsExact, TransactionExact,
                      ClosingExact, Full, Busy
<1>2. CASE CloseBegins /\ Idle
  BY <1>2, StopsKeeps DEF CloseBegins
<1>3. CASE CloseStops
  BY <1>3, StopsKeeps DEF CloseStops, IInv, ClosingExact
<1>4. CASE CloseEnds
  <2>1. /\ closing = "wait" /\ worker.at = "stopped" /\ closing' = "done"
        /\ UNCHANGED <<call, number, queue, putters, woken, worker, conn, store, spoiled, failures>>
    BY <1>4 DEF CloseEnds
  <2>. QED BY <2>1 DEF IInv, TypeOK, LineExact, WakeExact, RequestsExact, TransactionExact,
                      ClosingExact, Full, Busy
<1>. QED BY <1>1, <1>2, <1>3, <1>4 DEF Close

-----------------------------------------------------------------------------
\* Every step keeps what the safety of the writer rests on.
THEOREM WriterStep ==
    ASSUME WriterAssumption, IInv, [Next]_vars
    PROVE  IInv'
<1>1. CASE UNCHANGED vars
  BY <1>1 DEF vars, IInv, TypeOK, LineExact, WakeExact, RequestsExact, TransactionExact,
              ClosingExact, Full, Busy, Idle
<1>2. ASSUME NEW c \in Calls, Submit(c) \/ PutResumes(c) \/ Cancel(c)
      PROVE  IInv'
  BY <1>2, SubmitKeeps, PutResumesKeeps, CancelKeeps
<1>3. CASE WorkerStep
  BY <1>3, GetKeeps, BeginKeeps, WritesKeep, OpReturnsKeeps, OpRaisesKeeps, RollbackKeeps, CommitKeeps
     DEF WorkerStep
<1>4. CASE CloseBegins \/ Close
  BY <1>4, ClosingKeeps
<1>. QED BY <1>1, <1>2, <1>3, <1>4 DEF Next

\* The invariant holds of every behaviour of the writer.
THEOREM WriterInvariant ==
    ASSUME WriterAssumption
    PROVE  Spec => []IInv
<1>1. Init => IInv
  BY InitIInv
<1>2. IInv /\ [Next]_vars => IInv'
  BY WriterStep
<1>. QED BY <1>1, <1>2, PTL DEF Spec

\* An operation that raises leaves no transaction behind, close() answers every call that was
\* accepted, and a place in the queue that is free is offered to a caller that waits for one:
\* whatever is called, cancelled or fails, in every order.
LEMMA WriterSafety ==
    ASSUME IInv
    PROVE  LeavesNoTransaction /\ ClosedAnswersAll /\ NoLostWakeup
<1>1. LeavesNoTransaction
  BY DEF IInv, TransactionExact, LeavesNoTransaction
<1>2. ClosedAnswersAll
  <2>. SUFFICES ASSUME worker.at = "stopped"
                PROVE  queue = {} /\ \A c \in Calls : call[c] \notin {"blocked", "waiting"}
    BY DEF ClosedAnswersAll
  <2>1. queue = {} /\ putters = <<>> /\ woken = {} /\ ~Busy
    BY DEF IInv, TypeOK, ClosingExact, Idle, Busy
  <2>2. Range(putters) = {}
    BY <2>1 DEF Range
  <2>. QED BY <2>1, <2>2 DEF IInv, LineExact, RequestsExact
<1>3. NoLostWakeup
  BY DEF IInv, WakeExact, NoLostWakeup
<1>. QED BY <1>1, <1>2, <1>3

THEOREM WriterIsSafe ==
    ASSUME WriterAssumption
    PROVE  Spec => [](LeavesNoTransaction /\ ClosedAnswersAll /\ NoLostWakeup)
<1>1. IInv => LeavesNoTransaction /\ ClosedAnswersAll /\ NoLostWakeup
  BY WriterSafety
<1>. QED BY <1>1, WriterInvariant, PTL

\* The worker never passes over a request of a smaller priority.
THEOREM WriterIsUrgent ==
    ASSUME WriterAssumption
    PROVE  Spec => UrgentFirst
<1>1. ASSUME IInv, [Next]_vars, NEW c \in Calls \cap queue,
             worker'.item # worker.item, worker'.item \in Calls
      PROVE  Priority[worker'.item] <= Priority[c]
  <2>1. CASE Get
    <3>1. PICK d \in queue : IsNext(d) /\ worker'.item = d
      BY <2>1 DEF Get
    <3>2. c # Stop /\ Priority \in [Calls -> Nat]
      BY DEF WriterAssumption
    <3>. QED BY <1>1, <3>1, <3>2 DEF IsNext, Before
  <2>2. CASE ~Get
    <3>. DEFINE Kept == worker' = worker \/ worker' = Waits
                        \/ \E at \in {"op", "rollback", "commit"} : Goes(at)
    <3>1. ASSUME WorkerStep
          PROVE  Kept
      <4>1. \A result : Answers(result) => Kept
        BY DEF Answers, Done
      <4>2. Writes => Kept
        BY DEF Writes
      <4>3. Begin \/ OpReturns => Kept
        BY <4>1 DEF Begin, OpReturns
      <4>4. OpRaises => Kept
        BY <4>1 DEF OpRaises, Raises
      <4>5. Rollback \/ Commit => Kept
        BY <4>1 DEF Rollback, Commit, Commits
      <4>. QED BY <2>2, <3>1, <4>2, <4>3, <4>4, <4>5 DEF WorkerStep
    <3>2. Waits.item \notin Calls
      BY DEF Waits, WriterAssumption
    <3>3. \A at : Goes(at) => worker'.item = worker.item
      BY <1>1 DEF Goes, IInv, TypeOK
    <3>4. CASE ~WorkerStep
      BY <1>1, <3>4 DEF Next, vars, Submit, PutResumes, Cancel, CloseBegins, Close, CloseStops,
                        CloseEnds
    <3>. QED BY <1>1, <3>1, <3>2, <3>3, <3>4
  <2>. QED BY <2>1, <2>2
<1>2. IInv /\ [Next]_vars =>
          [\A c \in Calls \cap queue : worker'.item # worker.item /\ worker'.item \in Calls =>
               Priority[worker'.item] <= Priority[c]]_vars
  BY <1>1
<1>. QED BY <1>2, WriterInvariant, PTL DEF Spec, UrgentFirst

-----------------------------------------------------------------------------
(* The writer implements the atomic store. *)

Pending == {"new", "blocked", "waiting"}

\* A step that says nothing to anybody
LEMMA NothingTold ==
    ASSUME IInv, NEW c \in Calls, NEW p \in Pending, call[c] \in Pending,
           call' = [call EXCEPT ![c] = p]
    PROVE  Answer' = Answer
  BY DEF IInv, TypeOK, Pending, Answer

\* A step that answers one caller, unless he is gone
LEMMA OneTold ==
    ASSUME IInv, NEW c \in Calls, NEW p \in Places \ Pending,
           \/ call[c] \in Pending /\ call' = [call EXCEPT ![c] = p]
           \/ call[c] = "cancelled" /\ call' = call
    PROVE  /\ Answer' = [Answer EXCEPT ![c] = IF @ = "none" THEN p ELSE @]
           /\ Answer[c] = IF call[c] = "cancelled" THEN "cancelled" ELSE "none"
<1>1. call \in [Calls -> Places]
  BY DEF IInv, TypeOK
<1>2. Answer[c] = IF call[c] = "cancelled" THEN "cancelled" ELSE "none"
  BY DEF Answer, Pending
<1>3. CASE call[c] \in Pending /\ call' = [call EXCEPT ![c] = p]
  BY <1>1, <1>3 DEF Answer, Pending
<1>4. CASE call[c] = "cancelled" /\ call' = call
  BY <1>1, <1>2, <1>4 DEF Answer
<1>. QED BY <1>2, <1>3, <1>4

\* The worker's answer is that of the store.
LEMMA AnswerTold ==
    ASSUME WriterAssumption, IInv, Busy, NEW result \in {"ok", "done", "error"}, Answers(result)
    PROVE  /\ worker.item \in Calls /\ Answer[worker.item] \in {"none", "cancelled"}
           /\ Atomic!Told(worker.item, result)
           /\ Answer[worker.item] = "cancelled" => Answer' = Answer
<1>. DEFINE c == worker.item
<1>1. c \in Calls /\ call[c] \in {"waiting", "cancelled"} /\ call \in [Calls -> Places]
  BY DEF IInv, TypeOK, RequestsExact
<1>2. call' = [call EXCEPT ![c] = IF @ = "waiting" THEN result ELSE @]
  BY DEF Answers
<1>3. \/ call[c] \in Pending /\ call' = [call EXCEPT ![c] = result]
      \/ call[c] = "cancelled" /\ call' = call
  BY <1>1, <1>2 DEF Pending
<1>4. result \in Places \ Pending
  BY DEF Places, Pending
<1>5. /\ Answer' = [Answer EXCEPT ![c] = IF @ = "none" THEN result ELSE @]
      /\ Answer[c] = IF call[c] = "cancelled" THEN "cancelled" ELSE "none"
  BY <1>1, <1>3, <1>4, OneTold
<1>6. Answer[c] = "cancelled" => Answer' = Answer
  BY <1>3, <1>5 DEF Answer, Pending
<1>. QED BY <1>1, <1>5, <1>6 DEF Atomic!Told

\* An answer without a write is a refusal, or nothing when the caller is gone.
LEMMA RefusalTold ==
    ASSUME WriterAssumption, IInv, Busy, NEW result \in {"done", "error"}, Answers(result),
           store' = store
    PROVE  [Atomic!Next]_<<Answer, store>>
<1>1. CASE Answer[worker.item] = "none"
  BY <1>1, AnswerTold DEF Atomic!Next, Atomic!Refuse, Atomic!Maintain
<1>2. CASE Answer[worker.item] = "cancelled"
  BY <1>2, AnswerTold
<1>. QED BY <1>1, <1>2, AnswerTold

\* Every step of the writer is one of the atomic store, or none.
THEOREM WriterStepIsAtomic ==
    ASSUME WriterAssumption, IInv, [Next]_vars
    PROVE  [Atomic!Next]_<<Answer, store>>
<1>0. call \in [Calls -> Places]
  BY DEF IInv, TypeOK
<1>1. ASSUME NEW c \in Calls, Submit(c) \/ PutResumes(c)
      PROVE  [Atomic!Next]_<<Answer, store>>
  <2>1. store' = store /\ call[c] \in Pending
    BY <1>1 DEF Submit, PutResumes, IInv, LineExact, Pending
  <2>2. CASE Puts(c)
    <3>1. \E p \in Pending : call' = [call EXCEPT ![c] = p]
      BY <2>2 DEF Puts, Pending
    <3>. QED BY <2>1, <3>1, NothingTold
  <2>3. CASE ~Puts(c)
    <3>1. call' = [call EXCEPT ![c] = "rejected"]
      BY <1>1, <2>3 DEF Submit, PutResumes
    <3>2. "rejected" \in Places \ Pending /\ call[c] # "cancelled"
      BY <2>1 DEF Places, Pending
    <3>3. Atomic!Refuse(c, "rejected")
      BY <2>1, <3>1, <3>2, OneTold DEF Atomic!Refuse, Atomic!Told
    <3>. QED BY <3>3 DEF Atomic!Next
  <2>. QED BY <2>2, <2>3
<1>2. ASSUME NEW c \in Calls, Cancel(c)
      PROVE  [Atomic!Next]_<<Answer, store>>
  <2>1. /\ call[c] \in Pending /\ call[c] # "cancelled" /\ "cancelled" \in Places \ Pending
        /\ call' = [call EXCEPT ![c] = "cancelled"] /\ store' = store
    BY <1>2 DEF Cancel, Pending, Places
  <2>2. Atomic!Refuse(c, "cancelled")
    BY <2>1, OneTold DEF Atomic!Refuse, Atomic!Told
  <2>. QED BY <2>2 DEF Atomic!Next
<1>3. ASSUME Commits, Works("commit")
      PROVE  [Atomic!Next]_<<Answer, store>>
  <2>1. Busy /\ Answers("ok") /\ store' = store \cup ({worker.item} \X Parts)
    BY <1>3 DEF Commits, Works, Busy, IInv, TransactionExact
  <2>2. Atomic!Commit(worker.item) /\ worker.item \in Calls
    BY <2>1, AnswerTold DEF Atomic!Commit
  <2>. QED BY <2>2 DEF Atomic!Next
<1>4. CASE WorkerStep
  <2>1. CASE Get \/ Writes
    BY <2>1 DEF Get, Writes, Answer
  <2>2. CASE Begin
    <3>1. Busy /\ store' = store
      BY <2>2 DEF Begin, Works, Busy
    <3>. QED BY <2>2, <3>1, RefusalTold DEF Begin, Answer
  <2>3. CASE OpReturns \/ OpRaises
    <3>1. Busy /\ store' = store
      BY <2>3 DEF OpReturns, OpRaises, Works, Busy
    <3>. QED BY <2>3, <3>1, RefusalTold DEF OpReturns, OpRaises, Raises, Answer
  <2>4. CASE Rollback
    <3>1. Busy /\ store' = store
      BY <2>4 DEF Rollback, Works, Busy
    <3>. QED BY <2>4, <3>1, RefusalTold DEF Rollback
  <2>5. CASE Commit
    <3>1. Busy /\ Works("commit")
      BY <2>5 DEF Commit, Works, Busy
    <3>. QED BY <1>3, <2>5, <3>1, RefusalTold DEF Commit
  <2>. QED BY <1>4, <2>1, <2>2, <2>3, <2>4, <2>5 DEF WorkerStep
<1>5. CASE CloseBegins \/ Close \/ UNCHANGED vars
  BY <1>5 DEF CloseBegins, Close, CloseStops, CloseEnds, vars, Answer
<1>. QED BY <1>1, <1>2, <1>4, <1>5 DEF Next

\* The writer is an atomic store: a write whose caller is told "ok" is in the database whole,
\* one that is refused or fails has left nothing there.
THEOREM WriterIsAtomic ==
    ASSUME WriterAssumption
    PROVE  Spec => ImplementsAtomic
<1>1. Init => Atomic!Init
  BY DEF Init, Atomic!Init, Answer
<1>2. IInv /\ [Next]_vars => [Atomic!Next]_<<Answer, store>>
  BY WriterStepIsAtomic
<1>. QED BY <1>1, <1>2, WriterInvariant, PTL DEF Spec, ImplementsAtomic, Atomic!Spec
=============================================================================
