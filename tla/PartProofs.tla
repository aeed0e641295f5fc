------------------------------ MODULE PartProofs ------------------------------
(***************************************************************************)
(* Theorems about eleven parts of the system for all values of their       *)
(* constants: uploads and imported media, what extensions store, the       *)
(* settings of a session, the calls on one file, the processes of the      *)
(* tools, compaction, the actions of extensions, the terminal application, *)
(* the registry and the services of extensions, and logins.  The variables *)
(* of a part are the slots x1 to x15, as MCParts has them.  Each theorem   *)
(* says that the inductive invariant of a part holds in every reachable    *)
(* state.                                                                  *)
(***************************************************************************)
EXTENDS Integers, Sequences, FiniteSets, SequencesExt, FiniteSetTheorems, SequenceTheorems, TLAPS

CONSTANTS
    Parts,
    None

\* The constants of the parts about which there are proofs.
CONSTANTS
    Uploads, Home, Legacy, Imported, Contents, Content(_), Thumbnail(_), MaxItems,
    StateClients, StateExtensions, StateOf(_), Permitted, StatePlaces, Connections, Persistent, StateKeys, Values, MaxWrites,
    SessionModels, Original, MaxEntries, MaxChanges,
    WriteCalls, EditCalls, Streams,
    Shells, Pythons, Tests, Timed, Limit,
    Providers, ServedModels, Native, Setters, Chat, MaxLogged,
    Prompts, Compactions, AppSessions, FirstSession, MaxJobs,
    Plan, Blocked, ContributionKeys, Development, MaxIndex,
    Bundles, BundleOwner(_), BundleIds, Tasks, Paths, Sizes, MaxTotal, MaxUses,
    Torn, Logins, MaxTokens, MaxPolls,
    MaxCalls, Actions, Idempotent, NeedApproval, ActionKeys, Payloads, MaxConcurrency, Capacity, Definitions

VARIABLES part, x1, x2, x3, x4, x5, x6, x7, x8, x9, x10, x11, x12, x13, x14, x15


-----------------------------------------------------------------------------
(* Lines of waiting calls, in which nobody stands twice *)

Distinct(q) == \A i, j \in 1..Len(q) : q[i] = q[j] => i = j

Leaving(q, c) ==
    IF \E i \in DOMAIN q : q[i] = c THEN RemoveAt(q, CHOOSE i \in DOMAIN q : q[i] = c) ELSE q

\* Who comes stands at the end.
LEMMA LineGrows ==
    ASSUME NEW S, NEW q \in Seq(S), NEW c \in S, Distinct(q), c \notin ToSet(q)
    PROVE  /\ Append(q, c) \in Seq(S) /\ Distinct(Append(q, c)) /\ ToSet(Append(q, c)) = ToSet(q) \cup {c}
           /\ Append(q, c) # <<>>
<1>1. /\ Append(q, c) \in Seq(S) /\ Len(Append(q, c)) = Len(q) + 1 /\ Len(q) \in Nat
      /\ \A i \in 1..(Len(q) + 1) : Append(q, c)[i] = IF i = Len(q) + 1 THEN c ELSE q[i]
  BY AppendProperties
<1>2. \A i \in 1..Len(q) : q[i] # c
  BY DEF ToSet
<1>. DEFINE p == Append(q, c)
<1>. HIDE DEF p
<1>3. Distinct(p)
  BY <1>1, <1>2 DEF Distinct, p
<1>4. ToSet(p) = {p[i] : i \in 1..(Len(q) + 1)} /\ ToSet(q) = {q[i] : i \in 1..Len(q)}
  BY <1>1 DEF ToSet, p
<1>5. ASSUME NEW x \in ToSet(p) PROVE x \in ToSet(q) \cup {c}
  <2>1. PICK i \in 1..(Len(q) + 1) : x = p[i]
    BY <1>4
  <2>. QED BY <1>1, <1>4, <2>1 DEF p
<1>6. ASSUME NEW x \in ToSet(q) PROVE x \in ToSet(p)
  <2>1. PICK i \in 1..Len(q) : x = q[i]
    BY <1>4
  <2>2. i \in 1..(Len(q) + 1) /\ p[i] = x
    BY <1>1, <2>1 DEF p
  <2>. QED BY <1>4, <2>2
<1>7. c \in ToSet(p)
  <2>1. Len(q) + 1 \in 1..(Len(q) + 1) /\ p[Len(q) + 1] = c
    BY <1>1 DEF p
  <2>. QED BY <1>4, <2>1
<1>8. p # <<>>
  BY <1>1 DEF p
<1>. QED BY <1>1, <1>3, <1>5, <1>6, <1>7, <1>8 DEF p

\* What is left without the one at i
LEMMA OneIsTaken ==
    ASSUME NEW S, NEW q \in Seq(S), NEW i \in 1..Len(q)
    PROVE  /\ RemoveAt(q, i) \in Seq(S) /\ Len(RemoveAt(q, i)) = Len(q) - 1
           /\ \A k \in 1..(Len(q) - 1) : RemoveAt(q, i)[k] = IF k < i THEN q[k] ELSE q[k + 1]
<1>. DEFINE a == SubSeq(q, 1, i - 1)
            b == SubSeq(q, i + 1, Len(q))
            w == a \o b
<1>1. a \in Seq(S) /\ Len(a) = i - 1 /\ \A k \in 1..(i - 1) : a[k] = q[k]
  <2>1. \A j \in 1..(i - 1) : q[j] \in S
    OBVIOUS
  <2>2. a \in Seq(S) /\ Len(a) = IF 1 <= i - 1 THEN i - 1 - 1 + 1 ELSE 0
    BY <2>1, SubSeqProperties
  <2>3. \A k \in 1..(i - 1) : a[k] = q[1 + k - 1]
    BY <2>1, SubSeqProperties
  <2>. HIDE DEF a
  <2>. QED BY <2>2, <2>3
<1>2. b \in Seq(S) /\ Len(b) = Len(q) - i /\ \A k \in 1..(Len(q) - i) : b[k] = q[i + k]
  <2>1. \A j \in (i + 1)..Len(q) : q[j] \in S
    OBVIOUS
  <2>2. b \in Seq(S) /\ Len(b) = IF i + 1 <= Len(q) THEN Len(q) - (i + 1) + 1 ELSE 0
    BY <2>1, SubSeqProperties
  <2>3. \A k \in 1..(Len(q) - (i + 1) + 1) : b[k] = q[(i + 1) + k - 1]
    BY <2>1, SubSeqProperties
  <2>. HIDE DEF b
  <2>4. Len(b) = Len(q) - i
    BY <2>2
  <2>5. ASSUME NEW k \in 1..(Len(q) - i)
        PROVE  k \in 1..(Len(q) - (i + 1) + 1) /\ (i + 1) + k - 1 = i + k
    OBVIOUS
  <2>6. ASSUME NEW k \in 1..(Len(q) - i) PROVE b[k] = q[i + k]
    BY <2>3, <2>5
  <2>. QED BY <2>2, <2>4, <2>6
<1>3. RemoveAt(q, i) = w
  BY DEF RemoveAt
<1>. HIDE DEF a, b
<1>4. w \in Seq(S) /\ Len(w) = Len(q) - 1
  <2>1. w \in Seq(S) /\ Len(w) = Len(a) + Len(b)
    BY <1>1, <1>2, ConcatProperties
  <2>2. Len(a) + Len(b) = Len(q) - 1
    BY <1>1, <1>2
  <2>. QED BY <2>1, <2>2
<1>5. \A k \in 1..(Len(a) + Len(b)) : w[k] = IF k <= Len(a) THEN a[k] ELSE b[k - Len(a)]
  <2>1. a \in Seq(S) /\ b \in Seq(S)
    BY <1>1, <1>2
  <2>2. \A k \in 1..(Len(a) + Len(b)) : (a \o b)[k] = IF k <= Len(a) THEN a[k] ELSE b[k - Len(a)]
    BY <2>1, ConcatProperties, Zenon
  <2>. QED BY <2>2, Zenon
<1>. HIDE DEF w
<1>6. ASSUME NEW k \in 1..(Len(q) - 1)
      PROVE  w[k] = IF k < i THEN q[k] ELSE q[k + 1]
  <2>. DEFINE n == Len(a) + Len(b)
  <2>0. n = Len(q) - 1
    BY <1>1, <1>2
  <2>1. w[k] = IF k <= Len(a) THEN a[k] ELSE b[k - Len(a)]
    <3>1. \A l \in 1..n : w[l] = IF l <= Len(a) THEN a[l] ELSE b[l - Len(a)]
      BY <1>5
    <3>. HIDE DEF n
    <3>. QED BY <2>0, <3>1
  <2>2. CASE k < i
    BY <1>1, <2>1, <2>2
  <2>3. CASE ~(k < i)
    <3>1. k - Len(a) \in 1..(Len(q) - i) /\ ~(k <= Len(a))
      BY <1>1, <2>3
    <3>2. b[k - Len(a)] = q[i + (k - Len(a))] /\ i + (k - Len(a)) = k + 1
      BY <1>1, <1>2, <3>1
    <3>. QED BY <2>1, <2>3, <3>1, <3>2
  <2>. QED BY <2>2, <2>3
<1>. QED BY <1>3, <1>4, <1>6

\* What is left when one of them leaves
LEMMA LineShrinks ==
    ASSUME NEW S, NEW q \in Seq(S), NEW i \in 1..Len(q), Distinct(q)
    PROVE  RemoveAt(q, i) \in Seq(S) /\ Distinct(RemoveAt(q, i)) /\ ToSet(RemoveAt(q, i)) = ToSet(q) \ {q[i]}
<1>. DEFINE w == RemoveAt(q, i)
<1>3. RemoveAt(q, i) = w
  OBVIOUS
<1>4. w \in Seq(S) /\ Len(w) = Len(q) - 1
  BY OneIsTaken
<1>6. \A k \in 1..(Len(q) - 1) : w[k] = IF k < i THEN q[k] ELSE q[k + 1]
  BY OneIsTaken
<1>. HIDE DEF w
<1>7. Len(q) \in Nat
  OBVIOUS
<1>8. Distinct(w)
  <2>. SUFFICES ASSUME NEW k \in 1..Len(w), NEW l \in 1..Len(w), w[k] = w[l] PROVE k = l
    BY DEF Distinct
  <2>. DEFINE at(n) == IF n < i THEN n ELSE n + 1
  <2>1. k \in 1..(Len(q) - 1) /\ l \in 1..(Len(q) - 1)
    BY <1>4
  <2>2. w[k] = q[at(k)] /\ w[l] = q[at(l)]
    BY <1>6, <2>1
  <2>3. at(k) \in 1..Len(q) /\ at(l) \in 1..Len(q)
    BY <1>7, <2>1
  <2>4. at(k) = at(l)
    <3>. HIDE DEF at
    <3>. QED BY <2>2, <2>3 DEF Distinct
  <2>. QED BY <2>1, <2>4
<1>9. ToSet(w) = {w[k] : k \in 1..(Len(q) - 1)} /\ ToSet(q) = {q[k] : k \in 1..Len(q)}
  BY <1>4, <1>7 DEF ToSet
<1>10. ASSUME NEW x \in ToSet(w) PROVE x \in ToSet(q) \ {q[i]}
  <2>1. PICK k \in 1..(Len(q) - 1) : x = w[k]
    BY <1>9
  <2>. DEFINE n == IF k < i THEN k ELSE k + 1
  <2>2. x = q[n] /\ n \in 1..Len(q) /\ n # i
    BY <1>6, <1>7, <2>1
  <2>. HIDE DEF n
  <2>. QED BY <1>9, <2>2 DEF Distinct
<1>11. ASSUME NEW x \in ToSet(q), x # q[i] PROVE x \in ToSet(w)
  <2>1. PICK n \in 1..Len(q) : x = q[n]
    BY <1>9
  <2>. DEFINE k == IF n < i THEN n ELSE n - 1
  <2>2. n # i
    BY <1>11, <2>1
  <2>3. k \in 1..(Len(q) - 1) /\ (IF k < i THEN k ELSE k + 1) = n
    BY <1>7, <2>2
  <2>4. w[k] = IF k < i THEN q[k] ELSE q[k + 1]
    BY <1>6, <2>3
  <2>5. w[k] = x
    BY <2>1, <2>3, <2>4
  <2>. HIDE DEF k
  <2>. QED BY <1>9, <2>3, <2>5
<1>. QED BY <1>3, <1>4, <1>8, <1>10, <1>11

\* A waiter that is cancelled leaves the line, one that does not stand in it changes nothing.
LEMMA LineIsLeft ==
    ASSUME NEW S, NEW q \in Seq(S), NEW c, Distinct(q)
    PROVE  Leaving(q, c) \in Seq(S) /\ Distinct(Leaving(q, c)) /\ ToSet(Leaving(q, c)) = ToSet(q) \ {c}
<1>1. CASE \E i \in DOMAIN q : q[i] = c
  <2>. DEFINE i == CHOOSE j \in DOMAIN q : q[j] = c
  <2>1. i \in 1..Len(q) /\ q[i] = c
    BY <1>1
  <2>2. Leaving(q, c) = RemoveAt(q, i)
    BY <1>1 DEF Leaving
  <2>. HIDE DEF i
  <2>. QED BY <2>1, <2>2, LineShrinks
<1>2. CASE ~\E i \in DOMAIN q : q[i] = c
  BY <1>2 DEF Leaving, ToSet
<1>. QED BY <1>1, <1>2

\* The first one leaves.
LEMMA LineMoves ==
    ASSUME NEW S, NEW q \in Seq(S), Distinct(q), q # <<>>
    PROVE  /\ Tail(q) \in Seq(S) /\ Distinct(Tail(q)) /\ ToSet(Tail(q)) = ToSet(q) \ {Head(q)}
           /\ Head(q) \in S /\ Head(q) \in ToSet(q)
<1>. DEFINE w == Tail(q)
<1>1. /\ w \in Seq(S) /\ Len(w) = Len(q) - 1 /\ \A k \in 1..(Len(q) - 1) : w[k] = q[k + 1]
      /\ Head(q) = q[1] /\ Len(q) \in Nat /\ 1 \in 1..Len(q) /\ Head(q) \in S
  BY HeadTailProperties
<1>. HIDE DEF w
<1>2. Distinct(w)
  <2>. SUFFICES ASSUME NEW k \in 1..Len(w), NEW l \in 1..Len(w), w[k] = w[l] PROVE k = l
    BY DEF Distinct
  <2>1. k + 1 \in 1..Len(q) /\ l + 1 \in 1..Len(q) /\ q[k + 1] = q[l + 1]
    BY <1>1
  <2>2. k + 1 = l + 1
    BY <2>1 DEF Distinct
  <2>. QED BY <2>2
<1>3. ToSet(w) = {w[k] : k \in 1..(Len(q) - 1)} /\ ToSet(q) = {q[k] : k \in 1..Len(q)}
  BY <1>1 DEF ToSet
<1>4. ASSUME NEW x \in ToSet(w) PROVE x \in ToSet(q) \ {q[1]}
  <2>1. PICK k \in 1..(Len(q) - 1) : x = w[k]
    BY <1>3
  <2>2. x = q[k + 1] /\ k + 1 \in 1..Len(q) /\ k + 1 # 1
    BY <1>1, <2>1
  <2>. QED BY <1>1, <1>3, <2>2 DEF Distinct
<1>5. ASSUME NEW x \in ToSet(q), x # q[1] PROVE x \in ToSet(w)
  <2>1. PICK n \in 1..Len(q) : x = q[n]
    BY <1>3
  <2>2. n - 1 \in 1..(Len(q) - 1) /\ (n - 1) + 1 = n
    BY <1>1, <1>5, <2>1
  <2>3. w[n - 1] = x
    BY <1>1, <2>1, <2>2
  <2>. QED BY <1>3, <2>2, <2>3
<1>6. q[1] \in ToSet(q)
  BY <1>1, <1>3
<1>. QED BY <1>1, <1>2, <1>4, <1>5, <1>6 DEF w

\* What a list holds after one comes, goes or the first is dropped
LEMMA EntriesOfLists ==
    ASSUME NEW S, NEW q \in Seq(S), NEW x \in S
    PROVE  /\ /\ Append(q, x) \in Seq(S) /\ Len(Append(q, x)) = Len(q) + 1
              /\ ToSet(Append(q, x)) = ToSet(q) \cup {x}
           /\ \A i \in 1..Len(q) :
                 /\ RemoveAt(q, i) \in Seq(S) /\ Len(RemoveAt(q, i)) = Len(q) - 1
                 /\ ToSet(RemoveAt(q, i)) \subseteq ToSet(q) /\ ToSet(q) \subseteq ToSet(RemoveAt(q, i)) \cup {q[i]}
           /\ q # <<>> =>
                 /\ Tail(Append(q, x)) \in Seq(S) /\ Len(Tail(Append(q, x))) = Len(q)
                 /\ ToSet(Tail(Append(q, x))) \subseteq ToSet(q) \cup {x} /\ x \in ToSet(Tail(Append(q, x)))
<1>. DEFINE p == Append(q, x)
<1>1. /\ p \in Seq(S) /\ Len(p) = Len(q) + 1 /\ Len(q) \in Nat
      /\ \A i \in 1..(Len(q) + 1) : p[i] = IF i = Len(q) + 1 THEN x ELSE q[i]
  BY AppendProperties
<1>. HIDE DEF p
<1>2. ToSet(q) = {q[i] : i \in 1..Len(q)} /\ ToSet(p) = {p[i] : i \in 1..(Len(q) + 1)}
  BY <1>1 DEF ToSet
<1>3. ToSet(p) = ToSet(q) \cup {x}
  <2>1. ASSUME NEW y \in ToSet(p) PROVE y \in ToSet(q) \cup {x}
    <3>1. PICK i \in 1..(Len(q) + 1) : y = p[i]
      BY <1>2
    <3>. QED BY <1>1, <1>2, <3>1
  <2>2. ASSUME NEW y \in ToSet(q) PROVE y \in ToSet(p)
    <3>1. PICK i \in 1..Len(q) : y = q[i]
      BY <1>2
    <3>2. i \in 1..(Len(q) + 1) /\ p[i] = y
      BY <1>1, <3>1
    <3>. QED BY <1>2, <3>2
  <2>3. x \in ToSet(p)
    <3>1. Len(q) + 1 \in 1..(Len(q) + 1) /\ p[Len(q) + 1] = x
      BY <1>1
    <3>. QED BY <1>2, <3>1
  <2>. QED BY <2>1, <2>2, <2>3
<1>4. ASSUME NEW i \in 1..Len(q)
      PROVE  /\ RemoveAt(q, i) \in Seq(S) /\ Len(RemoveAt(q, i)) = Len(q) - 1
             /\ ToSet(RemoveAt(q, i)) \subseteq ToSet(q) /\ ToSet(q) \subseteq ToSet(RemoveAt(q, i)) \cup {q[i]}
  <2>. DEFINE w == RemoveAt(q, i)
  <2>1. /\ w \in Seq(S) /\ Len(w) = Len(q) - 1
        /\ \A k \in 1..(Len(q) - 1) : w[k] = IF k < i THEN q[k] ELSE q[k + 1]
    BY OneIsTaken
  <2>. HIDE DEF w
  <2>2. ToSet(w) = {w[k] : k \in 1..(Len(q) - 1)}
    BY <1>1, <2>1 DEF ToSet
  <2>3. ASSUME NEW y \in ToSet(w) PROVE y \in ToSet(q)
    <3>1. PICK k \in 1..(Len(q) - 1) : y = w[k]
      BY <2>2
    <3>. DEFINE n == IF k < i THEN k ELSE k + 1
    <3>2. y = q[n] /\ n \in 1..Len(q)
      BY <1>1, <2>1, <3>1
    <3>. HIDE DEF n
    <3>. QED BY <1>2, <3>2
  <2>4. ASSUME NEW y \in ToSet(q), y # q[i] PROVE y \in ToSet(w)
    <3>1. PICK n \in 1..Len(q) : y = q[n]
      BY <1>2
    <3>. DEFINE k == IF n < i THEN n ELSE n - 1
    <3>2. n # i
      BY <2>4, <3>1
    <3>3. k \in 1..(Len(q) - 1) /\ (IF k < i THEN k ELSE k + 1) = n
      BY <1>1, <3>2
    <3>4. w[k] = IF k < i THEN q[k] ELSE q[k + 1]
      BY <2>1, <3>3
    <3>5. w[k] = y
      BY <3>1, <3>3, <3>4
    <3>. HIDE DEF k
    <3>. QED BY <2>2, <3>3, <3>5
  <2>. QED BY <2>1, <2>3, <2>4 DEF w
<1>5. ASSUME q # <<>>
      PROVE  /\ Tail(p) \in Seq(S) /\ Len(Tail(p)) = Len(q)
             /\ ToSet(Tail(p)) \subseteq ToSet(q) \cup {x} /\ x \in ToSet(Tail(p))
  <2>. DEFINE w == Tail(p)
  <2>1. p # <<>> /\ Len(q) \in 1..Len(q)
    <3>1. Len(q) # 0
      BY <1>5
    <3>. QED BY <1>1, <3>1
  <2>2. w \in Seq(S) /\ Len(w) = Len(p) - 1 /\ \A k \in 1..(Len(p) - 1) : w[k] = p[k + 1]
    BY <1>1, <2>1, HeadTailProperties
  <2>. HIDE DEF w
  <2>3. Len(w) = Len(q) /\ \A k \in 1..Len(q) : w[k] = p[k + 1]
    BY <1>1, <2>2
  <2>4. ToSet(w) = {w[k] : k \in 1..Len(q)}
    BY <2>2, <2>3 DEF ToSet
  <2>5. ASSUME NEW y \in ToSet(w) PROVE y \in ToSet(p)
    <3>1. PICK k \in 1..Len(q) : y = w[k]
      BY <2>4
    <3>2. y = p[k + 1] /\ k + 1 \in 1..(Len(q) + 1)
      BY <1>1, <2>3, <3>1
    <3>. QED BY <1>2, <3>2
  <2>6. w[Len(q)] = x
    BY <1>1, <2>1, <2>3
  <2>. QED BY <1>3, <2>1, <2>2, <2>3, <2>4, <2>5, <2>6 DEF w
<1>. QED BY <1>1, <1>3, <1>4, <1>5 DEF p

-----------------------------------------------------------------------------
(* Calls of an extension's actions *)

\* In the runs three calls of an idempotent action and of one that asks for approval, which are
\* registered anew meanwhile.
Executor == INSTANCE ActionExecutor WITH
    Keys <- ActionKeys, listed <- x1, version <- x2, semaphore <- x3, line <- x4, call <- x5, phase <- x6, out <- x7,
    inflight <- x8, future <- x9, completed <- x10, succeeded <- x11, evicted <- x12, stopped <- x13, unborn <- x14

LEMMA ExecutorWords ==
    /\ \A q, c : Executor!Without(q, c) = Leaving(q, c)
    /\ \A q : Executor!Range(q) = ToSet(q) /\ \A i : Executor!RemoveAt(q, i) = RemoveAt(q, i)
    /\ \A S : \A q \in Seq(S) : Executor!IsInjective(q) <=> Distinct(q)
<1>1. \A q, c : Executor!Without(q, c) = Leaving(q, c)
  BY DEF Executor!Without, Leaving, Executor!RemoveAt, RemoveAt
<1>2. \A q : Executor!Range(q) = ToSet(q) /\ \A i : Executor!RemoveAt(q, i) = RemoveAt(q, i)
  BY DEF Executor!Range, ToSet, Executor!RemoveAt, RemoveAt
<1>3. \A S : \A q \in Seq(S) : Executor!IsInjective(q) <=> Distinct(q)
  BY DEF Executor!IsInjective, Distinct
<1>. QED BY <1>1, <1>2, <1>3

LEMMA ExecutorLineOfWaiters ==
    ASSUME NEW S, NEW q \in Seq(S), Executor!IsInjective(q), NEW c
    PROVE  /\ /\ Executor!Without(q, c) \in Seq(S) /\ Executor!IsInjective(Executor!Without(q, c))
              /\ Executor!Range(Executor!Without(q, c)) = Executor!Range(q) \ {c}
           /\ c \in S /\ c \notin Executor!Range(q) =>
                 /\ Append(q, c) \in Seq(S) /\ Executor!IsInjective(Append(q, c))
                 /\ Executor!Range(Append(q, c)) = Executor!Range(q) \cup {c}
<1>1. Distinct(q)
  BY ExecutorWords
<1>2. Leaving(q, c) \in Seq(S) /\ Distinct(Leaving(q, c)) /\ ToSet(Leaving(q, c)) = ToSet(q) \ {c}
  BY <1>1, LineIsLeft
<1>3. c \in S /\ c \notin ToSet(q) => Append(q, c) \in Seq(S) /\ Distinct(Append(q, c)) /\ ToSet(Append(q, c)) = ToSet(q) \cup {c}
  BY <1>1, LineGrows
<1>. QED BY <1>2, <1>3, ExecutorWords

LEMMA ExecutorEntriesOfCache ==
    ASSUME NEW S, NEW q \in Seq(S), NEW x \in S
    PROVE  /\ /\ Append(q, x) \in Seq(S) /\ Len(Append(q, x)) = Len(q) + 1
              /\ Executor!Range(Append(q, x)) = Executor!Range(q) \cup {x}
           /\ \A i \in 1..Len(q) :
                 /\ Executor!RemoveAt(q, i) \in Seq(S) /\ Len(Executor!RemoveAt(q, i)) = Len(q) - 1
                 /\ Executor!Range(Executor!RemoveAt(q, i)) \subseteq Executor!Range(q)
                 /\ Executor!Range(q) \subseteq Executor!Range(Executor!RemoveAt(q, i)) \cup {q[i]}
           /\ q # <<>> =>
                 /\ Tail(Append(q, x)) \in Seq(S) /\ Len(Tail(Append(q, x))) = Len(q)
                 /\ Executor!Range(Tail(Append(q, x))) \subseteq Executor!Range(q) \cup {x}
                 /\ x \in Executor!Range(Tail(Append(q, x)))
<1>1. /\ Append(q, x) \in Seq(S) /\ Len(Append(q, x)) = Len(q) + 1 /\ ToSet(Append(q, x)) = ToSet(q) \cup {x}
      /\ q # <<>> =>
            /\ Tail(Append(q, x)) \in Seq(S) /\ Len(Tail(Append(q, x))) = Len(q)
            /\ ToSet(Tail(Append(q, x))) \subseteq ToSet(q) \cup {x} /\ x \in ToSet(Tail(Append(q, x)))
  BY EntriesOfLists
<1>2. ASSUME NEW i \in 1..Len(q)
      PROVE  /\ RemoveAt(q, i) \in Seq(S) /\ Len(RemoveAt(q, i)) = Len(q) - 1
             /\ ToSet(RemoveAt(q, i)) \subseteq ToSet(q) /\ ToSet(q) \subseteq ToSet(RemoveAt(q, i)) \cup {q[i]}
  BY EntriesOfLists
<1>. QED BY <1>1, <1>2, ExecutorWords

LEMMA ExecutorNothingInEmpty == Executor!Range(<<>>) = {} /\ Executor!IsInjective(<<>>)
BY DEF Executor!Range, Executor!IsInjective

LEMMA ExecutorInRange == \A q : \A x : x \in Executor!Range(q) <=> \E i \in DOMAIN q : q[i] = x
BY DEF Executor!Range


LEMMA ExecutorCounts == \A A : Executor!Cardinality(A) = Cardinality(A)
BY DEF Executor!Cardinality, Cardinality

LEMMA ExecutorFewerCalls ==
    ASSUME MaxCalls \in Nat, NEW H \in SUBSET Executor!Calls, NEW A \in SUBSET H
    PROVE  /\ Executor!Cardinality(H) \in Nat /\ Executor!Cardinality(A) \in Nat
           /\ Executor!Cardinality(A) <= Executor!Cardinality(H)
<1>1. IsFiniteSet(H)
  <2>1. IsFiniteSet(1..MaxCalls)
    BY FS_Interval
  <2>. QED BY <2>1, FS_Subset DEF Executor!Calls
<1>2. IsFiniteSet(A) /\ Cardinality(A) <= Cardinality(H)
  BY <1>1, FS_Subset
<1>. QED BY <1>1, <1>2, FS_CardinalityType, ExecutorCounts

LEMMA ExecutorOneMoreCall ==
    ASSUME MaxCalls \in Nat, NEW H \in SUBSET Executor!Calls, NEW c \in Executor!Calls, NEW A \in SUBSET (H \cup {c})
    PROVE  /\ Executor!Cardinality(H) \in Nat /\ Executor!Cardinality(A) \in Nat
           /\ Executor!Cardinality(A) <= Executor!Cardinality(H) + 1
<1>1. IsFiniteSet(H)
  <2>1. IsFiniteSet(1..MaxCalls)
    BY FS_Interval
  <2>. QED BY <2>1, FS_Subset DEF Executor!Calls
<1>2. IsFiniteSet(H \cup {c}) /\ Cardinality(H \cup {c}) \in {Cardinality(H), Cardinality(H) + 1}
  BY <1>1, FS_AddElement
<1>3. IsFiniteSet(A) /\ Cardinality(A) <= Cardinality(H \cup {c})
  BY <1>2, FS_Subset
<1>4. Cardinality(H) \in Nat /\ Cardinality(A) \in Nat
  BY <1>1, <1>3, FS_CardinalityType
<1>. QED BY <1>2, <1>3, <1>4, ExecutorCounts

LEMMA ExecutorOnlyOneCall ==
    ASSUME NEW A, \A d, e \in A : d = e
    PROVE  ~(Executor!Cardinality(A) > 1)
<1>1. CASE A = {}
  BY <1>1, FS_EmptySet, ExecutorCounts
<1>2. CASE A # {}
  <2>1. PICK d \in A : TRUE
    BY <1>2
  <2>2. A = {d}
    BY <2>1
  <2>3. Cardinality({d}) = 1
    BY FS_Singleton
  <2>. QED BY <2>2, <2>3, ExecutorCounts
<1>. QED BY <1>1, <1>2

LEMMA ExecutorCallsAreNone == Executor!Cardinality({}) = 0
BY FS_EmptySet, ExecutorCounts

LEMMA ExecutorConstants ==
    ASSUME Executor!ActionExecutorAssumption
    PROVE  /\ None \notin Executor!Calls /\ None \notin Actions /\ Idempotent \subseteq Actions
           /\ \A c \in Executor!Calls : Executor!Result(c) # None /\ Executor!Result(c).kind = "result" /\ Executor!Result(c).of = c
           /\ \A code \in Executor!Codes : Executor!Error(code) # None /\ Executor!Error(code).kind = "error"
           /\ \A s \in Executor!Scopes : s[1] \in Actions
           /\ \A i \in DOMAIN Definitions : \A a \in Actions : Definitions[i][a] \in Nat \ {0}
<1>1. /\ None \notin Executor!Calls /\ None \notin Actions /\ Idempotent \subseteq Actions
      /\ \A c \in Executor!Calls : Executor!Result(c) # None
      /\ \A code \in Executor!Codes : Executor!Error(code) # None
  BY DEF Executor!ActionExecutorAssumption
<1>2. \A c : Executor!Result(c).kind = "result" /\ Executor!Result(c).of = c /\ Executor!Error(c).kind = "error"
  BY DEF Executor!Result, Executor!Error
<1>3. \A s \in Executor!Scopes : s[1] \in Actions
  BY <1>1 DEF Executor!Scopes, Executor!NoKey
<1>4. \A i \in DOMAIN Definitions : Definitions[i] \in [Actions -> Nat \ {0}]
  BY DEF Executor!ActionExecutorAssumption
<1>. QED BY <1>1, <1>2, <1>3, <1>4

LEMMA ExecutorInitIsGood ==
    ASSUME Executor!ActionExecutorAssumption, Executor!Init
    PROVE  Executor!IInv
<1>. USE DEF Executor!Init
<1>1. /\ \A c \in Executor!Calls : x6[c] = "new" /\ x7[c] = None /\ x9[c] = None
      /\ \A s \in Executor!Scopes : x8[s] = None /\ x11[s] = {}
      /\ \A a \in Actions : x3[a] = None
      /\ \A a \in Actions \cup {None} : x4[a] = <<>>
      /\ x10 = <<>> /\ x2 = 1
  OBVIOUS
<1>2. 1 \in DOMAIN Definitions /\ Capacity \in Nat /\ MaxCalls \in Nat /\ MaxConcurrency \in Nat \ {0}
  BY DEF Executor!ActionExecutorAssumption
<1>3. <<>> \in Seq(Executor!Stored) /\ <<>> \in Seq(Executor!Calls) /\ Len(<<>>) = 0
  OBVIOUS
<1>4. x6 \in [Executor!Calls -> Executor!Working \cup {"new", "awaits", "waiting", "ended"}]
  OBVIOUS
<1>5. Executor!TypeOK
  BY <1>1, <1>2, <1>3, <1>4 DEF Executor!TypeOK
<1>6. Executor!RequestsAreKept
  <2>1. x3 \in [Actions -> Nat \cup {None}] /\ DOMAIN x5 = Executor!Calls
    OBVIOUS
  <2>. HIDE DEF Executor!Init
  <2>. QED BY <1>1, <2>1 DEF Executor!RequestsAreKept, Executor!Begun
<1>7. Executor!OutcomesAreOwn
  <2>1. DOMAIN x7 = Executor!Calls /\ DOMAIN x9 = Executor!Calls
    OBVIOUS
  <2>. HIDE DEF Executor!Init
  <2>. QED BY <1>1, <2>1 DEF Executor!OutcomesAreOwn, Executor!Begun
<1>8. Executor!CacheMatches
  <2>. HIDE DEF Executor!Init
  <2>. QED BY <1>1, <1>3, ExecutorNothingInEmpty DEF Executor!CacheMatches
<1>9. Executor!KeysAreHeld /\ Executor!SuccessIsKept
  <2>1. x8 \in [Executor!Scopes -> Executor!Calls \cup {None}] /\ x11 \in [Executor!Scopes -> SUBSET Executor!Calls]
    OBVIOUS
  <2>. HIDE DEF Executor!Init
  <2>. QED BY <1>1, <2>1 DEF Executor!KeysAreHeld, Executor!SuccessIsKept, Executor!Working
<1>10. Executor!WaitersHaveWork
  <2>. HIDE DEF Executor!Init
  <2>. QED BY <1>1 DEF Executor!WaitersHaveWork
<1>11. Executor!SemaphoresAreMade
  <2>1. x4 \in [Actions \cup {None} -> Seq(Executor!Calls)]
    OBVIOUS
  <2>. HIDE DEF Executor!Init
  <2>. QED BY <1>1, <2>1 DEF Executor!SemaphoresAreMade
<1>12. Executor!LinesAreServed
  <2>1. DOMAIN x4 = Actions \cup {None}
    OBVIOUS
  <2>. HIDE DEF Executor!Init
  <2>2. \A a \in Actions : x3[a] = None
    BY <1>1
  <2>3. Executor!Holders(None) = {}
    BY <1>1 DEF Executor!Holders
  <2>4. Executor!Cardinality(Executor!Holders(None)) <= MaxConcurrency
    BY <1>2, <2>3, ExecutorCallsAreNone
  <2>5. Executor!WaitersStandInLine
    BY <1>1, <2>1, ExecutorNothingInEmpty DEF Executor!WaitersStandInLine
  <2>. QED BY <2>2, <2>4, <2>5 DEF Executor!LinesAreServed, Executor!LimitsAreKept
<1>. QED BY <1>5, <1>6, <1>7, <1>8, <1>9, <1>10, <1>11, <1>12 DEF Executor!IInv

LEMMA ExecutorActionsOfCalls ==
    ASSUME Executor!ActionExecutorAssumption, Executor!IInv, NEW c \in Executor!Calls, Executor!Begun(c)
    PROVE  Executor!Action(c) \in Actions /\ x5[c].scope \in Executor!Scopes
<1>1. x5[c] \in Executor!Requests
  BY DEF Executor!IInv, Executor!RequestsAreKept
<1>2. x5[c].scope \in Executor!Scopes
  BY <1>1 DEF Executor!Requests
<1>. QED BY <1>2, ExecutorConstants DEF Executor!Action

\* What is shared does not change while a call goes on.
LEMMA ExecutorSharingStays ==
    ASSUME Executor!IInv, UNCHANGED <<x5, x7>>, UNCHANGED <<x8, x9, x10, x11, x12>>, x14' = x14,
           \A d \in Executor!Calls :
               /\ Executor!Begun(d)' <=> Executor!Begun(d)
               /\ x6'[d] \in Executor!Working <=> x6[d] \in Executor!Working
               /\ x6'[d] \in {"awaits", "waiting"} <=> x6[d] \in {"awaits", "waiting"}
    PROVE  Executor!OutcomesAreOwn' /\ Executor!CacheMatches' /\ Executor!KeysAreHeld' /\ Executor!SuccessIsKept' /\ Executor!WaitersHaveWork'
<1>. USE DEF Executor!IInv
<1>1. /\ x5' = x5 /\ x7' = x7 /\ x8' = x8 /\ x9' = x9 /\ x10' = x10
      /\ x11' = x11 /\ x12' = x12
  OBVIOUS
<1>2. \A d \in Executor!Calls : Executor!Begun(d)' <=> Executor!Begun(d)
  OBVIOUS
<1>3. \A d \in Executor!Calls : x6'[d] \in Executor!Working <=> x6[d] \in Executor!Working
  OBVIOUS
<1>4. \A d \in Executor!Calls : x6'[d] \in {"awaits", "waiting"} <=> x6[d] \in {"awaits", "waiting"}
  OBVIOUS
<1>5. \A c, d : Executor!Alike(c, d)' <=> Executor!Alike(c, d)
  BY <1>1 DEF Executor!Alike
<1>6. Executor!OutcomesAreOwn'
  BY <1>1, <1>2, <1>4, <1>5 DEF Executor!OutcomesAreOwn
<1>7. Executor!CacheMatches'
  <2>1. \A e \in Executor!Range(x10) : e.of \in Executor!Calls
    <3>1. \A i \in DOMAIN x10 : x10[i] \in Executor!Stored
      BY DEF Executor!CacheMatches
    <3>. QED BY <3>1, ExecutorInRange DEF Executor!Stored
  <2>. QED BY <1>1, <1>2, <2>1 DEF Executor!CacheMatches
<1>8. Executor!KeysAreHeld'
  <2>1. \A s \in Executor!Scopes : x8[s] # None => x8[s] \in Executor!Calls
    BY DEF Executor!KeysAreHeld
  <2>. QED BY <1>1, <1>2, <1>3, <2>1 DEF Executor!KeysAreHeld
<1>9. Executor!SuccessIsKept'
  BY <1>1 DEF Executor!SuccessIsKept
<1>10. Executor!WaitersHaveWork'
  <2>1. \A s \in Executor!Scopes : x8[s] # None => x8[s] \in Executor!Calls
    BY DEF Executor!KeysAreHeld
  <2>2. \A c \in Executor!Calls : x6[c] \in {"awaits", "waiting"} => x5[c].joins \in Executor!Calls
    BY DEF Executor!OutcomesAreOwn
  <2>. QED BY <1>1, <1>3, <1>4, <2>1, <2>2 DEF Executor!WaitersHaveWork
<1>. QED BY <1>6, <1>7, <1>8, <1>9, <1>10

\* A call that no longer waits stands in no line.
LEMMA ExecutorWaitersLeave ==
    ASSUME Executor!ActionExecutorAssumption, Executor!IInv, NEW c \in Executor!Calls, Executor!Begun(c), NEW to \in {"handler", "ended", "approval"},
           \A d \in Executor!Calls : x6'[d] = IF d = c THEN to ELSE x6[d],
           x5' = x5, x4' = Executor!Left(c)
    PROVE  x4' \in [Actions \cup {None} -> Seq(Executor!Calls)] /\ Executor!WaitersStandInLine'
<1>1. x4 \in [Actions \cup {None} -> Seq(Executor!Calls)]
  BY DEF Executor!IInv, Executor!SemaphoresAreMade
<1>2. /\ DOMAIN x4' = Actions \cup {None}
      /\ \A a \in Actions \cup {None} : x4'[a] = Executor!Without(x4[a], c)
  BY <1>1 DEF Executor!Left
<1>3. ASSUME NEW a \in Actions \cup {None}
      PROVE  /\ x4'[a] \in Seq(Executor!Calls) /\ Executor!IsInjective(x4'[a]) /\ Executor!Range(x4'[a]) = Executor!Range(x4[a]) \ {c}
  <2>1. x4[a] \in Seq(Executor!Calls) /\ Executor!IsInjective(x4[a])
    BY <1>1 DEF Executor!IInv, Executor!LinesAreServed, Executor!WaitersStandInLine
  <2>. QED BY <1>2, <2>1, ExecutorLineOfWaiters
<1>4. x4' \in [Actions \cup {None} -> Seq(Executor!Calls)]
  <2>1. x4' = [a \in Actions \cup {None} |-> x4'[a]]
    BY <1>1 DEF Executor!Left
  <2>. QED BY <1>3, <2>1
<1>5. ASSUME NEW a \in Actions \cup {None}
      PROVE  Executor!Range(x4'[a]) = {d \in Executor!Calls : IF a = None THEN x6'[d] = "global" ELSE x6'[d] = "slot" /\ Executor!Action(d)' = a}
  <2>1. Executor!Range(x4[a]) = {d \in Executor!Calls : IF a = None THEN x6[d] = "global" ELSE x6[d] = "slot" /\ Executor!Action(d) = a}
    BY <1>1 DEF Executor!IInv, Executor!LinesAreServed, Executor!WaitersStandInLine
  <2>2. \A d \in Executor!Calls : Executor!Action(d)' = Executor!Action(d)
    BY DEF Executor!Action
  <2>. QED BY <1>3, <2>1, <2>2
<1>. QED BY <1>2, <1>3, <1>4, <1>5 DEF Executor!WaitersStandInLine

\* A call that comes to a line stands in that one alone.
LEMMA ExecutorWaiterComes ==
    ASSUME Executor!ActionExecutorAssumption, Executor!IInv, NEW c \in Executor!Calls, Executor!Begun(c), NEW at \in Actions \cup {None}, NEW to \in {"global", "slot"},
           at = None <=> to = "global", to = "slot" => at = Executor!Action(c),
           \A d \in Executor!Calls : x6'[d] = IF d = c THEN to ELSE x6[d],
           x5' = x5, x4' = [Executor!Left(c) EXCEPT ![at] = Append(@, c)],
           x6[c] # "slot"
    PROVE  x4' \in [Actions \cup {None} -> Seq(Executor!Calls)] /\ Executor!WaitersStandInLine'
<1>1. x4 \in [Actions \cup {None} -> Seq(Executor!Calls)]
  BY DEF Executor!IInv, Executor!SemaphoresAreMade
<1>2. /\ DOMAIN x4' = Actions \cup {None}
      /\ \A a \in Actions \cup {None} : x4'[a] = IF a = at THEN Append(Executor!Without(x4[a], c), c) ELSE Executor!Without(x4[a], c)
  BY <1>1 DEF Executor!Left
<1>3. ASSUME NEW a \in Actions \cup {None}
      PROVE  /\ x4'[a] \in Seq(Executor!Calls) /\ Executor!IsInjective(x4'[a])
             /\ Executor!Range(x4'[a]) = IF a = at THEN Executor!Range(x4[a]) \cup {c} ELSE Executor!Range(x4[a]) \ {c}
  <2>. DEFINE w == Executor!Without(x4[a], c)
  <2>1. x4[a] \in Seq(Executor!Calls) /\ Executor!IsInjective(x4[a])
    BY <1>1 DEF Executor!IInv, Executor!LinesAreServed, Executor!WaitersStandInLine
  <2>2. w \in Seq(Executor!Calls) /\ Executor!IsInjective(w) /\ Executor!Range(w) = Executor!Range(x4[a]) \ {c}
    BY <2>1, ExecutorLineOfWaiters
  <2>3. x4'[a] = IF a = at THEN Append(w, c) ELSE w
    BY <1>2
  <2>. HIDE DEF w
  <2>4. c \notin Executor!Range(w)
    BY <2>2
  <2>5. Append(w, c) \in Seq(Executor!Calls) /\ Executor!IsInjective(Append(w, c)) /\ Executor!Range(Append(w, c)) = Executor!Range(w) \cup {c}
    BY <2>2, <2>4, ExecutorLineOfWaiters
  <2>. QED BY <2>2, <2>3, <2>5
<1>4. x4' \in [Actions \cup {None} -> Seq(Executor!Calls)]
  <2>1. x4' = [a \in Actions \cup {None} |-> x4'[a]]
    BY <1>1 DEF Executor!Left
  <2>. QED BY <1>3, <2>1
<1>5. ASSUME NEW a \in Actions \cup {None}
      PROVE  Executor!Range(x4'[a]) = {d \in Executor!Calls : IF a = None THEN x6'[d] = "global" ELSE x6'[d] = "slot" /\ Executor!Action(d)' = a}
  <2>1. Executor!Range(x4[a]) = {d \in Executor!Calls : IF a = None THEN x6[d] = "global" ELSE x6[d] = "slot" /\ Executor!Action(d) = a}
    BY <1>1 DEF Executor!IInv, Executor!LinesAreServed, Executor!WaitersStandInLine
  <2>2. \A d \in Executor!Calls : Executor!Action(d)' = Executor!Action(d)
    BY DEF Executor!Action
  <2>. DEFINE Stands(d) == IF a = None THEN x6'[d] = "global" ELSE x6'[d] = "slot" /\ Executor!Action(d)' = a
  <2>3. \A d \in Executor!Calls \ {c} : Stands(d) <=> d \in Executor!Range(x4[a])
    BY <2>1, <2>2
  <2>4. Stands(c) <=> a = at
    BY <2>2, ExecutorConstants, ExecutorActionsOfCalls
  <2>5. Executor!Range(x4[a]) \subseteq Executor!Calls
    BY <2>1
  <2>. DEFINE R == Executor!Range(x4[a])
              N == Executor!Range(x4'[a])
  <2>6. N = IF a = at THEN R \cup {c} ELSE R \ {c}
    BY <1>3
  <2>7. R \subseteq Executor!Calls /\ \A d \in Executor!Calls \ {c} : Stands(d) <=> d \in R
    BY <2>3, <2>5
  <2>8. N = {d \in Executor!Calls : Stands(d)}
    <3>. HIDE DEF Stands, R, N
    <3>1. CASE a = at
      BY <2>4, <2>6, <2>7, <3>1
    <3>2. CASE a # at
      BY <2>4, <2>6, <2>7, <3>2
    <3>. QED BY <3>1, <3>2
  <2>. QED BY <2>8
<1>. QED BY <1>2, <1>3, <1>4, <1>5 DEF Executor!WaitersStandInLine

\* Nobody comes to a semaphore.
LEMMA ExecutorLimitsStay ==
    ASSUME Executor!ActionExecutorAssumption, Executor!IInv, x3' = x3, \A a \in Actions \cup {None} : Executor!Holders(a)' \subseteq Executor!Holders(a)
    PROVE  Executor!LimitsAreKept'
<1>1. MaxCalls \in Nat /\ MaxConcurrency \in Nat
  BY DEF Executor!ActionExecutorAssumption
<1>2. ASSUME NEW a \in Actions \cup {None}
      PROVE  Executor!Cardinality(Executor!Holders(a)') <= Executor!Cardinality(Executor!Holders(a)) /\ Executor!Cardinality(Executor!Holders(a)') \in Nat /\ Executor!Cardinality(Executor!Holders(a)) \in Nat
  <2>. DEFINE H == Executor!Holders(a)
              A == Executor!Holders(a)'
  <2>1. H \in SUBSET Executor!Calls /\ A \in SUBSET Executor!Calls /\ A \subseteq H
    BY DEF Executor!Holders
  <2>. HIDE DEF H, A
  <2>2. Executor!Cardinality(H) \in Nat /\ Executor!Cardinality(A) \in Nat /\ Executor!Cardinality(A) <= Executor!Cardinality(H)
    BY <1>1, <2>1, ExecutorFewerCalls
  <2>. QED BY <2>2 DEF H, A
<1>3. Executor!Cardinality(Executor!Holders(None)') <= MaxConcurrency
  BY <1>1, <1>2 DEF Executor!IInv, Executor!LinesAreServed, Executor!LimitsAreKept
<1>4. ASSUME NEW a \in Actions, x3'[a] # None PROVE Executor!Cardinality(Executor!Holders(a)') <= x3'[a]
  <2>1. x3[a] \in Nat
    BY <1>4 DEF Executor!IInv, Executor!RequestsAreKept
  <2>2. Executor!Cardinality(Executor!Holders(a)) <= x3[a]
    BY <1>4 DEF Executor!IInv, Executor!LinesAreServed, Executor!LimitsAreKept
  <2>. QED BY <1>2, <2>1, <2>2
<1>. QED BY <1>3, <1>4 DEF Executor!LimitsAreKept

\* Nobody comes to a line or leaves one.
LEMMA ExecutorLinesStay ==
    ASSUME Executor!IInv, x4' = x4,
           \A d \in Executor!Calls :
               /\ x6'[d] = "global" <=> x6[d] = "global"
               /\ x6'[d] = "slot" <=> x6[d] = "slot"
               /\ x6[d] = "slot" => Executor!Action(d)' = Executor!Action(d)
    PROVE  Executor!WaitersStandInLine'
<1>1. \A a \in DOMAIN x4 :
          {d \in Executor!Calls : IF a = None THEN x6'[d] = "global" ELSE x6'[d] = "slot" /\ Executor!Action(d)' = a}
          = {d \in Executor!Calls : IF a = None THEN x6[d] = "global" ELSE x6[d] = "slot" /\ Executor!Action(d) = a}
  OBVIOUS
<1>. QED BY <1>1 DEF Executor!IInv, Executor!LinesAreServed, Executor!WaitersStandInLine

LEMMA ExecutorNothingHappens ==
    ASSUME Executor!ActionExecutorAssumption, Executor!IInv, UNCHANGED Executor!vars
    PROVE  Executor!IInv'
<1>1. /\ x1' = x1 /\ x2' = x2 /\ x3' = x3 /\ x4' = x4 /\ x5' = x5 /\ x6' = x6
      /\ x7' = x7 /\ x8' = x8 /\ x9' = x9 /\ x10' = x10 /\ x11' = x11
      /\ x12' = x12 /\ x13' = x13 /\ x14' = x14
  BY DEF Executor!vars
<1>2. Executor!TypeOK'
  BY <1>1 DEF Executor!IInv, Executor!TypeOK
<1>3. Executor!RequestsAreKept' /\ Executor!SemaphoresAreMade'
  BY <1>1 DEF Executor!IInv, Executor!RequestsAreKept, Executor!SemaphoresAreMade, Executor!Begun, Executor!Action
<1>4. Executor!OutcomesAreOwn' /\ Executor!CacheMatches' /\ Executor!KeysAreHeld' /\ Executor!SuccessIsKept' /\ Executor!WaitersHaveWork'
  BY <1>1, ExecutorSharingStays DEF Executor!Begun
<1>5. Executor!LimitsAreKept'
  BY <1>1 DEF Executor!IInv, Executor!LinesAreServed, Executor!LimitsAreKept, Executor!Holders, Executor!Action
<1>6. Executor!WaitersStandInLine'
  BY <1>1 DEF Executor!IInv, Executor!LinesAreServed, Executor!WaitersStandInLine, Executor!Action
<1>. QED BY <1>2, <1>3, <1>4, <1>5, <1>6 DEF Executor!IInv, Executor!LinesAreServed

LEMMA ExecutorRegistryKeeps ==
    ASSUME Executor!ActionExecutorAssumption, Executor!IInv, Executor!Register \/ Executor!Dispose
    PROVE  Executor!IInv'
<1>1. /\ x3' = x3 /\ x4' = x4 /\ x5' = x5 /\ x6' = x6
      /\ x7' = x7 /\ x8' = x8 /\ x9' = x9 /\ x10' = x10 /\ x11' = x11
      /\ x12' = x12 /\ x13' = x13 /\ x14' = x14
      /\ x2' = x2 \/ (x2 < Len(Definitions) /\ x2' = x2 + 1)
  BY DEF Executor!Register, Executor!Dispose, Executor!Unaffected, Executor!sharing, Executor!seen
<1>2. Executor!TypeOK'
  <2>1. x2 \in 1..Len(Definitions) /\ Len(Definitions) \in Nat
    BY DEF Executor!IInv, Executor!TypeOK, Executor!ActionExecutorAssumption
  <2>2. x2' \in 1..Len(Definitions)
    BY <1>1, <2>1
  <2>3. x2' \in DOMAIN Definitions
    BY <2>2 DEF Executor!ActionExecutorAssumption
  <2>. QED BY <1>1, <2>3 DEF Executor!IInv, Executor!TypeOK
<1>3. Executor!RequestsAreKept' /\ Executor!SemaphoresAreMade'
  BY <1>1 DEF Executor!IInv, Executor!RequestsAreKept, Executor!SemaphoresAreMade, Executor!Begun, Executor!Action
<1>4. Executor!OutcomesAreOwn' /\ Executor!CacheMatches' /\ Executor!KeysAreHeld' /\ Executor!SuccessIsKept' /\ Executor!WaitersHaveWork'
  BY <1>1, ExecutorSharingStays DEF Executor!Begun
<1>5. Executor!LimitsAreKept'
  BY <1>1 DEF Executor!IInv, Executor!LinesAreServed, Executor!LimitsAreKept, Executor!Holders, Executor!Action
<1>6. Executor!WaitersStandInLine'
  BY <1>1 DEF Executor!IInv, Executor!LinesAreServed, Executor!WaitersStandInLine, Executor!Action
<1>. QED BY <1>2, <1>3, <1>4, <1>5, <1>6 DEF Executor!IInv, Executor!LinesAreServed

LEMMA ExecutorSizesAreWidths ==
    ASSUME Executor!ActionExecutorAssumption, Executor!IInv, NEW c \in Executor!Calls, Executor!Begun(c)
    PROVE  Executor!Size(c) \in Nat /\ Executor!Size(c) \in Executor!Widths(Executor!Action(c)) /\ Executor!Size(c) # None
<1>1. Executor!Action(c) \in Actions
  BY ExecutorActionsOfCalls
<1>2. \A w \in Executor!Widths(Executor!Action(c)) : w \in Nat /\ w # None
  <2>. SUFFICES ASSUME NEW w \in Executor!Widths(Executor!Action(c)) PROVE w \in Nat /\ w # None
    OBVIOUS
  <2>1. PICK d \in Executor!Range(Definitions) : w = d[Executor!Action(c)]
    BY DEF Executor!Widths
  <2>2. PICK i \in DOMAIN Definitions : Definitions[i] = d
    BY ExecutorInRange
  <2>3. Definitions[i][Executor!Action(c)] \in Nat \ {0}
    BY <1>1, ExecutorConstants
  <2>4. Definitions[i][Executor!Action(c)] # None
    BY <1>1 DEF Executor!ActionExecutorAssumption
  <2>. QED BY <2>1, <2>2, <2>3, <2>4
<1>3. x5[c].width \in Executor!Widths(Executor!Action(c))
  BY DEF Executor!IInv, Executor!RequestsAreKept
<1>4. x3[Executor!Action(c)] # None => x3[Executor!Action(c)] \in Executor!Widths(Executor!Action(c))
  BY <1>1 DEF Executor!IInv, Executor!TypeOK, Executor!Widths
<1>5. Executor!Size(c) \in Executor!Widths(Executor!Action(c))
  BY <1>3, <1>4 DEF Executor!Size
<1>. QED BY <1>2, <1>5

\* What a step of one call among those at work leaves as it is
LEMMA ExecutorWorkGoesOn ==
    ASSUME Executor!ActionExecutorAssumption, Executor!IInv, NEW c \in Executor!Calls, NEW to, x6' = [x6 EXCEPT ![c] = to], Executor!Waits,
           (x6[c] \in Executor!Working /\ to \in Executor!Working) \/ (x6[c] = "awaits" /\ to = "waiting")
    PROVE  /\ \A d \in Executor!Calls : x6'[d] = IF d = c THEN to ELSE x6[d]
           /\ Executor!OutcomesAreOwn' /\ Executor!CacheMatches' /\ Executor!KeysAreHeld' /\ Executor!SuccessIsKept' /\ Executor!WaitersHaveWork'
           /\ x6' \in [Executor!Calls -> Executor!Working \cup {"new", "awaits", "waiting", "ended"}]
           /\ \A s \in Executor!Scopes : x8'[s] \in Executor!Calls \cup {None}
           /\ Len(x10') <= Capacity /\ x2' \in DOMAIN Definitions
           /\ x5' = x5 /\ Executor!Begun(c) /\ \A d \in Executor!Calls : Executor!Begun(d)' <=> Executor!Begun(d)
<1>1. x6 \in [Executor!Calls -> Executor!Working \cup {"new", "awaits", "waiting", "ended"}]
  BY DEF Executor!IInv, Executor!TypeOK
<1>2. \A d \in Executor!Calls : x6'[d] = IF d = c THEN to ELSE x6[d]
  BY <1>1
<1>3. Executor!Begun(c) /\ \A d \in Executor!Calls : Executor!Begun(d)' <=> Executor!Begun(d)
  BY <1>2 DEF Executor!Begun, Executor!Working
<1>4. \A d \in Executor!Calls :
          /\ x6'[d] \in Executor!Working <=> x6[d] \in Executor!Working
          /\ x6'[d] \in {"awaits", "waiting"} <=> x6[d] \in {"awaits", "waiting"}
  BY <1>2 DEF Executor!Working
<1>5. Executor!OutcomesAreOwn' /\ Executor!CacheMatches' /\ Executor!KeysAreHeld' /\ Executor!SuccessIsKept' /\ Executor!WaitersHaveWork'
  BY <1>3, <1>4, ExecutorSharingStays DEF Executor!Waits, Executor!sharing, Executor!seen
<1>6. x6' \in [Executor!Calls -> Executor!Working \cup {"new", "awaits", "waiting", "ended"}]
  BY <1>1
<1>7. x8' = x8 /\ x10' = x10 /\ x2' = x2 /\ x5' = x5
  BY DEF Executor!Waits, Executor!sharing, Executor!registry
<1>. QED BY <1>2, <1>3, <1>5, <1>6, <1>7 DEF Executor!IInv, Executor!TypeOK

LEMMA ExecutorAwaitKeeps ==
    ASSUME Executor!ActionExecutorAssumption, Executor!IInv, NEW c \in Executor!Calls, Executor!Await(c)
    PROVE  Executor!IInv'
<1>1. x6[c] = "awaits" /\ x6' = [x6 EXCEPT ![c] = "waiting"] /\ x3' = x3 /\ x4' = x4 /\ Executor!Waits
  BY DEF Executor!Await
<1>2. /\ \A d \in Executor!Calls : x6'[d] = IF d = c THEN "waiting" ELSE x6[d]
      /\ Executor!OutcomesAreOwn' /\ Executor!CacheMatches' /\ Executor!KeysAreHeld' /\ Executor!SuccessIsKept' /\ Executor!WaitersHaveWork'
      /\ x6' \in [Executor!Calls -> Executor!Working \cup {"new", "awaits", "waiting", "ended"}]
      /\ \A s \in Executor!Scopes : x8'[s] \in Executor!Calls \cup {None}
      /\ Len(x10') <= Capacity /\ x2' \in DOMAIN Definitions
      /\ x5' = x5 /\ \A d \in Executor!Calls : Executor!Begun(d)' <=> Executor!Begun(d)
  BY <1>1, ExecutorWorkGoesOn
<1>3. Executor!TypeOK'
  BY <1>1, <1>2 DEF Executor!IInv, Executor!TypeOK
<1>4. Executor!RequestsAreKept' /\ Executor!SemaphoresAreMade'
  BY <1>1, <1>2 DEF Executor!IInv, Executor!RequestsAreKept, Executor!SemaphoresAreMade, Executor!Action
<1>5. Executor!LimitsAreKept'
  <2>1. \A a \in Actions \cup {None} : Executor!Holders(a)' \subseteq Executor!Holders(a)
    BY <1>1, <1>2 DEF Executor!Holders, Executor!Action
  <2>. QED BY <1>1, <2>1, ExecutorLimitsStay
<1>6. Executor!WaitersStandInLine'
  BY <1>1, <1>2, ExecutorLinesStay DEF Executor!Action
<1>. QED BY <1>2, <1>3, <1>4, <1>5, <1>6 DEF Executor!IInv, Executor!LinesAreServed

LEMMA ExecutorAsksKeeps ==
    ASSUME Executor!ActionExecutorAssumption, Executor!IInv, NEW c \in Executor!Calls, x6[c] = "started", x6' = [x6 EXCEPT ![c] = "approval"],
           UNCHANGED <<x3, x4>>, Executor!Waits
    PROVE  Executor!IInv'
<1>1. x3' = x3 /\ x4' = x4
  OBVIOUS
<1>2. /\ \A d \in Executor!Calls : x6'[d] = IF d = c THEN "approval" ELSE x6[d]
      /\ Executor!OutcomesAreOwn' /\ Executor!CacheMatches' /\ Executor!KeysAreHeld' /\ Executor!SuccessIsKept' /\ Executor!WaitersHaveWork'
      /\ x6' \in [Executor!Calls -> Executor!Working \cup {"new", "awaits", "waiting", "ended"}]
      /\ \A s \in Executor!Scopes : x8'[s] \in Executor!Calls \cup {None}
      /\ Len(x10') <= Capacity /\ x2' \in DOMAIN Definitions
      /\ x5' = x5 /\ \A d \in Executor!Calls : Executor!Begun(d)' <=> Executor!Begun(d)
  <2>1. x6[c] \in Executor!Working /\ "approval" \in Executor!Working
    BY DEF Executor!Working
  <2>. QED BY <2>1, ExecutorWorkGoesOn
<1>3. Executor!TypeOK'
  BY <1>1, <1>2 DEF Executor!IInv, Executor!TypeOK
<1>4. Executor!RequestsAreKept' /\ Executor!SemaphoresAreMade'
  BY <1>1, <1>2 DEF Executor!IInv, Executor!RequestsAreKept, Executor!SemaphoresAreMade, Executor!Action
<1>5. Executor!LimitsAreKept'
  <2>1. \A a \in Actions \cup {None} : Executor!Holders(a)' \subseteq Executor!Holders(a)
    BY <1>1, <1>2 DEF Executor!Holders, Executor!Action
  <2>. QED BY <1>1, <2>1, ExecutorLimitsStay
<1>6. Executor!WaitersStandInLine'
  BY <1>1, <1>2, ExecutorLinesStay DEF Executor!Action
<1>. QED BY <1>2, <1>3, <1>4, <1>5, <1>6 DEF Executor!IInv, Executor!LinesAreServed

\* One comes to a semaphore that has room, which is made if it is the first.
LEMMA ExecutorLimitsHold ==
    ASSUME Executor!ActionExecutorAssumption, Executor!IInv, NEW c \in Executor!Calls, Executor!Begun(c), NEW to \in {"global", "slot", "handler"},
           \A d \in Executor!Calls : x6'[d] = IF d = c THEN to ELSE x6[d],
           x5' = x5, x3' = [x3 EXCEPT ![Executor!Action(c)] = Executor!Size(c)],
           to \in {"slot", "handler"} => Executor!Cardinality(Executor!Holders(None)) < MaxConcurrency,
           to = "handler" => Executor!Cardinality(Executor!Holders(Executor!Action(c))) < Executor!Size(c)
    PROVE  Executor!LimitsAreKept'
<1>1. MaxCalls \in Nat /\ MaxConcurrency \in Nat /\ Executor!Action(c) \in Actions /\ None \notin Actions
  BY ExecutorConstants, ExecutorActionsOfCalls DEF Executor!ActionExecutorAssumption
<1>2. \A d \in Executor!Calls : Executor!Action(d)' = Executor!Action(d)
  BY DEF Executor!Action
<1>3. \A a \in Actions \cup {None} : Executor!Holders(a) \in SUBSET Executor!Calls /\ Executor!Holders(a)' \in SUBSET (Executor!Holders(a) \cup {c})
  BY <1>2 DEF Executor!Holders
<1>4. ASSUME NEW a \in Actions \cup {None}
      PROVE  /\ Executor!Cardinality(Executor!Holders(a)) \in Nat /\ Executor!Cardinality(Executor!Holders(a)') \in Nat
             /\ Executor!Cardinality(Executor!Holders(a)') <= Executor!Cardinality(Executor!Holders(a)) + 1
             /\ Executor!Holders(a)' \subseteq Executor!Holders(a) => Executor!Cardinality(Executor!Holders(a)') <= Executor!Cardinality(Executor!Holders(a))
  <2>. DEFINE H == Executor!Holders(a)
              A == Executor!Holders(a)'
  <2>1. H \in SUBSET Executor!Calls /\ A \in SUBSET (H \cup {c})
    BY <1>3
  <2>. HIDE DEF H, A
  <2>2. Executor!Cardinality(H) \in Nat /\ Executor!Cardinality(A) \in Nat /\ Executor!Cardinality(A) <= Executor!Cardinality(H) + 1
    BY <1>1, <2>1, ExecutorOneMoreCall
  <2>3. A \subseteq H => Executor!Cardinality(A) <= Executor!Cardinality(H)
    BY <1>1, <2>1, ExecutorFewerCalls
  <2>. QED BY <2>2, <2>3 DEF H, A
<1>5. Executor!Cardinality(Executor!Holders(None)') <= MaxConcurrency
  <2>1. CASE to = "global"
    <3>1. Executor!Holders(None)' \subseteq Executor!Holders(None)
      BY <1>2, <2>1 DEF Executor!Holders
    <3>. QED BY <1>1, <1>4, <3>1 DEF Executor!IInv, Executor!LinesAreServed, Executor!LimitsAreKept
  <2>2. CASE to # "global"
    BY <1>1, <1>4, <2>2
  <2>. QED BY <2>1, <2>2
<1>6. \A a \in Actions : x3'[a] = IF a = Executor!Action(c) THEN Executor!Size(c) ELSE x3[a]
  BY DEF Executor!IInv, Executor!RequestsAreKept
<1>7. ASSUME NEW a \in Actions, x3'[a] # None PROVE Executor!Cardinality(Executor!Holders(a)') <= x3'[a]
  <2>1. CASE a # Executor!Action(c)
    <3>1. Executor!Holders(a)' \subseteq Executor!Holders(a)
      BY <1>1, <1>2, <2>1 DEF Executor!Holders
    <3>2. x3[a] \in Nat /\ Executor!Cardinality(Executor!Holders(a)) <= x3[a] /\ x3'[a] = x3[a]
      BY <1>6, <1>7, <2>1 DEF Executor!IInv, Executor!RequestsAreKept, Executor!LinesAreServed, Executor!LimitsAreKept
    <3>. QED BY <1>4, <3>1, <3>2
  <2>2. CASE a = Executor!Action(c) /\ to = "handler"
    <3>1. x3'[a] = Executor!Size(c) /\ Executor!Size(c) \in Nat /\ Executor!Cardinality(Executor!Holders(a)) < Executor!Size(c)
      BY <1>6, <2>2, ExecutorSizesAreWidths
    <3>. QED BY <1>4, <3>1
  <2>3. CASE a = Executor!Action(c) /\ to # "handler"
    <3>1. Executor!Holders(a)' \subseteq Executor!Holders(a)
      BY <1>1, <1>2, <2>3 DEF Executor!Holders
    <3>2. x3'[a] = Executor!Size(c) /\ Executor!Size(c) \in Nat
      BY <1>6, <2>3, ExecutorSizesAreWidths
    <3>3. Executor!Cardinality(Executor!Holders(a)) <= Executor!Size(c)
      <4>1. CASE x3[a] # None
        BY <2>3, <4>1 DEF Executor!Size, Executor!IInv, Executor!LinesAreServed, Executor!LimitsAreKept
      <4>2. CASE x3[a] = None
        <5>1. Executor!Holders(a) = {}
          BY <1>1, <2>3, <4>2 DEF Executor!Holders, Executor!IInv, Executor!SemaphoresAreMade
        <5>. QED BY <3>2, <5>1, ExecutorCallsAreNone
      <4>. QED BY <4>1, <4>2
    <3>. QED BY <1>4, <3>1, <3>2, <3>3
  <2>. QED BY <2>1, <2>2, <2>3
<1>. QED BY <1>5, <1>7 DEF Executor!LimitsAreKept

LEMMA ExecutorAcquiresKeeps ==
    ASSUME Executor!ActionExecutorAssumption, Executor!IInv, NEW c \in Executor!Calls, Executor!Acquires(c), Executor!Waits,
           x6[c] \in {"started", "approval"} \/ (x6[c] = "global" /\ Executor!Room(None, c))
    PROVE  Executor!IInv'
<1>. DEFINE a == Executor!Action(c)
            to == IF ~Executor!Room(None, c) THEN "global" ELSE IF ~Executor!Room(a, c) THEN "slot" ELSE "handler"
<1>1. /\ x6' = [x6 EXCEPT ![c] = to] /\ x3' = [x3 EXCEPT ![a] = Executor!Size(c)]
      /\ to = "global" => x4' = [x4 EXCEPT ![None] = Append(@, c)]
      /\ to = "slot" => x4' = [Executor!Left(c) EXCEPT ![a] = Append(@, c)]
      /\ to = "handler" => x4' = Executor!Left(c)
  BY DEF Executor!Acquires
<1>2. /\ to \in {"global", "slot", "handler"} /\ to \in Executor!Working
      /\ to = "global" => x6[c] # "global"
      /\ to \in {"slot", "handler"} => Executor!Cardinality(Executor!Holders(None)) < MaxConcurrency
      /\ x6[c] \in {"started", "approval", "global"} /\ x6[c] \in Executor!Working
  BY DEF Executor!Room, Executor!Working
<1>3. to = "handler" => Executor!Cardinality(Executor!Holders(a)) < Executor!Size(c)
  <2>1. to = "handler" => Executor!Room(a, c)
    OBVIOUS
  <2>2. a # None
    BY <1>2, ExecutorConstants, ExecutorActionsOfCalls DEF Executor!Begun
  <2>. QED BY <2>1, <2>2 DEF Executor!Room
<1>. HIDE DEF to
<1>4. /\ \A d \in Executor!Calls : x6'[d] = IF d = c THEN to ELSE x6[d]
      /\ Executor!OutcomesAreOwn' /\ Executor!CacheMatches' /\ Executor!KeysAreHeld' /\ Executor!SuccessIsKept' /\ Executor!WaitersHaveWork'
      /\ x6' \in [Executor!Calls -> Executor!Working \cup {"new", "awaits", "waiting", "ended"}]
      /\ \A s \in Executor!Scopes : x8'[s] \in Executor!Calls \cup {None}
      /\ Len(x10') <= Capacity /\ x2' \in DOMAIN Definitions
      /\ x5' = x5 /\ Executor!Begun(c) /\ \A d \in Executor!Calls : Executor!Begun(d)' <=> Executor!Begun(d)
  BY <1>1, <1>2, ExecutorWorkGoesOn
<1>5. a \in Actions /\ None \notin Actions /\ Executor!Size(c) \in Nat /\ Executor!Size(c) \in Executor!Widths(a) /\ Executor!Size(c) # None
  BY <1>4, ExecutorActionsOfCalls, ExecutorSizesAreWidths, ExecutorConstants
<1>6. \A b \in Actions : x3'[b] = IF b = a THEN Executor!Size(c) ELSE x3[b]
  BY <1>1 DEF Executor!IInv, Executor!RequestsAreKept
<1>7. Executor!TypeOK'
  <2>1. \A b \in Actions : x3'[b] \in Executor!Widths(b) \cup {None}
    BY <1>5, <1>6 DEF Executor!IInv, Executor!TypeOK, Executor!Widths
  <2>. QED BY <1>4, <2>1 DEF Executor!TypeOK, Executor!Widths
<1>8. Executor!RequestsAreKept'
  <2>1. x3' \in [Actions -> Nat \cup {None}]
    BY <1>1, <1>5 DEF Executor!IInv, Executor!RequestsAreKept
  <2>. QED BY <1>4, <2>1 DEF Executor!IInv, Executor!RequestsAreKept, Executor!Action
<1>9. Executor!LimitsAreKept'
  BY <1>1, <1>2, <1>3, <1>4, ExecutorLimitsHold
<1>10. x4' \in [Actions \cup {None} -> Seq(Executor!Calls)] /\ Executor!WaitersStandInLine'
  <2>1. CASE to = "handler"
    BY <1>1, <1>4, <2>1, ExecutorWaitersLeave
  <2>2. CASE to = "slot"
    BY <1>1, <1>2, <1>4, <1>5, <2>2, ExecutorWaiterComes
  <2>3. CASE to = "global"
    <3>1. x4 \in [Actions \cup {None} -> Seq(Executor!Calls)]
      BY DEF Executor!IInv, Executor!SemaphoresAreMade
    <3>2. ASSUME NEW b \in Actions \cup {None} PROVE Executor!Without(x4[b], c) = x4[b]
      <4>1. c \notin Executor!Range(x4[b])
        <5>1. Executor!Range(x4[b]) = {d \in Executor!Calls : IF b = None THEN x6[d] = "global" ELSE x6[d] = "slot" /\ Executor!Action(d) = b}
          BY <3>1 DEF Executor!IInv, Executor!LinesAreServed, Executor!WaitersStandInLine
        <5>. QED BY <1>2, <2>3, <5>1
      <4>. QED BY <4>1, ExecutorInRange DEF Executor!Without
    <3>3. Executor!Left(c) = x4
      BY <3>1, <3>2 DEF Executor!Left
    <3>4. None \in Actions \cup {None} /\ x4' = [Executor!Left(c) EXCEPT ![None] = Append(@, c)]
      BY <1>1, <2>3, <3>3
    <3>. QED BY <1>2, <1>4, <2>3, <3>4, ExecutorWaiterComes
  <2>. QED BY <1>2, <2>1, <2>2, <2>3
<1>11. Executor!SemaphoresAreMade'
  <2>1. ASSUME NEW d \in Executor!Calls, x6'[d] \in {"global", "slot", "handler"} PROVE x3'[Executor!Action(d)] # None
    <3>1. CASE d = c
      BY <1>5, <1>6, <3>1
    <3>2. CASE d # c
      <4>1. x6[d] \in {"global", "slot", "handler"}
        BY <1>4, <2>1, <3>2
      <4>2. Executor!Action(d) \in Actions /\ x3[Executor!Action(d)] # None
        BY <4>1, ExecutorActionsOfCalls DEF Executor!Begun, Executor!IInv, Executor!SemaphoresAreMade
      <4>. QED BY <1>5, <1>6, <4>2
    <3>. QED BY <3>1, <3>2
  <2>. QED BY <1>4, <1>10, <2>1 DEF Executor!SemaphoresAreMade, Executor!Action
<1>. QED BY <1>4, <1>7, <1>8, <1>9, <1>10, <1>11 DEF Executor!IInv, Executor!LinesAreServed

LEMMA ExecutorEnterSlotKeeps ==
    ASSUME Executor!ActionExecutorAssumption, Executor!IInv, NEW c \in Executor!Calls, Executor!EnterSlot(c)
    PROVE  Executor!IInv'
<1>1. /\ x6[c] = "slot" /\ Executor!Room(Executor!Action(c), c) /\ x6' = [x6 EXCEPT ![c] = "handler"]
      /\ x4' = Executor!Left(c) /\ x3' = x3 /\ Executor!Waits
  BY DEF Executor!EnterSlot
<1>2. /\ \A d \in Executor!Calls : x6'[d] = IF d = c THEN "handler" ELSE x6[d]
      /\ Executor!OutcomesAreOwn' /\ Executor!CacheMatches' /\ Executor!KeysAreHeld' /\ Executor!SuccessIsKept' /\ Executor!WaitersHaveWork'
      /\ x6' \in [Executor!Calls -> Executor!Working \cup {"new", "awaits", "waiting", "ended"}]
      /\ \A s \in Executor!Scopes : x8'[s] \in Executor!Calls \cup {None}
      /\ Len(x10') <= Capacity /\ x2' \in DOMAIN Definitions
      /\ x5' = x5 /\ Executor!Begun(c) /\ \A d \in Executor!Calls : Executor!Begun(d)' <=> Executor!Begun(d)
  <2>1. x6[c] \in Executor!Working /\ "handler" \in Executor!Working
    BY <1>1 DEF Executor!Working
  <2>. QED BY <1>1, <2>1, ExecutorWorkGoesOn
<1>3. Executor!TypeOK'
  BY <1>1, <1>2 DEF Executor!IInv, Executor!TypeOK
<1>4. Executor!RequestsAreKept'
  BY <1>1, <1>2 DEF Executor!IInv, Executor!RequestsAreKept, Executor!Action
<1>5. x4' \in [Actions \cup {None} -> Seq(Executor!Calls)] /\ Executor!WaitersStandInLine'
  BY <1>1, <1>2, ExecutorWaitersLeave
<1>6. Executor!SemaphoresAreMade'
  BY <1>1, <1>2, <1>5 DEF Executor!IInv, Executor!SemaphoresAreMade, Executor!Action
<1>7. Executor!Action(c) \in Actions /\ None \notin Actions /\ x3[Executor!Action(c)] # None /\ x3[Executor!Action(c)] \in Nat
  BY <1>1, <1>2, ExecutorActionsOfCalls, ExecutorConstants DEF Executor!IInv, Executor!SemaphoresAreMade, Executor!RequestsAreKept
<1>8. Executor!LimitsAreKept'
  <2>1. MaxCalls \in Nat /\ MaxConcurrency \in Nat
    BY DEF Executor!ActionExecutorAssumption
  <2>2. \A d \in Executor!Calls : Executor!Action(d)' = Executor!Action(d)
    BY <1>2 DEF Executor!Action
  <2>3. \A b \in Actions \cup {None} : b # Executor!Action(c) => Executor!Holders(b)' = Executor!Holders(b)
    BY <1>1, <1>2, <1>7, <2>2 DEF Executor!Holders
  <2>4. ASSUME NEW b \in Actions, b = Executor!Action(c) PROVE Executor!Cardinality(Executor!Holders(b)') <= x3[b]
    <3>. DEFINE H == Executor!Holders(b)
                A == Executor!Holders(b)'
    <3>1. H \in SUBSET Executor!Calls /\ A \in SUBSET (H \cup {c})
      BY <1>2, <2>2 DEF Executor!Holders
    <3>2. Executor!Cardinality(H) < x3[b]
      BY <1>1, <1>7, <2>4 DEF Executor!Room, Executor!Size
    <3>. HIDE DEF H, A
    <3>3. Executor!Cardinality(H) \in Nat /\ Executor!Cardinality(A) \in Nat /\ Executor!Cardinality(A) <= Executor!Cardinality(H) + 1
      BY <2>1, <3>1, ExecutorOneMoreCall
    <3>4. Executor!Cardinality(A) <= x3[b]
      BY <1>7, <2>4, <3>2, <3>3
    <3>. QED BY <3>4 DEF A
  <2>6. \A b \in Actions : b # Executor!Action(c) /\ x3[b] # None => Executor!Cardinality(Executor!Holders(b)') <= x3[b]
    BY <2>3 DEF Executor!IInv, Executor!LinesAreServed, Executor!LimitsAreKept
  <2>7. Executor!Cardinality(Executor!Holders(None)') <= MaxConcurrency
    BY <1>7, <2>3 DEF Executor!IInv, Executor!LinesAreServed, Executor!LimitsAreKept
  <2>8. \A b \in Actions : x3'[b] # None => Executor!Cardinality(Executor!Holders(b)') <= x3'[b]
    <3>. SUFFICES ASSUME NEW b \in Actions, x3'[b] # None PROVE Executor!Cardinality(Executor!Holders(b)') <= x3'[b]
      OBVIOUS
    <3>1. CASE b = Executor!Action(c)
      BY <1>1, <2>4, <3>1
    <3>2. CASE b # Executor!Action(c)
      BY <1>1, <2>6, <3>2
    <3>. QED BY <3>1, <3>2
  <2>. QED BY <2>7, <2>8 DEF Executor!LimitsAreKept
<1>. QED BY <1>2, <1>3, <1>4, <1>5, <1>6, <1>8 DEF Executor!IInv, Executor!LinesAreServed

\* What every ending of a call at work does
LEMMA ExecutorSettlesKeeps ==
    ASSUME Executor!ActionExecutorAssumption, Executor!IInv, NEW c \in Executor!Calls, x6[c] \in {"approval", "global", "slot", "handler"},
           NEW outcome, outcome # None, outcome.kind = "result" => outcome.of = c, Executor!Settles(c, outcome), x14' = x14
    PROVE  /\ Executor!RequestsAreKept' /\ Executor!OutcomesAreOwn' /\ Executor!WaitersHaveWork' /\ Executor!SemaphoresAreMade' /\ Executor!LinesAreServed'
           /\ x6' \in [Executor!Calls -> Executor!Working \cup {"new", "awaits", "waiting", "ended"}]
           /\ \A d \in Executor!Calls : x6'[d] = IF d = c THEN "ended" ELSE x6[d]
           /\ x8' \in [Executor!Scopes -> Executor!Calls \cup {None}]
           /\ \A s \in Executor!Scopes : x8'[s] # None => x8'[s] = x8[s] /\ x8[s] # c
           /\ Executor!Begun(c) /\ x5[c].scope \in Executor!Scopes /\ x8'[x5[c].scope] # c
           /\ Executor!Shares(x5[c].scope) => x8[x5[c].scope] = c /\ x8'[x5[c].scope] = None
           /\ x2' = x2 /\ x3' = x3 /\ x5' = x5 /\ \A d \in Executor!Calls : Executor!Begun(d)' <=> Executor!Begun(d)
           /\ \A d \in Executor!Calls : x6'[d] \in Executor!Working /\ Executor!Shares(x5'[d].scope) => x8'[x5'[d].scope] = d
<1>. DEFINE s == x5[c].scope
<1>1. /\ x6' = [x6 EXCEPT ![c] = "ended"] /\ x7' = [x7 EXCEPT ![c] = outcome] /\ x4' = Executor!Left(c)
      /\ x9' = [x9 EXCEPT ![c] = IF Executor!Shares(s) /\ @ = None THEN outcome ELSE @]
      /\ x8' = [x8 EXCEPT ![s] = IF x8[s] = c THEN None ELSE @]
      /\ x3' = x3 /\ x5' = x5 /\ x2' = x2
  BY DEF Executor!Settles, Executor!Released, Executor!registry
<1>2. \A d \in Executor!Calls : x6'[d] = IF d = c THEN "ended" ELSE x6[d]
  BY <1>1 DEF Executor!IInv, Executor!TypeOK
<1>3. x6' \in [Executor!Calls -> Executor!Working \cup {"new", "awaits", "waiting", "ended"}]
  BY <1>1 DEF Executor!IInv, Executor!TypeOK
<1>4. Executor!Begun(c) /\ \A d \in Executor!Calls : Executor!Begun(d)' <=> Executor!Begun(d)
  BY <1>2 DEF Executor!Begun
<1>5. s \in Executor!Scopes /\ None \notin Executor!Calls /\ Executor!Action(c) \in Actions
  BY <1>4, ExecutorActionsOfCalls, ExecutorConstants
<1>. HIDE DEF s
<1>6. x8' \in [Executor!Scopes -> Executor!Calls \cup {None}] /\ \A r \in Executor!Scopes : x8'[r] = IF r = s /\ x8[r] = c THEN None ELSE x8[r]
  BY <1>1, <1>5 DEF Executor!IInv, Executor!KeysAreHeld
<1>7. \A r \in Executor!Scopes : x8[r] # None => x8[r] \in Executor!Calls /\ Executor!Begun(x8[r]) /\ x5[x8[r]].scope = r
  BY <1>6 DEF Executor!IInv, Executor!KeysAreHeld
<1>8. \A r \in Executor!Scopes : x8'[r] # None => x8'[r] = x8[r] /\ x8[r] # c
  BY <1>5, <1>6, <1>7 DEF s
<1>9. Executor!Shares(s) => x8[s] = c /\ x8'[s] = None
  <2>1. x6[c] \in Executor!Working
    BY DEF Executor!Working
  <2>2. Executor!Shares(s) => x8[s] = c
    BY <2>1 DEF Executor!IInv, Executor!KeysAreHeld, s
  <2>. QED BY <1>5, <1>6, <2>2
<1>10. x8'[s] # c
  BY <1>5, <1>6
<1>11. /\ DOMAIN x7' = Executor!Calls /\ \A d \in Executor!Calls : x7'[d] = IF d = c THEN outcome ELSE x7[d]
       /\ DOMAIN x9' = Executor!Calls
       /\ \A d \in Executor!Calls : x9'[d] = IF d = c /\ Executor!Shares(s) /\ x9[d] = None THEN outcome ELSE x9[d]
  BY <1>1 DEF Executor!IInv, Executor!OutcomesAreOwn
<1>13. Executor!RequestsAreKept'
  BY <1>1, <1>4 DEF Executor!IInv, Executor!RequestsAreKept, Executor!Action
<1>14. Executor!OutcomesAreOwn'
  <2>. SUFFICES ASSUME NEW d \in Executor!Calls
                PROVE  /\ ~Executor!Begun(d) => x7'[d] = None /\ x9'[d] = None
                       /\ x9'[d] # None /\ x9'[d].kind = "result" => x9'[d].of = d
                       /\ x7'[d] # None /\ x7'[d].kind = "result" =>
                              x7'[d].of = d \/ (x7'[d].of \in Executor!Calls /\ Executor!Begun(x7'[d].of) /\ Executor!Alike(d, x7'[d].of))
                       /\ x6'[d] \in {"awaits", "waiting"} => x5[d].joins \in Executor!Calls /\ Executor!Begun(x5[d].joins) /\ Executor!Alike(d, x5[d].joins)
    BY <1>1, <1>4, <1>11 DEF Executor!OutcomesAreOwn, Executor!Alike, Executor!Begun
  <2>1. ~Executor!Begun(d) => x7'[d] = None /\ x9'[d] = None
    BY <1>4, <1>11 DEF Executor!IInv, Executor!OutcomesAreOwn
  <2>2. x9'[d] # None /\ x9'[d].kind = "result" => x9'[d].of = d
    BY <1>11 DEF Executor!IInv, Executor!OutcomesAreOwn
  <2>3. x7'[d] # None /\ x7'[d].kind = "result" =>
            x7'[d].of = d \/ (x7'[d].of \in Executor!Calls /\ Executor!Begun(x7'[d].of) /\ Executor!Alike(d, x7'[d].of))
    <3>1. CASE d = c
      BY <1>11, <3>1
    <3>2. CASE d # c
      BY <1>11, <3>2 DEF Executor!IInv, Executor!OutcomesAreOwn
    <3>. QED BY <3>1, <3>2
  <2>4. x6'[d] \in {"awaits", "waiting"} => x5[d].joins \in Executor!Calls /\ Executor!Begun(x5[d].joins) /\ Executor!Alike(d, x5[d].joins)
    <3>1. x6'[d] \in {"awaits", "waiting"} => x6[d] \in {"awaits", "waiting"}
      BY <1>2
    <3>. QED BY <3>1 DEF Executor!IInv, Executor!OutcomesAreOwn
  <2>. QED BY <2>1, <2>2, <2>3, <2>4
<1>15. Executor!WaitersHaveWork'
  <2>1. ASSUME NEW r \in Executor!Scopes, x8'[r] # None PROVE x6'[x8'[r]] \in Executor!Working \/ x8'[r] \in x14'
    <3>1. x8'[r] = x8[r] /\ x8[r] # c /\ x8[r] \in Executor!Calls
      BY <1>7, <1>8, <2>1
    <3>2. x6[x8[r]] \in Executor!Working \/ x8[r] \in x14
      BY <2>1, <3>1 DEF Executor!IInv, Executor!WaitersHaveWork
    <3>. QED BY <1>2, <3>1, <3>2
  <2>2. ASSUME NEW d \in Executor!Calls, x6'[d] \in {"awaits", "waiting"}, x9'[x5'[d].joins] = None
        PROVE  x6'[x5'[d].joins] \in Executor!Working \/ x5'[d].joins \in x14'
    <3>. DEFINE j == x5[d].joins
    <3>1. x6[d] \in {"awaits", "waiting"}
      BY <1>2, <2>2
    <3>2. j \in Executor!Calls /\ Executor!Alike(d, j) /\ x5'[d].joins = j
      BY <1>1, <3>1 DEF Executor!IInv, Executor!OutcomesAreOwn
    <3>3. x9'[j] = None
      BY <2>2, <3>2
    <3>4. j # c
      <4>1. j = c => Executor!Shares(s)
        BY <3>2 DEF Executor!Alike, s
      <4>. HIDE DEF j
      <4>. QED BY <1>11, <3>2, <3>3, <4>1
    <3>5. x6[j] \in Executor!Working \/ j \in x14
      <4>1. x9[j] = None
        BY <1>11, <3>2, <3>3, <3>4
      <4>. QED BY <3>1, <4>1 DEF Executor!IInv, Executor!WaitersHaveWork
    <3>. HIDE DEF j
    <3>. QED BY <1>2, <3>2, <3>4, <3>5
  <2>. QED BY <2>1, <2>2 DEF Executor!WaitersHaveWork
<1>16. x4' \in [Actions \cup {None} -> Seq(Executor!Calls)] /\ Executor!WaitersStandInLine'
  BY <1>1, <1>2, <1>4, ExecutorWaitersLeave
<1>17. Executor!SemaphoresAreMade'
  BY <1>1, <1>2, <1>16 DEF Executor!IInv, Executor!SemaphoresAreMade, Executor!Action
<1>18. Executor!LimitsAreKept'
  <2>1. \A a \in Actions \cup {None} : Executor!Holders(a)' \subseteq Executor!Holders(a)
    BY <1>1, <1>2 DEF Executor!Holders, Executor!Action
  <2>. QED BY <1>1, <2>1, ExecutorLimitsStay
<1>19. \A d \in Executor!Calls : x6'[d] \in Executor!Working /\ Executor!Shares(x5'[d].scope) => x8'[x5'[d].scope] = d
  <2>. SUFFICES ASSUME NEW d \in Executor!Calls, x6'[d] \in Executor!Working, Executor!Shares(x5[d].scope) PROVE x8'[x5[d].scope] = d
    BY <1>1
  <2>1. d # c /\ x6[d] \in Executor!Working
    BY <1>2 DEF Executor!Working
  <2>2. x8[x5[d].scope] = d
    BY <2>1 DEF Executor!IInv, Executor!KeysAreHeld
  <2>3. x5[d].scope \in Executor!Scopes
    BY <2>1, ExecutorActionsOfCalls DEF Executor!Begun, Executor!Working
  <2>. QED BY <1>6, <2>1, <2>2, <2>3
<1>. QED BY <1>1, <1>2, <1>3, <1>4, <1>5, <1>6, <1>8, <1>9, <1>10, <1>13, <1>14, <1>15, <1>16, <1>17, <1>18, <1>19 DEF Executor!LinesAreServed, s

\* The endings that store nothing
LEMMA ExecutorEndingKeeps ==
    ASSUME Executor!ActionExecutorAssumption, Executor!IInv, NEW c \in Executor!Calls, x6[c] \in {"approval", "global", "slot", "handler"},
           NEW outcome, outcome # None, outcome.kind = "result" => outcome.of = c, Executor!Settles(c, outcome),
           UNCHANGED <<x10, x11, x12, x14>>
    PROVE  Executor!IInv'
<1>1. x10' = x10 /\ x11' = x11 /\ x12' = x12 /\ x14' = x14
  OBVIOUS
<1>3. /\ Executor!RequestsAreKept' /\ Executor!OutcomesAreOwn' /\ Executor!WaitersHaveWork' /\ Executor!SemaphoresAreMade' /\ Executor!LinesAreServed'
      /\ x6' \in [Executor!Calls -> Executor!Working \cup {"new", "awaits", "waiting", "ended"}]
      /\ x8' \in [Executor!Scopes -> Executor!Calls \cup {None}]
      /\ \A s \in Executor!Scopes : x8'[s] # None => x8'[s] = x8[s] /\ x8[s] # c
      /\ x2' = x2 /\ x3' = x3 /\ x5' = x5 /\ \A d \in Executor!Calls : Executor!Begun(d)' <=> Executor!Begun(d)
      /\ \A d \in Executor!Calls : x6'[d] \in Executor!Working /\ Executor!Shares(x5'[d].scope) => x8'[x5'[d].scope] = d
  BY <1>1, ExecutorSettlesKeeps
<1>4. Executor!TypeOK'
  BY <1>1, <1>3 DEF Executor!IInv, Executor!TypeOK
<1>5. Executor!CacheMatches'
  <2>1. \A e \in Executor!Range(x10) : e.of \in Executor!Calls
    <3>1. \A i \in DOMAIN x10 : x10[i] \in Executor!Stored
      BY DEF Executor!IInv, Executor!CacheMatches
    <3>. QED BY <3>1, ExecutorInRange DEF Executor!Stored
  <2>. QED BY <1>1, <1>3, <2>1 DEF Executor!IInv, Executor!CacheMatches
<1>6. Executor!KeysAreHeld'
  <2>1. \A s \in Executor!Scopes : x8[s] # None => x8[s] \in Executor!Calls
    BY DEF Executor!IInv, Executor!KeysAreHeld
  <2>. QED BY <1>1, <1>3, <2>1 DEF Executor!IInv, Executor!KeysAreHeld
<1>7. Executor!SuccessIsKept'
  BY <1>1 DEF Executor!IInv, Executor!SuccessIsKept
<1>. QED BY <1>3, <1>4, <1>5, <1>6, <1>7 DEF Executor!IInv

\* What success leaves in the cache
LEMMA ExecutorStoresEntry ==
    ASSUME Executor!ActionExecutorAssumption, Executor!IInv, NEW c \in Executor!Calls, x6[c] = "handler", Executor!Shares(x5[c].scope), Executor!Stores(c)
    PROVE  /\ x10' \in Seq(Executor!Stored) /\ Len(x10') <= Capacity
           /\ \E entry \in Executor!Range(x10') :
                 /\ entry.scope = x5[c].scope /\ entry.payload = x5[c].payload /\ entry.of = c
                 /\ Executor!Range(x10') \subseteq Executor!Range(x10) \cup {entry}
           /\ \A e \in Executor!Range(x10) : e.scope # x5[c].scope
<1>. DEFINE s == x5[c].scope
            entry == [scope |-> x5[c].scope, payload |-> x5[c].payload, of |-> c]
            all == Append(x10, entry)
<1>1. x5[c] \in Executor!Requests /\ x8[s] = c /\ s \in Executor!Scopes /\ c # None
  <2>1. Executor!Begun(c) /\ x6[c] \in Executor!Working
    BY DEF Executor!Begun, Executor!Working
  <2>. QED BY <2>1, ExecutorActionsOfCalls, ExecutorConstants DEF Executor!IInv, Executor!RequestsAreKept, Executor!KeysAreHeld
<1>2. entry \in Executor!Stored
  BY <1>1 DEF Executor!Requests, Executor!Stored
<1>3. \A e \in Executor!Range(x10) : e.scope # s
  BY <1>1 DEF Executor!IInv, Executor!KeysAreHeld
<1>4. Executor!Cached(s) = {}
  BY <1>3, ExecutorInRange DEF Executor!Cached
<1>5. x10' = IF Len(all) > Capacity THEN Tail(all) ELSE all
  BY <1>4 DEF Executor!Stores
<1>6. x10 \in Seq(Executor!Stored) /\ Len(x10) <= Capacity /\ Len(x10) \in Nat /\ Capacity \in Nat \ {0}
  BY DEF Executor!IInv, Executor!CacheMatches, Executor!TypeOK, Executor!ActionExecutorAssumption
<1>7. entry.scope = s /\ entry.payload = x5[c].payload /\ entry.of = c
  OBVIOUS
<1>. HIDE DEF s, entry
<1>8. /\ all \in Seq(Executor!Stored) /\ Len(all) = Len(x10) + 1 /\ Executor!Range(all) = Executor!Range(x10) \cup {entry}
      /\ x10 # <<>> =>
            /\ Tail(all) \in Seq(Executor!Stored) /\ Len(Tail(all)) = Len(x10)
            /\ Executor!Range(Tail(all)) \subseteq Executor!Range(x10) \cup {entry} /\ entry \in Executor!Range(Tail(all))
  BY <1>2, <1>6, ExecutorEntriesOfCache
<1>. HIDE DEF all
<1>9. x10' \in Seq(Executor!Stored) /\ Len(x10') <= Capacity /\ entry \in Executor!Range(x10') /\ Executor!Range(x10') \subseteq Executor!Range(x10) \cup {entry}
  <2>1. CASE Len(all) > Capacity
    <3>1. x10 # <<>>
      <4>1. Len(x10) # 0
        BY <1>6, <1>8, <2>1
      <4>. QED BY <4>1
    <3>. QED BY <1>5, <1>6, <1>8, <2>1, <3>1
  <2>2. CASE ~(Len(all) > Capacity)
    BY <1>5, <1>6, <1>8, <2>2
  <2>. QED BY <2>1, <2>2
<1>. QED BY <1>3, <1>7, <1>9 DEF s

LEMMA ExecutorSucceedKeeps ==
    ASSUME Executor!ActionExecutorAssumption, Executor!IInv, NEW c \in Executor!Calls, Executor!Succeed(c)
    PROVE  Executor!IInv'
<1>. DEFINE s == x5[c].scope
<1>1. x6[c] = "handler" /\ Executor!Settles(c, Executor!Result(c)) /\ x13' = x13 /\ x14' = x14
  BY DEF Executor!Succeed, Executor!seen
<1>2. Executor!Result(c) # None /\ (Executor!Result(c).kind = "result" => Executor!Result(c).of = c)
  BY ExecutorConstants
<1>3. CASE ~Executor!Shares(s)
  <2>1. x10' = x10 /\ x11' = x11 /\ x12' = x12
    BY <1>3 DEF Executor!Succeed
  <2>. QED BY <1>1, <1>2, <2>1, ExecutorEndingKeeps
<1>4. CASE Executor!Shares(s)
  <2>1. /\ Executor!Stores(c) /\ x11' = [x11 EXCEPT ![s] = @ \cup {c}]
        /\ x12' = x12 \cup {x10[i].scope : i \in {j \in DOMAIN x10 : \A e \in Executor!Range(x10') : e.scope # x10[j].scope}}
    BY <1>4 DEF Executor!Succeed
  <2>2. /\ x10' \in Seq(Executor!Stored) /\ Len(x10') <= Capacity
        /\ \E entry \in Executor!Range(x10') :
              /\ entry.scope = s /\ entry.payload = x5[c].payload /\ entry.of = c
              /\ Executor!Range(x10') \subseteq Executor!Range(x10) \cup {entry}
        /\ \A e \in Executor!Range(x10) : e.scope # s
    BY <1>1, <1>4, <2>1, ExecutorStoresEntry
  <2>3. PICK entry \in Executor!Range(x10') :
              /\ entry.scope = s /\ entry.payload = x5[c].payload /\ entry.of = c
              /\ Executor!Range(x10') \subseteq Executor!Range(x10) \cup {entry}
    BY <2>2
  <2>4. /\ Executor!RequestsAreKept' /\ Executor!OutcomesAreOwn' /\ Executor!WaitersHaveWork' /\ Executor!SemaphoresAreMade' /\ Executor!LinesAreServed'
        /\ x6' \in [Executor!Calls -> Executor!Working \cup {"new", "awaits", "waiting", "ended"}]
        /\ x8' \in [Executor!Scopes -> Executor!Calls \cup {None}]
        /\ \A r \in Executor!Scopes : x8'[r] # None => x8'[r] = x8[r] /\ x8[r] # c
        /\ Executor!Begun(c) /\ s \in Executor!Scopes /\ x8'[s] = None
        /\ x2' = x2 /\ x3' = x3 /\ x5' = x5 /\ \A d \in Executor!Calls : Executor!Begun(d)' <=> Executor!Begun(d)
        /\ \A d \in Executor!Calls : x6'[d] \in Executor!Working /\ Executor!Shares(x5'[d].scope) => x8'[x5'[d].scope] = d
    BY <1>1, <1>2, <1>4, ExecutorSettlesKeeps
  <2>5. \A e \in Executor!Range(x10) : e.of \in Executor!Calls
    <3>1. \A i \in DOMAIN x10 : x10[i] \in Executor!Stored
      BY DEF Executor!IInv, Executor!CacheMatches
    <3>. QED BY <3>1, ExecutorInRange DEF Executor!Stored
  <2>. HIDE DEF s
  <2>6. Executor!TypeOK'
    BY <2>2, <2>4 DEF Executor!IInv, Executor!TypeOK
  <2>7. Executor!CacheMatches'
    <3>. SUFFICES ASSUME NEW e \in Executor!Range(x10')
                  PROVE  Executor!Begun(e.of)' /\ Executor!Shares(e.scope) /\ x5[e.of].scope = e.scope /\ x5[e.of].payload = e.payload
      BY <2>2, <2>4 DEF Executor!CacheMatches
    <3>1. CASE e = entry
      BY <1>4, <2>3, <2>4, <3>1 DEF s
    <3>2. CASE e \in Executor!Range(x10)
      BY <2>4, <2>5, <3>2 DEF Executor!IInv, Executor!CacheMatches
    <3>. QED BY <2>3, <3>1, <3>2
  <2>8. Executor!KeysAreHeld'
    <3>1. ASSUME NEW r \in Executor!Scopes, x8'[r] # None
          PROVE  /\ x6'[x8'[r]] # "new" /\ Executor!Shares(r) /\ x5'[x8'[r]].scope = r
                 /\ \A e \in Executor!Range(x10') : e.scope # r
      <4>1. x8'[r] = x8[r] /\ r # s
        BY <2>4, <3>1
      <4>2. /\ x8[r] \in Executor!Calls /\ Executor!Begun(x8[r]) /\ Executor!Shares(r) /\ x5[x8[r]].scope = r
            /\ \A e \in Executor!Range(x10) : e.scope # r
        BY <3>1, <4>1 DEF Executor!IInv, Executor!KeysAreHeld
      <4>3. x6'[x8'[r]] # "new"
        BY <2>4, <4>1, <4>2 DEF Executor!Begun
      <4>. QED BY <2>3, <2>4, <4>1, <4>2, <4>3 DEF Executor!Begun
    <3>. QED BY <2>4, <3>1 DEF Executor!KeysAreHeld, Executor!Begun
  <2>9. Executor!SuccessIsKept'
    <3>1. x11 \in [Executor!Scopes -> SUBSET Executor!Calls]
      BY DEF Executor!IInv, Executor!SuccessIsKept
    <3>2. x11' \in [Executor!Scopes -> SUBSET Executor!Calls] /\ \A r \in Executor!Scopes : x11'[r] = IF r = s THEN x11[r] \cup {c} ELSE x11[r]
      BY <2>1, <2>4, <3>1
    <3>. SUFFICES ASSUME NEW r \in Executor!Scopes, r \notin x12'
                  PROVE  /\ x11'[r] # {} => \E e \in Executor!Range(x10') : e.scope = r
                         /\ \A d, e \in x11'[r] : d = e
      BY <3>2 DEF Executor!SuccessIsKept
    <3>3. /\ r \notin x12
          /\ \A j \in DOMAIN x10 : x10[j].scope = r => \E e \in Executor!Range(x10') : e.scope = r
      BY <2>1
    <3>4. /\ x11[r] # {} => \E e \in Executor!Range(x10) : e.scope = r
          /\ \A d, e \in x11[r] : d = e
      BY <3>3 DEF Executor!IInv, Executor!SuccessIsKept
    <3>5. CASE r = s
      <4>1. x11[r] = {}
        BY <2>2, <3>4, <3>5
      <4>. QED BY <2>3, <3>2, <3>5, <4>1
    <3>6. CASE r # s
      <4>1. x11'[r] = x11[r]
        BY <3>2, <3>6
      <4>2. (\E e \in Executor!Range(x10) : e.scope = r) => \E e \in Executor!Range(x10') : e.scope = r
        BY <3>3, ExecutorInRange
      <4>. QED BY <3>4, <4>1, <4>2
    <3>. QED BY <3>5, <3>6
  <2>. QED BY <2>4, <2>6, <2>7, <2>8, <2>9 DEF Executor!IInv
<1>. QED BY <1>3, <1>4

\* What the endings of a call without work of its own leave as it is: it ends with an outcome that it may have.
LEMMA ExecutorEndsKeeps ==
    ASSUME Executor!ActionExecutorAssumption, Executor!IInv, NEW c \in Executor!Calls, x6[c] \in {"started", "awaits", "waiting"},
           NEW outcome, Executor!Ends(c, outcome),
           outcome # None /\ outcome.kind = "result" => outcome.of \in Executor!Calls /\ Executor!Begun(outcome.of) /\ Executor!Alike(c, outcome.of),
           UNCHANGED <<x3, x4, x5>>, UNCHANGED <<x8, x10, x11, x12>>, x2' = x2,
           x14 \subseteq x14', x6[c] = "started" => c \in x14',
           DOMAIN x9' = Executor!Calls,
           \A d \in Executor!Calls :
               /\ x9[d] # None => x9'[d] = x9[d]
               /\ x9'[d] # None => Executor!Begun(d)
               /\ x9'[d] # None /\ x9'[d].kind = "result" => x9'[d].of = d
    PROVE  Executor!IInv'
<1>1. /\ x3' = x3 /\ x4' = x4 /\ x5' = x5 /\ x8' = x8 /\ x10' = x10
      /\ x11' = x11 /\ x12' = x12 /\ x2' = x2
      /\ x6' = [x6 EXCEPT ![c] = "ended"] /\ x7' = [x7 EXCEPT ![c] = outcome]
  BY DEF Executor!Ends
<1>2. /\ \A d \in Executor!Calls : x6'[d] = IF d = c THEN "ended" ELSE x6[d]
      /\ x6' \in [Executor!Calls -> Executor!Working \cup {"new", "awaits", "waiting", "ended"}]
  BY <1>1 DEF Executor!IInv, Executor!TypeOK
<1>3. DOMAIN x7' = Executor!Calls /\ \A d \in Executor!Calls : x7'[d] = IF d = c THEN outcome ELSE x7[d]
  BY <1>1 DEF Executor!IInv, Executor!OutcomesAreOwn
<1>4. Executor!Begun(c) /\ \A d \in Executor!Calls : Executor!Begun(d)' <=> Executor!Begun(d)
  BY <1>2 DEF Executor!Begun
<1>5. Executor!TypeOK'
  BY <1>1, <1>2 DEF Executor!IInv, Executor!TypeOK
<1>6. Executor!RequestsAreKept'
  BY <1>1, <1>4 DEF Executor!IInv, Executor!RequestsAreKept, Executor!Action
<1>7. Executor!OutcomesAreOwn'
  <2>. SUFFICES ASSUME NEW d \in Executor!Calls
                PROVE  /\ ~Executor!Begun(d) => x7'[d] = None /\ x9'[d] = None
                       /\ x9'[d] # None /\ x9'[d].kind = "result" => x9'[d].of = d
                       /\ x7'[d] # None /\ x7'[d].kind = "result" =>
                              x7'[d].of = d \/ (x7'[d].of \in Executor!Calls /\ Executor!Begun(x7'[d].of) /\ Executor!Alike(d, x7'[d].of))
                       /\ x6'[d] \in {"awaits", "waiting"} => x5[d].joins \in Executor!Calls /\ Executor!Begun(x5[d].joins) /\ Executor!Alike(d, x5[d].joins)
    BY <1>1, <1>3, <1>4 DEF Executor!OutcomesAreOwn, Executor!Alike, Executor!Begun
  <2>1. ~Executor!Begun(d) => x7'[d] = None /\ x9'[d] = None
    BY <1>3, <1>4 DEF Executor!IInv, Executor!OutcomesAreOwn
  <2>2. x7'[d] # None /\ x7'[d].kind = "result" =>
            x7'[d].of = d \/ (x7'[d].of \in Executor!Calls /\ Executor!Begun(x7'[d].of) /\ Executor!Alike(d, x7'[d].of))
    <3>1. CASE d = c
      BY <1>3, <3>1
    <3>2. CASE d # c
      BY <1>3, <3>2 DEF Executor!IInv, Executor!OutcomesAreOwn
    <3>. QED BY <3>1, <3>2
  <2>3. x6'[d] \in {"awaits", "waiting"} => x5[d].joins \in Executor!Calls /\ Executor!Begun(x5[d].joins) /\ Executor!Alike(d, x5[d].joins)
    <3>1. x6'[d] \in {"awaits", "waiting"} => x6[d] \in {"awaits", "waiting"}
      BY <1>2
    <3>. QED BY <3>1 DEF Executor!IInv, Executor!OutcomesAreOwn
  <2>. QED BY <2>1, <2>2, <2>3
<1>8. Executor!CacheMatches'
  <2>1. \A e \in Executor!Range(x10) : e.of \in Executor!Calls
    <3>1. \A i \in DOMAIN x10 : x10[i] \in Executor!Stored
      BY DEF Executor!IInv, Executor!CacheMatches
    <3>. QED BY <3>1, ExecutorInRange DEF Executor!Stored
  <2>. QED BY <1>1, <1>4, <2>1 DEF Executor!IInv, Executor!CacheMatches
<1>9. \A s \in Executor!Scopes : x8[s] # None => x8[s] \in Executor!Calls
  BY DEF Executor!IInv, Executor!KeysAreHeld
<1>10. Executor!KeysAreHeld'
  <2>1. \A d \in Executor!Calls : x6'[d] \in Executor!Working => x6[d] \in Executor!Working
    BY <1>2 DEF Executor!Working
  <2>. QED BY <1>1, <1>4, <1>9, <2>1 DEF Executor!IInv, Executor!KeysAreHeld
<1>11. Executor!SuccessIsKept'
  BY <1>1 DEF Executor!IInv, Executor!SuccessIsKept
<1>12. Executor!WaitersHaveWork'
  <2>1. \A d \in Executor!Calls : x6[d] \in Executor!Working \/ d \in x14 => x6'[d] \in Executor!Working \/ d \in x14'
    BY <1>2 DEF Executor!Working
  <2>2. \A d \in Executor!Calls : x6'[d] \in {"awaits", "waiting"} => x6[d] \in {"awaits", "waiting"} /\ x5[d].joins \in Executor!Calls
    BY <1>2 DEF Executor!IInv, Executor!OutcomesAreOwn
  <2>3. \A d \in Executor!Calls : x9'[d] = None => x9[d] = None
    OBVIOUS
  <2>. QED BY <1>1, <1>9, <2>1, <2>2, <2>3 DEF Executor!IInv, Executor!WaitersHaveWork
<1>13. Executor!SemaphoresAreMade'
  BY <1>1, <1>2 DEF Executor!IInv, Executor!SemaphoresAreMade, Executor!Action
<1>14. Executor!LimitsAreKept'
  <2>1. \A a \in Actions \cup {None} : Executor!Holders(a)' \subseteq Executor!Holders(a)
    BY <1>1, <1>2 DEF Executor!Holders, Executor!Action
  <2>. QED BY <1>1, <2>1, ExecutorLimitsStay
<1>15. Executor!WaitersStandInLine'
  BY <1>1, <1>2, ExecutorLinesStay DEF Executor!Action
<1>. QED BY <1>5, <1>6, <1>7, <1>8, <1>10, <1>11, <1>12, <1>13, <1>14, <1>15 DEF Executor!IInv, Executor!LinesAreServed

LEMMA ExecutorCancelUnbornKeeps ==
    ASSUME Executor!ActionExecutorAssumption, Executor!IInv, NEW c \in Executor!Calls, Executor!CancelUnborn(c)
    PROVE  Executor!IInv'
<1>1. /\ x6[c] \in {"started", "awaits"} /\ Executor!Ends(c, Executor!Error("CancelledError")) /\ x14' = x14 \cup {c}
      /\ UNCHANGED <<x3, x4, x5>> /\ x2' = x2
      /\ UNCHANGED <<x8, x10, x11, x12>> /\ x9' = x9
  BY DEF Executor!CancelUnborn, Executor!registry, Executor!sharing
<1>2. Executor!Error("CancelledError").kind = "error"
  BY ExecutorConstants DEF Executor!Codes
<1>3. DOMAIN x9' = Executor!Calls /\ \A d \in Executor!Calls :
            /\ x9'[d] # None => Executor!Begun(d)
            /\ x9'[d] # None /\ x9'[d].kind = "result" => x9'[d].of = d
  BY <1>1 DEF Executor!IInv, Executor!OutcomesAreOwn
<1>. QED BY <1>1, <1>2, <1>3, ExecutorEndsKeeps

LEMMA ExecutorCancelWaitKeeps ==
    ASSUME Executor!ActionExecutorAssumption, Executor!IInv, NEW c \in Executor!Calls, Executor!CancelWait(c)
    PROVE  Executor!IInv'
<1>. DEFINE j == x5[c].joins
<1>1. /\ x6[c] = "waiting" /\ Executor!Ends(c, Executor!Error("cancelled")) /\ x14' = x14
      /\ UNCHANGED <<x3, x4, x5>> /\ x2' = x2
      /\ UNCHANGED <<x8, x10, x11, x12>>
      /\ x9' = [x9 EXCEPT ![j] = IF @ = None THEN Executor!Error("cancelled") ELSE @]
  BY DEF Executor!CancelWait, Executor!registry
<1>2. Executor!Error("cancelled").kind = "error" /\ Executor!Error("cancelled") # None
  BY ExecutorConstants DEF Executor!Codes
<1>3. j \in Executor!Calls /\ Executor!Begun(j)
  BY <1>1 DEF Executor!IInv, Executor!OutcomesAreOwn
<1>. HIDE DEF j
<1>4. /\ DOMAIN x9' = Executor!Calls
      /\ \A d \in Executor!Calls : x9'[d] = IF d = j /\ x9[d] = None THEN Executor!Error("cancelled") ELSE x9[d]
  BY <1>1, <1>3 DEF Executor!IInv, Executor!OutcomesAreOwn
<1>5. \A d \in Executor!Calls :
          /\ x9[d] # None => x9'[d] = x9[d]
          /\ x9'[d] # None => Executor!Begun(d)
          /\ x9'[d] # None /\ x9'[d].kind = "result" => x9'[d].of = d
  BY <1>2, <1>3, <1>4 DEF Executor!IInv, Executor!OutcomesAreOwn
<1>. QED BY <1>1, <1>2, <1>4, <1>5, ExecutorEndsKeeps

LEMMA ExecutorWakeKeeps ==
    ASSUME Executor!ActionExecutorAssumption, Executor!IInv, NEW c \in Executor!Calls, Executor!Wake(c)
    PROVE  Executor!IInv'
<1>. DEFINE j == x5[c].joins
<1>1. /\ x6[c] = "waiting" /\ Executor!Ends(c, x9[j]) /\ x14' = x14
      /\ UNCHANGED <<x3, x4, x5>> /\ x2' = x2
      /\ UNCHANGED <<x8, x10, x11, x12>> /\ x9' = x9
  BY DEF Executor!Wake, Executor!registry, Executor!sharing, Executor!seen
<1>2. j \in Executor!Calls /\ Executor!Begun(j) /\ Executor!Alike(c, j)
  BY <1>1 DEF Executor!IInv, Executor!OutcomesAreOwn
<1>3. x9[j] # None /\ x9[j].kind = "result" => x9[j].of = j
  BY <1>2 DEF Executor!IInv, Executor!OutcomesAreOwn
<1>4. DOMAIN x9' = Executor!Calls /\ \A d \in Executor!Calls :
            /\ x9'[d] # None => Executor!Begun(d)
            /\ x9'[d] # None /\ x9'[d].kind = "result" => x9'[d].of = d
  BY <1>1 DEF Executor!IInv, Executor!OutcomesAreOwn
<1>. HIDE DEF j
<1>5. x9[j] # None /\ x9[j].kind = "result" => x9[j].of \in Executor!Calls /\ Executor!Begun(x9[j].of) /\ Executor!Alike(c, x9[j].of)
  BY <1>2, <1>3
<1>. QED BY <1>1, <1>4, <1>5, ExecutorEndsKeeps

\* A call arrives: it is answered, waits for a call of its key, or starts.
LEMMA ExecutorArrivesKeeps ==
    ASSUME Executor!ActionExecutorAssumption, Executor!IInv, NEW c \in Executor!Calls, x6[c] = "new", NEW scope \in Executor!Scopes, NEW payload \in Executor!PayloadsOf(scope),
           NEW to \in {"ended", "awaits", "started"},
           x5' = [x5 EXCEPT ![c] = [scope |-> scope, payload |-> payload, width |-> Definitions[x2][scope[1]],
                                        joins |-> IF Executor!Cached(scope) = {} THEN x8[scope] ELSE None]],
           x6' = [x6 EXCEPT ![c] = to], DOMAIN x7' = Executor!Calls, \A d \in Executor!Calls \ {c} : x7'[d] = x7[d],
           x7'[c] # None /\ x7'[c].kind = "result" =>
               /\ x7'[c].of \in Executor!Calls /\ Executor!Begun(x7'[c].of) /\ Executor!Shares(scope)
               /\ x5[x7'[c].of].scope = scope /\ x5[x7'[c].of].payload = payload,
           to = "awaits" => Executor!Cached(scope) = {} /\ x8[scope] # None /\ x5[x8[scope]].payload = payload,
           to = "started" => Executor!Cached(scope) = {} /\ x8[scope] = None,
           x8' = IF to = "started" THEN [x8 EXCEPT ![scope] = IF Executor!Shares(scope) THEN c ELSE None] ELSE x8,
           x10' \in Seq(Executor!Stored), Len(x10') <= Capacity, Executor!Range(x10') = Executor!Range(x10),
           UNCHANGED <<x3, x4, x9, x11, x12>>, x2' = x2, x14' = x14
    PROVE  Executor!IInv'
<1>. DEFINE request == [scope |-> scope, payload |-> payload, width |-> Definitions[x2][scope[1]],
                        joins |-> IF Executor!Cached(scope) = {} THEN x8[scope] ELSE None]
            R == Executor!Range(x10)
<1>1. x3' = x3 /\ x4' = x4 /\ x9' = x9 /\ x11' = x11 /\ x12' = x12
  OBVIOUS
<1>2. /\ \A d \in Executor!Calls : x6'[d] = IF d = c THEN to ELSE x6[d]
      /\ x6' \in [Executor!Calls -> Executor!Working \cup {"new", "awaits", "waiting", "ended"}]
  BY DEF Executor!IInv, Executor!TypeOK, Executor!Working
<1>3. ~Executor!Begun(c) /\ Executor!Begun(c)' /\ \A d \in Executor!Calls \ {c} : Executor!Begun(d)' <=> Executor!Begun(d)
  BY <1>2 DEF Executor!Begun
<1>4. /\ scope[1] \in Actions /\ None \notin Executor!Calls /\ c # None
      /\ x8[scope] \in Executor!Calls \cup {None}
  BY ExecutorConstants DEF Executor!IInv, Executor!KeysAreHeld
<1>5. request \in Executor!Requests /\ request.width \in Executor!Widths(scope[1])
  <2>1. x2 \in DOMAIN Definitions
    BY DEF Executor!IInv, Executor!TypeOK
  <2>2. Definitions[x2][scope[1]] \in Nat
    BY <1>4, <2>1, ExecutorConstants
  <2>3. Definitions[x2] \in Executor!Range(Definitions)
    BY <2>1, ExecutorInRange
  <2>4. payload \in Payloads \cup {None}
    BY DEF Executor!PayloadsOf
  <2>5. request \in Executor!Requests
    BY <1>4, <2>2, <2>4 DEF Executor!Requests
  <2>6. Definitions[x2][scope[1]] \in Executor!Widths(scope[1])
    BY <2>3 DEF Executor!Widths
  <2>. QED BY <2>5, <2>6
<1>6. /\ request.scope = scope /\ request.payload = payload
      /\ Executor!Cached(scope) = {} => request.joins = x8[scope]
  OBVIOUS
<1>7. DOMAIN x5' = Executor!Calls /\ \A d \in Executor!Calls : x5'[d] = IF d = c THEN request ELSE x5[d]
  BY DEF Executor!IInv, Executor!RequestsAreKept
<1>8. DOMAIN x7' = Executor!Calls /\ \A d \in Executor!Calls \ {c} : x7'[d] = x7[d]
  OBVIOUS
<1>9. Executor!Cached(scope) = {} /\ Executor!Shares(scope) => \A e \in R : e.scope # scope
  BY ExecutorInRange DEF Executor!Cached
<1>10. /\ x8' \in [Executor!Scopes -> Executor!Calls \cup {None}]
       /\ \A s \in Executor!Scopes : x8'[s] = IF to = "started" /\ s = scope THEN IF Executor!Shares(scope) THEN c ELSE None ELSE x8[s]
  BY DEF Executor!IInv, Executor!KeysAreHeld
<1>11. \A s \in Executor!Scopes : x8[s] # None =>
          /\ x8[s] \in Executor!Calls /\ x8[s] # c /\ Executor!Begun(x8[s]) /\ Executor!Shares(s) /\ x5[x8[s]].scope = s
          /\ \A e \in R : e.scope # s
  BY <1>3 DEF Executor!IInv, Executor!KeysAreHeld
<1>. HIDE DEF request, R
<1>12. Executor!TypeOK'
  BY <1>1, <1>2, <1>10 DEF Executor!IInv, Executor!TypeOK
<1>13. Executor!RequestsAreKept'
  <2>1. ASSUME NEW d \in Executor!Calls, Executor!Begun(d)' PROVE x5'[d] \in Executor!Requests /\ x5'[d].width \in Executor!Widths(x5'[d].scope[1])
    <3>1. CASE d = c
      BY <1>5, <1>6, <1>7, <3>1
    <3>2. CASE d # c
      BY <1>3, <1>7, <2>1, <3>2 DEF Executor!IInv, Executor!RequestsAreKept, Executor!Action
    <3>. QED BY <3>1, <3>2
  <2>2. x3' \in [Actions -> Nat \cup {None}]
    BY <1>1 DEF Executor!IInv, Executor!RequestsAreKept
  <2>. QED BY <1>7, <2>1, <2>2 DEF Executor!RequestsAreKept, Executor!Action
<1>14. \A e \in Executor!Calls : Executor!Begun(e) => x5'[e] = x5[e] /\ x6'[e] = x6[e] /\ e # c
  BY <1>2, <1>3, <1>7
<1>15. Executor!OutcomesAreOwn'
  <2>. DEFINE Good(d, e) == e \in Executor!Calls /\ Executor!Begun(e) /\ Executor!Shares(x5'[d].scope) /\ x5[e].scope = x5'[d].scope /\ x5[e].payload = x5'[d].payload
  <2>1. ASSUME NEW d \in Executor!Calls
        PROVE  /\ ~Executor!Begun(d)' => x7'[d] = None /\ x9'[d] = None
               /\ x9'[d] # None /\ x9'[d].kind = "result" => x9'[d].of = d
               /\ x7'[d] # None /\ x7'[d].kind = "result" => x7'[d].of = d \/ Good(d, x7'[d].of)
               /\ x6'[d] \in {"awaits", "waiting"} => Good(d, x5'[d].joins)
    <3>1. CASE d = c
      <4>1. x9'[d] = None
        BY <1>1, <1>3, <3>1 DEF Executor!IInv, Executor!OutcomesAreOwn
      <4>2. x7'[d] # None /\ x7'[d].kind = "result" => Good(d, x7'[d].of)
        BY <1>6, <1>7, <1>8, <3>1
      <4>3. x6'[d] \in {"awaits", "waiting"} => Good(d, x5'[d].joins)
        BY <1>2, <1>6, <1>7, <1>11, <3>1
      <4>. QED BY <1>3, <3>1, <4>1, <4>2, <4>3
    <3>2. CASE d # c
      BY <1>1, <1>2, <1>3, <1>7, <1>8, <3>2 DEF Executor!IInv, Executor!OutcomesAreOwn, Executor!Alike
    <3>. QED BY <3>1, <3>2
  <2>2. \A d, e : Good(d, e) => e \in Executor!Calls /\ x6'[e] # "new" /\ Executor!Shares(x5'[d].scope)
                                /\ x5'[e].scope = x5'[d].scope /\ x5'[e].payload = x5'[d].payload
    BY <1>14 DEF Executor!Begun
  <2>3. DOMAIN x9' = Executor!Calls
    BY <1>1 DEF Executor!IInv, Executor!OutcomesAreOwn
  <2>. HIDE DEF Good
  <2>. QED BY <1>8, <2>1, <2>2, <2>3 DEF Executor!OutcomesAreOwn, Executor!Alike, Executor!Begun
<1>16. Executor!CacheMatches'
  <2>1. \A e \in R : e.of \in Executor!Calls
    <3>1. \A i \in DOMAIN x10 : x10[i] \in Executor!Stored
      BY DEF Executor!IInv, Executor!CacheMatches
    <3>. QED BY <3>1, ExecutorInRange DEF Executor!Stored, R
  <2>2. \A e \in R : Executor!Begun(e.of) /\ Executor!Shares(e.scope) /\ x5[e.of].scope = e.scope /\ x5[e.of].payload = e.payload
    BY DEF Executor!IInv, Executor!CacheMatches, R
  <2>3. \A e \in R : x6'[e.of] # "new" /\ Executor!Shares(e.scope) /\ x5'[e.of].scope = e.scope /\ x5'[e.of].payload = e.payload
    BY <1>14, <2>1, <2>2 DEF Executor!Begun
  <2>. QED BY <2>3 DEF Executor!CacheMatches, Executor!Begun, R
<1>17. Executor!KeysAreHeld'
  <2>1. ASSUME NEW s \in Executor!Scopes, x8'[s] # None
        PROVE  /\ x6'[x8'[s]] # "new" /\ Executor!Shares(s) /\ x5'[x8'[s]].scope = s
               /\ \A e \in R : e.scope # s
    <3>1. CASE to = "started" /\ s = scope
      <4>1. Executor!Shares(scope) /\ x8'[s] = c
        BY <1>10, <2>1, <3>1
      <4>. QED BY <1>2, <1>6, <1>7, <1>9, <3>1, <4>1
    <3>2. CASE ~(to = "started" /\ s = scope)
      <4>1. x8'[s] = x8[s]
        BY <1>10, <3>2
      <4>. QED BY <1>11, <1>14, <2>1, <4>1 DEF Executor!Begun
    <3>. QED BY <3>1, <3>2
  <2>2. ASSUME NEW d \in Executor!Calls, x6'[d] \in Executor!Working, Executor!Shares(x5'[d].scope) PROVE x8'[x5'[d].scope] = d
    <3>1. CASE d = c
      <4>1. to = "started" /\ x5'[d].scope = scope
        BY <1>2, <1>6, <1>7, <2>2, <3>1 DEF Executor!Working
      <4>. QED BY <1>10, <2>2, <3>1, <4>1
    <3>2. CASE d # c
      <4>1. x6[d] \in Executor!Working /\ x5'[d] = x5[d]
        BY <1>2, <1>7, <2>2, <3>2
      <4>2. x8[x5[d].scope] = d /\ x5[d].scope \in Executor!Scopes
        BY <2>2, <4>1, ExecutorActionsOfCalls DEF Executor!IInv, Executor!KeysAreHeld, Executor!Begun, Executor!Working
      <4>3. d # None
        BY <1>4
      <4>. QED BY <1>10, <4>1, <4>2, <4>3
    <3>. QED BY <3>1, <3>2
  <2>. QED BY <1>10, <2>1, <2>2 DEF Executor!KeysAreHeld, Executor!Begun, R
<1>18. Executor!SuccessIsKept'
  BY <1>1 DEF Executor!IInv, Executor!SuccessIsKept
<1>19. Executor!WaitersHaveWork'
  <2>1. \A s \in Executor!Scopes : x8[s] # None => x6'[x8[s]] \in Executor!Working \/ x8[s] \in x14
    BY <1>11, <1>14 DEF Executor!IInv, Executor!WaitersHaveWork
  <2>2. ASSUME NEW s \in Executor!Scopes, x8'[s] # None PROVE x6'[x8'[s]] \in Executor!Working \/ x8'[s] \in x14
    <3>1. CASE to = "started" /\ s = scope
      BY <1>2, <1>10, <2>2, <3>1 DEF Executor!Working
    <3>2. CASE ~(to = "started" /\ s = scope)
      BY <1>10, <2>1, <2>2, <3>2
    <3>. QED BY <3>1, <3>2
  <2>3. ASSUME NEW d \in Executor!Calls, x6'[d] \in {"awaits", "waiting"}, x9[x5'[d].joins] = None
        PROVE  x6'[x5'[d].joins] \in Executor!Working \/ x5'[d].joins \in x14
    <3>1. CASE d = c
      <4>1. x5'[d].joins = x8[scope] /\ x8[scope] # None
        BY <1>2, <1>6, <1>7, <2>3, <3>1
      <4>. QED BY <2>1, <4>1
    <3>2. CASE d # c
      <4>1. x6[d] \in {"awaits", "waiting"} /\ x5'[d] = x5[d]
        BY <1>2, <1>7, <2>3, <3>2
      <4>2. x5[d].joins \in Executor!Calls /\ Executor!Begun(x5[d].joins)
        BY <4>1 DEF Executor!IInv, Executor!OutcomesAreOwn
      <4>3. x6[x5[d].joins] \in Executor!Working \/ x5[d].joins \in x14
        BY <2>3, <4>1 DEF Executor!IInv, Executor!WaitersHaveWork
      <4>. QED BY <1>14, <4>1, <4>2, <4>3
    <3>. QED BY <3>1, <3>2
  <2>. QED BY <1>1, <2>2, <2>3 DEF Executor!WaitersHaveWork
<1>20. Executor!SemaphoresAreMade'
  <2>1. \A d \in Executor!Calls : x6'[d] \in {"global", "slot", "handler"} => x6[d] \in {"global", "slot", "handler"} /\ x5'[d] = x5[d]
    BY <1>2, <1>7
  <2>. QED BY <1>1, <2>1 DEF Executor!IInv, Executor!SemaphoresAreMade, Executor!Action
<1>21. Executor!LimitsAreKept'
  <2>1. \A a \in Actions \cup {None} : Executor!Holders(a)' \subseteq Executor!Holders(a)
    BY <1>2, <1>7 DEF Executor!Holders, Executor!Action
  <2>. QED BY <1>1, <2>1, ExecutorLimitsStay
<1>22. Executor!WaitersStandInLine'
  <2>1. \A d \in Executor!Calls :
            /\ x6'[d] = "global" <=> x6[d] = "global"
            /\ x6'[d] = "slot" <=> x6[d] = "slot"
            /\ x6[d] = "slot" => Executor!Action(d)' = Executor!Action(d)
    BY <1>2, <1>7 DEF Executor!Action
  <2>. QED BY <1>1, <2>1, ExecutorLinesStay
<1>. QED BY <1>12, <1>13, <1>15, <1>16, <1>17, <1>18, <1>19, <1>20, <1>21, <1>22 DEF Executor!IInv, Executor!LinesAreServed

LEMMA ExecutorExecuteKeeps ==
    ASSUME Executor!ActionExecutorAssumption, Executor!IInv, NEW c \in Executor!Calls, Executor!Execute(c)
    PROVE  Executor!IInv'
<1>1. /\ x6[c] = "new" /\ UNCHANGED <<x3, x4, x9, x11, x12>>
      /\ x2' = x2 /\ x14' = x14
  BY DEF Executor!Execute, Executor!registry, Executor!seen
<1>2. PICK scope \in Executor!Scopes : \E payload \in Executor!PayloadsOf(scope) :
          /\ x5' = [x5 EXCEPT ![c] = [scope |-> scope, payload |-> payload, width |-> Definitions[x2][scope[1]],
                                          joins |-> IF Executor!Cached(scope) = {} THEN x8[scope] ELSE None]]
          /\ Executor!Answers(c, scope, payload) \/ Executor!Joins(c, scope, payload) \/ Executor!Starts(c, scope)
  BY DEF Executor!Execute
<1>3. PICK payload \in Executor!PayloadsOf(scope) :
          /\ x5' = [x5 EXCEPT ![c] = [scope |-> scope, payload |-> payload, width |-> Definitions[x2][scope[1]],
                                          joins |-> IF Executor!Cached(scope) = {} THEN x8[scope] ELSE None]]
          /\ Executor!Answers(c, scope, payload) \/ Executor!Joins(c, scope, payload) \/ Executor!Starts(c, scope)
  BY <1>2
<1>4. x10 \in Seq(Executor!Stored) /\ Len(x10) <= Capacity /\ DOMAIN x7 = Executor!Calls /\ x7[c] = None
  BY <1>1 DEF Executor!IInv, Executor!CacheMatches, Executor!TypeOK, Executor!OutcomesAreOwn, Executor!Begun
<1>5. /\ x7' = x7 => DOMAIN x7' = Executor!Calls /\ \A d \in Executor!Calls : x7'[d] = IF d = c THEN None ELSE x7[d]
      /\ \A outcome : x7' = [x7 EXCEPT ![c] = outcome] =>
             DOMAIN x7' = Executor!Calls /\ \A d \in Executor!Calls : x7'[d] = IF d = c THEN outcome ELSE x7[d]
  BY <1>4
<1>6. \A code \in Executor!Codes : Executor!Error(code).kind = "error"
  BY ExecutorConstants
<1>7. CASE Executor!Answers(c, scope, payload)
  <2>1. PICK i \in Executor!Cached(scope) :
            /\ IF Executor!SameRequest(scope, payload, x10[i].payload)
               THEN /\ Executor!Ends(c, Executor!Result(x10[i].of))
                    /\ x10' = Append(Executor!RemoveAt(x10, i), x10[i])
               ELSE Executor!Ends(c, Executor!Error("conflict")) /\ UNCHANGED x10
            /\ x8' = x8
    BY <1>7 DEF Executor!Answers
  <2>. DEFINE e == x10[i]
  <2>2. /\ i \in 1..Len(x10) /\ e.scope = scope /\ Executor!Shares(scope) /\ e \in Executor!Range(x10) /\ e \in Executor!Stored
    BY <1>4, ExecutorInRange DEF Executor!Cached
  <2>3. e.of \in Executor!Calls /\ Executor!Begun(e.of) /\ x5[e.of].scope = scope /\ x5[e.of].payload = e.payload
    BY <2>2 DEF Executor!IInv, Executor!CacheMatches, Executor!Stored
  <2>4. CASE Executor!SameRequest(scope, payload, e.payload)
    <3>1. /\ x6' = [x6 EXCEPT ![c] = "ended"] /\ DOMAIN x7' = Executor!Calls
          /\ \A d \in Executor!Calls : x7'[d] = IF d = c THEN Executor!Result(e.of) ELSE x7[d]
          /\ x10' = Append(Executor!RemoveAt(x10, i), e) /\ x8' = x8
      BY <1>5, <2>1, <2>4 DEF Executor!Ends
    <3>2. Executor!Result(e.of).of = e.of /\ x5[e.of].payload = payload
      BY <2>3, <2>4, ExecutorConstants DEF Executor!SameRequest
    <3>3. x10' \in Seq(Executor!Stored) /\ Len(x10') <= Capacity /\ Executor!Range(x10') = Executor!Range(x10)
      <4>. DEFINE w == Executor!RemoveAt(x10, i)
      <4>. HIDE DEF e
      <4>1. w \in Seq(Executor!Stored) /\ Len(w) = Len(x10) - 1 /\ Executor!Range(w) \subseteq Executor!Range(x10) /\ Executor!Range(x10) \subseteq Executor!Range(w) \cup {e}
        BY <1>4, <2>2, ExecutorEntriesOfCache DEF e
      <4>2. x10' = Append(w, e)
        BY <3>1
      <4>. HIDE DEF w
      <4>3. Append(w, e) \in Seq(Executor!Stored) /\ Len(Append(w, e)) = Len(w) + 1 /\ Executor!Range(Append(w, e)) = Executor!Range(w) \cup {e}
        BY <2>2, <4>1, ExecutorEntriesOfCache
      <4>4. Len(x10) \in Nat
        BY <1>4
      <4>. QED BY <1>4, <2>2, <4>1, <4>2, <4>3, <4>4
    <3>4. /\ x7'[c].of \in Executor!Calls /\ Executor!Begun(x7'[c].of) /\ Executor!Shares(scope)
          /\ x5[x7'[c].of].scope = scope /\ x5[x7'[c].of].payload = payload
      BY <2>2, <2>3, <3>1, <3>2
    <3>5. x6' = [x6 EXCEPT ![c] = "ended"] /\ DOMAIN x7' = Executor!Calls /\ x8' = x8 /\ \A d \in Executor!Calls \ {c} : x7'[d] = x7[d]
      BY <3>1
    <3>. QED BY <1>1, <1>3, <3>3, <3>4, <3>5, ExecutorArrivesKeeps
  <2>5. CASE ~Executor!SameRequest(scope, payload, e.payload)
    <3>1. /\ x6' = [x6 EXCEPT ![c] = "ended"] /\ DOMAIN x7' = Executor!Calls
          /\ \A d \in Executor!Calls : x7'[d] = IF d = c THEN Executor!Error("conflict") ELSE x7[d]
          /\ x10' = x10 /\ x8' = x8
      BY <1>5, <2>1, <2>5 DEF Executor!Ends
    <3>2. Executor!Error("conflict").kind = "error"
      BY <1>6 DEF Executor!Codes
    <3>. QED BY <1>1, <1>3, <1>4, <3>1, <3>2, ExecutorArrivesKeeps
  <2>. QED BY <2>4, <2>5
<1>8. CASE Executor!Joins(c, scope, payload)
  <2>1. Executor!Cached(scope) = {} /\ Executor!Shares(scope) /\ x8[scope] # None /\ x8' = x8 /\ x10' = x10
    BY <1>8 DEF Executor!Joins
  <2>2. CASE Executor!SameRequest(scope, payload, x5[x8[scope]].payload)
    <3>1. x6' = [x6 EXCEPT ![c] = "awaits"] /\ x7' = x7 /\ x5[x8[scope]].payload = payload
      BY <1>8, <2>2 DEF Executor!Joins, Executor!SameRequest
    <3>2. DOMAIN x7' = Executor!Calls /\ \A d \in Executor!Calls : x7'[d] = IF d = c THEN None ELSE x7[d]
      BY <1>5, <3>1
    <3>. QED BY <1>1, <1>3, <1>4, <2>1, <3>1, <3>2, ExecutorArrivesKeeps
  <2>3. CASE ~Executor!SameRequest(scope, payload, x5[x8[scope]].payload)
    <3>1. /\ x6' = [x6 EXCEPT ![c] = "ended"] /\ DOMAIN x7' = Executor!Calls
          /\ \A d \in Executor!Calls : x7'[d] = IF d = c THEN Executor!Error("conflict") ELSE x7[d]
      BY <1>5, <1>8, <2>3 DEF Executor!Joins, Executor!Ends
    <3>2. Executor!Error("conflict").kind = "error"
      BY <1>6 DEF Executor!Codes
    <3>. QED BY <1>1, <1>3, <1>4, <2>1, <3>1, <3>2, ExecutorArrivesKeeps
  <2>. QED BY <2>2, <2>3
<1>9. CASE Executor!Starts(c, scope)
  <2>1. /\ Executor!Cached(scope) = {} /\ x8[scope] = None /\ x6' = [x6 EXCEPT ![c] = "started"]
        /\ x8' = [x8 EXCEPT ![scope] = IF Executor!Shares(scope) THEN c ELSE None] /\ x7' = x7 /\ x10' = x10
    BY <1>9 DEF Executor!Starts
  <2>2. DOMAIN x7' = Executor!Calls /\ \A d \in Executor!Calls : x7'[d] = IF d = c THEN None ELSE x7[d]
    BY <1>5, <2>1
  <2>. QED BY <1>1, <1>3, <1>4, <2>1, <2>2, ExecutorArrivesKeeps
<1>. QED BY <1>3, <1>7, <1>8, <1>9

LEMMA ExecutorStepKeeps ==
    ASSUME Executor!ActionExecutorAssumption, Executor!IInv, [Executor!Next]_(Executor!vars)
    PROVE  Executor!IInv'
<1>1. CASE UNCHANGED Executor!vars
  BY <1>1, ExecutorNothingHappens
<1>2. CASE Executor!Register \/ Executor!Dispose
  BY <1>2, ExecutorRegistryKeeps
<1>3. ASSUME NEW c \in Executor!Calls, Executor!Execute(c) PROVE Executor!IInv'
  BY <1>3, ExecutorExecuteKeeps
<1>4. ASSUME NEW c \in Executor!Calls, Executor!Begin(c) PROVE Executor!IInv'
  <2>1. x6[c] = "started" /\ Executor!Waits
    BY <1>4 DEF Executor!Begin
  <2>2. CASE Executor!Action(c) \in NeedApproval
    BY <1>4, <2>1, <2>2, ExecutorAsksKeeps DEF Executor!Begin
  <2>3. CASE Executor!Action(c) \notin NeedApproval
    BY <1>4, <2>1, <2>3, ExecutorAcquiresKeeps DEF Executor!Begin
  <2>. QED BY <2>2, <2>3
<1>5. ASSUME NEW c \in Executor!Calls, Executor!Approve(c) PROVE Executor!IInv'
  BY <1>5, ExecutorAcquiresKeeps DEF Executor!Approve
<1>6. ASSUME NEW c \in Executor!Calls, Executor!EnterGlobal(c) PROVE Executor!IInv'
  BY <1>6, ExecutorAcquiresKeeps DEF Executor!EnterGlobal
<1>7. ASSUME NEW c \in Executor!Calls, Executor!EnterSlot(c) PROVE Executor!IInv'
  BY <1>7, ExecutorEnterSlotKeeps
<1>8. ASSUME NEW c \in Executor!Calls, Executor!Succeed(c) PROVE Executor!IInv'
  BY <1>8, ExecutorSucceedKeeps
<1>9. \A code \in Executor!Codes : Executor!Error(code) # None /\ Executor!Error(code).kind # "result"
  BY ExecutorConstants
<1>10. ASSUME NEW c \in Executor!Calls, Executor!Deny(c) \/ Executor!Fail(c) \/ Executor!CancelRun(c) PROVE Executor!IInv'
  <2>1. PICK code \in Executor!Codes : Executor!Settles(c, Executor!Error(code))
    BY <1>10 DEF Executor!Deny, Executor!Fail, Executor!CancelRun, Executor!Codes
  <2>2. x6[c] \in {"approval", "global", "slot", "handler"} /\ UNCHANGED <<x10, x11, x12, x14>>
    BY <1>10 DEF Executor!Deny, Executor!Fail, Executor!CancelRun
  <2>. QED BY <1>9, <2>1, <2>2, ExecutorEndingKeeps
<1>11. ASSUME NEW c \in Executor!Calls, Executor!CancelUnborn(c) PROVE Executor!IInv'
  BY <1>11, ExecutorCancelUnbornKeeps
<1>12. ASSUME NEW c \in Executor!Calls, Executor!Await(c) PROVE Executor!IInv'
  BY <1>12, ExecutorAwaitKeeps
<1>13. ASSUME NEW c \in Executor!Calls, Executor!CancelWait(c) PROVE Executor!IInv'
  BY <1>13, ExecutorCancelWaitKeeps
<1>14. ASSUME NEW c \in Executor!Calls, Executor!Wake(c) PROVE Executor!IInv'
  BY <1>14, ExecutorWakeKeeps
<1>. QED BY <1>1, <1>2, <1>3, <1>4, <1>5, <1>6, <1>7, <1>8, <1>10, <1>11, <1>12, <1>13, <1>14 DEF Executor!Next

\* Calls, retries with one key, replaced definitions, evictions, cancellations and disposals in any order: an
\* outcome is that of its own request, a key has one call at work while it is remembered, and a call
\* that waits has somebody who wakes it.
THEOREM ExecutorAlwaysGood ==
    ASSUME Executor!ActionExecutorAssumption
    PROVE  Executor!Spec => []Executor!IInv
<1>1. Executor!Init => Executor!IInv
  BY ExecutorInitIsGood
<1>2. Executor!IInv /\ [Executor!Next]_(Executor!vars) => Executor!IInv'
  BY ExecutorStepKeeps
<1>. QED BY <1>1, <1>2, PTL DEF Executor!Spec

\* What the runs check of the actions follows from the invariant.
LEMMA ExecutorGoodIsOwn ==
    ASSUME Executor!ActionExecutorAssumption, Executor!IInv
    PROVE  Executor!ResultIsOwn /\ Executor!KeyWorksOnce /\ Executor!WaitersAreServed /\ Executor!LinesAreServed
<1>1. Executor!ResultIsOwn
  BY DEF Executor!IInv, Executor!OutcomesAreOwn, Executor!ResultIsOwn, Executor!Alike
<1>2. Executor!KeyWorksOnce
  <2>. SUFFICES ASSUME NEW s \in Executor!Scopes, s \notin x12 PROVE ~(Executor!Cardinality(x11[s]) > 1)
    BY DEF Executor!KeyWorksOnce
  <2>1. \A d, e \in x11[s] : d = e
    BY DEF Executor!IInv, Executor!SuccessIsKept
  <2>. QED BY <2>1, ExecutorOnlyOneCall
<1>3. Executor!WaitersAreServed
  BY DEF Executor!IInv, Executor!WaitersHaveWork, Executor!WaitersAreServed
<1>. QED BY <1>1, <1>2, <1>3 DEF Executor!IInv

-----------------------------------------------------------------------------
(* Uploaded media *)

\* Uploads, and an imported session: in the runs two of one content, one of them with a thumbnail.
Media == INSTANCE MediaStore WITH
    legacy <- x1, item <- x2, blob <- x3, refs <- x4, upload <- x5, aged <- x6, together <- x7,
    reader <- x8, leaked <- x9

LEMMA MediaFewerItems ==
    ASSUME Media!MediaAssumption, NEW B \in SUBSET Media!Media, NEW A \in SUBSET B
    PROVE  Media!Cardinality(A) \in Nat /\ Media!Cardinality(B) \in Nat /\ Media!Cardinality(A) <= Media!Cardinality(B)
<1>1. IsFiniteSet(Uploads)
  BY DEF Media!MediaAssumption, Media!IsFiniteSet, IsFiniteSet
<1>2. IsFiniteSet(Media!Media)
  BY <1>1, FS_AddElement DEF Media!Media
<1>3. IsFiniteSet(B)
  BY <1>2, FS_Subset
<1>4. IsFiniteSet(A) /\ Cardinality(A) <= Cardinality(B)
  BY <1>3, FS_Subset
<1>5. Cardinality(A) \in Nat /\ Cardinality(B) \in Nat
  BY <1>3, <1>4, FS_CardinalityType
<1>6. Media!Cardinality(A) = Cardinality(A) /\ Media!Cardinality(B) = Cardinality(B)
  BY DEF Media!Cardinality, Cardinality
<1>. QED BY <1>4, <1>5, <1>6

LEMMA MediaOneMoreItem ==
    ASSUME Media!MediaAssumption, NEW B \in SUBSET Media!Media, NEW m \in Media!Media
    PROVE  Media!Cardinality(B \cup {m}) <= Media!Cardinality(B) + 1
<1>1. IsFiniteSet(Uploads)
  BY DEF Media!MediaAssumption, Media!IsFiniteSet, IsFiniteSet
<1>2. IsFiniteSet(Media!Media)
  BY <1>1, FS_AddElement DEF Media!Media
<1>3. IsFiniteSet(B)
  BY <1>2, FS_Subset
<1>4. Cardinality(B \cup {m}) = IF m \in B THEN Cardinality(B) ELSE Cardinality(B) + 1
  BY <1>3, FS_AddElement
<1>5. Cardinality(B) \in Nat
  BY <1>3, FS_CardinalityType
<1>6. Media!Cardinality(B \cup {m}) = Cardinality(B \cup {m}) /\ Media!Cardinality(B) = Cardinality(B)
  BY DEF Media!Cardinality, Cardinality
<1>. QED BY <1>4, <1>5, <1>6

LEMMA MediaNoItems == Media!Cardinality({}) = 0
BY FS_EmptySet DEF Media!Cardinality, Cardinality

\* At first there is nothing.
LEMMA MediaInitIsGood ==
    ASSUME Media!MediaAssumption, Media!Init
    PROVE  Media!IInv
<1>. USE DEF Media!Init, Media!MediaAssumption
<1>1. \A s : Media!Live(s) = {}
  BY DEF Media!Live, Media!NoItem
<1>2. Media!Cardinality({}) = 0
  BY MediaNoItems
<1>3. Media!TypeOK
  BY DEF Media!TypeOK, Media!NoItem, Media!NoReader, Media!Media
<1>4. Media!QuotaKept
  <2>1. ASSUME NEW s PROVE Media!Cardinality(Media!Live(s)) <= MaxItems
    <3>1. Media!Live(s) = {}
      BY <1>1
    <3>. HIDE DEF Media!Init
    <3>. QED BY <3>1, <1>2
  <2>. QED BY <2>1 DEF Media!QuotaKept
<1>5. Media!BlobsExist /\ Media!StaysPrivate /\ Media!SeenInSession /\ Media!ItemsComeLast /\ Media!LegacyComesFirst
  BY DEF Media!BlobsExist, Media!StaysPrivate, Media!SeenInSession, Media!ItemsComeLast, Media!LegacyComesFirst,
         Media!NoItem, Media!Media
<1>6. Media!ReaderMaySee /\ Media!RoomIsLeft
  BY DEF Media!ReaderMaySee, Media!RoomIsLeft, Media!NoReader, Media!Busy
<1>. QED BY <1>3, <1>4, <1>5, <1>6 DEF Media!IInv

\* The step of a request, and its session.
LEMMA MediaUploadGoes ==
    ASSUME Media!TypeOK, NEW u \in Uploads, NEW to \in {"item", "reference", "done", "error"}, Media!Goes(u, to)
    PROVE  /\ x5' \in [Uploads -> [at : {"new", "blob", "thumbnail", "item", "reference", "done", "error"},
                                   session : {Home, Legacy, None}]]
           /\ \A v \in Uploads : x5'[v].session = x5[v].session /\ x5'[v].at = IF v = u THEN to ELSE x5[v].at
BY DEF Media!TypeOK, Media!Goes

\* Where the rows only become fewer, and no request begins, the quota stays kept.
LEMMA MediaFewerIsKept ==
    ASSUME Media!MediaAssumption, Media!QuotaKept, Media!RoomIsLeft, x7' = x7,
           \A s : Media!Live(s)' \subseteq Media!Live(s),
           \A u \in Uploads : x5'[u] = x5[u] \/ (x5'[u].at \in {"reference", "done", "error"} /\ (Media!Busy(u)' => Media!Busy(u)))
    PROVE  Media!QuotaKept' /\ Media!RoomIsLeft'
<1>1. \A s : Media!Live(s) \subseteq Media!Media
  BY DEF Media!Live
<1>2. MaxItems \in Nat
  BY DEF Media!MediaAssumption
<1>3. ASSUME NEW s PROVE /\ Media!Cardinality(Media!Live(s)') \in Nat /\ Media!Cardinality(Media!Live(s)) \in Nat
                         /\ Media!Cardinality(Media!Live(s)') <= Media!Cardinality(Media!Live(s))
  BY <1>1, MediaFewerItems
<1>4. Media!QuotaKept'
  BY <1>2, <1>3 DEF Media!QuotaKept
<1>5. ASSUME ~x7, NEW u \in Uploads, NEW v \in Uploads, Media!Busy(u)', Media!Busy(v)'
      PROVE  u = v
  BY <1>5 DEF Media!RoomIsLeft, Media!Busy
<1>6. ASSUME ~x7, NEW u \in Uploads, NEW s \in {Home, Legacy},
             x5'[u].at \in {"blob", "thumbnail", "item"}, x5'[u].session = s
      PROVE  Media!Within(s)'
  <2>1. x5'[u] = x5[u]
    BY <1>6
  <2>2. Media!Within(s)
    BY <1>6, <2>1 DEF Media!RoomIsLeft
  <2>. QED BY <1>2, <1>3, <2>2 DEF Media!Within
<1>. QED BY <1>4, <1>5, <1>6 DEF Media!RoomIsLeft

LEMMA MediaUploadKeeps ==
    ASSUME Media!MediaAssumption, Media!IInv, NEW u \in Uploads, NEW s \in {Home, Legacy, None}, Media!Upload(u, s)
    PROVE  Media!IInv'
<1>. USE DEF Media!MediaAssumption, Media!IInv
<1>. DEFINE to == IF Media!Within(s) THEN "blob" ELSE "error"
<1>1. /\ x5[u].at = "new" /\ s \in Media!Sessions \cup {None} /\ x7' = (x7 \/ \E v \in Uploads \ {u} : Media!Busy(v))
      /\ x1' = x1 /\ x2' = x2 /\ x3' = x3 /\ x4' = x4 /\ x6' = x6 /\ x8' = x8 /\ x9' = x9
      /\ x5' = [x5 EXCEPT ![u] = [at |-> to, session |-> s]]
  BY DEF Media!Upload, Media!reading
<1>2. \A v \in Uploads : x5'[v] = IF v = u THEN [at |-> to, session |-> s] ELSE x5[v]
  BY <1>1 DEF Media!TypeOK
<1>3. x2[u].state = "none"
  BY <1>1 DEF Media!ItemsComeLast
<1>4. Media!TypeOK'
  BY <1>1 DEF Media!TypeOK, Media!Media
<1>5. Media!BlobsExist' /\ Media!SeenInSession' /\ Media!ItemsComeLast'
  BY <1>1, <1>2, <1>3 DEF Media!BlobsExist, Media!Blobs, Media!Media, Media!SeenInSession, Media!ItemsComeLast
<1>6. Media!StaysPrivate'
  <2>. SUFFICES ASSUME NEW m \in Media!Media, x2[m].state # "none"
                PROVE  x2[m].session = Media!Owner(m)'
    BY <1>1 DEF Media!StaysPrivate
  <2>1. m # u
    BY <1>3
  <2>2. Media!Owner(m)' = Media!Owner(m)
    BY <1>2, <2>1 DEF Media!Owner, Media!Media
  <2>. QED BY <2>2 DEF Media!StaysPrivate
<1>7. Media!LegacyComesFirst'
  BY <1>1, <1>2 DEF Media!LegacyComesFirst, Media!Sessions
<1>8. Media!ReaderMaySee'
  BY <1>1, <1>2 DEF Media!ReaderMaySee, Media!Owner, Media!Media
<1>9. \A t : Media!Live(t)' = Media!Live(t)
  BY <1>1 DEF Media!Live
<1>10. Media!QuotaKept'
  BY <1>1, <1>9 DEF Media!QuotaKept
<1>11. Media!RoomIsLeft'
  <2>1. ~x7' => \A v \in Uploads \ {u} : ~Media!Busy(v)' /\ x5'[v].at \notin {"blob", "thumbnail", "item"}
    BY <1>1, <1>2 DEF Media!Busy
  <2>2. \A t : Media!Within(t)' = Media!Within(t)
    BY <1>9 DEF Media!Within
  <2>3. x5'[u].at = "blob" => Media!Within(s)
    BY <1>2
  <2>4. x5'[u].at \in {"blob", "error"} /\ x5'[u].session = s
    BY <1>2
  <2>. QED BY <2>1, <2>2, <2>3, <2>4 DEF Media!RoomIsLeft
<1>. QED BY <1>4, <1>5, <1>6, <1>7, <1>8, <1>10, <1>11

LEMMA MediaStoreBlobKeeps ==
    ASSUME Media!MediaAssumption, Media!IInv, NEW u \in Uploads, Media!StoreBlob(u)
    PROVE  Media!IInv'
<1>. USE DEF Media!MediaAssumption, Media!IInv
<1>. DEFINE to == IF Thumbnail(u) = None THEN "item" ELSE "thumbnail"
<1>1. /\ x5[u].at = "blob" /\ x5' = [x5 EXCEPT ![u].at = to] /\ x3' = x3 \cup {Content(u)}
      /\ x1' = x1 /\ x2' = x2 /\ x4' = x4 /\ x6' = x6 /\ x7' = x7
      /\ x8' = x8 /\ x9' = x9
  BY DEF Media!StoreBlob, Media!Goes, Media!reading
<1>2. to \in {"item", "thumbnail"} /\ Content(u) \in Contents /\ (to = "thumbnail" => Thumbnail(u) # None)
  BY DEF Media!Media
<1>3. /\ \A v \in Uploads : x5'[v].session = x5[v].session /\ x5'[v].at = IF v = u THEN to ELSE x5[v].at
      /\ x5' \in [Uploads -> [at : {"new", "blob", "thumbnail", "item", "reference", "done", "error"},
                                  session : {Home, Legacy, None}]]
  <2>. HIDE DEF to
  <2>. QED BY <1>1, <1>2 DEF Media!TypeOK
<1>. HIDE DEF to
<1>4. Media!TypeOK'
  BY <1>1, <1>2, <1>3 DEF Media!TypeOK, Media!Media
<1>5. Media!BlobsExist' /\ Media!SeenInSession' /\ Media!ItemsComeLast' /\ Media!LegacyComesFirst'
  BY <1>1, <1>2, <1>3 DEF Media!BlobsExist, Media!Blobs, Media!Media, Media!SeenInSession, Media!ItemsComeLast, Media!LegacyComesFirst
<1>6. \A m \in Media!Media : Media!Owner(m)' = Media!Owner(m)
  BY <1>3 DEF Media!Owner, Media!Media
<1>7. Media!StaysPrivate' /\ Media!ReaderMaySee'
  BY <1>1, <1>2, <1>3, <1>6 DEF Media!StaysPrivate, Media!ReaderMaySee
<1>8. \A s : Media!Live(s)' = Media!Live(s)
  BY <1>1 DEF Media!Live
<1>9. Media!QuotaKept' /\ Media!RoomIsLeft'
  BY <1>1, <1>2, <1>3, <1>8 DEF Media!QuotaKept, Media!RoomIsLeft, Media!Within, Media!Busy
<1>. QED BY <1>4, <1>5, <1>7, <1>9

LEMMA MediaStoreThumbnailKeeps ==
    ASSUME Media!MediaAssumption, Media!IInv, NEW u \in Uploads, Media!StoreThumbnail(u)
    PROVE  Media!IInv'
<1>. USE DEF Media!MediaAssumption, Media!IInv
<1>1. /\ x5[u].at = "thumbnail" /\ Media!Goes(u, "item") /\ x3' = x3 \cup {Thumbnail(u)}
      /\ x1' = x1 /\ x2' = x2 /\ x4' = x4 /\ x6' = x6 /\ x7' = x7
      /\ x8' = x8 /\ x9' = x9
  BY DEF Media!StoreThumbnail, Media!reading
<1>2. /\ \A v \in Uploads : x5'[v].session = x5[v].session /\ x5'[v].at = IF v = u THEN "item" ELSE x5[v].at
      /\ x5' \in [Uploads -> [at : {"new", "blob", "thumbnail", "item", "reference", "done", "error"},
                                  session : {Home, Legacy, None}]]
  BY <1>1, MediaUploadGoes
<1>3. Thumbnail(u) \in Contents
  BY <1>1 DEF Media!ItemsComeLast, Media!Media
<1>4. Media!TypeOK'
  BY <1>1, <1>2, <1>3 DEF Media!TypeOK, Media!Media
<1>5. Media!BlobsExist' /\ Media!SeenInSession' /\ Media!ItemsComeLast' /\ Media!LegacyComesFirst'
  BY <1>1, <1>2 DEF Media!BlobsExist, Media!Blobs, Media!Media, Media!SeenInSession, Media!ItemsComeLast, Media!LegacyComesFirst
<1>6. \A m \in Media!Media : Media!Owner(m)' = Media!Owner(m)
  BY <1>2 DEF Media!Owner, Media!Media
<1>7. Media!StaysPrivate' /\ Media!ReaderMaySee'
  BY <1>1, <1>2, <1>6 DEF Media!StaysPrivate, Media!ReaderMaySee
<1>8. \A s : Media!Live(s)' = Media!Live(s)
  BY <1>1 DEF Media!Live
<1>9. Media!QuotaKept' /\ Media!RoomIsLeft'
  BY <1>1, <1>2, <1>8 DEF Media!QuotaKept, Media!RoomIsLeft, Media!Within, Media!Busy
<1>. QED BY <1>4, <1>5, <1>7, <1>9

LEMMA MediaCreateItemKeeps ==
    ASSUME Media!MediaAssumption, Media!IInv, NEW u \in Uploads, Media!CreateItem(u)
    PROVE  Media!IInv'
<1>. USE DEF Media!MediaAssumption, Media!IInv
<1>. DEFINE s == x5[u].session
            ok == Media!Blobs(u) \subseteq x3 /\ s \in Media!Sessions \cup {None}
            to == IF ok THEN IF s = None THEN "done" ELSE "reference" ELSE "error"
<1>1. /\ x5[u].at = "item" /\ Media!Goes(u, to)
      /\ x2' = IF ok THEN [x2 EXCEPT ![u] = [state |-> "live", session |-> s]] ELSE x2
      /\ x1' = x1 /\ x3' = x3 /\ x4' = x4 /\ x6' = x6 /\ x7' = x7
      /\ x8' = x8 /\ x9' = x9
  BY DEF Media!CreateItem, Media!reading
<1>2. to \in {"reference", "done", "error"} /\ s \in {Home, Legacy, None} /\ u \in Media!Media
  BY DEF Media!TypeOK, Media!Media
<1>3. /\ \A v \in Uploads : x5'[v].session = x5[v].session /\ x5'[v].at = IF v = u THEN to ELSE x5[v].at
      /\ x5' \in [Uploads -> [at : {"new", "blob", "thumbnail", "item", "reference", "done", "error"},
                                  session : {Home, Legacy, None}]]
  <2>. HIDE DEF to
  <2>. QED BY <1>1, <1>2, MediaUploadGoes
<1>4. \A m \in Media!Media : x2'[m] = IF ok /\ m = u THEN [state |-> "live", session |-> s] ELSE x2[m]
  BY <1>1, <1>2 DEF Media!TypeOK
<1>5. Media!TypeOK'
  <2>1. x2' \in [Media!Media -> [state : {"none", "live", "deleted"}, session : {Home, Legacy, None}]]
    BY <1>1, <1>2 DEF Media!TypeOK
  <2>. HIDE DEF to, ok, s
  <2>. QED BY <1>1, <1>3, <2>1 DEF Media!TypeOK
<1>6. \A m \in Media!Media : Media!Owner(m)' = Media!Owner(m)
  BY <1>3 DEF Media!Owner, Media!Media
<1>7. Media!Owner(u) = s
  BY DEF Media!Owner
<1>. HIDE DEF s
<1>8. Media!BlobsExist' /\ Media!StaysPrivate'
  BY <1>1, <1>4, <1>6, <1>7 DEF Media!BlobsExist, Media!Blobs, Media!StaysPrivate
<1>. HIDE DEF to
<1>9. Media!SeenInSession' /\ Media!ItemsComeLast' /\ Media!ReaderMaySee'
  BY <1>1, <1>2, <1>3, <1>4, <1>6 DEF Media!SeenInSession, Media!ItemsComeLast, Media!ReaderMaySee, Media!Media
<1>10. Media!LegacyComesFirst'
  BY <1>1, <1>3, <1>4 DEF Media!LegacyComesFirst, Media!Media
<1>11. Media!QuotaKept' /\ Media!RoomIsLeft'
  <2>1. CASE ~ok
    <3>1. \A t : Media!Live(t)' = Media!Live(t)
      BY <2>1, <1>1 DEF Media!Live
    <3>2. \A v \in Uploads : x5'[v] = x5[v] \/ (x5'[v].at \in {"reference", "done", "error"} /\ (Media!Busy(v)' => Media!Busy(v)))
      BY <1>1, <1>2, <1>3 DEF Media!Busy, Media!TypeOK
    <3>. QED BY <1>1, <3>1, <3>2, MediaFewerIsKept
  <2>2. CASE ok
    <3>1. \A t \in {Home, Legacy} : IF t = s THEN Media!Live(t)' \subseteq Media!Live(t) \cup {u} ELSE Media!Live(t)' \subseteq Media!Live(t)
      BY <2>2, <1>4 DEF Media!Live
    <3>2. \A t : Media!Live(t) \in SUBSET Media!Media
      BY DEF Media!Live
    <3>3. ASSUME ~x7, NEW t \in {Home, Legacy} PROVE Media!Cardinality(Media!Live(t)') <= MaxItems
      <4>1. Media!Cardinality(Media!Live(t)) <= MaxItems
        BY <3>3 DEF Media!QuotaKept
      <4>2. CASE t = s
        <5>1. Media!Cardinality(Media!Live(t)) < MaxItems
          BY <1>1, <3>3, <4>2 DEF Media!RoomIsLeft, Media!Within, s
        <5>2. Media!Cardinality(Media!Live(t) \cup {u}) <= Media!Cardinality(Media!Live(t)) + 1
          BY <1>2, <3>2, MediaOneMoreItem
        <5>3. Media!Live(t)' \in SUBSET (Media!Live(t) \cup {u}) /\ Media!Live(t) \cup {u} \in SUBSET Media!Media /\ Media!Live(t) \in SUBSET Media!Media
          BY <1>2, <3>1, <3>2, <4>2
        <5>4. /\ Media!Cardinality(Media!Live(t)') <= Media!Cardinality(Media!Live(t) \cup {u})
              /\ Media!Cardinality(Media!Live(t)') \in Nat /\ Media!Cardinality(Media!Live(t) \cup {u}) \in Nat
          BY <5>3, MediaFewerItems
        <5>5. Media!Cardinality(Media!Live(t)) \in Nat
          BY <5>3, MediaFewerItems
        <5>. QED BY <5>1, <5>2, <5>4, <5>5
      <4>3. CASE t # s
        <5>1. Media!Live(t)' \in SUBSET Media!Live(t) /\ Media!Live(t) \in SUBSET Media!Media
          BY <3>1, <3>2, <4>3
        <5>2. /\ Media!Cardinality(Media!Live(t)') <= Media!Cardinality(Media!Live(t))
              /\ Media!Cardinality(Media!Live(t)') \in Nat /\ Media!Cardinality(Media!Live(t)) \in Nat
          BY <5>1, MediaFewerItems
        <5>. QED BY <4>1, <5>2
      <4>. QED BY <4>2, <4>3
    <3>4. Media!QuotaKept'
      BY <1>1, <3>3 DEF Media!QuotaKept
    <3>5. ~x7 => \A v, w \in Uploads : Media!Busy(v)' /\ Media!Busy(w)' => v = w
      BY <1>1, <1>2, <1>3 DEF Media!RoomIsLeft, Media!Busy
    <3>6. ~x7 => \A v \in Uploads : x5'[v].at \notin {"blob", "thumbnail", "item"}
      BY <1>1, <1>2, <1>3 DEF Media!RoomIsLeft, Media!Busy
    <3>. QED BY <1>1, <3>4, <3>5, <3>6 DEF Media!RoomIsLeft
  <2>. QED BY <2>1, <2>2
<1>. QED BY <1>5, <1>8, <1>9, <1>10, <1>11

LEMMA MediaAddReferenceKeeps ==
    ASSUME Media!MediaAssumption, Media!IInv, NEW u \in Uploads, Media!AddReference(u)
    PROVE  Media!IInv'
<1>. USE DEF Media!MediaAssumption, Media!IInv
<1>1. PICK to \in {"done", "error"} : Media!Goes(u, to)
  BY DEF Media!AddReference
<1>2. /\ x5[u].at = "reference" /\ x4' \subseteq x4 \cup {u}
      /\ x1' = x1 /\ x2' = x2 /\ x3' = x3 /\ x6' = x6 /\ x7' = x7
      /\ x8' = x8 /\ x9' = x9
  BY DEF Media!AddReference, Media!reading
<1>3. /\ \A v \in Uploads : x5'[v].session = x5[v].session /\ x5'[v].at = IF v = u THEN to ELSE x5[v].at
      /\ x5' \in [Uploads -> [at : {"new", "blob", "thumbnail", "item", "reference", "done", "error"},
                                  session : {Home, Legacy, None}]]
  BY <1>1, MediaUploadGoes
<1>4. Media!TypeOK'
  BY <1>2, <1>3 DEF Media!TypeOK, Media!Media
<1>5. Media!BlobsExist' /\ Media!SeenInSession' /\ Media!ItemsComeLast' /\ Media!LegacyComesFirst'
  BY <1>2, <1>3 DEF Media!BlobsExist, Media!Blobs, Media!Media, Media!SeenInSession, Media!ItemsComeLast, Media!LegacyComesFirst
<1>6. \A m \in Media!Media : Media!Owner(m)' = Media!Owner(m)
  BY <1>3 DEF Media!Owner, Media!Media
<1>7. Media!StaysPrivate' /\ Media!ReaderMaySee'
  BY <1>2, <1>3, <1>6 DEF Media!StaysPrivate, Media!ReaderMaySee
<1>8. \A s : Media!Live(s)' = Media!Live(s)
  BY <1>2 DEF Media!Live
<1>9. Media!QuotaKept' /\ Media!RoomIsLeft'
  BY <1>2, <1>3, <1>8 DEF Media!QuotaKept, Media!RoomIsLeft, Media!Within, Media!Busy
<1>. QED BY <1>4, <1>5, <1>7, <1>9

LEMMA MediaDeleteKeeps ==
    ASSUME Media!MediaAssumption, Media!IInv, NEW m \in Media!Media, Media!Delete(m)
    PROVE  Media!IInv'
<1>. USE DEF Media!MediaAssumption, Media!IInv
<1>1. /\ x2[m].state = "live" /\ x2' = [x2 EXCEPT ![m].state = "deleted"]
      /\ x1' = x1 /\ x3' = x3 /\ x4' = x4 /\ x6' = x6 /\ x7' = x7
      /\ x5' = x5 /\ x8' = x8 /\ x9' = x9
  BY DEF Media!Delete, Media!reading
<1>2. \A n \in Media!Media : x2'[n].session = x2[n].session /\ x2'[n].state = IF n = m THEN "deleted" ELSE x2[n].state
  BY <1>1 DEF Media!TypeOK
<1>3. Media!TypeOK'
  BY <1>1 DEF Media!TypeOK
<1>4. \A n \in Media!Media : Media!Owner(n)' = Media!Owner(n)
  BY <1>1 DEF Media!Owner
<1>5. Media!BlobsExist' /\ Media!StaysPrivate' /\ Media!SeenInSession' /\ Media!ReaderMaySee'
  BY <1>1, <1>2, <1>4 DEF Media!BlobsExist, Media!Blobs, Media!StaysPrivate, Media!SeenInSession, Media!ReaderMaySee
<1>6. Media!ItemsComeLast' /\ Media!LegacyComesFirst'
  BY <1>1, <1>2 DEF Media!ItemsComeLast, Media!LegacyComesFirst, Media!Media
<1>7. \A s : Media!Live(s)' \subseteq Media!Live(s)
  BY <1>2 DEF Media!Live
<1>8. Media!QuotaKept' /\ Media!RoomIsLeft'
  <2>1. \A v \in Uploads : x5'[v] = x5[v] \/ (x5'[v].at \in {"reference", "done", "error"} /\ (Media!Busy(v)' => Media!Busy(v)))
    BY <1>1
  <2>2. Media!QuotaKept /\ Media!RoomIsLeft /\ x7' = x7
    BY <1>1
  <2>. HIDE DEF Media!IInv
  <2>. QED BY <1>7, <2>1, <2>2, MediaFewerIsKept
<1>. QED BY <1>3, <1>5, <1>6, <1>8

LEMMA MediaImportKeeps ==
    ASSUME Media!MediaAssumption, Media!IInv, Media!Import
    PROVE  Media!IInv'
<1>. USE DEF Media!MediaAssumption, Media!IInv
<1>1. /\ x1 = "none" /\ x1' = "there" /\ x3' = x3 \cup {Content(Imported)}
      /\ x2' = [x2 EXCEPT ![Imported] = [state |-> "live", session |-> Legacy]]
      /\ x4' = x4 /\ x6' = x6 /\ x7' = x7
      /\ x5' = x5 /\ x8' = x8 /\ x9' = x9
  BY DEF Media!Import, Media!ImportSession, Media!reading
<1>2. \A m \in Media!Media : x2'[m] = IF m = Imported THEN [state |-> "live", session |-> Legacy] ELSE x2[m]
  BY <1>1 DEF Media!TypeOK
<1>3. Imported \in Media!Media /\ Imported \notin Uploads /\ Content(Imported) \in Contents
  BY DEF Media!Media
<1>4. Media!TypeOK'
  BY <1>1, <1>3 DEF Media!TypeOK
<1>5. \A m \in Media!Media : Media!Owner(m)' = Media!Owner(m)
  BY <1>1 DEF Media!Owner
<1>6. Media!Owner(Imported) = Legacy
  BY DEF Media!Owner
<1>7. Media!BlobsExist' /\ Media!StaysPrivate' /\ Media!SeenInSession' /\ Media!ReaderMaySee'
  BY <1>1, <1>2, <1>5, <1>6 DEF Media!BlobsExist, Media!Blobs, Media!StaysPrivate, Media!SeenInSession, Media!ReaderMaySee
<1>8. Media!ItemsComeLast' /\ Media!LegacyComesFirst'
  BY <1>1, <1>2, <1>3 DEF Media!ItemsComeLast, Media!LegacyComesFirst, Media!Media
<1>9. Media!Live(Home)' = Media!Live(Home)
  <2>1. \A m \in Media!Media : (x2'[m].state = "live" /\ x2'[m].session = Home) <=> (x2[m].state = "live" /\ x2[m].session = Home)
    BY <1>1, <1>2 DEF Media!LegacyComesFirst
  <2>. QED BY <2>1 DEF Media!Live
<1>10. Media!Live(Legacy) = {}
  BY <1>1 DEF Media!Live, Media!LegacyComesFirst, Media!StaysPrivate, Media!Owner, Media!Media
<1>11. Media!Live(Legacy)' = {} \cup {Imported}
  <2>1. \A m \in Media!Media : m # Imported => ~(x2[m].state = "live" /\ x2[m].session = Legacy)
    BY <1>10 DEF Media!Live
  <2>. QED BY <1>2, <1>3, <2>1 DEF Media!Live
<1>12. Media!Cardinality(Media!Live(Legacy)') <= MaxItems
  <2>1. Media!Cardinality({} \cup {Imported}) <= Media!Cardinality({}) + 1
    BY <1>3, MediaOneMoreItem
  <2>2. Media!Cardinality({} \cup {Imported}) \in Nat /\ Media!Cardinality({} \cup {Imported}) \in Nat
    BY <1>3, MediaFewerItems
  <2>. QED BY <1>11, <2>1, <2>2, MediaNoItems
<1>13. Media!QuotaKept'
  BY <1>1, <1>9, <1>12 DEF Media!QuotaKept
<1>14. Media!RoomIsLeft'
  BY <1>1, <1>9 DEF Media!RoomIsLeft, Media!Within, Media!Busy, Media!LegacyComesFirst
<1>. QED BY <1>4, <1>7, <1>8, <1>13, <1>14

LEMMA MediaAuditKeeps ==
    ASSUME Media!MediaAssumption, Media!IInv, Media!Audit
    PROVE  Media!IInv'
<1>. USE DEF Media!MediaAssumption, Media!IInv
<1>1. /\ x1 = "there" /\ x1' = "audited" /\ x3' = x3 /\ x2' = x2
      /\ x4' = x4 /\ x6' = x6 /\ x7' = x7
      /\ x5' = x5 /\ x8' = x8 /\ x9' = x9
  BY DEF Media!Audit, Media!reading
<1>2. Media!TypeOK' /\ Media!BlobsExist' /\ Media!SeenInSession' /\ Media!ItemsComeLast' /\ Media!LegacyComesFirst'
  BY <1>1 DEF Media!TypeOK, Media!BlobsExist, Media!SeenInSession, Media!ItemsComeLast, Media!LegacyComesFirst
<1>3. Media!StaysPrivate' /\ Media!ReaderMaySee'
  BY <1>1 DEF Media!StaysPrivate, Media!ReaderMaySee, Media!Owner
<1>4. \A s : Media!Live(s)' = Media!Live(s)
  BY <1>1 DEF Media!Live
<1>5. Media!QuotaKept' /\ Media!RoomIsLeft'
  BY <1>1, <1>4 DEF Media!QuotaKept, Media!RoomIsLeft, Media!Within, Media!Busy
<1>. QED BY <1>2, <1>3, <1>5

LEMMA MediaRollbackKeeps ==
    ASSUME Media!MediaAssumption, Media!IInv, Media!Rollback
    PROVE  Media!IInv'
<1>. USE DEF Media!MediaAssumption, Media!IInv
<1>1. /\ x1 = "there" /\ x1' = "gone" /\ x7' = x7
      /\ x5' = x5 /\ x8' = x8 /\ x9' = x9
  BY DEF Media!Rollback, Media!reading
<1>2. \A m \in Media!Media : x2'[m] = IF Media!Gone(m) THEN Media!NoItem ELSE x2[m]
  BY DEF Media!Rollback, Media!Gone
<1>3. /\ x4' = {m \in x4 : x2'[m].state # "none"}
      /\ x3' = {b \in x3 : \E m \in Media!Media : ~Media!Gone(m) /\ Media!Uses(m, b)}
      /\ x6' = x6 \cap (x3' \cup {m \in Media!Media : x2'[m].state = "deleted"})
  BY DEF Media!Rollback
<1>4. x2' \in [Media!Media -> [state : {"none", "live", "deleted"}, session : {Home, Legacy, None}]]
  <2>1. x2' = [m \in Media!Media |-> x2'[m]]
    BY DEF Media!Rollback
  <2>2. \A m \in Media!Media : x2'[m] \in [state : {"none", "live", "deleted"}, session : {Home, Legacy, None}]
    BY <1>2 DEF Media!TypeOK, Media!NoItem
  <2>. QED BY <2>1, <2>2
<1>5. Media!TypeOK'
  BY <1>1, <1>3, <1>4 DEF Media!TypeOK
<1>6. \A m \in Media!Media : Media!Owner(m)' = Media!Owner(m)
  BY <1>1 DEF Media!Owner
<1>7. \A m \in Media!Media : x2'[m].state # "none" => x2[m].state # "none" /\ ~Media!Gone(m) /\ x2'[m] = x2[m]
  BY <1>2 DEF Media!NoItem
<1>8. Media!BlobsExist'
  BY <1>3, <1>7 DEF Media!BlobsExist, Media!Blobs, Media!Uses
<1>9. Media!StaysPrivate' /\ Media!SeenInSession' /\ Media!ReaderMaySee'
  BY <1>1, <1>6, <1>7 DEF Media!StaysPrivate, Media!SeenInSession, Media!ReaderMaySee
<1>10. Media!ItemsComeLast' /\ Media!LegacyComesFirst'
  BY <1>1, <1>7 DEF Media!ItemsComeLast, Media!LegacyComesFirst, Media!Media
<1>11. \A s : Media!Live(s)' \subseteq Media!Live(s)
  BY <1>7 DEF Media!Live
<1>12. Media!QuotaKept' /\ Media!RoomIsLeft'
  BY <1>1, <1>11, MediaFewerIsKept
<1>. QED BY <1>5, <1>8, <1>9, <1>10, <1>12

\* Where a step reads, only the reader and what refers to an item change.
LEMMA MediaReadingKeeps ==
    ASSUME Media!IInv, Media!TypeOK', Media!SeenInSession', Media!ReaderMaySee',
           UNCHANGED <<x1, x2, x3, x5, x7>>
    PROVE  Media!IInv'
<1>. USE DEF Media!IInv
<1>1. Media!BlobsExist' /\ Media!StaysPrivate' /\ Media!ItemsComeLast' /\ Media!LegacyComesFirst'
  BY DEF Media!BlobsExist, Media!StaysPrivate, Media!Owner, Media!ItemsComeLast, Media!LegacyComesFirst
<1>2. \A s : Media!Live(s)' = Media!Live(s)
  BY DEF Media!Live
<1>3. Media!QuotaKept' /\ Media!RoomIsLeft'
  BY <1>2 DEF Media!QuotaKept, Media!RoomIsLeft, Media!Within, Media!Busy
<1>. QED BY <1>1, <1>3

LEMMA MediaAsksKeeps ==
    ASSUME Media!MediaAssumption, Media!IInv, NEW m \in Media!Media, NEW s \in Media!Sessions, NEW to \in {"read", "hydrate"}, Media!Asks(m, s, to)
    PROVE  Media!IInv'
<1>. USE DEF Media!MediaAssumption, Media!IInv
<1>1. /\ Media!Shared(m, s) /\ x8' = [at |-> to, item |-> m, session |-> s] /\ x9' = x9
      /\ x1' = x1 /\ x2' = x2 /\ x3' = x3 /\ x4' = x4 /\ x5' = x5 /\ x6' = x6
      /\ x7' = x7
  BY DEF Media!Asks
<1>2. Media!TypeOK' /\ Media!SeenInSession'
  BY <1>1 DEF Media!TypeOK, Media!SeenInSession, Media!Sessions
<1>3. x2[m].state = "live" /\ Media!Owner(m) \in {None, s}
  BY <1>1 DEF Media!Shared, Media!StaysPrivate
<1>4. m \in Uploads => x5[m].at # "new"
  BY <1>3 DEF Media!ItemsComeLast
<1>5. Media!ReaderMaySee'
  BY <1>1, <1>3, <1>4 DEF Media!ReaderMaySee, Media!Owner
<1>. QED BY <1>1, <1>2, <1>5, MediaReadingKeeps

LEMMA MediaReceivesOwn ==
    ASSUME Media!IInv, x8.at # "idle", x9' = x9 \/ x9' = (x9 \/ Media!Owner(x8.item) \notin {None, x8.session})
    PROVE  ~x9' /\ x9' \in BOOLEAN
<1>1. Media!Owner(x8.item) \in {None, x8.session}
  BY DEF Media!IInv, Media!ReaderMaySee
<1>2. ~x9
  BY DEF Media!IInv, Media!SeenInSession
<1>3. x9 \in BOOLEAN
  BY DEF Media!IInv, Media!TypeOK
<1>4. CASE x9' = x9
  BY <1>2, <1>3, <1>4
<1>5. CASE x9' = (x9 \/ Media!Owner(x8.item) \notin {None, x8.session})
  <2>1. x9 = FALSE
    BY <1>2, <1>3
  <2>2. (x9 \/ Media!Owner(x8.item) \notin {None, x8.session}) = FALSE
    BY <1>1, <2>1
  <2>. QED BY <1>5, <2>2, Zenon
<1>. QED BY <1>4, <1>5

LEMMA MediaReadBlobKeeps ==
    ASSUME Media!MediaAssumption, Media!IInv, Media!ReadBlob
    PROVE  Media!IInv'
<1>. USE DEF Media!MediaAssumption, Media!IInv
<1>1. /\ x8' = Media!NoReader \/ x8' = [x8 EXCEPT !.at = "reference"]
      /\ x9' = x9 \/ x9' = (x9 \/ Media!Owner(x8.item) \notin {None, x8.session})
      /\ x1' = x1 /\ x2' = x2 /\ x3' = x3 /\ x4' = x4 /\ x5' = x5 /\ x6' = x6
      /\ x7' = x7 /\ x8.at # "idle"
  BY DEF Media!ReadBlob, Media!Receives
<1>2. ~x9' /\ x9' \in BOOLEAN
  BY <1>1, MediaReceivesOwn
<1>3. Media!TypeOK' /\ Media!SeenInSession'
  BY <1>1, <1>2 DEF Media!TypeOK, Media!SeenInSession, Media!NoReader
<1>4. Media!ReaderMaySee'
  BY <1>1 DEF Media!ReaderMaySee, Media!NoReader, Media!Owner, Media!TypeOK
<1>. QED BY <1>1, <1>3, <1>4, MediaReadingKeeps

LEMMA MediaReferSessionKeeps ==
    ASSUME Media!MediaAssumption, Media!IInv, Media!ReferSession
    PROVE  Media!IInv'
<1>. USE DEF Media!MediaAssumption, Media!IInv
<1>1. /\ x8' = Media!NoReader /\ x8.at # "idle"
      /\ x9' = x9 \/ x9' = (x9 \/ Media!Owner(x8.item) \notin {None, x8.session})
      /\ x4' \subseteq x4 \cup {x8.item}
      /\ x1' = x1 /\ x2' = x2 /\ x3' = x3 /\ x5' = x5 /\ x6' = x6
      /\ x7' = x7
  BY DEF Media!ReferSession, Media!Receives
<1>2. ~x9' /\ x9' \in BOOLEAN
  BY <1>1, MediaReceivesOwn
<1>. x8.item \in Media!Media
  BY <1>1 DEF Media!ReaderMaySee
<1>3. Media!TypeOK' /\ Media!SeenInSession'
  BY <1>1, <1>2 DEF Media!TypeOK, Media!SeenInSession, Media!NoReader
<1>4. Media!ReaderMaySee'
  BY <1>1 DEF Media!ReaderMaySee, Media!NoReader
<1>. QED BY <1>1, <1>3, <1>4, MediaReadingKeeps

LEMMA MediaAgeKeeps ==
    ASSUME Media!MediaAssumption, Media!IInv, Media!Age
    PROVE  Media!IInv'
<1>. USE DEF Media!MediaAssumption, Media!IInv
<1>1. /\ x6' = x3 \cup {m \in Media!Media : x2[m].state = "deleted"}
      /\ x1' = x1 /\ x2' = x2 /\ x3' = x3 /\ x4' = x4 /\ x5' = x5
      /\ x7' = x7 /\ x8' = x8 /\ x9' = x9
  BY DEF Media!Age, Media!reading
<1>2. Media!TypeOK' /\ Media!SeenInSession'
  BY <1>1 DEF Media!TypeOK, Media!SeenInSession
<1>3. Media!ReaderMaySee'
  BY <1>1 DEF Media!ReaderMaySee, Media!Owner
<1>. QED BY <1>1, <1>2, <1>3, MediaReadingKeeps

LEMMA MediaRestartKeeps ==
    ASSUME Media!MediaAssumption, Media!IInv, Media!Restart
    PROVE  Media!IInv'
<1>. USE DEF Media!MediaAssumption, Media!IInv
<1>. DEFINE purged == {m \in Media!Media : x2[m].state = "deleted" /\ m \in x6}
<1>1. /\ x2' = [m \in Media!Media |-> IF m \in purged THEN Media!NoItem ELSE x2[m]]
      /\ x4' = x4 \ purged
      /\ x3' = {b \in x3 : b \notin x6 \/ \E m \in Media!Media \ purged : Media!Uses(m, b)}
      /\ x6' = x6 \cap x3'
      /\ x5' = [u \in Uploads |-> IF Media!Busy(u) THEN [x5[u] EXCEPT !.at = "error"] ELSE x5[u]]
      /\ x8' = Media!NoReader /\ x1' = x1 /\ x7' = x7 /\ x9' = x9
  BY DEF Media!Restart
<1>2. /\ \A u \in Uploads : x5'[u].session = x5[u].session /\ x5'[u].at = IF Media!Busy(u) THEN "error" ELSE x5[u].at
      /\ x5' \in [Uploads -> [at : {"new", "blob", "thumbnail", "item", "reference", "done", "error"},
                                  session : {Home, Legacy, None}]]
  BY <1>1 DEF Media!TypeOK
<1>3. /\ x2' \in [Media!Media -> [state : {"none", "live", "deleted"}, session : {Home, Legacy, None}]]
      /\ \A m \in Media!Media : x2'[m].state # "none" => x2[m].state # "none" /\ m \notin purged /\ x2'[m] = x2[m]
  BY <1>1 DEF Media!TypeOK, Media!NoItem
<1>4. Media!TypeOK'
  BY <1>1, <1>2, <1>3 DEF Media!TypeOK, Media!NoReader
<1>5. Media!BlobsExist'
  BY <1>1, <1>3 DEF Media!BlobsExist, Media!Blobs, Media!Uses
<1>. HIDE DEF purged
<1>6. \A m \in Media!Media : Media!Owner(m)' = Media!Owner(m)
  BY <1>2 DEF Media!Owner, Media!Media
<1>7. Media!StaysPrivate' /\ Media!SeenInSession' /\ Media!ReaderMaySee'
  BY <1>1, <1>3, <1>6 DEF Media!StaysPrivate, Media!SeenInSession, Media!ReaderMaySee, Media!NoReader
<1>8. Media!ItemsComeLast' /\ Media!LegacyComesFirst'
  <2>1. \A u \in Uploads : u \in Media!Media
    BY DEF Media!Media
  <2>2. \A m \in Media!Media : x2[m].state = "none" => x2'[m].state = "none"
    BY <1>3
  <2>3. \A u \in Uploads : x5'[u].at = x5[u].at \/ x5'[u].at = "error"
    BY <1>2
  <2>4. Media!ItemsComeLast'
    BY <2>1, <2>2, <2>3 DEF Media!ItemsComeLast
  <2>5. Imported \in Media!Media
    BY DEF Media!Media
  <2>6. Media!LegacyComesFirst'
    BY <1>1, <1>2, <2>2, <2>5 DEF Media!LegacyComesFirst
  <2>. QED BY <2>4, <2>6
<1>9. \A s : Media!Live(s)' \subseteq Media!Live(s)
  BY <1>3 DEF Media!Live
<1>10. \A u \in Uploads : x5'[u] = x5[u] \/ (x5'[u].at \in {"reference", "done", "error"} /\ (Media!Busy(u)' => Media!Busy(u)))
  BY <1>1, <1>2 DEF Media!Busy
<1>11. Media!QuotaKept' /\ Media!RoomIsLeft'
  BY <1>1, <1>9, <1>10, MediaFewerIsKept
<1>. QED BY <1>4, <1>5, <1>7, <1>8, <1>11

LEMMA MediaStutterKeeps ==
    ASSUME Media!IInv, UNCHANGED Media!vars
    PROVE  Media!IInv'
<1>1. UNCHANGED <<x1, x2, x3, x4, x5, x6, x7, x8, x9>>
  BY DEF Media!vars
<1>2. Media!TypeOK' /\ Media!SeenInSession' /\ Media!ReaderMaySee'
  BY <1>1 DEF Media!IInv, Media!TypeOK, Media!SeenInSession, Media!ReaderMaySee, Media!Owner
<1>. QED BY <1>1, <1>2, MediaReadingKeeps

LEMMA MediaStepKeeps ==
    ASSUME Media!MediaAssumption, Media!IInv, [Media!Next]_(Media!vars)
    PROVE  Media!IInv'
<1>1. ASSUME NEW u \in Uploads, NEW s \in {Home, Legacy, None}, Media!Upload(u, s) PROVE Media!IInv'
  BY <1>1, MediaUploadKeeps
<1>2. ASSUME NEW u \in Uploads, Media!StoreBlob(u) \/ Media!StoreThumbnail(u) \/ Media!CreateItem(u) \/ Media!AddReference(u) PROVE Media!IInv'
  BY <1>2, MediaStoreBlobKeeps, MediaStoreThumbnailKeeps, MediaCreateItemKeeps, MediaAddReferenceKeeps
<1>3. ASSUME NEW m \in Media!Media, Media!Delete(m) PROVE Media!IInv'
  BY <1>3, MediaDeleteKeeps
<1>4. ASSUME NEW m \in Media!Media, NEW s \in Media!Sessions, Media!ReadAttachment(m, s) \/ Media!Hydrate(m, s) PROVE Media!IInv'
  BY <1>4, MediaAsksKeeps DEF Media!ReadAttachment, Media!Hydrate
<1>5. CASE Media!ReadBlob \/ Media!ReferSession
  BY <1>5, MediaReadBlobKeeps, MediaReferSessionKeeps
<1>6. CASE Media!Import \/ Media!Audit \/ Media!Rollback
  BY <1>6, MediaImportKeeps, MediaAuditKeeps, MediaRollbackKeeps
<1>7. CASE Media!Age \/ Media!Restart
  BY <1>7, MediaAgeKeeps, MediaRestartKeeps
<1>8. CASE UNCHANGED Media!vars
  BY <1>8, MediaStutterKeeps
<1>. QED BY <1>1, <1>2, <1>3, <1>4, <1>5, <1>6, <1>7, <1>8 DEF Media!Next

\* Uploads, deletions, imports and rollbacks in any order, also across restarts: a live item has its blobs,
\* an imported item stays in its session, the quota counts what is there, and a reader sees only what the
\* session refers to.
THEOREM MediaAlwaysGood ==
    ASSUME Media!MediaAssumption
    PROVE  Media!Spec => []Media!IInv
BY MediaInitIsGood, MediaStepKeeps, PTL DEF Media!Spec

-----------------------------------------------------------------------------
(* Calls on one file *)

\* In the runs a write, two edits in memory and one of a large file.
Files == INSTANCE FileTools WITH
    Writes <- WriteCalls, Edits <- EditCalls, file <- x1, temp <- x2, pc <- x3, lock <- x4, queue <- x5, got <- x6, thread <- x7, whole <- x8,
    odd <- x9

LEMMA FilesLineOfCalls ==
    ASSUME NEW q, NEW S, q \in Seq(S), NEW c, \A i, j \in 1..Len(q) : q[i] = q[j] => i = j
    PROVE  /\ /\ Files!Without(q, c) \in Seq(S) /\ Files!ToSet(Files!Without(q, c)) = Files!ToSet(q) \ {c}
              /\ \A i, j \in 1..Len(Files!Without(q, c)) : Files!Without(q, c)[i] = Files!Without(q, c)[j] => i = j
           /\ q # <<>> =>
                 /\ Tail(q) \in Seq(S) /\ Files!ToSet(Tail(q)) = Files!ToSet(q) \ {Head(q)} /\ Head(q) \in Files!ToSet(q)
                 /\ \A i, j \in 1..Len(Tail(q)) : Tail(q)[i] = Tail(q)[j] => i = j
           /\ c \in S /\ c \notin Files!ToSet(q) =>
                 /\ Append(q, c) \in Seq(S) /\ Files!ToSet(Append(q, c)) = Files!ToSet(q) \cup {c}
                 /\ \A i, j \in 1..Len(Append(q, c)) : Append(q, c)[i] = Append(q, c)[j] => i = j
<1>1. Distinct(q)
  BY DEF Distinct
<1>2. Files!Without(q, c) = Leaving(q, c)
  BY DEF Files!Without, Leaving, Files!RemoveAt, RemoveAt
<1>3. \A p : Files!ToSet(p) = ToSet(p)
  BY DEF Files!ToSet, ToSet
<1>4. Leaving(q, c) \in Seq(S) /\ Distinct(Leaving(q, c)) /\ ToSet(Leaving(q, c)) = ToSet(q) \ {c}
  BY <1>1, LineIsLeft
<1>5. q # <<>> => Tail(q) \in Seq(S) /\ Distinct(Tail(q)) /\ ToSet(Tail(q)) = ToSet(q) \ {Head(q)} /\ Head(q) \in ToSet(q)
  BY <1>1, LineMoves
<1>6. c \in S /\ c \notin ToSet(q) => Append(q, c) \in Seq(S) /\ Distinct(Append(q, c)) /\ ToSet(Append(q, c)) = ToSet(q) \cup {c}
  BY <1>1, LineGrows
<1>. QED BY <1>2, <1>3, <1>4, <1>5, <1>6 DEF Distinct

LEMMA FilesInitIsGood ==
    ASSUME Files!FileToolsAssumption, Files!Init
    PROVE  Files!IInv
<1>. USE DEF Files!Init, Files!FileToolsAssumption
<1>1. Files!ToSet(<<>>) = {} /\ <<>> \in Seq(Files!Calls) /\ Len(<<>>) = 0
  BY DEF Files!ToSet
<1>2. Files!TypeOK
  BY <1>1 DEF Files!TypeOK, Files!Ended
<1>3. Files!LineWaits
  <2>. HIDE DEF Files!Init
  <2>1. x5 = <<>> /\ \A c \in Files!Calls : x3[c] # "waiting"
    BY DEF Files!Init
  <2>. QED BY <1>1, <2>1 DEF Files!LineWaits
<1>4. Files!LockIsHeld /\ Files!ThreadsMatch /\ Files!CopiesMatch /\ Files!ContentIsMade
  BY DEF Files!LockIsHeld, Files!ThreadsMatch, Files!CopiesMatch, Files!ContentIsMade
<1>. QED BY <1>2, <1>3, <1>4 DEF Files!IInv

LEMMA FilesNoneIsNoCall ==
    ASSUME Files!FileToolsAssumption
    PROVE  None \notin Files!Calls
BY DEF Files!FileToolsAssumption, Files!Calls

\* The lock and the line of a step that changes one call, and leaves the line as it is.
LEMMA FilesHolderMoves ==
    ASSUME Files!FileToolsAssumption, Files!IInv, NEW c \in Files!Calls, NEW to \in {"locked", "reading", "writing", "ok", "failed", "cancelled"},
           x3[c] \in {"locked", "reading", "writing"},
           x3' = [x3 EXCEPT ![c] = to], x5' = x5,
           x4' = IF to \in {"ok", "failed", "cancelled"} THEN None ELSE x4
    PROVE  /\ Files!LockIsHeld' /\ Files!LineWaits' /\ x4 = c
           /\ x3' \in [Files!Calls -> {"idle", "waiting", "locked", "reading", "writing"} \cup Files!Ended]
           /\ \A d \in Files!Calls : x3'[d] = IF d = c THEN to ELSE x3[d]
           /\ \A d \in Files!Calls \ {c} : x3[d] \notin {"locked", "reading", "writing"}
<1>1. x3 \in [Files!Calls -> {"idle", "waiting", "locked", "reading", "writing"} \cup Files!Ended] /\ None \notin Files!Calls
  BY DEF Files!IInv, Files!TypeOK, Files!Calls, Files!FileToolsAssumption
<1>2. \A d \in Files!Calls : x3'[d] = IF d = c THEN to ELSE x3[d]
  BY <1>1
<1>3. x4 = c /\ \A d \in Files!Calls \ {c} : x3[d] \notin {"locked", "reading", "writing"}
  BY DEF Files!IInv, Files!LockIsHeld
<1>4. Files!LockIsHeld'
  BY <1>1, <1>2, <1>3 DEF Files!LockIsHeld
<1>5. {d \in Files!Calls : x3'[d] = "waiting"} = {d \in Files!Calls : x3[d] = "waiting"}
  BY <1>2
<1>6. Files!LineWaits'
  BY <1>5 DEF Files!IInv, Files!LineWaits
<1>7. x3' \in [Files!Calls -> {"idle", "waiting", "locked", "reading", "writing"} \cup Files!Ended]
  BY <1>1 DEF Files!Ended
<1>. QED BY <1>2, <1>3, <1>4, <1>6, <1>7

\* A call that comes to its lock changes nothing in the file.
LEMMA FilesContentStays ==
    ASSUME Files!IInv, NEW c \in Files!Calls, NEW to \in {"waiting", "locked"}, x3[c] \in {"idle", "waiting"},
           \A d \in Files!Calls : x3'[d] = IF d = c THEN to ELSE x3[d],
           UNCHANGED <<x1, x6, x7, x8, x9>>
    PROVE  Files!ContentIsMade'
<1>1. \A d \in Files!Calls : Files!AtWork(d)' <=> Files!AtWork(d)
  BY DEF Files!AtWork, Files!Made
<1>2. \A d \in Files!Calls : \A step \in {"reading", "writing", "cancelled"} : x3'[d] = step <=> x3[d] = step
  OBVIOUS
<1>3. x1' = x1 /\ x6' = x6 /\ x7' = x7 /\ x8' = x8 /\ x9' = x9
  OBVIOUS
<1>. QED BY <1>1, <1>2, <1>3 DEF Files!IInv, Files!ContentIsMade

LEMMA FilesBeginKeeps ==
    ASSUME Files!FileToolsAssumption, Files!IInv, NEW c \in Files!Calls, Files!Begin(c)
    PROVE  Files!IInv'
<1>. USE DEF Files!IInv
<1>1. /\ x3[c] = "idle" /\ x1' = x1 /\ x2' = x2 /\ x6' = x6 /\ x7' = x7 /\ x8' = x8 /\ x9' = x9
      /\ \/ x4 = None /\ x4' = c /\ x3' = [x3 EXCEPT ![c] = "locked"] /\ x5' = x5
         \/ x4' = x4 /\ x3' = [x3 EXCEPT ![c] = "waiting"] /\ x5' = Append(x5, c)
  BY DEF Files!Begin
<1>2. PICK to \in {"locked", "waiting"} :
          /\ x3' = [x3 EXCEPT ![c] = to]
          /\ to = "locked" => x4 = None /\ x4' = c /\ x5' = x5
          /\ to = "waiting" => x4' = x4 /\ x5' = Append(x5, c)
  BY <1>1
<1>3. \A d \in Files!Calls : x3'[d] = IF d = c THEN to ELSE x3[d]
  BY <1>2 DEF Files!TypeOK
<1>4. Files!LineWaits'
  <2>1. CASE to = "locked"
    <3>1. {d \in Files!Calls : x3'[d] = "waiting"} = {d \in Files!Calls : x3[d] = "waiting"}
      BY <1>1, <1>3, <2>1
    <3>. QED BY <1>2, <2>1, <3>1 DEF Files!LineWaits
  <2>2. CASE to = "waiting"
    <3>1. {d \in Files!Calls : x3'[d] = "waiting"} = {d \in Files!Calls : x3[d] = "waiting"} \cup {c}
      BY <1>3, <2>2
    <3>2. c \notin Files!ToSet(x5)
      BY <1>1 DEF Files!LineWaits
    <3>3. /\ Append(x5, c) \in Seq(Files!Calls) /\ Files!ToSet(Append(x5, c)) = Files!ToSet(x5) \cup {c}
          /\ \A i, j \in 1..Len(Append(x5, c)) : Append(x5, c)[i] = Append(x5, c)[j] => i = j
      BY <3>2, FilesLineOfCalls DEF Files!LineWaits
    <3>. QED BY <1>2, <2>2, <3>1, <3>3 DEF Files!LineWaits
  <2>. QED BY <2>1, <2>2
<1>5. Files!TypeOK'
  <2>1. x3' \in [Files!Calls -> {"idle", "waiting", "locked", "reading", "writing"} \cup Files!Ended]
    BY <1>2 DEF Files!TypeOK
  <2>2. Files!ToSet(x5') \subseteq Files!Calls
    BY <1>4 DEF Files!LineWaits
  <2>. QED BY <1>1, <1>2, <2>1, <2>2 DEF Files!TypeOK
<1>6. Files!LockIsHeld'
  BY <1>1, <1>2, <1>3, FilesNoneIsNoCall DEF Files!LockIsHeld
<1>7. Files!ThreadsMatch' /\ Files!CopiesMatch'
  BY <1>1, <1>2, <1>3 DEF Files!ThreadsMatch, Files!CopiesMatch
<1>8. Files!ContentIsMade'
  BY <1>1, <1>3, FilesContentStays
<1>. QED BY <1>4, <1>5, <1>6, <1>7, <1>8

LEMMA FilesAcquireKeeps ==
    ASSUME Files!FileToolsAssumption, Files!IInv, NEW c \in Files!Calls, Files!Acquire(c)
    PROVE  Files!IInv'
<1>. USE DEF Files!IInv
<1>1. /\ x4 = None /\ x5 # <<>> /\ Head(x5) = c /\ x4' = c /\ x5' = Tail(x5) /\ x3' = [x3 EXCEPT ![c] = "locked"]
      /\ x1' = x1 /\ x2' = x2 /\ x6' = x6 /\ x7' = x7 /\ x8' = x8 /\ x9' = x9
  BY DEF Files!Acquire, Files!Free
<1>2. \A d \in Files!Calls : x3'[d] = IF d = c THEN "locked" ELSE x3[d]
  BY <1>1 DEF Files!TypeOK
<1>3. /\ Tail(x5) \in Seq(Files!Calls) /\ Files!ToSet(Tail(x5)) = Files!ToSet(x5) \ {c} /\ c \in Files!ToSet(x5)
      /\ \A i, j \in 1..Len(Tail(x5)) : Tail(x5)[i] = Tail(x5)[j] => i = j
  BY <1>1, FilesLineOfCalls DEF Files!LineWaits
<1>4. x3[c] = "waiting"
  BY <1>3 DEF Files!LineWaits
<1>5. Files!LineWaits'
  <2>1. {d \in Files!Calls : x3'[d] = "waiting"} = {d \in Files!Calls : x3[d] = "waiting"} \ {c}
    BY <1>2
  <2>. QED BY <1>1, <1>3, <2>1 DEF Files!LineWaits
<1>6. Files!TypeOK'
  <2>1. x3' \in [Files!Calls -> {"idle", "waiting", "locked", "reading", "writing"} \cup Files!Ended]
    BY <1>1 DEF Files!TypeOK
  <2>2. Files!ToSet(x5') \subseteq Files!Calls
    BY <1>5 DEF Files!LineWaits
  <2>. QED BY <1>1, <2>1, <2>2 DEF Files!TypeOK
<1>7. Files!LockIsHeld'
  BY <1>1, <1>2, FilesNoneIsNoCall DEF Files!LockIsHeld
<1>8. Files!ThreadsMatch' /\ Files!CopiesMatch'
  BY <1>1, <1>2, <1>4 DEF Files!ThreadsMatch, Files!CopiesMatch
<1>9. Files!ContentIsMade'
  BY <1>1, <1>2, <1>4, FilesContentStays
<1>. QED BY <1>5, <1>6, <1>7, <1>8, <1>9

LEMMA FilesWriteKeeps ==
    ASSUME Files!FileToolsAssumption, Files!IInv, NEW c \in Files!Calls, Files!Write(c)
    PROVE  Files!IInv'
<1>. USE DEF Files!IInv
<1>1. /\ c \in WriteCalls /\ x3[c] = "locked" /\ x3' = [x3 EXCEPT ![c] = "writing"]
      /\ x6' = [x6 EXCEPT ![c] = {c}] /\ x7' = [x7 EXCEPT ![c] = "opening"]
      /\ x1' = x1 /\ x2' = x2 /\ x4' = x4 /\ x5' = x5 /\ x8' = x8 /\ x9' = x9
  BY DEF Files!Write
<1>2. /\ \A d \in Files!Calls : x6'[d] = IF d = c THEN {c} ELSE x6[d]
      /\ \A d \in Files!Calls : x7'[d] = IF d = c THEN "opening" ELSE x7[d]
  BY <1>1 DEF Files!TypeOK
<1>3. /\ Files!LockIsHeld' /\ Files!LineWaits' /\ x4 = c
      /\ x3' \in [Files!Calls -> {"idle", "waiting", "locked", "reading", "writing"} \cup Files!Ended]
      /\ \A d \in Files!Calls : x3'[d] = IF d = c THEN "writing" ELSE x3[d]
      /\ \A d \in Files!Calls \ {c} : x3[d] \notin {"locked", "reading", "writing"}
  BY <1>1, FilesHolderMoves
<1>4. Files!TypeOK'
  BY <1>1, <1>3 DEF Files!TypeOK
<1>5. Files!ThreadsMatch' /\ Files!CopiesMatch'
  BY <1>1, <1>2, <1>3 DEF Files!ThreadsMatch, Files!CopiesMatch
<1>6. Files!ContentIsMade'
  <2>. SUFFICES ASSUME ~x9 PROVE Files!ContentIsMade'
    BY <1>1 DEF Files!ContentIsMade
  <2>1. x1 = x8 /\ x8 # {} /\ \A d \in Files!Calls : x3[d] = "cancelled" => x7[d] \in {"none", "reading", "counting"}
    BY <1>1, <1>3 DEF Files!ContentIsMade
  <2>2. Files!AtWork(c)'
    BY <1>1, <1>2, <2>1 DEF Files!AtWork, Files!Made
  <2>. QED BY <1>1, <1>2, <1>3, <2>1, <2>2 DEF Files!ContentIsMade
<1>. QED BY <1>3, <1>4, <1>5, <1>6

LEMMA FilesReadKeeps ==
    ASSUME Files!FileToolsAssumption, Files!IInv, NEW c \in Files!Calls, Files!Read(c)
    PROVE  Files!IInv'
<1>. USE DEF Files!IInv
<1>1. PICK step \in {"counting", "reading"} : x7' = [x7 EXCEPT ![c] = step]
  BY DEF Files!Read
<1>2. /\ c \in EditCalls \cup Streams /\ x3[c] = "locked" /\ x3' = [x3 EXCEPT ![c] = "reading"] /\ x6' = x6
      /\ x1' = x1 /\ x2' = x2 /\ x4' = x4 /\ x5' = x5 /\ x8' = x8 /\ x9' = x9
  BY DEF Files!Read
<1>3. \A d \in Files!Calls : x7'[d] = IF d = c THEN step ELSE x7[d]
  BY <1>1 DEF Files!TypeOK
<1>4. /\ Files!LockIsHeld' /\ Files!LineWaits' /\ x4 = c
      /\ x3' \in [Files!Calls -> {"idle", "waiting", "locked", "reading", "writing"} \cup Files!Ended]
      /\ \A d \in Files!Calls : x3'[d] = IF d = c THEN "reading" ELSE x3[d]
      /\ \A d \in Files!Calls \ {c} : x3[d] \notin {"locked", "reading", "writing"}
  BY <1>2, FilesHolderMoves
<1>5. Files!TypeOK'
  BY <1>1, <1>2, <1>4 DEF Files!TypeOK
<1>6. c \notin WriteCalls
  BY <1>2 DEF Files!FileToolsAssumption
<1>7. Files!ThreadsMatch' /\ Files!CopiesMatch'
  BY <1>2, <1>3, <1>4, <1>6 DEF Files!ThreadsMatch, Files!CopiesMatch
<1>8. Files!ContentIsMade'
  <2>. SUFFICES ASSUME ~x9 PROVE Files!ContentIsMade'
    BY <1>2 DEF Files!ContentIsMade
  <2>1. x1 = x8 /\ x8 # {} /\ \A d \in Files!Calls : x3[d] = "cancelled" => x7[d] \in {"none", "reading", "counting"}
    BY <1>2, <1>4 DEF Files!ContentIsMade
  <2>. QED BY <1>2, <1>3, <1>4, <2>1 DEF Files!ContentIsMade
<1>. QED BY <1>4, <1>5, <1>7, <1>8

LEMMA FilesMatchKeeps ==
    ASSUME Files!FileToolsAssumption, Files!IInv, NEW c \in Files!Calls, Files!Match(c)
    PROVE  Files!IInv'
<1>. USE DEF Files!IInv
<1>1. /\ x3[c] = "reading" /\ x7[c] = "none"
      /\ x1' = x1 /\ x2' = x2 /\ x5' = x5 /\ x8' = x8 /\ x9' = x9
  BY DEF Files!Match
<1>2. x4 = c
  BY <1>1 DEF Files!LockIsHeld
<1>3. CASE x6[c] = {}
  <2>1. x3' = [x3 EXCEPT ![c] = "failed"] /\ x4' = None /\ x6' = x6 /\ x7' = x7
    BY <1>2, <1>3 DEF Files!Match, Files!End
  <2>2. /\ Files!LockIsHeld' /\ Files!LineWaits'
        /\ x3' \in [Files!Calls -> {"idle", "waiting", "locked", "reading", "writing"} \cup Files!Ended]
        /\ \A d \in Files!Calls : x3'[d] = IF d = c THEN "failed" ELSE x3[d]
        /\ \A d \in Files!Calls \ {c} : x3[d] \notin {"locked", "reading", "writing"}
    BY <1>1, <2>1, FilesHolderMoves
  <2>3. Files!TypeOK'
    BY <1>1, <2>1, <2>2 DEF Files!TypeOK
  <2>4. Files!ThreadsMatch' /\ Files!CopiesMatch'
    BY <1>1, <2>1, <2>2 DEF Files!ThreadsMatch, Files!CopiesMatch
  <2>5. Files!ContentIsMade'
    BY <1>1, <2>1, <2>2 DEF Files!ContentIsMade
  <2>. QED BY <2>2, <2>3, <2>4, <2>5
<1>4. CASE x6[c] # {}
  <2>. DEFINE step == IF c \in Streams THEN "copying" ELSE "opening"
  <2>1. /\ x3' = [x3 EXCEPT ![c] = "writing"] /\ x4' = x4
        /\ x6' = [x6 EXCEPT ![c] = @ \cup {c}] /\ x7' = [x7 EXCEPT ![c] = step]
    BY <1>4 DEF Files!Match
  <2>2. /\ Files!LockIsHeld' /\ Files!LineWaits'
        /\ x3' \in [Files!Calls -> {"idle", "waiting", "locked", "reading", "writing"} \cup Files!Ended]
        /\ \A d \in Files!Calls : x3'[d] = IF d = c THEN "writing" ELSE x3[d]
        /\ \A d \in Files!Calls \ {c} : x3[d] \notin {"locked", "reading", "writing"}
    BY <1>1, <2>1, FilesHolderMoves
  <2>3. /\ \A d \in Files!Calls : x6'[d] = IF d = c THEN x6[c] \cup {c} ELSE x6[d]
        /\ \A d \in Files!Calls : x7'[d] = IF d = c THEN step ELSE x7[d]
        /\ x6' \in [Files!Calls -> SUBSET (Files!Calls \cup {Files!Base})]
        /\ x7' \in [Files!Calls -> {"none", "reading", "counting", "opening", "filling", "copying", "replacing"}]
    BY <2>1 DEF Files!TypeOK
  <2>4. c \notin WriteCalls /\ step \in {"copying", "opening"} /\ (step = "copying" => c \in Streams)
    BY <1>1 DEF Files!ThreadsMatch
  <2>. HIDE DEF step
  <2>5. Files!TypeOK'
    BY <1>1, <2>1, <2>2, <2>3 DEF Files!TypeOK
  <2>6. Files!ThreadsMatch' /\ Files!CopiesMatch'
    BY <1>1, <2>2, <2>3, <2>4 DEF Files!ThreadsMatch, Files!CopiesMatch
  <2>7. Files!ContentIsMade'
    <3>. SUFFICES ASSUME ~x9 PROVE Files!ContentIsMade'
      BY <1>1 DEF Files!ContentIsMade
    <3>1. /\ x1 = x8 /\ x8 # {} /\ x6[c] = x8
          /\ \A d \in Files!Calls : x3[d] = "cancelled" => x7[d] \in {"none", "reading", "counting"}
      BY <1>1, <2>2 DEF Files!ContentIsMade
    <3>2. Files!AtWork(c)'
      BY <1>1, <2>3, <2>4, <3>1 DEF Files!AtWork, Files!Made
    <3>. QED BY <1>1, <2>2, <2>3, <3>1, <3>2 DEF Files!ContentIsMade
  <2>. QED BY <2>2, <2>5, <2>6, <2>7
<1>. QED BY <1>3, <1>4

LEMMA FilesSucceedKeeps ==
    ASSUME Files!FileToolsAssumption, Files!IInv, NEW c \in Files!Calls, Files!Succeed(c)
    PROVE  Files!IInv'
<1>. USE DEF Files!IInv
<1>1. /\ x3[c] = "writing" /\ x7[c] = "none" /\ x3' = [x3 EXCEPT ![c] = "ok"] /\ x8' = Files!Made(c)
      /\ x1' = x1 /\ x2' = x2 /\ x5' = x5 /\ x6' = x6 /\ x7' = x7 /\ x9' = x9
  BY DEF Files!Succeed, Files!Made, Files!End
<1>2. x4 = c /\ x4' = None
  BY <1>1 DEF Files!LockIsHeld, Files!Succeed, Files!End
<1>3. /\ Files!LockIsHeld' /\ Files!LineWaits'
      /\ x3' \in [Files!Calls -> {"idle", "waiting", "locked", "reading", "writing"} \cup Files!Ended]
      /\ \A d \in Files!Calls : x3'[d] = IF d = c THEN "ok" ELSE x3[d]
      /\ \A d \in Files!Calls \ {c} : x3[d] \notin {"locked", "reading", "writing"}
  BY <1>1, <1>2, FilesHolderMoves
<1>4. Files!TypeOK'
  BY <1>1, <1>2, <1>3 DEF Files!TypeOK, Files!Made
<1>5. Files!ThreadsMatch' /\ Files!CopiesMatch'
  BY <1>1, <1>3 DEF Files!ThreadsMatch, Files!CopiesMatch
<1>6. Files!ContentIsMade'
  <2>. SUFFICES ASSUME ~x9 PROVE Files!ContentIsMade'
    BY <1>1 DEF Files!ContentIsMade
  <2>1. x1 = Files!Made(c) /\ \A d \in Files!Calls : x3[d] = "cancelled" => x7[d] \in {"none", "reading", "counting"}
    BY <1>1 DEF Files!ContentIsMade, Files!AtWork
  <2>2. Files!Made(c) # {}
    BY DEF Files!Made
  <2>. QED BY <1>1, <1>3, <2>1, <2>2 DEF Files!ContentIsMade
<1>. QED BY <1>3, <1>4, <1>5, <1>6

LEMMA FilesCancelKeeps ==
    ASSUME Files!FileToolsAssumption, Files!IInv, NEW c \in Files!Calls, Files!Cancel(c)
    PROVE  Files!IInv'
<1>. USE DEF Files!IInv
<1>1. /\ x3[c] \in {"waiting", "locked", "reading", "writing"} /\ x3' = [x3 EXCEPT ![c] = "cancelled"]
      /\ x4' = (IF x4 = c THEN None ELSE x4) /\ x5' = Files!Without(x5, c)
      /\ x1' = x1 /\ x2' = x2 /\ x6' = x6 /\ x7' = x7 /\ x8' = x8
  BY DEF Files!Cancel, Files!End
<1>2. x9' = (x9 \/ x3[c] = "writing")
  BY DEF Files!Cancel
<1>3. \A d \in Files!Calls : x3'[d] = IF d = c THEN "cancelled" ELSE x3[d]
  BY <1>1 DEF Files!TypeOK
<1>4. Files!LineWaits'
  <2>1. /\ Files!Without(x5, c) \in Seq(Files!Calls) /\ Files!ToSet(Files!Without(x5, c)) = Files!ToSet(x5) \ {c}
        /\ \A i, j \in 1..Len(Files!Without(x5, c)) : Files!Without(x5, c)[i] = Files!Without(x5, c)[j] => i = j
    BY FilesLineOfCalls DEF Files!LineWaits
  <2>2. {d \in Files!Calls : x3'[d] = "waiting"} = {d \in Files!Calls : x3[d] = "waiting"} \ {c}
    BY <1>3
  <2>. QED BY <1>1, <2>1, <2>2 DEF Files!LineWaits
<1>5. Files!LockIsHeld'
  BY <1>1, <1>3, FilesNoneIsNoCall DEF Files!LockIsHeld
<1>6. Files!TypeOK'
  <2>1. x3' \in [Files!Calls -> {"idle", "waiting", "locked", "reading", "writing"} \cup Files!Ended]
    BY <1>1 DEF Files!TypeOK, Files!Ended
  <2>2. Files!ToSet(x5') \subseteq Files!Calls
    BY <1>4 DEF Files!LineWaits
  <2>3. x9' \in BOOLEAN
    BY <1>2 DEF Files!TypeOK
  <2>. QED BY <1>1, <2>1, <2>2, <2>3 DEF Files!TypeOK
<1>7. Files!ThreadsMatch' /\ Files!CopiesMatch'
  BY <1>1, <1>3 DEF Files!ThreadsMatch, Files!CopiesMatch
<1>8. Files!ContentIsMade'
  <2>. SUFFICES ASSUME ~x9, x3[c] # "writing" PROVE Files!ContentIsMade'
    BY <1>2 DEF Files!ContentIsMade
  <2>1. x7[c] \in {"none", "reading", "counting"}
    BY <1>1 DEF Files!ThreadsMatch
  <2>2. \A d \in Files!Calls : Files!AtWork(d)' <=> Files!AtWork(d)
    BY <1>1 DEF Files!AtWork, Files!Made
  <2>. QED BY <1>1, <1>3, <2>1, <2>2 DEF Files!ContentIsMade
<1>. QED BY <1>4, <1>5, <1>6, <1>7, <1>8

\* A thread leaves the calls and their lock as they are.
LEMMA FilesThreadsLeaveLock ==
    ASSUME Files!IInv, UNCHANGED <<x3, x4, x5>>
    PROVE  Files!LockIsHeld' /\ Files!LineWaits'
BY DEF Files!IInv, Files!LockIsHeld, Files!LineWaits

\* Without a cancelled write a thread that writes is that of the call at work, all others are past the file.
LEMMA FilesWriterIsAlone ==
    ASSUME Files!IInv, ~x9, NEW c \in Files!Calls, x7[c] \in {"opening", "filling", "copying", "replacing"}
    PROVE  /\ x3[c] = "writing" /\ Files!AtWork(c) /\ x8 # {}
           /\ \A d \in Files!Calls \ {c} : x3[d] \notin {"locked", "reading", "writing"}
           /\ \A d \in Files!Calls : x3[d] = "cancelled" => x7[d] \in {"none", "reading", "counting"}
<1>. USE DEF Files!IInv
<1>1. x3[c] = "writing"
  BY DEF Files!ThreadsMatch, Files!ContentIsMade, Files!TypeOK, Files!Ended
<1>. QED BY <1>1 DEF Files!ContentIsMade, Files!LockIsHeld

LEMMA FilesReadsKeeps ==
    ASSUME Files!FileToolsAssumption, Files!IInv, NEW c \in Files!Calls, Files!Reads(c)
    PROVE  Files!IInv'
<1>. USE DEF Files!IInv
<1>1. /\ x7[c] \in {"reading", "counting"} /\ x6' = [x6 EXCEPT ![c] = x1] /\ x7' = [x7 EXCEPT ![c] = "none"]
      /\ x1' = x1 /\ x2' = x2 /\ x3' = x3 /\ x4' = x4 /\ x5' = x5 /\ x8' = x8 /\ x9' = x9
  BY DEF Files!Reads
<1>2. /\ \A d \in Files!Calls : x6'[d] = IF d = c THEN x1 ELSE x6[d]
      /\ \A d \in Files!Calls : x7'[d] = IF d = c THEN "none" ELSE x7[d]
  BY <1>1 DEF Files!TypeOK
<1>3. Files!TypeOK'
  BY <1>1 DEF Files!TypeOK
<1>4. Files!LockIsHeld' /\ Files!LineWaits'
  BY <1>1, FilesThreadsLeaveLock
<1>5. Files!ThreadsMatch' /\ Files!CopiesMatch'
  BY <1>1, <1>2 DEF Files!ThreadsMatch, Files!CopiesMatch
<1>6. Files!ContentIsMade'
  <2>. SUFFICES ASSUME ~x9 PROVE Files!ContentIsMade'
    BY <1>1 DEF Files!ContentIsMade
  <2>1. x3[c] # "writing"
    BY <1>1 DEF Files!ThreadsMatch
  <2>2. \A d \in Files!Calls : d # c => (Files!AtWork(d)' <=> Files!AtWork(d))
    BY <1>1, <1>2 DEF Files!AtWork, Files!Made
  <2>3. x3[c] = "reading" => x1 = x8
    BY DEF Files!LockIsHeld, Files!ContentIsMade
  <2>. QED BY <1>1, <1>2, <2>1, <2>2, <2>3 DEF Files!ContentIsMade
<1>. QED BY <1>3, <1>4, <1>5, <1>6

LEMMA FilesOpensKeeps ==
    ASSUME Files!FileToolsAssumption, Files!IInv, NEW c \in Files!Calls, Files!Opens(c)
    PROVE  Files!IInv'
<1>. USE DEF Files!IInv
<1>1. /\ x7[c] = "opening" /\ x1' = {} /\ x7' = [x7 EXCEPT ![c] = "filling"] /\ x6' = x6
      /\ x2' = x2 /\ x3' = x3 /\ x4' = x4 /\ x5' = x5 /\ x8' = x8 /\ x9' = x9
  BY DEF Files!Opens
<1>2. \A d \in Files!Calls : x7'[d] = IF d = c THEN "filling" ELSE x7[d]
  BY <1>1 DEF Files!TypeOK
<1>3. Files!TypeOK'
  BY <1>1 DEF Files!TypeOK
<1>4. Files!LockIsHeld' /\ Files!LineWaits'
  BY <1>1, FilesThreadsLeaveLock
<1>5. Files!ThreadsMatch' /\ Files!CopiesMatch'
  BY <1>1, <1>2 DEF Files!ThreadsMatch, Files!CopiesMatch
<1>6. Files!ContentIsMade'
  <2>. SUFFICES ASSUME ~x9 PROVE Files!ContentIsMade'
    BY <1>1 DEF Files!ContentIsMade
  <2>1. /\ x3[c] = "writing" /\ Files!AtWork(c) /\ x8 # {}
        /\ \A d \in Files!Calls \ {c} : x3[d] \notin {"locked", "reading", "writing"}
        /\ \A d \in Files!Calls : x3[d] = "cancelled" => x7[d] \in {"none", "reading", "counting"}
    BY <1>1, FilesWriterIsAlone
  <2>2. Files!AtWork(c)'
    BY <1>1, <1>2, <2>1 DEF Files!AtWork, Files!Made
  <2>. QED BY <1>1, <1>2, <2>1, <2>2 DEF Files!ContentIsMade
<1>. QED BY <1>3, <1>4, <1>5, <1>6

LEMMA FilesFillsKeeps ==
    ASSUME Files!FileToolsAssumption, Files!IInv, NEW c \in Files!Calls, Files!Fills(c)
    PROVE  Files!IInv'
<1>. USE DEF Files!IInv
<1>1. /\ x7[c] = "filling" /\ x1' = x6[c] /\ x7' = [x7 EXCEPT ![c] = "none"] /\ x6' = x6
      /\ x2' = x2 /\ x3' = x3 /\ x4' = x4 /\ x5' = x5 /\ x8' = x8 /\ x9' = x9
  BY DEF Files!Fills
<1>2. \A d \in Files!Calls : x7'[d] = IF d = c THEN "none" ELSE x7[d]
  BY <1>1 DEF Files!TypeOK
<1>3. Files!TypeOK'
  BY <1>1 DEF Files!TypeOK
<1>4. Files!LockIsHeld' /\ Files!LineWaits'
  BY <1>1, FilesThreadsLeaveLock
<1>5. Files!ThreadsMatch' /\ Files!CopiesMatch'
  BY <1>1, <1>2 DEF Files!ThreadsMatch, Files!CopiesMatch
<1>6. Files!ContentIsMade'
  <2>. SUFFICES ASSUME ~x9 PROVE Files!ContentIsMade'
    BY <1>1 DEF Files!ContentIsMade
  <2>1. /\ x3[c] = "writing" /\ Files!AtWork(c) /\ x8 # {}
        /\ \A d \in Files!Calls \ {c} : x3[d] \notin {"locked", "reading", "writing"}
        /\ \A d \in Files!Calls : x3[d] = "cancelled" => x7[d] \in {"none", "reading", "counting"}
    BY <1>1, FilesWriterIsAlone
  <2>2. Files!AtWork(c)'
    BY <1>1, <1>2, <2>1 DEF Files!AtWork, Files!Made
  <2>. QED BY <1>1, <1>2, <2>1, <2>2 DEF Files!ContentIsMade
<1>. QED BY <1>3, <1>4, <1>5, <1>6

LEMMA FilesFailsToFillKeeps ==
    ASSUME Files!FileToolsAssumption, Files!IInv, NEW c \in Files!Calls, Files!FailsToFill(c)
    PROVE  Files!IInv'
<1>. USE DEF Files!IInv
<1>1. /\ x7[c] = "filling" /\ x3[c] = "writing" /\ x7' = [x7 EXCEPT ![c] = "none"]
      /\ x3' = [x3 EXCEPT ![c] = "failed"] /\ x9' = TRUE
      /\ x1' = x1 /\ x2' = x2 /\ x5' = x5 /\ x6' = x6 /\ x8' = x8
  BY DEF Files!FailsToFill, Files!End
<1>2. x4 = c /\ x4' = None
  BY <1>1 DEF Files!LockIsHeld, Files!FailsToFill, Files!End
<1>3. /\ Files!LockIsHeld' /\ Files!LineWaits'
      /\ x3' \in [Files!Calls -> {"idle", "waiting", "locked", "reading", "writing"} \cup Files!Ended]
      /\ \A d \in Files!Calls : x3'[d] = IF d = c THEN "failed" ELSE x3[d]
  BY <1>1, <1>2, FilesHolderMoves
<1>4. \A d \in Files!Calls : x7'[d] = IF d = c THEN "none" ELSE x7[d]
  BY <1>1 DEF Files!TypeOK
<1>5. Files!TypeOK'
  BY <1>1, <1>2, <1>3 DEF Files!TypeOK
<1>6. Files!ThreadsMatch' /\ Files!CopiesMatch'
  BY <1>1, <1>3, <1>4 DEF Files!ThreadsMatch, Files!CopiesMatch
<1>7. Files!ContentIsMade'
  BY <1>1 DEF Files!ContentIsMade
<1>. QED BY <1>3, <1>5, <1>6, <1>7

LEMMA FilesCopiesKeeps ==
    ASSUME Files!FileToolsAssumption, Files!IInv, NEW c \in Files!Calls, Files!Copies(c)
    PROVE  Files!IInv'
<1>. USE DEF Files!IInv
<1>. DEFINE copy == IF x1 = {} THEN {} ELSE x1 \cup {c}
<1>1. /\ x7[c] = "copying" /\ x6' = [x6 EXCEPT ![c] = copy] /\ x2' = x2 \cup {c}
      /\ x7' = [x7 EXCEPT ![c] = "replacing"]
      /\ x1' = x1 /\ x3' = x3 /\ x4' = x4 /\ x5' = x5 /\ x8' = x8 /\ x9' = x9
  BY DEF Files!Copies
<1>2. /\ \A d \in Files!Calls : x6'[d] = IF d = c THEN copy ELSE x6[d]
      /\ \A d \in Files!Calls : x7'[d] = IF d = c THEN "replacing" ELSE x7[d]
  BY <1>1 DEF Files!TypeOK
<1>3. Files!TypeOK'
  BY <1>1 DEF Files!TypeOK
<1>4. Files!LockIsHeld' /\ Files!LineWaits'
  BY <1>1, FilesThreadsLeaveLock
<1>5. Files!ThreadsMatch' /\ Files!CopiesMatch'
  BY <1>1, <1>2 DEF Files!ThreadsMatch, Files!CopiesMatch
<1>6. Files!ContentIsMade'
  <2>. SUFFICES ASSUME ~x9 PROVE Files!ContentIsMade'
    BY <1>1 DEF Files!ContentIsMade
  <2>1. /\ x3[c] = "writing" /\ Files!AtWork(c) /\ x8 # {}
        /\ \A d \in Files!Calls \ {c} : x3[d] \notin {"locked", "reading", "writing"}
        /\ \A d \in Files!Calls : x3[d] = "cancelled" => x7[d] \in {"none", "reading", "counting"}
    BY <1>1, FilesWriterIsAlone
  <2>2. c \notin WriteCalls
    BY <1>1 DEF Files!ThreadsMatch, Files!FileToolsAssumption
  <2>3. Files!AtWork(c)'
    BY <1>1, <1>2, <2>1, <2>2 DEF Files!AtWork, Files!Made
  <2>. QED BY <1>1, <1>2, <2>1, <2>3 DEF Files!ContentIsMade
<1>. QED BY <1>3, <1>4, <1>5, <1>6

LEMMA FilesReplacesKeeps ==
    ASSUME Files!FileToolsAssumption, Files!IInv, NEW c \in Files!Calls, Files!Replaces(c)
    PROVE  Files!IInv'
<1>. USE DEF Files!IInv
<1>1. /\ x7[c] = "replacing" /\ x1' = x6[c] /\ x2' = x2 \ {c} /\ x7' = [x7 EXCEPT ![c] = "none"]
      /\ x3' = x3 /\ x4' = x4 /\ x5' = x5 /\ x6' = x6 /\ x8' = x8 /\ x9' = x9
  BY DEF Files!Replaces
<1>2. \A d \in Files!Calls : x7'[d] = IF d = c THEN "none" ELSE x7[d]
  BY <1>1 DEF Files!TypeOK
<1>3. Files!TypeOK'
  BY <1>1 DEF Files!TypeOK
<1>4. Files!LockIsHeld' /\ Files!LineWaits'
  BY <1>1, FilesThreadsLeaveLock
<1>5. Files!ThreadsMatch' /\ Files!CopiesMatch'
  BY <1>1, <1>2 DEF Files!ThreadsMatch, Files!CopiesMatch
<1>6. Files!ContentIsMade'
  <2>. SUFFICES ASSUME ~x9 PROVE Files!ContentIsMade'
    BY <1>1 DEF Files!ContentIsMade
  <2>1. /\ x3[c] = "writing" /\ Files!AtWork(c) /\ x8 # {}
        /\ \A d \in Files!Calls \ {c} : x3[d] \notin {"locked", "reading", "writing"}
        /\ \A d \in Files!Calls : x3[d] = "cancelled" => x7[d] \in {"none", "reading", "counting"}
    BY <1>1, FilesWriterIsAlone
  <2>2. Files!AtWork(c)'
    BY <1>1, <1>2, <2>1 DEF Files!AtWork, Files!Made
  <2>. QED BY <1>1, <1>2, <2>1, <2>2 DEF Files!ContentIsMade
<1>. QED BY <1>3, <1>4, <1>5, <1>6

LEMMA FilesFailsToCopyKeeps ==
    ASSUME Files!FileToolsAssumption, Files!IInv, NEW c \in Files!Calls, Files!FailsToCopy(c)
    PROVE  Files!IInv'
<1>. USE DEF Files!IInv
<1>1. /\ x7[c] = "replacing" /\ x2' = x2 \ {c} /\ x7' = [x7 EXCEPT ![c] = "none"]
      /\ x1' = x1 /\ x5' = x5 /\ x6' = x6 /\ x8' = x8 /\ x9' = x9
  BY DEF Files!FailsToCopy, Files!Unlinked
<1>2. \A d \in Files!Calls : x7'[d] = IF d = c THEN "none" ELSE x7[d]
  BY <1>1 DEF Files!TypeOK
<1>3. CASE x3[c] = "writing"
  <2>1. x3' = [x3 EXCEPT ![c] = "failed"] /\ x4' = None
    BY <1>3 DEF Files!FailsToCopy, Files!End, Files!LockIsHeld
  <2>2. /\ Files!LockIsHeld' /\ Files!LineWaits'
        /\ x3' \in [Files!Calls -> {"idle", "waiting", "locked", "reading", "writing"} \cup Files!Ended]
        /\ \A d \in Files!Calls : x3'[d] = IF d = c THEN "failed" ELSE x3[d]
        /\ \A d \in Files!Calls \ {c} : x3[d] \notin {"locked", "reading", "writing"}
    BY <1>1, <1>3, <2>1, FilesHolderMoves
  <2>3. Files!TypeOK'
    BY <1>1, <2>1, <2>2 DEF Files!TypeOK
  <2>4. Files!ThreadsMatch' /\ Files!CopiesMatch'
    BY <1>1, <1>2, <2>2 DEF Files!ThreadsMatch, Files!CopiesMatch
  <2>5. Files!ContentIsMade'
    <3>. SUFFICES ASSUME ~x9 PROVE Files!ContentIsMade'
      BY <1>1 DEF Files!ContentIsMade
    <3>1. /\ Files!AtWork(c) /\ x8 # {}
          /\ \A d \in Files!Calls : x3[d] = "cancelled" => x7[d] \in {"none", "reading", "counting"}
      BY <1>1, FilesWriterIsAlone
    <3>2. x1 = x8
      BY <1>1, <3>1 DEF Files!AtWork
    <3>. QED BY <1>1, <1>2, <2>2, <3>1, <3>2 DEF Files!ContentIsMade
  <2>. QED BY <2>2, <2>3, <2>4, <2>5
<1>4. CASE x3[c] # "writing"
  <2>1. x3' = x3 /\ x4' = x4
    BY <1>4 DEF Files!FailsToCopy
  <2>2. x9
    BY <1>1, <1>4, FilesWriterIsAlone
  <2>3. Files!LockIsHeld' /\ Files!LineWaits'
    BY <1>1, <2>1, FilesThreadsLeaveLock
  <2>4. Files!TypeOK'
    BY <1>1, <2>1 DEF Files!TypeOK
  <2>5. Files!ThreadsMatch' /\ Files!CopiesMatch'
    BY <1>1, <1>2, <2>1 DEF Files!ThreadsMatch, Files!CopiesMatch
  <2>6. Files!ContentIsMade'
    BY <1>1, <2>2 DEF Files!ContentIsMade
  <2>. QED BY <2>3, <2>4, <2>5, <2>6
<1>. QED BY <1>3, <1>4

LEMMA FilesStutterKeeps ==
    ASSUME Files!IInv, UNCHANGED Files!vars
    PROVE  Files!IInv'
<1>1. UNCHANGED <<x1, x2, x3, x4, x5, x6, x7, x8, x9>>
  BY DEF Files!vars
<1>. QED BY <1>1 DEF Files!IInv, Files!TypeOK, Files!LockIsHeld, Files!LineWaits, Files!ThreadsMatch, Files!CopiesMatch, Files!ContentIsMade, Files!AtWork, Files!Made

LEMMA FilesStepKeeps ==
    ASSUME Files!FileToolsAssumption, Files!IInv, [Files!Next]_(Files!vars)
    PROVE  Files!IInv'
<1>1. ASSUME NEW c \in Files!Calls, Files!Begin(c) \/ Files!Acquire(c) PROVE Files!IInv'
  BY <1>1, FilesBeginKeeps, FilesAcquireKeeps
<1>2. ASSUME NEW c \in Files!Calls, Files!Write(c) \/ Files!Read(c) \/ Files!Match(c) PROVE Files!IInv'
  BY <1>2, FilesWriteKeeps, FilesReadKeeps, FilesMatchKeeps
<1>3. ASSUME NEW c \in Files!Calls, Files!Succeed(c) \/ Files!Cancel(c) \/ Files!Reads(c) PROVE Files!IInv'
  BY <1>3, FilesSucceedKeeps, FilesCancelKeeps, FilesReadsKeeps
<1>4. ASSUME NEW c \in Files!Calls, Files!Opens(c) \/ Files!Fills(c) \/ Files!FailsToFill(c) PROVE Files!IInv'
  BY <1>4, FilesOpensKeeps, FilesFillsKeeps, FilesFailsToFillKeeps
<1>5. ASSUME NEW c \in Files!Calls, Files!Copies(c) \/ Files!Replaces(c) \/ Files!FailsToCopy(c) PROVE Files!IInv'
  BY <1>5, FilesCopiesKeeps, FilesReplacesKeeps, FilesFailsToCopyKeeps
<1>6. CASE UNCHANGED Files!vars
  BY <1>6, FilesStutterKeeps
<1>. QED BY <1>1, <1>2, <1>3, <1>4, <1>5, <1>6 DEF Files!Next

\* Calls on one file take its lock in turn, whatever is cancelled or fails and however long threads outlive
\* their calls: the content is that of whole calls, one after the other, and copies belong to calls at work.
THEOREM FilesAlwaysGood ==
    ASSUME Files!FileToolsAssumption
    PROVE  Files!Spec => []Files!IInv
BY FilesInitIsGood, FilesStepKeeps, PTL DEF Files!Spec

\* What the runs check of the calls on a file follows from the invariant.
LEMMA FilesGoodIsSerial ==
    ASSUME Files!IInv
    PROVE  Files!EditsAreSerial /\ Files!OneAtWork /\ Files!NoCopyIsLeft
<1>1. Files!EditsAreSerial
  BY DEF Files!IInv, Files!EditsAreSerial, Files!ContentIsMade
<1>2. Files!OneAtWork
  BY DEF Files!IInv, Files!OneAtWork, Files!ThreadsMatch, Files!LockIsHeld, Files!TypeOK, Files!Ended
<1>3. Files!NoCopyIsLeft
  BY DEF Files!IInv, Files!NoCopyIsLeft, Files!CopiesMatch, Files!TypeOK
<1>. QED BY <1>1, <1>2, <1>3

-----------------------------------------------------------------------------
(* Calls that start processes *)

\* In the runs a shell, a python with a timeout and a pytest, in one place.
Processes == INSTANCE ProcessTools WITH
    pc <- x1, value <- x2, queue <- x3, signal <- x4, leader <- x5, family <- x6, result <- x7, fired <- x8

LEMMA ProcessesLineOfCalls ==
    ASSUME NEW q, NEW S, q \in Seq(S), NEW c, \A i, j \in 1..Len(q) : q[i] = q[j] => i = j
    PROVE  /\ /\ Processes!Without(q, c) \in Seq(S) /\ Processes!ToSet(Processes!Without(q, c)) = Processes!ToSet(q) \ {c}
              /\ \A i, j \in 1..Len(Processes!Without(q, c)) : Processes!Without(q, c)[i] = Processes!Without(q, c)[j] => i = j
           /\ q # <<>> =>
                 /\ Tail(q) \in Seq(S) /\ Processes!ToSet(Tail(q)) = Processes!ToSet(q) \ {Head(q)} /\ Head(q) \in Processes!ToSet(q)
                 /\ \A i, j \in 1..Len(Tail(q)) : Tail(q)[i] = Tail(q)[j] => i = j
           /\ c \in S /\ c \notin Processes!ToSet(q) =>
                 /\ Append(q, c) \in Seq(S) /\ Processes!ToSet(Append(q, c)) = Processes!ToSet(q) \cup {c}
                 /\ \A i, j \in 1..Len(Append(q, c)) : Append(q, c)[i] = Append(q, c)[j] => i = j
<1>1. Distinct(q)
  BY DEF Distinct
<1>2. Processes!Without(q, c) = Leaving(q, c)
  BY DEF Processes!Without, Leaving, Processes!RemoveAt, RemoveAt
<1>3. \A p : Processes!ToSet(p) = ToSet(p)
  BY DEF Processes!ToSet, ToSet
<1>4. Leaving(q, c) \in Seq(S) /\ Distinct(Leaving(q, c)) /\ ToSet(Leaving(q, c)) = ToSet(q) \ {c}
  BY <1>1, LineIsLeft
<1>5. q # <<>> => Tail(q) \in Seq(S) /\ Distinct(Tail(q)) /\ ToSet(Tail(q)) = ToSet(q) \ {Head(q)} /\ Head(q) \in ToSet(q)
  BY <1>1, LineMoves
<1>6. c \in S /\ c \notin ToSet(q) => Append(q, c) \in Seq(S) /\ Distinct(Append(q, c)) /\ ToSet(Append(q, c)) = ToSet(q) \cup {c}
  BY <1>1, LineGrows
<1>. QED BY <1>2, <1>3, <1>4, <1>5, <1>6 DEF Distinct


LEMMA ProcessesFewerHolders ==
    ASSUME Processes!ProcessToolsAssumption, NEW H \in SUBSET Processes!Limited, NEW A \in SUBSET H
    PROVE  /\ Processes!Cardinality(H) \in Nat /\ Processes!Cardinality(A) \in Nat
           /\ Processes!Cardinality(A) <= Processes!Cardinality(H)
<1>1. IsFiniteSet(Processes!Limited)
  BY DEF Processes!ProcessToolsAssumption, Processes!Limited, Processes!IsFiniteSet, IsFiniteSet
<1>2. IsFiniteSet(H)
  BY <1>1, FS_Subset
<1>3. IsFiniteSet(A) /\ Cardinality(A) <= Cardinality(H)
  BY <1>2, FS_Subset
<1>4. Cardinality(H) \in Nat /\ Cardinality(A) \in Nat
  BY <1>2, <1>3, FS_CardinalityType
<1>5. Processes!Cardinality(A) = Cardinality(A) /\ Processes!Cardinality(H) = Cardinality(H)
  BY DEF Processes!Cardinality, Cardinality
<1>. QED BY <1>3, <1>4, <1>5

LEMMA ProcessesOneHolder ==
    ASSUME Processes!ProcessToolsAssumption, NEW H \in SUBSET Processes!Limited, NEW c
    PROVE  /\ c \notin H => Processes!Cardinality(H \cup {c}) = Processes!Cardinality(H) + 1
           /\ c \in H => Processes!Cardinality(H \ {c}) = Processes!Cardinality(H) - 1
<1>1. IsFiniteSet(Processes!Limited)
  BY DEF Processes!ProcessToolsAssumption, Processes!Limited, Processes!IsFiniteSet, IsFiniteSet
<1>2. IsFiniteSet(H)
  BY <1>1, FS_Subset
<1>3. c \notin H => Cardinality(H \cup {c}) = Cardinality(H) + 1
  BY <1>2, FS_AddElement
<1>4. c \in H => Cardinality(H \ {c}) = Cardinality(H) - 1
  BY <1>2, FS_RemoveElement
<1>5. \A G : Processes!Cardinality(G) = Cardinality(G)
  BY DEF Processes!Cardinality, Cardinality
<1>. QED BY <1>3, <1>4, <1>5

LEMMA ProcessesNoSlots == Processes!Cardinality({}) = 0
BY FS_EmptySet DEF Processes!Cardinality, Cardinality

LEMMA ProcessesInitIsGood ==
    ASSUME Processes!ProcessToolsAssumption, Processes!Init
    PROVE  Processes!IInv
<1>1. /\ \A c \in Processes!Calls : x1[c] = "idle" /\ x5[c] = "none" /\ x6[c] = {} /\ x7[c] = Processes!NoResult /\ x8[c] = "none"
      /\ x2 = Limit /\ x3 = <<>>
  BY DEF Processes!Init
<1>2. Processes!ToSet(<<>>) = {} /\ <<>> \in Seq(Processes!Limited) /\ Len(<<>>) = 0
  BY DEF Processes!ToSet
<1>3. Limit \in Nat
  BY DEF Processes!ProcessToolsAssumption
<1>4. Processes!TypeOK
  <2>1. Processes!ToSet(x3) \subseteq Processes!Limited /\ x2 \in 0..Limit
    BY <1>1, <1>2, <1>3
  <2>2. Processes!NoResult \in [ok : BOOLEAN, status : {"none", "timeout", "signal", "exit"}]
    BY DEF Processes!NoResult
  <2>. QED BY <2>1, <2>2 DEF Processes!TypeOK, Processes!Init
<1>5. Processes!LineWaits /\ Processes!LeadersMatch /\ Processes!FiredMatch /\ Processes!GroupIsGone /\ Processes!AnswersAreTrue
  BY <1>1, <1>2 DEF Processes!LineWaits, Processes!LeadersMatch, Processes!FiredMatch, Processes!GroupIsGone, Processes!AnswersAreTrue
<1>6. Processes!Holders = {} /\ {c \in Processes!Limited : x5[c] = "alive"} = {}
  BY <1>1 DEF Processes!Holders, Processes!Calls
<1>7. Processes!LimitIsKept
  <2>1. Processes!Cardinality(Processes!Holders) = 0
    BY <1>6, ProcessesNoSlots
  <2>2. Processes!Cardinality({c \in Processes!Limited : x5[c] = "alive"}) = 0
    BY <1>6, ProcessesNoSlots
  <2>. QED BY <1>1, <1>3, <2>1, <2>2 DEF Processes!LimitIsKept
<1>. QED BY <1>4, <1>5, <1>7 DEF Processes!IInv

\* The limit follows from the count of the slots.
LEMMA ProcessesSlotsKeepLimit ==
    ASSUME Processes!ProcessToolsAssumption, Processes!LeadersMatch', x2' \in Nat, x2' + Processes!Cardinality(Processes!Holders') = Limit,
           x3' # <<>> => x2' = 0
    PROVE  Processes!LimitIsKept' /\ x2' \in 0..Limit
<1>. DEFINE A == {c \in Processes!Limited : x5'[c] = "alive"}
<1>1. A \in SUBSET Processes!Holders' /\ Processes!Holders' \in SUBSET Processes!Limited
  BY DEF Processes!LeadersMatch, Processes!Holders, Processes!Calls
<1>2. Processes!Cardinality(A) \in Nat /\ Processes!Cardinality(Processes!Holders') \in Nat /\ Processes!Cardinality(A) <= Processes!Cardinality(Processes!Holders')
  <2>. DEFINE H == Processes!Holders'
  <2>. HIDE DEF A, H
  <2>1. H \in SUBSET Processes!Limited /\ A \in SUBSET H
    BY <1>1 DEF H
  <2>2. Processes!Cardinality(H) \in Nat /\ Processes!Cardinality(A) \in Nat /\ Processes!Cardinality(A) <= Processes!Cardinality(H)
    BY <2>1, ProcessesFewerHolders
  <2>. QED BY <2>2 DEF H
<1>3. Limit \in Nat
  BY DEF Processes!ProcessToolsAssumption
<1>. QED BY <1>2, <1>3 DEF Processes!LimitIsKept

\* A step that neither starts to wait nor takes or leaves a slot.
LEMMA ProcessesSlotsStay ==
    ASSUME Processes!ProcessToolsAssumption, Processes!IInv, x2' = x2, x3' = x3, Processes!LeadersMatch',
           \A d \in Processes!Calls :
               /\ x1'[d] = "waiting" <=> x1[d] = "waiting"
               /\ d \in Processes!Limited => (x1'[d] \in {"starting", "spawning", "running", "killed"} <=> x1[d] \in {"starting", "spawning", "running", "killed"})
    PROVE  Processes!LineWaits' /\ Processes!LimitIsKept'
<1>1. {d \in Processes!Calls : x1'[d] = "waiting"} = {d \in Processes!Calls : x1[d] = "waiting"}
  <2>1. \A d \in Processes!Calls : x1'[d] = "waiting" <=> x1[d] = "waiting"
    OBVIOUS
  <2>. QED BY <2>1
<1>2. Processes!LineWaits'
  BY <1>1 DEF Processes!IInv, Processes!LineWaits
<1>3. Processes!Holders' = Processes!Holders
  <2>1. \A d \in Processes!Limited : x1'[d] \in {"starting", "spawning", "running", "killed"} <=> x1[d] \in {"starting", "spawning", "running", "killed"}
    BY DEF Processes!Calls
  <2>. QED BY <2>1 DEF Processes!Holders
<1>4. x2' \in Nat /\ x2' + Processes!Cardinality(Processes!Holders') = Limit /\ (x3' # <<>> => x2' = 0)
  BY <1>3 DEF Processes!IInv, Processes!TypeOK, Processes!LimitIsKept
<1>. QED BY <1>2, <1>4, ProcessesSlotsKeepLimit

LEMMA ProcessesRefuseKeeps ==
    ASSUME Processes!ProcessToolsAssumption, Processes!IInv, NEW c \in Processes!Calls, Processes!Refuse(c)
    PROVE  Processes!IInv'
<1>. USE DEF Processes!IInv
<1>1. /\ x1[c] = "idle" /\ x1' = [x1 EXCEPT ![c] = "refused"] /\ x2' = x2 /\ x3' = x3 /\ x4' = x4
      /\ x5' = x5 /\ x6' = x6 /\ x7' = x7 /\ x8' = x8
  BY DEF Processes!Refuse
<1>2. \A d \in Processes!Calls : x1'[d] = IF d = c THEN "refused" ELSE x1[d]
  BY <1>1 DEF Processes!TypeOK
<1>3. Processes!TypeOK'
  BY <1>1 DEF Processes!TypeOK, Processes!Over
<1>4. Processes!LeadersMatch' /\ Processes!FiredMatch' /\ Processes!GroupIsGone' /\ Processes!AnswersAreTrue'
  BY <1>1, <1>2 DEF Processes!LeadersMatch, Processes!FiredMatch, Processes!GroupIsGone, Processes!AnswersAreTrue
<1>5. Processes!LineWaits' /\ Processes!LimitIsKept'
  BY <1>1, <1>2, <1>4, ProcessesSlotsStay
<1>. QED BY <1>3, <1>4, <1>5

LEMMA ProcessesEnterKeeps ==
    ASSUME Processes!ProcessToolsAssumption, Processes!IInv, NEW c \in Processes!Limited, Processes!Enter(c)
    PROVE  Processes!IInv'
<1>. USE DEF Processes!IInv
<1>. c \in Processes!Calls
  BY DEF Processes!Calls
<1>1. /\ x1[c] = "idle" /\ x4' = x4 /\ x5' = x5 /\ x6' = x6 /\ x7' = x7 /\ x8' = x8
      /\ \/ x2 > 0 /\ x3 = <<>> /\ x1' = [x1 EXCEPT ![c] = "starting"] /\ x2' = x2 - 1 /\ x3' = x3
         \/ /\ ~(x2 > 0 /\ x3 = <<>>)
            /\ x1' = [x1 EXCEPT ![c] = "waiting"] /\ x3' = Append(x3, c) /\ x2' = x2
  BY DEF Processes!Enter
<1>2. x2 \in Nat /\ x2 <= Limit /\ Limit \in Nat
  BY DEF Processes!TypeOK, Processes!ProcessToolsAssumption
<1>3. Processes!Holders \in SUBSET Processes!Limited /\ c \notin Processes!Holders /\ x2 + Processes!Cardinality(Processes!Holders) = Limit
  BY <1>1 DEF Processes!Holders, Processes!LimitIsKept
<1>4. CASE x2 > 0 /\ x3 = <<>>
  <2>1. x1' = [x1 EXCEPT ![c] = "starting"] /\ x2' = x2 - 1 /\ x3' = x3
    BY <1>1, <1>4
  <2>2. \A d \in Processes!Calls : x1'[d] = IF d = c THEN "starting" ELSE x1[d]
    BY <2>1 DEF Processes!TypeOK
  <2>3. Processes!LeadersMatch' /\ Processes!FiredMatch' /\ Processes!GroupIsGone' /\ Processes!AnswersAreTrue'
    BY <1>1, <2>2 DEF Processes!LeadersMatch, Processes!FiredMatch, Processes!GroupIsGone, Processes!AnswersAreTrue
  <2>4. Processes!Holders' = Processes!Holders \cup {c}
    BY <2>2 DEF Processes!Holders, Processes!Calls
  <2>5. Processes!Cardinality(Processes!Holders') = Processes!Cardinality(Processes!Holders) + 1
    BY <1>3, <2>4, ProcessesOneHolder
  <2>6. x2' \in Nat /\ x2' + Processes!Cardinality(Processes!Holders') = Limit /\ (x3' # <<>> => x2' = 0)
    <3>1. Processes!Cardinality(Processes!Holders) \in Nat
      BY <1>3, ProcessesFewerHolders
    <3>. QED BY <1>2, <1>3, <1>4, <2>1, <2>5, <3>1
  <2>7. Processes!LimitIsKept' /\ x2' \in 0..Limit
    BY <2>3, <2>6, ProcessesSlotsKeepLimit
  <2>8. {d \in Processes!Calls : x1'[d] = "waiting"} = {d \in Processes!Calls : x1[d] = "waiting"}
    BY <1>1, <2>2
  <2>9. Processes!LineWaits'
    BY <2>1, <2>8 DEF Processes!LineWaits
  <2>10. Processes!TypeOK'
    BY <1>1, <2>1, <2>7 DEF Processes!TypeOK
  <2>. QED BY <2>3, <2>7, <2>9, <2>10
<1>5. CASE ~(x2 > 0 /\ x3 = <<>>)
  <2>1. x1' = [x1 EXCEPT ![c] = "waiting"] /\ x3' = Append(x3, c) /\ x2' = x2
    BY <1>1, <1>5
  <2>2. \A d \in Processes!Calls : x1'[d] = IF d = c THEN "waiting" ELSE x1[d]
    BY <2>1 DEF Processes!TypeOK
  <2>3. Processes!LeadersMatch' /\ Processes!FiredMatch' /\ Processes!GroupIsGone' /\ Processes!AnswersAreTrue'
    BY <1>1, <2>2 DEF Processes!LeadersMatch, Processes!FiredMatch, Processes!GroupIsGone, Processes!AnswersAreTrue
  <2>4. Processes!Holders' = Processes!Holders
    BY <1>1, <2>2 DEF Processes!Holders, Processes!Calls
  <2>5. x2 = 0
    BY <1>2, <1>5 DEF Processes!LimitIsKept
  <2>6. x2' \in Nat /\ x2' + Processes!Cardinality(Processes!Holders') = Limit /\ (x3' # <<>> => x2' = 0)
    BY <1>2, <1>3, <2>1, <2>4, <2>5
  <2>7. Processes!LimitIsKept' /\ x2' \in 0..Limit
    BY <2>3, <2>6, ProcessesSlotsKeepLimit
  <2>8. {d \in Processes!Calls : x1'[d] = "waiting"} = {d \in Processes!Calls : x1[d] = "waiting"} \cup {c}
    BY <2>2
  <2>9. c \notin Processes!ToSet(x3)
    BY <1>1 DEF Processes!LineWaits
  <2>10. /\ Append(x3, c) \in Seq(Processes!Limited) /\ Processes!ToSet(Append(x3, c)) = Processes!ToSet(x3) \cup {c}
         /\ \A i, j \in 1..Len(Append(x3, c)) : Append(x3, c)[i] = Append(x3, c)[j] => i = j
    BY <2>9, ProcessesLineOfCalls DEF Processes!LineWaits
  <2>11. Processes!LineWaits'
    BY <2>1, <2>8, <2>10 DEF Processes!LineWaits
  <2>12. Processes!ToSet(x3') \subseteq Processes!Limited
    BY <2>1, <2>10 DEF Processes!TypeOK
  <2>13. Processes!TypeOK'
    BY <1>1, <2>1, <2>7, <2>12 DEF Processes!TypeOK
  <2>. QED BY <2>3, <2>7, <2>11, <2>13
<1>. QED BY <1>4, <1>5

LEMMA ProcessesBeginShellKeeps ==
    ASSUME Processes!ProcessToolsAssumption, Processes!IInv, NEW c \in Processes!Calls, Processes!BeginShell(c)
    PROVE  Processes!IInv'
<1>. USE DEF Processes!IInv
<1>1. /\ c \in Shells /\ x1[c] = "idle" /\ x1' = [x1 EXCEPT ![c] = "starting"] /\ x2' = x2 /\ x3' = x3
      /\ x4' = x4 /\ x5' = x5 /\ x6' = x6 /\ x7' = x7 /\ x8' = x8
  BY DEF Processes!BeginShell
<1>2. \A d \in Processes!Calls : x1'[d] = IF d = c THEN "starting" ELSE x1[d]
  BY <1>1 DEF Processes!TypeOK
<1>3. c \notin Processes!Limited
  BY <1>1 DEF Processes!ProcessToolsAssumption, Processes!Limited
<1>4. Processes!TypeOK'
  BY <1>1 DEF Processes!TypeOK
<1>5. Processes!LeadersMatch' /\ Processes!FiredMatch' /\ Processes!GroupIsGone' /\ Processes!AnswersAreTrue'
  BY <1>1, <1>2 DEF Processes!LeadersMatch, Processes!FiredMatch, Processes!GroupIsGone, Processes!AnswersAreTrue
<1>6. Processes!LineWaits' /\ Processes!LimitIsKept'
  BY <1>1, <1>2, <1>3, <1>5, ProcessesSlotsStay
<1>. QED BY <1>4, <1>5, <1>6

LEMMA ProcessesStartedKeeps ==
    ASSUME Processes!ProcessToolsAssumption, Processes!IInv, NEW c \in Processes!Calls, Processes!Started(c)
    PROVE  Processes!IInv'
<1>. USE DEF Processes!IInv
<1>1. /\ x1[c] = "spawning" /\ x1' = [x1 EXCEPT ![c] = "running"]
      /\ x2' = x2 /\ x3' = x3 /\ x4' = x4 /\ x5' = x5 /\ x6' = x6
      /\ x7' = x7 /\ x8' = x8
  BY DEF Processes!Started
<1>2. \A d \in Processes!Calls : x1'[d] = IF d = c THEN "running" ELSE x1[d]
  BY <1>1 DEF Processes!TypeOK
<1>3. Processes!TypeOK'
  BY <1>1 DEF Processes!TypeOK
<1>4. Processes!LeadersMatch' /\ Processes!FiredMatch' /\ Processes!GroupIsGone' /\ Processes!AnswersAreTrue'
  BY <1>1, <1>2 DEF Processes!LeadersMatch, Processes!FiredMatch, Processes!GroupIsGone, Processes!AnswersAreTrue
<1>5. Processes!LineWaits' /\ Processes!LimitIsKept'
  BY <1>1, <1>2, <1>4, ProcessesSlotsStay
<1>. QED BY <1>3, <1>4, <1>5

\* A kill leaves no live leader and no child of its group.
LEMMA ProcessesKillEnds ==
    ASSUME Processes!IInv, NEW c \in Processes!Calls, Processes!Kill(c)
    PROVE  /\ x5' \in [Processes!Calls -> {"none", "alive", "zero", "other", "killed"}]
           /\ x6' \in [Processes!Calls -> SUBSET {"child", "stray"}]
           /\ \A d \in Processes!Calls : x5'[d] = IF d = c /\ x5[d] = "alive" THEN "killed" ELSE x5[d]
           /\ \A d \in Processes!Calls : x6'[d] = IF d = c THEN x6[d] \ {"child"} ELSE x6[d]
<1>1. /\ x5' = [x5 EXCEPT ![c] = IF x5[c] = "alive" THEN "killed" ELSE x5[c]]
      /\ x6' = [x6 EXCEPT ![c] = x6[c] \ {"child"}]
  BY DEF Processes!Kill, Processes!KillLeader, Processes!Killed
<1>. QED BY <1>1 DEF Processes!IInv, Processes!TypeOK

LEMMA ProcessesInterruptKeeps ==
    ASSUME Processes!ProcessToolsAssumption, Processes!IInv, NEW c \in Processes!Calls, Processes!Interrupt(c)
    PROVE  Processes!IInv'
<1>. USE DEF Processes!IInv
<1>1. PICK why \in {"timeout", "signal"} : x8' = [x8 EXCEPT ![c] = why]
  BY DEF Processes!Interrupt
<1>2. /\ x1[c] = "running" /\ x1' = [x1 EXCEPT ![c] = "killed"]
      /\ x2' = x2 /\ x3' = x3 /\ x4' = x4 /\ x7' = x7
  BY DEF Processes!Interrupt
<1>3. /\ x5' \in [Processes!Calls -> {"none", "alive", "zero", "other", "killed"}]
      /\ x6' \in [Processes!Calls -> SUBSET {"child", "stray"}]
      /\ \A d \in Processes!Calls : x5'[d] = IF d = c /\ x5[d] = "alive" THEN "killed" ELSE x5[d]
      /\ \A d \in Processes!Calls : x6'[d] = IF d = c THEN x6[d] \ {"child"} ELSE x6[d]
  BY ProcessesKillEnds DEF Processes!Interrupt
<1>4. /\ \A d \in Processes!Calls : x1'[d] = IF d = c THEN "killed" ELSE x1[d]
      /\ \A d \in Processes!Calls : x8'[d] = IF d = c THEN why ELSE x8[d]
  BY <1>1, <1>2 DEF Processes!TypeOK
<1>5. Processes!TypeOK'
  BY <1>1, <1>2, <1>3 DEF Processes!TypeOK
<1>6. Processes!LeadersMatch' /\ Processes!FiredMatch' /\ Processes!GroupIsGone' /\ Processes!AnswersAreTrue'
  BY <1>2, <1>3, <1>4 DEF Processes!LeadersMatch, Processes!FiredMatch, Processes!GroupIsGone, Processes!AnswersAreTrue
<1>7. Processes!LineWaits' /\ Processes!LimitIsKept'
  BY <1>2, <1>4, <1>6, ProcessesSlotsStay
<1>. QED BY <1>5, <1>6, <1>7

\* How a call of python or pytest ends: its slot is free, or the first of the line has it.
LEMMA ProcessesSlotIsHanded ==
    ASSUME Processes!ProcessToolsAssumption, Processes!IInv, NEW c \in Processes!Limited, NEW to \in {"answered", "raised", "dropped"},
           x1[c] \in {"starting", "spawning", "running", "killed"}, Processes!Handed, x1' = Processes!Woken([x1 EXCEPT ![c] = to]), Processes!LeadersMatch'
    PROVE  /\ x1' \in [Processes!Calls -> {"idle", "waiting", "starting", "spawning", "running", "killed"} \cup Processes!Over]
           /\ Processes!LineWaits' /\ Processes!LimitIsKept' /\ x2' \in 0..Limit /\ Processes!ToSet(x3') \subseteq Processes!Limited
<1>. USE DEF Processes!IInv
<1>. c \in Processes!Calls
  BY DEF Processes!Calls
<1>1. x2 \in Nat /\ x2 <= Limit /\ Limit \in Nat
  BY DEF Processes!TypeOK, Processes!ProcessToolsAssumption
<1>2. Processes!Holders \in SUBSET Processes!Limited /\ c \in Processes!Holders /\ x2 + Processes!Cardinality(Processes!Holders) = Limit
  BY DEF Processes!Holders, Processes!LimitIsKept
<1>3. Processes!Cardinality(Processes!Holders \ {c}) = Processes!Cardinality(Processes!Holders) - 1 /\ Processes!Cardinality(Processes!Holders) \in Nat /\ Processes!Cardinality(Processes!Holders \ {c}) \in Nat
  <2>1. Processes!Holders \ {c} \in SUBSET Processes!Holders
    OBVIOUS
  <2>. QED BY <1>2, <2>1, ProcessesOneHolder, ProcessesFewerHolders
<1>4. CASE x3 = <<>>
  <2>1. x2' = x2 + 1 /\ x3' = x3
    BY <1>4 DEF Processes!Handed
  <2>2. x1' = [d \in Processes!Calls |-> IF d = c THEN to ELSE x1[d]]
    BY <1>4 DEF Processes!Woken, Processes!TypeOK
  <2>3. Processes!Holders' = Processes!Holders \ {c}
    BY <2>2 DEF Processes!Holders, Processes!Calls
  <2>4. x2' \in Nat /\ x2' + Processes!Cardinality(Processes!Holders') = Limit /\ (x3' # <<>> => x2' = 0)
    BY <1>1, <1>2, <1>3, <1>4, <2>1, <2>3
  <2>5. Processes!LimitIsKept' /\ x2' \in 0..Limit
    BY <2>4, ProcessesSlotsKeepLimit
  <2>6. {d \in Processes!Calls : x1'[d] = "waiting"} = {d \in Processes!Calls : x1[d] = "waiting"}
    BY <2>2
  <2>7. Processes!LineWaits'
    BY <2>1, <2>6 DEF Processes!LineWaits
  <2>8. x1' \in [Processes!Calls -> {"idle", "waiting", "starting", "spawning", "running", "killed"} \cup Processes!Over]
    BY <2>2 DEF Processes!TypeOK, Processes!Over
  <2>. QED BY <2>1, <2>5, <2>7, <2>8 DEF Processes!TypeOK
<1>5. CASE x3 # <<>>
  <2>. DEFINE h == Head(x3)
  <2>1. /\ Tail(x3) \in Seq(Processes!Limited) /\ Processes!ToSet(Tail(x3)) = Processes!ToSet(x3) \ {h} /\ h \in Processes!ToSet(x3)
        /\ \A i, j \in 1..Len(Tail(x3)) : Tail(x3)[i] = Tail(x3)[j] => i = j
    BY <1>5, ProcessesLineOfCalls DEF Processes!LineWaits
  <2>2. x2' = x2 /\ x3' = Tail(x3)
    BY <1>5 DEF Processes!Handed
  <2>3. h \in Processes!Limited /\ h \in Processes!Calls /\ x1[h] = "waiting" /\ h # c
    BY <2>1 DEF Processes!LineWaits, Processes!TypeOK
  <2>4. x1' = [d \in Processes!Calls |-> IF d = h THEN "starting" ELSE IF d = c THEN to ELSE x1[d]]
    <3>1. \A d \in Processes!Calls : [x1 EXCEPT ![c] = to][d] = IF d = c THEN to ELSE x1[d]
      BY DEF Processes!TypeOK
    <3>2. \A d \in Processes!Calls : (x1[d] = "waiting" /\ x3 # <<>> /\ d = Head(x3) /\ x2' = x2 /\ x3' = Tail(x3)) <=> d = h
      BY <1>5, <2>2, <2>3
    <3>. QED BY <3>1, <3>2 DEF Processes!Woken
  <2>. HIDE DEF h
  <2>5. Processes!Holders' = (Processes!Holders \ {c}) \cup {h} /\ h \notin Processes!Holders \ {c}
    BY <2>3, <2>4 DEF Processes!Holders, Processes!Calls
  <2>6. Processes!Cardinality(Processes!Holders') = Processes!Cardinality(Processes!Holders)
    <3>1. Processes!Holders \ {c} \in SUBSET Processes!Limited
      BY <1>2
    <3>2. Processes!Cardinality((Processes!Holders \ {c}) \cup {h}) = Processes!Cardinality(Processes!Holders \ {c}) + 1
      BY <2>5, <3>1, ProcessesOneHolder
    <3>. QED BY <1>3, <2>5, <3>2
  <2>7. x2 = 0
    BY <1>5 DEF Processes!LimitIsKept
  <2>8. x2' \in Nat /\ x2' + Processes!Cardinality(Processes!Holders') = Limit /\ (x3' # <<>> => x2' = 0)
    BY <1>1, <1>2, <2>2, <2>6, <2>7
  <2>9. Processes!LimitIsKept' /\ x2' \in 0..Limit
    BY <2>8, ProcessesSlotsKeepLimit
  <2>10. {d \in Processes!Calls : x1'[d] = "waiting"} = {d \in Processes!Calls : x1[d] = "waiting"} \ {h}
    BY <2>3, <2>4
  <2>11. Processes!LineWaits'
    BY <2>1, <2>2, <2>10 DEF Processes!LineWaits
  <2>12. x1' \in [Processes!Calls -> {"idle", "waiting", "starting", "spawning", "running", "killed"} \cup Processes!Over]
    BY <2>4 DEF Processes!TypeOK, Processes!Over
  <2>13. Processes!ToSet(x3') \subseteq Processes!Limited
    BY <2>1, <2>2 DEF Processes!TypeOK
  <2>. QED BY <2>9, <2>11, <2>12, <2>13
<1>. QED BY <1>4, <1>5

\* The others of such a step: one of them may be woken.
LEMMA ProcessesOthersWake ==
    ASSUME Processes!IInv, NEW c \in Processes!Calls, NEW to \in {"answered", "raised", "dropped"}, x1[c] \in {"starting", "spawning", "running", "killed"},
           x1' = Processes!Woken([x1 EXCEPT ![c] = to])
    PROVE  x1'[c] = to /\ \A d \in Processes!Calls \ {c} : x1'[d] = x1[d] \/ (x1[d] = "waiting" /\ x1'[d] = "starting")
<1>1. \A d \in Processes!Calls : [x1 EXCEPT ![c] = to][d] = IF d = c THEN to ELSE x1[d]
  BY DEF Processes!IInv, Processes!TypeOK
<1>2. \A d \in Processes!Calls : \/ x1'[d] = [x1 EXCEPT ![c] = to][d] 
                       \/ (x1[d] = "waiting" /\ x1'[d] = "starting")
  BY DEF Processes!Woken
<1>. QED BY <1>1, <1>2

\* A call of sh has no slot.
LEMMA ProcessesShellEnds ==
    ASSUME Processes!ProcessToolsAssumption, Processes!IInv, NEW c \in Shells, NEW to \in {"answered", "raised", "dropped"},
           x1[c] \in {"starting", "spawning", "running", "killed"}, x2' = x2, x3' = x3, x1' = Processes!Woken([x1 EXCEPT ![c] = to]), Processes!LeadersMatch'
    PROVE  /\ x1' \in [Processes!Calls -> {"idle", "waiting", "starting", "spawning", "running", "killed"} \cup Processes!Over]
           /\ Processes!LineWaits' /\ Processes!LimitIsKept' /\ x2' \in 0..Limit /\ Processes!ToSet(x3') \subseteq Processes!Limited
<1>. USE DEF Processes!IInv
<1>1. c \in Processes!Calls /\ c \notin Processes!Limited
  BY DEF Processes!Calls, Processes!Limited, Processes!ProcessToolsAssumption
<1>2. x3 # <<>> => x3' # Tail(x3)
  BY DEF Processes!LineWaits
<1>3. x1' = [d \in Processes!Calls |-> IF d = c THEN to ELSE x1[d]]
  <2>1. \A d \in Processes!Calls : [x1 EXCEPT ![c] = to][d] = IF d = c THEN to ELSE x1[d]
    BY <1>1 DEF Processes!TypeOK
  <2>. QED BY <1>2, <2>1 DEF Processes!Woken
<1>4. Processes!LineWaits' /\ Processes!LimitIsKept'
  BY <1>1, <1>3, ProcessesSlotsStay
<1>5. x1' \in [Processes!Calls -> {"idle", "waiting", "starting", "spawning", "running", "killed"} \cup Processes!Over]
  BY <1>3 DEF Processes!TypeOK, Processes!Over
<1>. QED BY <1>4, <1>5 DEF Processes!TypeOK

\* A call that ends without an answer gives its slot back, whatever became of its process.
LEMMA ProcessesLeaveKeeps ==
    ASSUME Processes!ProcessToolsAssumption, Processes!IInv, NEW c \in Processes!Calls, NEW to \in {"raised", "dropped"},
           x1[c] \in {"starting", "spawning", "running"}, Processes!Leaves(c), x1' = Processes!Woken([x1 EXCEPT ![c] = to]),
           x4' = x4, x7' = x7, x8' = x8,
           x5' \in [Processes!Calls -> {"none", "alive", "zero", "other", "killed"}],
           x6' \in [Processes!Calls -> SUBSET {"child", "stray"}],
           \A d \in Processes!Calls \ {c} : x5'[d] = x5[d] /\ x6'[d] = x6[d],
           x5'[c] # "alive", x5'[c] = "none" => x6'[c] = {},
           to = "raised" => "child" \notin x6'[c], to = "dropped" => x5'[c] # "none"
    PROVE  Processes!IInv'
<1>. USE DEF Processes!IInv
<1>1. (c \in Processes!Limited /\ Processes!Handed) \/ (c \in Shells /\ x2' = x2 /\ x3' = x3)
  BY DEF Processes!Leaves, Processes!Slotless, Processes!Calls
<1>2. x1'[c] = to /\ \A d \in Processes!Calls \ {c} : x1'[d] = x1[d] \/ (x1[d] = "waiting" /\ x1'[d] = "starting")
  BY ProcessesOthersWake
<1>3. x8[c] = "none"
  BY DEF Processes!FiredMatch
<1>4. Processes!LeadersMatch'
  <2>1. ASSUME NEW d \in Processes!Calls \ {c}
        PROVE  /\ x1'[d] \in {"idle", "waiting", "starting", "refused"} => x5'[d] = "none"
               /\ x1'[d] \in {"spawning", "running", "killed", "answered", "dropped"} => x5'[d] # "none"
               /\ x5'[d] = "alive" => x1'[d] \in {"spawning", "running"}
               /\ x5'[d] = "killed" => x1'[d] \in {"killed", "answered", "raised", "dropped"}
               /\ x5'[d] = "none" => x6'[d] = {}
    BY <1>2, <2>1 DEF Processes!LeadersMatch
  <2>. QED BY <1>2, <2>1 DEF Processes!LeadersMatch
<1>5. Processes!FiredMatch'
  BY <1>2, <1>3 DEF Processes!FiredMatch
<1>6. Processes!GroupIsGone'
  BY <1>2 DEF Processes!GroupIsGone
<1>7. Processes!AnswersAreTrue'
  BY <1>2 DEF Processes!AnswersAreTrue
<1>8. /\ x1' \in [Processes!Calls -> {"idle", "waiting", "starting", "spawning", "running", "killed"} \cup Processes!Over]
      /\ Processes!LineWaits' /\ Processes!LimitIsKept' /\ x2' \in 0..Limit /\ Processes!ToSet(x3') \subseteq Processes!Limited
  BY <1>1, <1>4, ProcessesSlotIsHanded, ProcessesShellEnds
<1>9. Processes!TypeOK'
  BY <1>8 DEF Processes!TypeOK
<1>. QED BY <1>4, <1>5, <1>6, <1>7, <1>8, <1>9

LEMMA ProcessesStartKeeps ==
    ASSUME Processes!ProcessToolsAssumption, Processes!IInv, NEW c \in Processes!Calls, Processes!Start(c)
    PROVE  Processes!IInv'
<1>. USE DEF Processes!IInv
<1>1. CASE /\ x1' = [x1 EXCEPT ![c] = "spawning"] /\ x5' = [x5 EXCEPT ![c] = "alive"]
           /\ UNCHANGED <<x2, x3>>
  <2>1. /\ x1[c] = "starting" /\ x2' = x2 /\ x3' = x3
        /\ x4' = x4 /\ x6' = x6 /\ x7' = x7 /\ x8' = x8
    BY <1>1 DEF Processes!Start
  <2>2. /\ \A d \in Processes!Calls : x1'[d] = IF d = c THEN "spawning" ELSE x1[d]
        /\ \A d \in Processes!Calls : x5'[d] = IF d = c THEN "alive" ELSE x5[d]
    BY <1>1 DEF Processes!TypeOK
  <2>3. Processes!TypeOK'
    BY <1>1, <2>1 DEF Processes!TypeOK
  <2>4. Processes!LeadersMatch' /\ Processes!FiredMatch' /\ Processes!GroupIsGone' /\ Processes!AnswersAreTrue'
    BY <2>1, <2>2 DEF Processes!LeadersMatch, Processes!FiredMatch, Processes!GroupIsGone, Processes!AnswersAreTrue
  <2>5. Processes!LineWaits' /\ Processes!LimitIsKept'
    BY <2>1, <2>2, <2>4, ProcessesSlotsStay
  <2>. QED BY <2>3, <2>4, <2>5
<1>2. CASE Processes!Leaves(c) /\ x1' = Processes!Woken([x1 EXCEPT ![c] = "raised"]) /\ UNCHANGED x5
  <2>1. /\ x1[c] = "starting" /\ x4' = x4 /\ x6' = x6 /\ x7' = x7 /\ x8' = x8
        /\ x5' = x5
    BY <1>2 DEF Processes!Start
  <2>2. x5[c] = "none" /\ x6[c] = {}
    BY <2>1 DEF Processes!LeadersMatch
  <2>. QED BY <1>2, <2>1, <2>2, ProcessesLeaveKeeps DEF Processes!TypeOK
<1>. QED BY <1>1, <1>2 DEF Processes!Start

\* A call answers when its process is over.
LEMMA ProcessesAnswersKeeps ==
    ASSUME Processes!ProcessToolsAssumption, Processes!IInv, NEW c \in Processes!Calls, x1[c] \in {"running", "killed"}, x5[c] \notin {"none", "alive"},
           Processes!AnswersAny(c)
    PROVE  Processes!IInv'
<1>. USE DEF Processes!IInv
<1>1. /\ x7' = [x7 EXCEPT ![c] = [ok |-> Processes!Status(c) = "none", status |-> Processes!Status(c)]]
      /\ x1' = Processes!Woken([x1 EXCEPT ![c] = "answered"])
      /\ x4' = x4 /\ x5' = x5 /\ x6' = x6 /\ x8' = x8
  BY DEF Processes!AnswersAny, Processes!AnswersPython, Processes!AnswersPytest, Processes!AnswersShell, Processes!Answers
<1>2. (c \in Processes!Limited /\ Processes!Handed) \/ (c \in Shells /\ x2' = x2 /\ x3' = x3)
  BY DEF Processes!AnswersAny, Processes!AnswersPython, Processes!AnswersPytest, Processes!AnswersShell, Processes!Limited
<1>3. x1'[c] = "answered" /\ \A d \in Processes!Calls \ {c} : x1'[d] = x1[d] \/ (x1[d] = "waiting" /\ x1'[d] = "starting")
  BY <1>1, ProcessesOthersWake
<1>4. /\ Processes!Status(c) \in {"none", "timeout", "signal", "exit"}
      /\ Processes!Status(c) = "none" <=> (x8[c] = "none" /\ x5[c] = "zero")
      /\ x8[c] # "none" => Processes!Status(c) = x8[c]
  BY DEF Processes!Status, Processes!TypeOK
<1>5. /\ x7' \in [Processes!Calls -> [ok : BOOLEAN, status : {"none", "timeout", "signal", "exit"}]]
      /\ \A d \in Processes!Calls : d # c => x7'[d] = x7[d]
      /\ x7'[c].ok <=> Processes!Status(c) = "none"
      /\ x7'[c].status = Processes!Status(c)
  <2>1. [ok |-> Processes!Status(c) = "none", status |-> Processes!Status(c)] \in [ok : BOOLEAN, status : {"none", "timeout", "signal", "exit"}]
    BY <1>4
  <2>2. x7'[c] = [ok |-> Processes!Status(c) = "none", status |-> Processes!Status(c)]
    BY <1>1 DEF Processes!TypeOK
  <2>. QED BY <1>1, <2>1, <2>2 DEF Processes!TypeOK
<1>6. Processes!LeadersMatch'
  BY <1>1, <1>3 DEF Processes!LeadersMatch
<1>7. Processes!FiredMatch'
  BY <1>1, <1>3 DEF Processes!FiredMatch
<1>8. Processes!GroupIsGone'
  BY <1>1, <1>3 DEF Processes!GroupIsGone
<1>9. Processes!AnswersAreTrue'
  <2>1. x5[c] = "killed" => x8[c] # "none"
    BY DEF Processes!LeadersMatch, Processes!FiredMatch
  <2>2. (x7'[c].ok <=> (x5[c] = "zero" /\ x7'[c].status = "none"))
    BY <1>4, <1>5
  <2>3. x5[c] = "killed" => x7'[c].status \in {"timeout", "signal"}
    BY <1>4, <1>5, <2>1 DEF Processes!TypeOK
  <2>4. \A d \in Processes!Calls : x1'[d] = "answered" => d = c \/ x1[d] = "answered"
    BY <1>3
  <2>. QED BY <1>1, <1>5, <2>2, <2>3, <2>4 DEF Processes!AnswersAreTrue
<1>10. /\ x1' \in [Processes!Calls -> {"idle", "waiting", "starting", "spawning", "running", "killed"} \cup Processes!Over]
       /\ Processes!LineWaits' /\ Processes!LimitIsKept' /\ x2' \in 0..Limit /\ Processes!ToSet(x3') \subseteq Processes!Limited
  BY <1>1, <1>2, <1>6, ProcessesSlotIsHanded, ProcessesShellEnds
<1>11. Processes!TypeOK'
  BY <1>1, <1>5, <1>10 DEF Processes!TypeOK
<1>. QED BY <1>6, <1>7, <1>8, <1>9, <1>10, <1>11

LEMMA ProcessesAnswerKeeps ==
    ASSUME Processes!ProcessToolsAssumption, Processes!IInv, NEW c \in Processes!Calls, Processes!Answer(c)
    PROVE  Processes!IInv'
BY ProcessesAnswersKeeps DEF Processes!Answer, Processes!Drained

LEMMA ProcessesTaskCancelKeeps ==
    ASSUME Processes!ProcessToolsAssumption, Processes!IInv, NEW c \in Processes!Calls, Processes!TaskCancel(c)
    PROVE  Processes!IInv'
<1>. USE DEF Processes!IInv
<1>1. CASE /\ x1[c] = "waiting"
           /\ x3' = Processes!Without(x3, c) /\ x1' = [x1 EXCEPT ![c] = "raised"]
           /\ UNCHANGED <<x2, x4, x5, x6, x7, x8>>
  <2>1. \A d \in Processes!Calls : x1'[d] = IF d = c THEN "raised" ELSE x1[d]
    BY <1>1 DEF Processes!TypeOK
  <2>2. Processes!LeadersMatch' /\ Processes!FiredMatch' /\ Processes!GroupIsGone' /\ Processes!AnswersAreTrue'
    BY <1>1, <2>1 DEF Processes!LeadersMatch, Processes!FiredMatch, Processes!GroupIsGone, Processes!AnswersAreTrue
  <2>3. /\ Processes!Without(x3, c) \in Seq(Processes!Limited) /\ Processes!ToSet(Processes!Without(x3, c)) = Processes!ToSet(x3) \ {c}
        /\ \A i, j \in 1..Len(Processes!Without(x3, c)) : Processes!Without(x3, c)[i] = Processes!Without(x3, c)[j] => i = j
    BY ProcessesLineOfCalls DEF Processes!LineWaits
  <2>4. {d \in Processes!Calls : x1'[d] = "waiting"} = {d \in Processes!Calls : x1[d] = "waiting"} \ {c}
    BY <2>1
  <2>5. Processes!LineWaits'
    BY <1>1, <2>3, <2>4 DEF Processes!LineWaits
  <2>6. Processes!Holders' = Processes!Holders
    BY <1>1, <2>1 DEF Processes!Holders, Processes!Calls
  <2>7. x2 = 0
    <3>1. x3 # <<>>
      BY <1>1 DEF Processes!LineWaits, Processes!ToSet
    <3>. QED BY <3>1 DEF Processes!LimitIsKept
  <2>8. x2' \in Nat /\ x2' + Processes!Cardinality(Processes!Holders') = Limit /\ (x3' # <<>> => x2' = 0)
    BY <1>1, <2>6, <2>7 DEF Processes!LimitIsKept
  <2>9. Processes!LimitIsKept' /\ x2' \in 0..Limit
    BY <2>2, <2>8, ProcessesSlotsKeepLimit
  <2>10. Processes!ToSet(x3') \subseteq Processes!Limited
    BY <1>1, <2>3 DEF Processes!TypeOK
  <2>11. Processes!TypeOK'
    BY <1>1, <2>9, <2>10 DEF Processes!TypeOK, Processes!Over
  <2>. QED BY <2>2, <2>5, <2>9, <2>11
<1>2. CASE /\ x1[c] = "starting"
           /\ Processes!Leaves(c) /\ x1' = Processes!Woken([x1 EXCEPT ![c] = "raised"])
           /\ UNCHANGED <<x4, x5, x6, x7, x8>>
  <2>1. x5[c] = "none" /\ x6[c] = {}
    BY <1>2 DEF Processes!LeadersMatch
  <2>. QED BY <1>2, <2>1, ProcessesLeaveKeeps DEF Processes!TypeOK
<1>3. CASE /\ x1[c] = "spawning"
           /\ Processes!Leaves(c) /\ Processes!KillLeader(c) /\ x1' = Processes!Woken([x1 EXCEPT ![c] = "dropped"])
           /\ UNCHANGED <<x4, x6, x7, x8>>
  <2>1. x5[c] # "none"
    BY <1>3 DEF Processes!LeadersMatch
  <2>2. /\ x5' \in [Processes!Calls -> {"none", "alive", "zero", "other", "killed"}]
        /\ \A d \in Processes!Calls : x5'[d] = IF d = c /\ x5[d] = "alive" THEN "killed" ELSE x5[d]
    <3>1. x5' = [x5 EXCEPT ![c] = IF x5[c] = "alive" THEN "killed" ELSE x5[c]]
      BY <1>3 DEF Processes!KillLeader
    <3>. QED BY <3>1 DEF Processes!TypeOK
  <2>. QED BY <1>3, <2>1, <2>2, ProcessesLeaveKeeps DEF Processes!TypeOK
<1>4. CASE /\ x1[c] = "running"
           /\ Processes!Leaves(c) /\ Processes!Kill(c) /\ x1' = Processes!Woken([x1 EXCEPT ![c] = "raised"])
           /\ UNCHANGED <<x4, x7, x8>>
  <2>1. x5[c] # "none"
    BY <1>4 DEF Processes!LeadersMatch
  <2>2. /\ x5' \in [Processes!Calls -> {"none", "alive", "zero", "other", "killed"}]
        /\ x6' \in [Processes!Calls -> SUBSET {"child", "stray"}]
        /\ \A d \in Processes!Calls : x5'[d] = IF d = c /\ x5[d] = "alive" THEN "killed" ELSE x5[d]
        /\ \A d \in Processes!Calls : x6'[d] = IF d = c THEN x6[d] \ {"child"} ELSE x6[d]
    BY <1>4, ProcessesKillEnds
  <2>. QED BY <1>4, <2>1, <2>2, ProcessesLeaveKeeps
<1>5. CASE x1[c] = "killed" /\ Processes!AnswersAny(c)
  <2>1. x5[c] \notin {"none", "alive"}
    BY <1>5 DEF Processes!LeadersMatch
  <2>. QED BY <1>5, <2>1, ProcessesAnswersKeeps
<1>. QED BY <1>1, <1>2, <1>3, <1>4, <1>5 DEF Processes!TaskCancel

LEMMA ProcessesExitKeeps ==
    ASSUME Processes!ProcessToolsAssumption, Processes!IInv, NEW c \in Processes!Calls, Processes!Exit(c)
    PROVE  Processes!IInv'
<1>. USE DEF Processes!IInv
<1>1. PICK code \in {"zero", "other"} : x5' = [x5 EXCEPT ![c] = code]
  BY DEF Processes!Exit
<1>2. /\ x5[c] = "alive" /\ x1' = x1 /\ x2' = x2 /\ x3' = x3 /\ x4' = x4
      /\ x6' = x6 /\ x7' = x7 /\ x8' = x8
  BY DEF Processes!Exit
<1>3. \A d \in Processes!Calls : x5'[d] = IF d = c THEN code ELSE x5[d]
  BY <1>1 DEF Processes!TypeOK
<1>4. Processes!TypeOK'
  BY <1>1, <1>2 DEF Processes!TypeOK
<1>5. Processes!LeadersMatch' /\ Processes!FiredMatch' /\ Processes!GroupIsGone' /\ Processes!AnswersAreTrue'
  BY <1>2, <1>3 DEF Processes!LeadersMatch, Processes!FiredMatch, Processes!GroupIsGone, Processes!AnswersAreTrue
<1>6. Processes!LineWaits' /\ Processes!LimitIsKept'
  BY <1>2, <1>5, ProcessesSlotsStay
<1>. QED BY <1>4, <1>5, <1>6

LEMMA ProcessesForkKeeps ==
    ASSUME Processes!ProcessToolsAssumption, Processes!IInv, NEW c \in Processes!Calls, Processes!Fork(c)
    PROVE  Processes!IInv'
<1>. USE DEF Processes!IInv
<1>1. PICK kind \in {"child", "stray"} : x6' = [x6 EXCEPT ![c] = @ \cup {kind}]
  BY DEF Processes!Fork
<1>2. /\ x5[c] = "alive" /\ x1' = x1 /\ x2' = x2 /\ x3' = x3 /\ x4' = x4
      /\ x5' = x5 /\ x7' = x7 /\ x8' = x8
  BY DEF Processes!Fork
<1>3. \A d \in Processes!Calls : d # c => x6'[d] = x6[d]
  BY <1>1 DEF Processes!TypeOK
<1>4. Processes!TypeOK'
  BY <1>1, <1>2 DEF Processes!TypeOK
<1>5. Processes!LeadersMatch' /\ Processes!FiredMatch' /\ Processes!GroupIsGone' /\ Processes!AnswersAreTrue'
  BY <1>2, <1>3 DEF Processes!LeadersMatch, Processes!FiredMatch, Processes!GroupIsGone, Processes!AnswersAreTrue
<1>6. Processes!LineWaits' /\ Processes!LimitIsKept'
  BY <1>2, <1>5, ProcessesSlotsStay
<1>. QED BY <1>4, <1>5, <1>6

LEMMA ProcessesEndsKeeps ==
    ASSUME Processes!ProcessToolsAssumption, Processes!IInv, NEW c \in Processes!Calls, Processes!Ends(c)
    PROVE  Processes!IInv'
<1>. USE DEF Processes!IInv
<1>1. PICK kind \in x6[c] : x6' = [x6 EXCEPT ![c] = @ \ {kind}]
  BY DEF Processes!Ends
<1>2. /\ x1' = x1 /\ x2' = x2 /\ x3' = x3 /\ x4' = x4
      /\ x5' = x5 /\ x7' = x7 /\ x8' = x8
  BY DEF Processes!Ends
<1>3. \A d \in Processes!Calls : x6'[d] \subseteq x6[d]
  BY <1>1 DEF Processes!TypeOK
<1>4. Processes!TypeOK'
  BY <1>1, <1>2 DEF Processes!TypeOK
<1>5. Processes!LeadersMatch' /\ Processes!FiredMatch' /\ Processes!GroupIsGone' /\ Processes!AnswersAreTrue'
  BY <1>2, <1>3 DEF Processes!LeadersMatch, Processes!FiredMatch, Processes!GroupIsGone, Processes!AnswersAreTrue
<1>6. Processes!LineWaits' /\ Processes!LimitIsKept'
  BY <1>2, <1>5, ProcessesSlotsStay
<1>. QED BY <1>4, <1>5, <1>6

LEMMA ProcessesSignalKeeps ==
    ASSUME Processes!ProcessToolsAssumption, Processes!IInv, Processes!Signal \/ UNCHANGED Processes!vars
    PROVE  Processes!IInv'
<1>. USE DEF Processes!IInv
<1>1. /\ x1' = x1 /\ x2' = x2 /\ x3' = x3 /\ x5' = x5 /\ x6' = x6
      /\ x7' = x7 /\ x8' = x8 /\ x4' \in BOOLEAN
  BY DEF Processes!Signal, Processes!vars, Processes!TypeOK
<1>2. Processes!TypeOK'
  BY <1>1 DEF Processes!TypeOK
<1>3. Processes!LeadersMatch' /\ Processes!FiredMatch' /\ Processes!GroupIsGone' /\ Processes!AnswersAreTrue'
  BY <1>1 DEF Processes!LeadersMatch, Processes!FiredMatch, Processes!GroupIsGone, Processes!AnswersAreTrue
<1>4. Processes!LineWaits' /\ Processes!LimitIsKept'
  BY <1>1, <1>3, ProcessesSlotsStay
<1>. QED BY <1>2, <1>3, <1>4

LEMMA ProcessesStepKeeps ==
    ASSUME Processes!ProcessToolsAssumption, Processes!IInv, [Processes!Next]_(Processes!vars)
    PROVE  Processes!IInv'
<1>1. CASE Processes!Signal \/ UNCHANGED Processes!vars
  BY <1>1, ProcessesSignalKeeps
<1>2. ASSUME NEW c \in Processes!Calls, Processes!Refuse(c) \/ Processes!BeginShell(c) \/ Processes!Start(c) \/ Processes!Started(c) PROVE Processes!IInv'
  BY <1>2, ProcessesRefuseKeeps, ProcessesBeginShellKeeps, ProcessesStartKeeps, ProcessesStartedKeeps
<1>3. ASSUME NEW c \in Processes!Calls, Processes!BeginPython(c) \/ Processes!BeginPytest(c) PROVE Processes!IInv'
  <2>1. c \in Processes!Limited /\ Processes!Enter(c)
    BY <1>3 DEF Processes!BeginPython, Processes!BeginPytest, Processes!Limited
  <2>. QED BY <2>1, ProcessesEnterKeeps
<1>4. ASSUME NEW c \in Processes!Calls, Processes!Interrupt(c) \/ Processes!Answer(c) \/ Processes!TaskCancel(c) PROVE Processes!IInv'
  BY <1>4, ProcessesInterruptKeeps, ProcessesAnswerKeeps, ProcessesTaskCancelKeeps
<1>5. ASSUME NEW c \in Processes!Calls, Processes!Exit(c) \/ Processes!Fork(c) \/ Processes!Ends(c) PROVE Processes!IInv'
  BY <1>5, ProcessesExitKeeps, ProcessesForkKeeps, ProcessesEndsKeeps
<1>. QED BY <1>1, <1>2, <1>3, <1>4, <1>5 DEF Processes!Next

\* Whatever is signalled, cancelled or killed, a place of the limit is held by each running call and by nobody
\* else, a group of processes is gone when its call was stopped, unless it was cancelled while the process was
\* created, whose leader alone is gone then, and an answer is what became of the process.
THEOREM ProcessesAlwaysGood ==
    ASSUME Processes!ProcessToolsAssumption
    PROVE  Processes!Spec => []Processes!IInv
BY ProcessesInitIsGood, ProcessesStepKeeps, PTL DEF Processes!Spec

-----------------------------------------------------------------------------
(* Compaction of a session's context *)

\* In the runs a provider with native compaction, a proxy that can replay its state, and one that cannot.
Compacting == INSTANCE Compaction WITH
    Models <- ServedModels, MaxEntries <- MaxLogged, log <- x1, leaf <- x2, provider <- x3, model <- x4, enabled <- x5,
    phase <- x6, sent <- x7, strayed <- x8

\* A turn that no row has yet
LEMMA CompactingRowIsAdded ==
    ASSUME NEW rows \in Seq(Compacting!Lines), NEW row \in Compacting!Lines
    PROVE  /\ Append(rows, row) \in Seq(Compacting!Lines)
           /\ Compacting!Said(Append(rows, row)) = Compacting!Said(rows) \cup row.turns
           /\ Compacting!Opaque(Append(rows, row)) <=> Compacting!Opaque(rows) \/ row.opaque
<1>. DEFINE new == Append(rows, row)
<1>1. /\ Len(rows) \in Nat /\ new \in Seq(Compacting!Lines) /\ Len(new) = Len(rows) + 1
      /\ \A i \in 1..Len(rows) : new[i] = rows[i]
      /\ new[Len(rows) + 1] = row
  OBVIOUS
<1>2. DOMAIN rows = 1..Len(rows) /\ DOMAIN new = 1..(Len(rows) + 1)
  BY <1>1
<1>. HIDE DEF new
<1>3. \A i \in DOMAIN new : i \in DOMAIN rows \/ i = Len(rows) + 1
  BY <1>1, <1>2
<1>4. DOMAIN rows \subseteq DOMAIN new /\ Len(rows) + 1 \in DOMAIN new
  BY <1>1, <1>2
<1>5. \A i \in DOMAIN rows : new[i] = rows[i]
  BY <1>1, <1>2
<1>6. Compacting!Said(new) = Compacting!Said(rows) \cup row.turns
  BY <1>1, <1>3, <1>4, <1>5, Zenon DEF Compacting!Said
<1>7. Compacting!Opaque(new) <=> Compacting!Opaque(rows) \/ row.opaque
  BY <1>1, <1>3, <1>4, <1>5, Zenon DEF Compacting!Opaque
<1>. QED BY <1>1, <1>6, <1>7 DEF new

\* The first rows become one.
Shortened(new, rows, count, row) ==
    /\ new \in Seq(Compacting!Lines) /\ Len(new) = Len(rows) - count + 1 /\ new[1] = row
    /\ \A i \in 2..Len(new) : i + count - 1 \in (count + 1)..Len(rows) /\ new[i] = rows[i + count - 1]
    /\ \A i \in (count + 1)..Len(rows) : i - count + 1 \in 2..Len(new) /\ new[i - count + 1] = rows[i]

LEMMA CompactingRowsAreReplaced ==
    ASSUME NEW rows \in Seq(Compacting!Lines), NEW count \in 1..Len(rows), NEW row \in Compacting!Lines
    PROVE  Shortened(Compacting!Replaced(rows, count, row), rows, count, row)
<1>. DEFINE rest == SubSeq(rows, count + 1, Len(rows))
            new == Compacting!Replaced(rows, count, row)
<1>1. Len(rows) \in Nat /\ count \in Nat /\ count >= 1 /\ count <= Len(rows)
  OBVIOUS
<1>2. /\ rest \in Seq(Compacting!Lines) /\ Len(rest) = Len(rows) - count
      /\ \A i \in 1..(Len(rows) - count) : rest[i] = rows[i + count]
  <2>1. \A i \in (count + 1)..Len(rows) : i \in 1..Len(rows)
    BY <1>1
  <2>2. \A i \in (count + 1)..Len(rows) : rows[i] \in Compacting!Lines
    BY <2>1
  <2>3. CASE count + 1 <= Len(rows) + 1
    <3>1. rest \in Seq(Compacting!Lines)
      BY <1>1, <2>1
    <3>2. Len(rest) = Len(rows) - count
      BY <1>1
    <3>3. \A i \in 1..(Len(rows) - count) : rest[i] = rows[i + count]
      BY <1>1
    <3>. QED BY <3>1, <3>2, <3>3
  <2>. QED BY <1>1, <2>3
<1>3. new = <<row>> \o rest /\ <<row>> \in Seq(Compacting!Lines) /\ Len(<<row>>) = 1 /\ <<row>>[1] = row
  BY DEF Compacting!Replaced
<1>. HIDE DEF rest, new
<1>4. new \in Seq(Compacting!Lines) /\ Len(new) = 1 + Len(rest)
  BY <1>2, <1>3, ConcatProperties
<1>5. new[1] = row
  BY <1>1, <1>2, <1>3
<1>6. \A i \in 2..Len(new) : i - 1 \in 1..Len(rest) /\ new[i] = rest[i - 1]
  BY <1>1, <1>2, <1>3, <1>4
<1>7. \A i \in 2..Len(new) : i + count - 1 \in (count + 1)..Len(rows) /\ new[i] = rows[i + count - 1]
  <2>. TAKE i \in 2..Len(new)
  <2>. DEFINE n == Len(new)
  <2>. DEFINE m == Len(rows)
  <2>0. n = 1 + m - count /\ m \in Nat /\ count \in Nat /\ i \in 2..n
    BY <1>1, <1>2, <1>4
  <2>. HIDE DEF n, m
  <2>1. i - 1 \in 1..(m - count) /\ (i - 1) + count = i + count - 1
    BY <2>0
  <2>. USE DEF m, n
  <2>2. i + count - 1 \in (count + 1)..Len(rows)
    BY <1>1, <2>1
  <2>. QED BY <1>2, <1>6, <2>1, <2>2
<1>8. \A i \in (count + 1)..Len(rows) : i - count + 1 \in 2..Len(new) /\ new[i - count + 1] = rows[i]
  <2>. TAKE i \in (count + 1)..Len(rows)
  <2>1. i - count + 1 \in 2..Len(new)
    BY <1>1, <1>2, <1>4
  <2>2. (i - count + 1) + count - 1 = i
    BY <1>1
  <2>. QED BY <1>7, <2>1, <2>2
<1>9. Len(new) = Len(rows) - count + 1
  BY <1>1, <1>2, <1>4
<1>. QED BY <1>4, <1>5, <1>7, <1>8, <1>9 DEF new, Shortened

\* What the log says of one of its places
LEMMA CompactingPlacesAreWhole ==
    ASSUME Compacting!CompactionAssumption, Compacting!TypeOK, Compacting!Shapes, Compacting!NothingForgotten, Compacting!SentinelFirst, Compacting!TurnsArePast, NEW n \in 0..Len(x1)
    PROVE  /\ Compacting!At(n) \in Compacting!Entries /\ Compacting!Whole(Compacting!At(n)) /\ Compacting!At(n).turns \subseteq 1..n
           /\ \A i \in DOMAIN Compacting!At(n).rows : Compacting!At(n).rows[i].opaque => i = 1
<1>1. CASE n = 0
  <2>1. Compacting!At(n) = Compacting!Root
    BY <1>1 DEF Compacting!At
  <2>2. Compacting!Root \in Compacting!Entries
    <3>1. <<>> \in Seq(Compacting!Lines) /\ {} \in SUBSET Nat /\ None \in Compacting!States \cup {None}
      OBVIOUS
    <3>. QED BY <3>1 DEF Compacting!Root, Compacting!Entries
  <2>3. Compacting!Root.rows = <<>> /\ DOMAIN Compacting!Root.rows = {} /\ Compacting!Root.state = None /\ Compacting!Root.turns = {}
    BY DEF Compacting!Root
  <2>4. Compacting!Said(Compacting!Root.rows) = {} /\ ~Compacting!Opaque(Compacting!Root.rows)
    BY <2>3, Zenon DEF Compacting!Said, Compacting!Opaque
  <2>5. Compacting!Whole(Compacting!Root)
    BY <2>3, <2>4 DEF Compacting!Whole
  <2>. QED BY <2>1, <2>2, <2>3, <2>5
<1>2. CASE n # 0
  <2>1. n \in DOMAIN x1 /\ Compacting!At(n) = x1[n] /\ x1[n] \in Compacting!Entries
    BY <1>2 DEF Compacting!At, Compacting!Shapes
  <2>. QED BY <2>1 DEF Compacting!NothingForgotten, Compacting!SentinelFirst, Compacting!TurnsArePast
<1>. QED BY <1>1, <1>2

\* An entry that is whole goes behind the others.
LEMMA CompactingLogGrows ==
    ASSUME Compacting!CompactionAssumption, Compacting!TypeOK, Compacting!Shapes, Compacting!NothingForgotten, Compacting!SentinelFirst, Compacting!TurnsArePast, Len(x1) < MaxLogged,
           NEW e \in Compacting!Entries, Compacting!Whole(e), e.turns \subseteq 1..(Len(x1) + 1),
           \A i \in DOMAIN e.rows : e.rows[i].opaque => i = 1, Compacting!Appended(e)
    PROVE  /\ x1' \in Seq(Compacting!Entries) /\ Len(x1') = Len(x1) + 1 /\ Len(x1') \in 0..MaxLogged
           /\ x2' = Len(x1) + 1 /\ x2' \in 0..Len(x1')
           /\ Compacting!NothingForgotten' /\ Compacting!SentinelFirst' /\ Compacting!TurnsArePast'
           /\ Compacting!At(x2)' = e
<1>1. /\ x1 \in Seq(Compacting!Entries) /\ Len(x1) \in Nat /\ MaxLogged \in Nat
      /\ x1' = Append(x1, e) /\ x2' = Len(x1) + 1
  BY DEF Compacting!Appended, Compacting!Shapes, Compacting!CompactionAssumption
<1>2. /\ x1' \in Seq(Compacting!Entries) /\ Len(x1') = Len(x1) + 1
      /\ \A i \in 1..Len(x1) : x1'[i] = x1[i]
      /\ x1'[Len(x1) + 1] = e
  BY <1>1
<1>3. /\ DOMAIN x1 = 1..Len(x1)
      /\ \A i \in DOMAIN x1' : (i \in DOMAIN x1 /\ x1'[i] = x1[i]) \/ (i = Len(x1) + 1 /\ x1'[i] = e)
  BY <1>1, <1>2
<1>4. Compacting!NothingForgotten'
  BY <1>3 DEF Compacting!NothingForgotten
<1>5. Compacting!SentinelFirst'
  BY <1>3 DEF Compacting!SentinelFirst
<1>6. Compacting!TurnsArePast'
  BY <1>3 DEF Compacting!TurnsArePast
<1>7. Compacting!At(x2)' = e
  <2>1. x2' # 0
    BY <1>1
  <2>. QED BY <1>1, <1>2, <2>1 DEF Compacting!At
<1>8. Len(x1') \in 0..MaxLogged /\ x2' \in 0..Len(x1')
  BY <1>1, <1>2
<1>. QED BY <1>1, <1>2, <1>4, <1>5, <1>6, <1>7, <1>8

LEMMA CompactingSameLog ==
    ASSUME Compacting!CompactionAssumption, Compacting!IInv, x1' = x1, NEW n \in 0..Len(x1), x2' = n
    PROVE  /\ x1' \in Seq(Compacting!Entries) /\ Len(x1') \in 0..MaxLogged /\ x2' \in 0..Len(x1')
           /\ Compacting!NothingForgotten' /\ Compacting!SentinelFirst' /\ Compacting!TurnsArePast'
           /\ Compacting!At(x2)' = Compacting!At(n)
<1>1. x1' \in Seq(Compacting!Entries) /\ Len(x1') \in 0..MaxLogged /\ x2' \in 0..Len(x1')
  BY DEF Compacting!IInv, Compacting!TypeOK, Compacting!Shapes
<1>2. Compacting!NothingForgotten' /\ Compacting!SentinelFirst' /\ Compacting!TurnsArePast'
  BY DEF Compacting!IInv, Compacting!NothingForgotten, Compacting!SentinelFirst, Compacting!TurnsArePast
<1>3. Compacting!At(x2)' = Compacting!At(n)
  BY DEF Compacting!At
<1>. QED BY <1>1, <1>2, <1>3

\* A local compaction finds no sentinel, so that the branch has no native state, and leaves none.
LEMMA CompactingLocalIsWhole ==
    ASSUME Compacting!CompactionAssumption, Compacting!IInv, NEW count \in 1..Len(Compacting!Rows), Compacting!Local(count), Len(x1) < MaxLogged
    PROVE  /\ Compacting!State = None /\ Compacting!State' = None
           /\ x1' \in Seq(Compacting!Entries) /\ Len(x1') = Len(x1) + 1 /\ Len(x1') \in 0..MaxLogged
           /\ x2' \in 0..Len(x1')
           /\ Compacting!NothingForgotten' /\ Compacting!SentinelFirst' /\ Compacting!TurnsArePast'
<1>. DEFINE old == Compacting!At(x2)
            first == SubSeq(old.rows, 1, count)
            row == Compacting!Row(Compacting!Said(first))
            new == Compacting!Replaced(old.rows, count, row)
            e == [parent |-> x2, rows |-> new, state |-> None, turns |-> old.turns]
<1>1. /\ x2 \in 0..Len(x1) /\ Len(x1) \in Nat
      /\ old \in Compacting!Entries /\ Compacting!Whole(old) /\ old.turns \subseteq 1..x2
      /\ \A i \in DOMAIN old.rows : old.rows[i].opaque => i = 1
  BY CompactingPlacesAreWhole DEF Compacting!IInv, Compacting!TypeOK, Compacting!Shapes
<1>2. old.rows \in Seq(Compacting!Lines) /\ old.turns \in SUBSET Nat /\ old.state \in Compacting!States \cup {None}
  BY <1>1 DEF Compacting!Entries
<1>3. count \in 1..Len(old.rows) /\ ~Compacting!Opaque(first) /\ Compacting!Appended(e)
  BY DEF Compacting!Local, Compacting!Compacted, Compacting!Summarizes, Compacting!Rows
<1>. HIDE DEF old
<1>4. /\ Len(old.rows) \in Nat /\ DOMAIN old.rows = 1..Len(old.rows)
      /\ first \in Seq(Compacting!Lines) /\ Len(first) = count /\ DOMAIN first = 1..count
      /\ \A i \in 1..count : first[i] = old.rows[i] /\ i \in DOMAIN old.rows
  BY <1>2, <1>3
<1>5. \A i \in DOMAIN old.rows : old.rows[i] \in Compacting!Lines
  BY <1>2
<1>. HIDE DEF first
<1>6. \A i \in DOMAIN old.rows : ~old.rows[i].opaque
  <2>. TAKE i \in DOMAIN old.rows
  <2>1. 1 \in DOMAIN first /\ first[1] = old.rows[1]
    BY <1>3, <1>4
  <2>2. ~old.rows[1].opaque
    BY <1>3, <2>1 DEF Compacting!Opaque
  <2>. QED BY <1>1, <2>2
<1>7. ~Compacting!Opaque(old.rows)
  BY <1>6 DEF Compacting!Opaque
<1>8. old.state = None
  BY <1>1, <1>7 DEF Compacting!Whole
<1>9. /\ Compacting!Said(old.rows) = old.turns
      /\ \A i, j \in DOMAIN old.rows : i # j => old.rows[i].turns \cap old.rows[j].turns = {}
  BY <1>1, <1>8 DEF Compacting!Whole
<1>10. row \in Compacting!Lines /\ row.turns = Compacting!Said(first) /\ row.opaque = FALSE
  <2>1. Compacting!Said(first) \subseteq Compacting!Said(old.rows)
    BY <1>4, Zenon DEF Compacting!Said
  <2>2. Compacting!Said(first) \in SUBSET Nat
    BY <1>2, <1>9, <2>1
  <2>. QED BY <2>2 DEF Compacting!Row, Compacting!Lines
<1>11. new = Compacting!Replaced(old.rows, count, row)
  OBVIOUS
<1>. HIDE DEF row, new
<1>12. /\ new \in Seq(Compacting!Lines) /\ Len(new) = Len(old.rows) - count + 1 /\ new[1] = row
       /\ \A i \in 2..Len(new) : i + count - 1 \in (count + 1)..Len(old.rows) /\ new[i] = old.rows[i + count - 1]
       /\ \A i \in (count + 1)..Len(old.rows) : i - count + 1 \in 2..Len(new) /\ new[i - count + 1] = old.rows[i]
  <2>1. old.rows \in Seq(Compacting!Lines) /\ count \in 1..Len(old.rows) /\ row \in Compacting!Lines
    BY <1>2, <1>3, <1>10
  <2>2. Shortened(new, old.rows, count, row)
    BY <1>11, <2>1, CompactingRowsAreReplaced, Zenon
  <2>. QED BY <2>2 DEF Shortened
<1>13. Len(new) \in Nat /\ DOMAIN new = 1..Len(new) /\ \A i \in DOMAIN new : i = 1 \/ i \in 2..Len(new)
  BY <1>12
<1>14. 1 \in DOMAIN new /\ \A i \in 2..Len(new) : i \in DOMAIN new
  BY <1>3, <1>4, <1>12, <1>13
<1>15. \A i \in DOMAIN old.rows : i \in 1..count \/ i \in (count + 1)..Len(old.rows)
  BY <1>3, <1>4
<1>16. \A i \in (count + 1)..Len(old.rows) : i \in DOMAIN old.rows /\ i \notin 1..count
  BY <1>3, <1>4
<1>17. Compacting!Said(new) = Compacting!Said(old.rows)
  <2>1. ASSUME NEW i \in DOMAIN new, NEW t \in new[i].turns PROVE t \in Compacting!Said(old.rows)
    <3>1. CASE i = 1
      <4>1. t \in Compacting!Said(first)
        BY <1>10, <1>12, <2>1, <3>1
      <4>2. PICK j \in DOMAIN first : t \in first[j].turns
        BY <4>1, Zenon DEF Compacting!Said
      <4>3. j \in DOMAIN old.rows /\ t \in old.rows[j].turns
        BY <1>4, <4>2
      <4>. QED BY <4>3, Zenon DEF Compacting!Said
    <3>2. CASE i # 1
      <4>1. i \in 2..Len(new)
        BY <1>13, <3>2
      <4>2. i + count - 1 \in DOMAIN old.rows /\ t \in old.rows[i + count - 1].turns
        BY <1>12, <1>16, <2>1, <4>1
      <4>. QED BY <4>2, Zenon DEF Compacting!Said
    <3>. QED BY <3>1, <3>2
  <2>2. ASSUME NEW i \in DOMAIN old.rows, NEW t \in old.rows[i].turns PROVE t \in Compacting!Said(new)
    <3>1. CASE i \in 1..count
      <4>1. i \in DOMAIN first /\ t \in first[i].turns
        BY <1>4, <2>2, <3>1
      <4>2. t \in row.turns
        BY <1>10, <4>1, Zenon DEF Compacting!Said
      <4>. QED BY <1>12, <1>14, <4>2, Zenon DEF Compacting!Said
    <3>2. CASE i \in (count + 1)..Len(old.rows)
      <4>1. i - count + 1 \in DOMAIN new /\ t \in new[i - count + 1].turns
        BY <1>12, <1>14, <2>2, <3>2
      <4>. QED BY <4>1, Zenon DEF Compacting!Said
    <3>. QED BY <1>15, <3>1, <3>2
  <2>. QED BY <2>1, <2>2, Zenon DEF Compacting!Said
<1>18. \A i \in DOMAIN new : ~new[i].opaque
  <2>. TAKE i \in DOMAIN new
  <2>1. CASE i = 1
    BY <1>10, <1>12, <2>1
  <2>2. CASE i \in 2..Len(new)
    BY <1>6, <1>12, <1>16, <2>2
  <2>. QED BY <1>13, <2>1, <2>2
<1>19. \A i, j \in DOMAIN new : i # j => new[i].turns \cap new[j].turns = {}
  <2>1. ASSUME NEW i \in 2..Len(new) PROVE row.turns \cap new[i].turns = {}
    <3>. DEFINE k == i + count - 1
    <3>1. k \in DOMAIN old.rows /\ k \notin 1..count /\ new[i] = old.rows[k]
      BY <1>12, <1>16, <2>1
    <3>. HIDE DEF k
    <3>2. \A j \in 1..count : first[j].turns \cap old.rows[k].turns = {}
      <4>. TAKE j \in 1..count
      <4>1. j \in DOMAIN old.rows /\ j # k /\ first[j] = old.rows[j]
        BY <1>4, <3>1
      <4>. QED BY <1>9, <3>1, <4>1
    <3>3. \A j \in DOMAIN first : first[j].turns \cap old.rows[k].turns = {}
      BY <1>4, <3>2
    <3>4. Compacting!Said(first) \cap old.rows[k].turns = {}
      BY <3>3, Zenon DEF Compacting!Said
    <3>. QED BY <1>10, <3>1, <3>4
  <2>2. ASSUME NEW i \in 2..Len(new), NEW j \in 2..Len(new), i # j PROVE new[i].turns \cap new[j].turns = {}
    <3>1. i + count - 1 # j + count - 1
      BY <1>3, <1>13, <2>2
    <3>2. /\ i + count - 1 \in DOMAIN old.rows /\ new[i] = old.rows[i + count - 1]
          /\ j + count - 1 \in DOMAIN old.rows /\ new[j] = old.rows[j + count - 1]
      BY <1>12, <1>16, <2>2
    <3>. QED BY <1>9, <3>1, <3>2, Zenon
  <2>. TAKE i, j \in DOMAIN new
  <2>3. CASE i = 1 /\ j \in 2..Len(new)
    BY <1>12, <2>1, <2>3
  <2>4. CASE j = 1 /\ i \in 2..Len(new)
    BY <1>12, <2>1, <2>4
  <2>5. CASE i \in 2..Len(new) /\ j \in 2..Len(new)
    BY <2>2, <2>5
  <2>. QED BY <1>13, <2>3, <2>4, <2>5
<1>20. e \in Compacting!Entries
  BY <1>1, <1>2, <1>12 DEF Compacting!Entries
<1>21. e.rows = new /\ e.state = None /\ e.turns = old.turns
  OBVIOUS
<1>. HIDE DEF e
<1>22. ~Compacting!Opaque(new)
  BY <1>18 DEF Compacting!Opaque
<1>23. Compacting!Whole(e)
  BY <1>9, <1>17, <1>19, <1>21, <1>22 DEF Compacting!Whole
<1>24. e.turns \subseteq 1..(Len(x1) + 1)
  BY <1>1, <1>21
<1>25. \A i \in DOMAIN e.rows : e.rows[i].opaque => i = 1
  BY <1>18, <1>21
<1>26. /\ x1' \in Seq(Compacting!Entries) /\ Len(x1') = Len(x1) + 1 /\ Len(x1') \in 0..MaxLogged
       /\ x2' \in 0..Len(x1') /\ Compacting!NothingForgotten' /\ Compacting!SentinelFirst' /\ Compacting!TurnsArePast' /\ Compacting!At(x2)' = e
  BY <1>3, <1>20, <1>23, <1>24, <1>25, CompactingLogGrows DEF Compacting!IInv
<1>. QED BY <1>8, <1>21, <1>26 DEF Compacting!State, old

\* A native compaction puts what the branch said into its state, and a sentinel into the rows.
LEMMA CompactingNativeIsWhole ==
    ASSUME Compacting!CompactionAssumption, Compacting!IInv, Len(x1) < MaxLogged, NEW state, state # None, state \in Compacting!Replies(Compacting!Previous),
           Compacting!Compacted(Len(Compacting!Rows), Compacting!Sentinel, state)
    PROVE  /\ state \in Compacting!States /\ Compacting!Responses(x3.name, x4) /\ Compacting!State' = state
           /\ x1' \in Seq(Compacting!Entries) /\ Len(x1') = Len(x1) + 1 /\ Len(x1') \in 0..MaxLogged
           /\ x2' \in 0..Len(x1')
           /\ Compacting!NothingForgotten' /\ Compacting!SentinelFirst' /\ Compacting!TurnsArePast'
<1>. DEFINE old == Compacting!At(x2)
            new == Compacting!Replaced(old.rows, Len(old.rows), Compacting!Sentinel)
            e == [parent |-> x2, rows |-> new, state |-> state, turns |-> old.turns]
<1>1. /\ x2 \in 0..Len(x1) /\ Len(x1) \in Nat
      /\ old \in Compacting!Entries /\ Compacting!Whole(old) /\ old.turns \subseteq 1..x2
      /\ x3.name \in Providers /\ x4 \in ServedModels
  BY CompactingPlacesAreWhole DEF Compacting!IInv, Compacting!TypeOK, Compacting!Shapes
<1>2. old.rows \in Seq(Compacting!Lines) /\ old.turns \in SUBSET Nat /\ old.state \in Compacting!States \cup {None}
  BY <1>1 DEF Compacting!Entries
<1>3. Compacting!Appended(e) /\ Compacting!Responses(x3.name, x4) /\ state = Compacting!Reply(old.state)
  BY DEF Compacting!Compacted, Compacting!Replies, Compacting!Served, Compacting!Rows, Compacting!Previous, Compacting!State
<1>4. state = [provider |-> x3.name, model |-> x4,
               turns |-> Compacting!Said(old.rows) \cup (IF old.state = None THEN {} ELSE old.state.turns)]
  BY <1>3 DEF Compacting!Reply, Compacting!Rows
<1>. HIDE DEF old
<1>5. Compacting!Said(old.rows) \cup (IF old.state = None THEN {} ELSE old.state.turns) = old.turns
  BY <1>1 DEF Compacting!Whole
<1>6. state \in Compacting!States /\ state.turns = old.turns
  BY <1>1, <1>2, <1>4, <1>5 DEF Compacting!States
<1>7. Compacting!Sentinel \in Compacting!Lines /\ Compacting!Sentinel.turns = {} /\ Compacting!Sentinel.opaque = TRUE
  BY DEF Compacting!Sentinel, Compacting!Lines
<1>8. new = <<Compacting!Sentinel>>
  <2>1. Len(old.rows) \in Nat
    BY <1>2
  <2>2. SubSeq(old.rows, Len(old.rows) + 1, Len(old.rows)) = <<>>
    BY <1>2, <2>1
  <2>3. new = <<Compacting!Sentinel>> \o <<>>
    BY <2>2 DEF Compacting!Replaced
  <2>. QED BY <1>7, <2>3, ConcatEmptySeq
<1>. HIDE DEF new
<1>9. new \in Seq(Compacting!Lines) /\ DOMAIN new = {1} /\ new[1] = Compacting!Sentinel
  BY <1>7, <1>8
<1>10. Compacting!Said(new) = {} /\ Compacting!Opaque(new)
  BY <1>7, <1>9, Zenon DEF Compacting!Said, Compacting!Opaque
<1>11. e \in Compacting!Entries /\ e.rows = new /\ e.state = state /\ e.turns = old.turns
  BY <1>1, <1>2, <1>6, <1>9 DEF Compacting!Entries
<1>. HIDE DEF e
<1>12. Compacting!Whole(e)
  BY <1>6, <1>9, <1>10, <1>11 DEF Compacting!Whole
<1>13. e.turns \subseteq 1..(Len(x1) + 1) /\ \A i \in DOMAIN e.rows : e.rows[i].opaque => i = 1
  BY <1>1, <1>9, <1>11
<1>14. /\ x1' \in Seq(Compacting!Entries) /\ Len(x1') = Len(x1) + 1 /\ Len(x1') \in 0..MaxLogged
       /\ x2' \in 0..Len(x1') /\ Compacting!NothingForgotten' /\ Compacting!SentinelFirst' /\ Compacting!TurnsArePast' /\ Compacting!At(x2)' = e
  BY <1>3, <1>11, <1>12, <1>13, CompactingLogGrows DEF Compacting!IInv
<1>. QED BY <1>3, <1>6, <1>11, <1>14 DEF Compacting!State

\* Automatic compaction leaves the native state as it is.
LEMMA CompactingAutoIsWhole ==
    ASSUME Compacting!CompactionAssumption, Compacting!IInv, Compacting!Auto
    PROVE  /\ x1' \in Seq(Compacting!Entries) /\ Len(x1') \in 0..MaxLogged /\ x2' \in 0..Len(x1')
           /\ Len(x1') < MaxLogged \/ x1' = x1
           /\ Compacting!NothingForgotten' /\ Compacting!SentinelFirst' /\ Compacting!TurnsArePast'
           /\ Compacting!State' = Compacting!State
<1>1. /\ x2 \in 0..Len(x1) /\ Len(x1) \in Nat /\ MaxLogged \in Nat
      /\ Compacting!At(x2).rows \in Seq(Compacting!Lines)
  BY CompactingPlacesAreWhole DEF Compacting!IInv, Compacting!TypeOK, Compacting!Shapes, Compacting!Entries, Compacting!CompactionAssumption
<1>2. CASE UNCHANGED <<x1, x2>>
  BY <1>1, <1>2, CompactingSameLog DEF Compacting!State
<1>3. ASSUME NEW count \in 1..(Len(Compacting!Rows) - 1), Len(x1) < MaxLogged - 1, Compacting!Local(count)
      PROVE  /\ x1' \in Seq(Compacting!Entries) /\ Len(x1') \in 0..MaxLogged /\ x2' \in 0..Len(x1')
             /\ Len(x1') < MaxLogged
             /\ Compacting!NothingForgotten' /\ Compacting!SentinelFirst' /\ Compacting!TurnsArePast'
             /\ Compacting!State' = Compacting!State
  <2>1. count \in 1..Len(Compacting!Rows) /\ Len(x1) < MaxLogged
    BY <1>1, <1>3 DEF Compacting!Rows
  <2>. QED BY <1>1, <1>3, <2>1, CompactingLocalIsWhole
<1>. QED BY <1>2, <1>3 DEF Compacting!Auto

LEMMA CompactingBranchHasState ==
    ASSUME Compacting!CompactionAssumption, Compacting!IInv
    PROVE  /\ x2 \in 0..Len(x1) /\ Len(x1) \in Nat /\ Compacting!State \in Compacting!States \cup {None}
           /\ x3.name \in Providers /\ x4 \in ServedModels
           /\ \A n \in 0..Len(x1) : Compacting!At(n).state \in Compacting!States \cup {None}
<1>1. x2 \in 0..Len(x1) /\ Len(x1) \in Nat /\ x3.name \in Providers /\ x4 \in ServedModels
  BY DEF Compacting!IInv, Compacting!TypeOK, Compacting!Shapes
<1>2. ASSUME NEW n \in 0..Len(x1) PROVE Compacting!At(n).state \in Compacting!States \cup {None}
  BY CompactingPlacesAreWhole DEF Compacting!IInv, Compacting!Entries
<1>. QED BY <1>1, <1>2 DEF Compacting!State

\* A new object, or one that is told: it replays the state that it is given wherever it serves Responses.
LEMMA CompactingToldReplays ==
    ASSUME Compacting!CompactionAssumption, NEW p \in Providers, NEW s \in Compacting!States \cup {None}
    PROVE  /\ Compacting!Replays(p, s) \in Compacting!States \cup {None}
           /\ s = None => Compacting!Replays(p, s) = None
           /\ p \in Setters => Compacting!Replays(p, s) = s
           /\ \A m \in ServedModels : Compacting!Responses(p, m) => p \in Setters
BY DEF Compacting!CompactionAssumption, Compacting!Replays, Compacting!Responses

LEMMA CompactingInitIsGood ==
    ASSUME Compacting!CompactionAssumption, Compacting!Init
    PROVE  Compacting!IInv
<1>1. /\ x1 = <<>> /\ x2 = 0 /\ x4 \in ServedModels /\ x5 \in BOOLEAN
      /\ x6 = "idle" /\ x7 = None /\ x8 = FALSE
  BY DEF Compacting!Init
<1>2. PICK p \in Providers : x3 = [name |-> p, state |-> None]
  BY DEF Compacting!Init
<1>3. Compacting!Shapes
  BY <1>1, <1>2 DEF Compacting!Shapes
<1>4. DOMAIN x1 = {} /\ Len(x1) = 0
  BY <1>1
<1>5. Compacting!NothingForgotten /\ Compacting!SentinelFirst /\ Compacting!TurnsArePast
  BY <1>4 DEF Compacting!NothingForgotten, Compacting!SentinelFirst, Compacting!TurnsArePast
<1>6. Compacting!State = None
  BY <1>1 DEF Compacting!State, Compacting!At, Compacting!Root
<1>7. Compacting!FollowsBranch /\ Compacting!RoomToAsk /\ Compacting!RequestsAreWhole
  BY <1>1, <1>2, <1>6 DEF Compacting!FollowsBranch, Compacting!RoomToAsk, Compacting!RequestsAreWhole
<1>8. Compacting!TypeOK
  <2>1. x3.name \in Providers /\ MaxLogged \in Nat
    BY <1>2 DEF Compacting!CompactionAssumption
  <2>2. Len(x1) \in 0..MaxLogged /\ x2 \in 0..Len(x1)
    BY <1>1, <1>4, <2>1
  <2>. QED BY <1>1, <2>1, <2>2 DEF Compacting!TypeOK
<1>. QED BY <1>3, <1>5, <1>7, <1>8 DEF Compacting!IInv

LEMMA CompactingPromptKeeps == ASSUME Compacting!CompactionAssumption, Compacting!IInv, Compacting!Prompt PROVE Compacting!IInv'
<1>1. /\ Len(x1) < MaxLogged /\ Compacting!Auto /\ x6' = "asked" /\ x3' = x3 /\ x4' = x4
      /\ x5' = x5 /\ x8' = x8
  BY DEF Compacting!Prompt
<1>2. /\ x1' \in Seq(Compacting!Entries) /\ Len(x1') \in 0..MaxLogged /\ x2' \in 0..Len(x1')
      /\ Len(x1') < MaxLogged
      /\ Compacting!NothingForgotten' /\ Compacting!SentinelFirst' /\ Compacting!TurnsArePast' /\ Compacting!State' = Compacting!State
  BY <1>1, CompactingAutoIsWhole
<1>3. Compacting!TypeOK' /\ Compacting!Shapes'
  BY <1>1, <1>2 DEF Compacting!IInv, Compacting!TypeOK, Compacting!Shapes
<1>4. Compacting!FollowsBranch'
  BY <1>1, <1>2 DEF Compacting!IInv, Compacting!FollowsBranch
<1>5. Compacting!RoomToAsk' /\ Compacting!RequestsAreWhole'
  BY <1>1, <1>2 DEF Compacting!RoomToAsk, Compacting!RequestsAreWhole
<1>. QED BY <1>2, <1>3, <1>4, <1>5 DEF Compacting!IInv

LEMMA CompactingAfterKeeps == ASSUME Compacting!CompactionAssumption, Compacting!IInv, Compacting!After PROVE Compacting!IInv'
<1>1. /\ Compacting!Auto /\ x6' = "idle" /\ x3' = x3 /\ x4' = x4
      /\ x5' = x5 /\ x8' = x8
  BY DEF Compacting!After
<1>2. /\ x1' \in Seq(Compacting!Entries) /\ Len(x1') \in 0..MaxLogged /\ x2' \in 0..Len(x1')
      /\ Compacting!NothingForgotten' /\ Compacting!SentinelFirst' /\ Compacting!TurnsArePast' /\ Compacting!State' = Compacting!State
  BY <1>1, CompactingAutoIsWhole
<1>3. Compacting!TypeOK' /\ Compacting!Shapes'
  BY <1>1, <1>2 DEF Compacting!IInv, Compacting!TypeOK, Compacting!Shapes
<1>4. Compacting!FollowsBranch'
  BY <1>1, <1>2 DEF Compacting!IInv, Compacting!FollowsBranch
<1>5. Compacting!RoomToAsk' /\ Compacting!RequestsAreWhole'
  BY <1>1, <1>2 DEF Compacting!RoomToAsk, Compacting!RequestsAreWhole
<1>. QED BY <1>2, <1>3, <1>4, <1>5 DEF Compacting!IInv

\* The turn is new, and the request holds what the branch holds: by its rows, or by the state as well.
LEMMA CompactingAskKeeps == ASSUME Compacting!CompactionAssumption, Compacting!IInv, Compacting!Ask PROVE Compacting!IInv'
<1>. DEFINE turn == Len(x1) + 1
            old == Compacting!At(x2)
            row == Compacting!Row({turn})
            new == Append(old.rows, row)
            e == [parent |-> x2, rows |-> new, state |-> old.state, turns |-> old.turns \cup {turn}]
<1>1. /\ x6 = "asked" /\ x6' = "answered" /\ Compacting!Appended(e)
      /\ x7' = (IF Compacting!Request = None THEN None
                   ELSE [got |-> Compacting!Request.turns, prose |-> Compacting!Request.prose, wanted |-> old.turns])
      /\ x3' = x3 /\ x4' = x4 /\ x5' = x5 /\ x8' = x8
  BY DEF Compacting!Ask, Compacting!Rows, Compacting!State
<1>2. /\ x2 \in 0..Len(x1) /\ Len(x1) \in Nat /\ Len(x1) < MaxLogged
      /\ old \in Compacting!Entries /\ Compacting!Whole(old) /\ old.turns \subseteq 1..x2
      /\ \A i \in DOMAIN old.rows : old.rows[i].opaque => i = 1
  BY <1>1, CompactingPlacesAreWhole DEF Compacting!IInv, Compacting!TypeOK, Compacting!Shapes, Compacting!RoomToAsk
<1>3. old.rows \in Seq(Compacting!Lines) /\ old.turns \in SUBSET Nat /\ old.state \in Compacting!States \cup {None}
  BY <1>2 DEF Compacting!Entries
<1>4. turn \in Nat /\ turn \notin old.turns
  BY <1>2
<1>5. old.rows = Compacting!Rows /\ old.state = Compacting!State
  BY DEF Compacting!Rows, Compacting!State
<1>. HIDE DEF old, turn
<1>6. row \in Compacting!Lines /\ row.turns = {turn} /\ row.opaque = FALSE
  BY <1>4 DEF Compacting!Row, Compacting!Lines
<1>. HIDE DEF row
<1>7. /\ new \in Seq(Compacting!Lines)
      /\ Compacting!Said(new) = Compacting!Said(old.rows) \cup {turn}
      /\ Compacting!Opaque(new) <=> Compacting!Opaque(old.rows)
  BY <1>3, <1>6, CompactingRowIsAdded
<1>8. /\ Len(old.rows) \in Nat /\ DOMAIN old.rows = 1..Len(old.rows)
      /\ \A i \in DOMAIN new : (i \in DOMAIN old.rows /\ new[i] = old.rows[i]) \/ (i = Len(old.rows) + 1 /\ new[i] = row)
  BY <1>3
<1>. HIDE DEF new
<1>9. \A i \in DOMAIN old.rows : turn \notin old.rows[i].turns
  <2>. TAKE i \in DOMAIN old.rows
  <2>1. old.rows[i].turns \subseteq Compacting!Said(old.rows)
    BY Zenon DEF Compacting!Said
  <2>2. Compacting!Said(old.rows) \subseteq old.turns
    BY <1>2 DEF Compacting!Whole
  <2>. QED BY <1>4, <2>1, <2>2
<1>10. \A i, j \in DOMAIN new : i # j => new[i].turns \cap new[j].turns = {}
  BY <1>2, <1>6, <1>8, <1>9 DEF Compacting!Whole
<1>11. \A i \in DOMAIN new : new[i].opaque => i = 1
  BY <1>2, <1>6, <1>8
<1>12. e \in Compacting!Entries /\ e.rows = new /\ e.state = old.state /\ e.turns = old.turns \cup {turn}
  BY <1>2, <1>3, <1>4, <1>7 DEF Compacting!Entries
<1>. HIDE DEF e
<1>13. Compacting!Whole(e)
  <2>1. turn \notin (IF old.state = None THEN {} ELSE old.state.turns)
    BY <1>2, <1>4 DEF Compacting!Whole
  <2>. QED BY <1>2, <1>7, <1>10, <1>12, <2>1 DEF Compacting!Whole
<1>14. e.turns \subseteq 1..(Len(x1) + 1)
  BY <1>2, <1>12 DEF turn
<1>15. /\ x1' \in Seq(Compacting!Entries) /\ Len(x1') \in 0..MaxLogged /\ x2' \in 0..Len(x1')
       /\ Compacting!NothingForgotten' /\ Compacting!SentinelFirst' /\ Compacting!TurnsArePast' /\ Compacting!At(x2)' = e
  BY <1>1, <1>2, <1>11, <1>12, <1>13, <1>14, CompactingLogGrows DEF Compacting!IInv
<1>16. Compacting!State' = Compacting!State
  BY <1>5, <1>12, <1>15 DEF Compacting!State
<1>17. Compacting!TypeOK' /\ Compacting!Shapes'
  BY <1>1, <1>15 DEF Compacting!IInv, Compacting!TypeOK, Compacting!Shapes
<1>18. Compacting!FollowsBranch'
  BY <1>1, <1>16 DEF Compacting!IInv, Compacting!FollowsBranch
<1>19. Compacting!RoomToAsk'
  BY <1>1 DEF Compacting!RoomToAsk
<1>20. Compacting!RequestsAreWhole'
  <2>. SUFFICES ASSUME ~x8, Compacting!Request # None
                PROVE  ~Compacting!Request.prose /\ Compacting!Request.turns = old.turns
    <3>1. Compacting!Request # None => x7' = [got |-> Compacting!Request.turns, prose |-> Compacting!Request.prose, wanted |-> old.turns]
      BY <1>1
    <3>2. Compacting!Request # None => x7'.got = Compacting!Request.turns /\ x7'.prose = Compacting!Request.prose /\ x7'.wanted = old.turns
      BY <3>1
    <3>3. Compacting!Request = None => x7' = None
      BY <1>1
    <3>. QED BY <1>1, <3>2, <3>3 DEF Compacting!RequestsAreWhole
  <2>1. IF Compacting!Responses(x3.name, x4) THEN x3.state = old.state ELSE old.state = None
    BY <1>5 DEF Compacting!IInv, Compacting!FollowsBranch
  <2>2. CASE old.state = None
    <3>1. Compacting!Said(old.rows) = old.turns /\ ~Compacting!Opaque(old.rows)
      BY <1>2, <2>2 DEF Compacting!Whole
    <3>2. CASE Compacting!Responses(x3.name, x4)
      <4>1. Compacting!Request = [turns |-> Compacting!Said(old.rows), prose |-> FALSE]
        BY <1>5, <2>1, <2>2, <3>2 DEF Compacting!Request
      <4>. QED BY <3>1, <4>1
    <3>3. CASE ~Compacting!Responses(x3.name, x4)
      <4>1. Compacting!Request = [turns |-> Compacting!Said(old.rows), prose |-> Compacting!Opaque(old.rows)]
        BY <1>5, <3>3 DEF Compacting!Request
      <4>2. Compacting!Request.turns = Compacting!Said(old.rows) /\ Compacting!Request.prose = Compacting!Opaque(old.rows)
        BY <4>1
      <4>. QED BY <3>1, <4>2
    <3>. QED BY <3>2, <3>3
  <2>3. CASE old.state # None
    <3>1. Compacting!Responses(x3.name, x4) /\ x3.state = old.state
      BY <2>1, <2>3
    <3>2. old.state.turns \cup Compacting!Said(old.rows) = old.turns
      BY <1>2, <2>3 DEF Compacting!Whole
    <3>3. Compacting!Request = [turns |-> old.state.turns \cup Compacting!Said(old.rows), prose |-> FALSE]
      BY <1>5, <2>3, <3>1 DEF Compacting!Request
    <3>. QED BY <3>2, <3>3
  <2>. QED BY <2>2, <2>3
<1>. QED BY <1>15, <1>17, <1>18, <1>19, <1>20 DEF Compacting!IInv

LEMMA CompactingCompactKeeps == ASSUME Compacting!CompactionAssumption, Compacting!IInv, Compacting!Compact PROVE Compacting!IInv'
<1>1. /\ x6 = "idle" /\ x6' = x6 /\ x7' = x7 /\ Compacting!Rows # <<>> /\ Len(x1) < MaxLogged
      /\ x4' = x4 /\ x5' = x5
  BY DEF Compacting!Compact, Compacting!Idle
<1>2. Compacting!RoomToAsk' /\ Compacting!RequestsAreWhole'
  BY <1>1 DEF Compacting!RoomToAsk, Compacting!RequestsAreWhole
<1>3. PICK state \in Compacting!Attempts :
        IF state # None
        THEN /\ Compacting!Compacted(Len(Compacting!Rows), Compacting!Sentinel, state)
             /\ x3' = [x3 EXCEPT !.state = state]
             /\ x8' = FALSE
        ELSE Compacting!Local(Len(Compacting!Rows)) /\ UNCHANGED <<x3, x8>>
  BY DEF Compacting!Compact
<1>4. x3 \in [name : Providers, state : Compacting!States \cup {None}]
  BY DEF Compacting!IInv, Compacting!Shapes
<1>5. CASE state # None
  <2>1. state \in Compacting!Replies(Compacting!Previous)
    BY <1>3, <1>5 DEF Compacting!Attempts
  <2>2. /\ state \in Compacting!States /\ Compacting!Responses(x3.name, x4) /\ Compacting!State' = state
        /\ x1' \in Seq(Compacting!Entries) /\ Len(x1') \in 0..MaxLogged /\ x2' \in 0..Len(x1')
        /\ Compacting!NothingForgotten' /\ Compacting!SentinelFirst' /\ Compacting!TurnsArePast'
    BY <1>1, <1>3, <1>5, <2>1, CompactingNativeIsWhole
  <2>3. /\ x3' \in [name : Providers, state : Compacting!States \cup {None}]
        /\ x3'.name = x3.name /\ x3'.state = state /\ x8' = FALSE
    BY <1>3, <1>4, <1>5, <2>2
  <2>4. Compacting!TypeOK' /\ Compacting!Shapes'
    BY <1>1, <2>2, <2>3 DEF Compacting!IInv, Compacting!TypeOK, Compacting!Shapes
  <2>5. Compacting!FollowsBranch'
    BY <1>1, <2>2, <2>3 DEF Compacting!FollowsBranch
  <2>. QED BY <1>2, <2>2, <2>4, <2>5 DEF Compacting!IInv
<1>6. CASE state = None
  <2>1. Len(Compacting!Rows) \in 1..Len(Compacting!Rows)
    <3>1. Compacting!Rows \in Seq(Compacting!Lines)
      BY CompactingPlacesAreWhole DEF Compacting!IInv, Compacting!TypeOK, Compacting!Entries, Compacting!Rows
    <3>. QED BY <1>1, <3>1
  <2>2. Compacting!Local(Len(Compacting!Rows)) /\ x3' = x3 /\ x8' = x8
    BY <1>3, <1>6
  <2>3. /\ Compacting!State' = Compacting!State
        /\ x1' \in Seq(Compacting!Entries) /\ Len(x1') \in 0..MaxLogged /\ x2' \in 0..Len(x1')
        /\ Compacting!NothingForgotten' /\ Compacting!SentinelFirst' /\ Compacting!TurnsArePast'
    BY <1>1, <2>1, <2>2, CompactingLocalIsWhole
  <2>4. Compacting!TypeOK' /\ Compacting!Shapes'
    BY <1>1, <2>2, <2>3 DEF Compacting!IInv, Compacting!TypeOK, Compacting!Shapes
  <2>5. Compacting!FollowsBranch'
    BY <1>1, <2>2, <2>3 DEF Compacting!IInv, Compacting!FollowsBranch
  <2>. QED BY <1>2, <2>3, <2>4, <2>5 DEF Compacting!IInv
<1>. QED BY <1>5, <1>6

\* What leaves the log alone: the user switches, branches, changes the settings or resumes.
LEMMA CompactingSwitchKeeps ==
    ASSUME Compacting!CompactionAssumption, Compacting!IInv, x1' = x1, x2' \in 0..Len(x1), x7' = x7, x6' = "idle",
           x4' \in ServedModels, x5' \in BOOLEAN, x8' \in BOOLEAN,
           x3' \in [name : Providers, state : Compacting!States \cup {None}],
           ~x8' => IF Compacting!Responses(x3'.name, x4') THEN x3'.state = Compacting!At(x2').state ELSE Compacting!At(x2').state = None
    PROVE  Compacting!IInv'
<1>1. /\ x1' \in Seq(Compacting!Entries) /\ Len(x1') \in 0..MaxLogged /\ x2' \in 0..Len(x1')
      /\ Compacting!NothingForgotten' /\ Compacting!SentinelFirst' /\ Compacting!TurnsArePast'
      /\ Compacting!At(x2)' = Compacting!At(x2')
  BY CompactingSameLog
<1>2. Compacting!TypeOK' /\ Compacting!Shapes'
  BY <1>1 DEF Compacting!TypeOK, Compacting!Shapes
<1>3. Compacting!State' = Compacting!At(x2').state
  BY <1>1 DEF Compacting!State
<1>4. Compacting!FollowsBranch'
  BY <1>3 DEF Compacting!FollowsBranch
<1>5. Compacting!RoomToAsk' /\ Compacting!RequestsAreWhole'
  BY DEF Compacting!RoomToAsk, Compacting!RequestsAreWhole
<1>. QED BY <1>1, <1>2, <1>4, <1>5 DEF Compacting!IInv

\* The object is told the state of the entry at which the session now stands.
LEMMA CompactingRefreshedFollows ==
    ASSUME Compacting!CompactionAssumption, Compacting!IInv, NEW m \in ServedModels, NEW n \in 0..Len(x1), Compacting!Refreshed(m, n)
    PROVE  /\ x3' \in [name : Providers, state : Compacting!States \cup {None}] /\ x8' \in BOOLEAN
           /\ ~x8' => IF Compacting!Responses(x3'.name, m) THEN x3'.state = Compacting!At(n).state ELSE Compacting!At(n).state = None
<1>1. x3 \in [name : Providers, state : Compacting!States \cup {None}]
  BY DEF Compacting!IInv, Compacting!Shapes
<1>2. Compacting!At(n).state \in Compacting!States \cup {None}
  BY CompactingBranchHasState
<1>3. CASE Compacting!Remade(m, n)
  <2>1. /\ x3' = [x3 EXCEPT !.state = Compacting!Replays(x3.name, Compacting!At(n).state)]
        /\ x8' = (Compacting!At(n).state # None /\ ~Compacting!Responses(x3.name, m))
    BY <1>3 DEF Compacting!Remade
  <2>2. /\ Compacting!Replays(x3.name, Compacting!At(n).state) \in Compacting!States \cup {None}
        /\ Compacting!At(n).state = None => Compacting!Replays(x3.name, Compacting!At(n).state) = None
        /\ Compacting!Responses(x3.name, m) => Compacting!Replays(x3.name, Compacting!At(n).state) = Compacting!At(n).state
    BY <1>1, <1>2, CompactingToldReplays
  <2>3. /\ x3' \in [name : Providers, state : Compacting!States \cup {None}]
        /\ x3'.name = x3.name /\ x3'.state = Compacting!Replays(x3.name, Compacting!At(n).state)
    BY <1>1, <2>1, <2>2
  <2>. QED BY <2>1, <2>2, <2>3
<1>4. CASE Compacting!Kept(m, n)
  <2>1. /\ x3' = x3
        /\ x8' = IF Compacting!Responses(x3.name, m) THEN x3.state # Compacting!At(n).state ELSE Compacting!At(n).state # None
    BY <1>4 DEF Compacting!Kept
  <2>2. CASE Compacting!Responses(x3.name, m)
    BY <1>1, <2>1, <2>2
  <2>3. CASE ~Compacting!Responses(x3.name, m)
    BY <1>1, <2>1, <2>3
  <2>. QED BY <2>2, <2>3
<1>. QED BY <1>3, <1>4 DEF Compacting!Refreshed

LEMMA CompactingSetModelKeeps == ASSUME Compacting!CompactionAssumption, Compacting!IInv, NEW m \in ServedModels, Compacting!SetModel(m) PROVE Compacting!IInv'
<1>1. /\ x6 = "idle" /\ x6' = x6 /\ x7' = x7 /\ x1' = x1 /\ x2' = x2 /\ x5' = x5
      /\ x4' = m /\ Compacting!Refreshed(m, x2)
  BY DEF Compacting!SetModel, Compacting!Idle
<1>2. x2 \in 0..Len(x1) /\ x5 \in BOOLEAN
  BY DEF Compacting!IInv, Compacting!TypeOK
<1>3. /\ x3' \in [name : Providers, state : Compacting!States \cup {None}] /\ x8' \in BOOLEAN
      /\ ~x8' => IF Compacting!Responses(x3'.name, m) THEN x3'.state = Compacting!At(x2).state ELSE Compacting!At(x2).state = None
  BY <1>1, <1>2, CompactingRefreshedFollows
<1>. QED BY <1>1, <1>2, <1>3, CompactingSwitchKeeps

LEMMA CompactingBranchKeeps == ASSUME Compacting!CompactionAssumption, Compacting!IInv, NEW n \in 0..Len(x1), Compacting!Branch(n) PROVE Compacting!IInv'
<1>1. /\ x6 = "idle" /\ x6' = x6 /\ x7' = x7 /\ x1' = x1 /\ x2' = n /\ x5' = x5
      /\ x4' = x4 /\ Compacting!Refreshed(x4, n)
  BY DEF Compacting!Branch, Compacting!Idle
<1>2. x4 \in ServedModels /\ x5 \in BOOLEAN
  BY DEF Compacting!IInv, Compacting!TypeOK
<1>3. /\ x3' \in [name : Providers, state : Compacting!States \cup {None}] /\ x8' \in BOOLEAN
      /\ ~x8' => IF Compacting!Responses(x3'.name, x4) THEN x3'.state = Compacting!At(n).state ELSE Compacting!At(n).state = None
  BY <1>1, <1>2, CompactingRefreshedFollows
<1>. QED BY <1>1, <1>2, <1>3, CompactingSwitchKeeps

LEMMA CompactingSetProviderKeeps == ASSUME Compacting!CompactionAssumption, Compacting!IInv, NEW p \in Providers, NEW m \in ServedModels, Compacting!SetProvider(p, m) PROVE Compacting!IInv'
<1>1. /\ x6 = "idle" /\ x6' = x6 /\ x7' = x7 /\ x1' = x1 /\ x2' = x2 /\ x5' = x5
      /\ x4' = m /\ x3' = [name |-> p, state |-> None] /\ x8' = (Compacting!State # None)
  BY DEF Compacting!SetProvider, Compacting!Idle
<1>2. x2 \in 0..Len(x1) /\ x5 \in BOOLEAN
  BY DEF Compacting!IInv, Compacting!TypeOK
<1>3. x3' \in [name : Providers, state : Compacting!States \cup {None}] /\ x3'.state = None /\ x8' \in BOOLEAN
  BY <1>1
<1>4. ~x8' => Compacting!At(x2).state = None
  BY <1>1 DEF Compacting!State
<1>. QED BY <1>1, <1>2, <1>3, <1>4, CompactingSwitchKeeps

\* Compaction by the provider is not disabled on a branch with native state.
LEMMA CompactingConfigureKeeps == ASSUME Compacting!CompactionAssumption, Compacting!IInv, Compacting!Configure PROVE Compacting!IInv'
<1>. DEFINE told == IF x5' THEN Compacting!State ELSE None
<1>1. /\ x6 = "idle" /\ x6' = x6 /\ x7' = x7 /\ x1' = x1 /\ x2' = x2 /\ x4' = x4
      /\ (x5 => Compacting!State = None) /\ x5' = ~x5
      /\ x3' = [x3 EXCEPT !.state = Compacting!Replays(x3.name, told)]
      /\ x8' = (x8 /\ (x3.name \notin Setters \/ ~Compacting!Responses(x3.name, x4)))
  BY DEF Compacting!Configure, Compacting!Idle
<1>2. /\ x2 \in 0..Len(x1) /\ Compacting!State \in Compacting!States \cup {None}
      /\ x3.name \in Providers /\ x4 \in ServedModels /\ x5 \in BOOLEAN /\ x8 \in BOOLEAN
      /\ x3 \in [name : Providers, state : Compacting!States \cup {None}]
  BY CompactingBranchHasState DEF Compacting!IInv, Compacting!TypeOK, Compacting!Shapes
<1>3. told = Compacting!State
  BY <1>1, <1>2
<1>4. x5' \in BOOLEAN /\ x8' \in BOOLEAN
  BY <1>1, <1>2
<1>. HIDE DEF told
<1>5. /\ Compacting!Replays(x3.name, told) \in Compacting!States \cup {None}
      /\ x3.name \in Setters => Compacting!Replays(x3.name, told) = Compacting!State
      /\ Compacting!Responses(x3.name, x4) => x3.name \in Setters
  BY <1>2, <1>3, CompactingToldReplays
<1>6. /\ x3' \in [name : Providers, state : Compacting!States \cup {None}]
      /\ x3'.name = x3.name /\ x3'.state = Compacting!Replays(x3.name, told)
  BY <1>1, <1>2, <1>5
<1>7. ~x8 /\ ~Compacting!Responses(x3.name, x4) => Compacting!State = None
  BY DEF Compacting!IInv, Compacting!FollowsBranch
<1>8. ~x8' => IF Compacting!Responses(x3'.name, x4') THEN x3'.state = Compacting!At(x2').state ELSE Compacting!At(x2').state = None
  BY <1>1, <1>5, <1>6, <1>7 DEF Compacting!State
<1>. QED BY <1>1, <1>2, <1>4, <1>6, <1>8, CompactingSwitchKeeps

LEMMA CompactingResumeKeeps == ASSUME Compacting!CompactionAssumption, Compacting!IInv, Compacting!Resume PROVE Compacting!IInv'
<1>1. /\ x6' = "idle" /\ x7' = x7 /\ x1' = x1 /\ x2' = x2 /\ x4' = x4 /\ x5' \in BOOLEAN
      /\ x3' = [x3 EXCEPT !.state = Compacting!Replays(x3.name, Compacting!State)]
      /\ x8' = (Compacting!State # None /\ (x3.name \notin Setters \/ ~Compacting!Responses(x3.name, x4)))
  BY DEF Compacting!Resume
<1>2. /\ x2 \in 0..Len(x1) /\ Compacting!State \in Compacting!States \cup {None}
      /\ x3.name \in Providers /\ x4 \in ServedModels
      /\ x3 \in [name : Providers, state : Compacting!States \cup {None}]
  BY CompactingBranchHasState DEF Compacting!IInv, Compacting!Shapes
<1>3. /\ Compacting!Replays(x3.name, Compacting!State) \in Compacting!States \cup {None}
      /\ Compacting!State = None => Compacting!Replays(x3.name, Compacting!State) = None
      /\ x3.name \in Setters => Compacting!Replays(x3.name, Compacting!State) = Compacting!State
  BY <1>2, CompactingToldReplays
<1>4. /\ x3' \in [name : Providers, state : Compacting!States \cup {None}]
      /\ x3'.name = x3.name /\ x3'.state = Compacting!Replays(x3.name, Compacting!State)
  BY <1>1, <1>2, <1>3
<1>5. x8' \in BOOLEAN
  BY <1>1
<1>6. ~x8' => IF Compacting!Responses(x3'.name, x4') THEN x3'.state = Compacting!At(x2').state ELSE Compacting!At(x2').state = None
  BY <1>1, <1>3, <1>4 DEF Compacting!State
<1>. QED BY <1>1, <1>2, <1>4, <1>5, <1>6, CompactingSwitchKeeps

LEMMA CompactingStepKeeps ==
    ASSUME Compacting!CompactionAssumption, Compacting!IInv, [Compacting!Next]_(Compacting!vars)
    PROVE  Compacting!IInv'
<1>1. CASE Compacting!Prompt \/ Compacting!Ask \/ Compacting!After \/ Compacting!Compact
  BY <1>1, CompactingPromptKeeps, CompactingAskKeeps, CompactingAfterKeeps, CompactingCompactKeeps
<1>2. CASE Compacting!Configure \/ Compacting!Resume
  BY <1>2, CompactingConfigureKeeps, CompactingResumeKeeps
<1>3. ASSUME NEW m \in ServedModels, Compacting!SetModel(m) PROVE Compacting!IInv'
  BY <1>3, CompactingSetModelKeeps
<1>4. ASSUME NEW p \in Providers, NEW m \in ServedModels, Compacting!SetProvider(p, m) PROVE Compacting!IInv'
  BY <1>4, CompactingSetProviderKeeps
<1>5. ASSUME NEW n \in 0..Len(x1), Compacting!Branch(n) PROVE Compacting!IInv'
  BY <1>5, CompactingBranchKeeps
<1>6. CASE UNCHANGED Compacting!vars
  BY <1>6 DEF Compacting!vars, Compacting!IInv, Compacting!TypeOK, Compacting!Shapes, Compacting!NothingForgotten, Compacting!SentinelFirst, Compacting!TurnsArePast, Compacting!FollowsBranch, Compacting!RoomToAsk,
              Compacting!RequestsAreWhole, Compacting!State, Compacting!At
<1>. QED BY <1>1, <1>2, <1>3, <1>4, <1>5, <1>6 DEF Compacting!Next

\* Turns, local and native compactions, branches, switches of model and provider, settings and resumed sessions in
\* any order: the rows of an entry and its native state stand for exactly the turns of its branch, nothing
\* stands before a sentinel, and the provider object replays the state of the branch until the user
\* switches away from it or the object could not be refreshed.
THEOREM CompactingAlwaysGood ==
    ASSUME Compacting!CompactionAssumption
    PROVE  Compacting!Spec => []Compacting!IInv
BY CompactingInitIsGood, CompactingStepKeeps, PTL DEF Compacting!Spec

-----------------------------------------------------------------------------
(* The settings of a session and its agent *)

\* The models of a session: two in the runs.
Settings == INSTANCE SessionSettings WITH
    Models <- SessionModels, row <- x1, tree <- x2, leaf <- x3, agent <- x4, lock <- x5, compaction <- x6, buffer <- x7,
    changes <- x8, overtaken <- x9, wandered <- x10, late <- x11, misnamed <- x12

\* Every place of the tree has a model, and an append leaves what the places say.
LEMMA SettingsPlacesHaveModels ==
    ASSUME Settings!SettingsAssumption, Settings!Shapes, NEW i \in Settings!Places
    PROVE  Settings!EntryAt(i) \in Settings!Entries
<1>1. /\ x2 \in Seq(Settings!Entries) /\ Len(x2) \in Nat
      /\ i = 0 \/ i \in 1..Len(x2)
  BY DEF Settings!Shapes, Settings!Places
<1>2. CASE i = 0
  <2>1. Settings!EntryAt(i) = [model |-> Original, changes |-> {}]
    BY <1>2 DEF Settings!EntryAt
  <2>2. Original \in SessionModels /\ {} \in SUBSET (1..MaxChanges)
    BY DEF Settings!SettingsAssumption
  <2>. QED BY <2>1, <2>2 DEF Settings!Entries
<1>3. CASE i # 0
  <2>1. Settings!EntryAt(i) = x2[i]
    BY <1>3 DEF Settings!EntryAt
  <2>2. x2[i] \in Settings!Entries
    BY <1>1, <1>3
  <2>. QED BY <2>1, <2>2
<1>. QED BY <1>2, <1>3

LEMMA SettingsTreeGrows ==
    ASSUME Settings!SettingsAssumption, Settings!Shapes, NEW p \in Settings!Places, Len(x2) < MaxEntries,
           NEW e \in Settings!Entries, Settings!Appends(p, e)
    PROVE  /\ x2' \in Seq(Settings!Entries)
           /\ Len(x2') = Len(x2) + 1 /\ Len(x2) \in Nat /\ Len(x2') <= MaxEntries
           /\ x3' = Len(x2) + 1 /\ x3' \in Settings!Places' /\ Settings!Places \subseteq Settings!Places'
           /\ \A i \in Settings!Places : Settings!EntryAt(i)' = Settings!EntryAt(i)
           /\ Settings!EntryAt(x3)' = e
<1>1. /\ x2 \in Seq(Settings!Entries) /\ Len(x2) \in Nat /\ MaxEntries \in Nat
      /\ x2' = Append(x2, e) /\ x3' = Len(x2) + 1
  BY DEF Settings!Appends, Settings!Shapes, Settings!SettingsAssumption
<1>2. /\ x2' \in Seq(Settings!Entries) /\ Len(x2') = Len(x2) + 1
      /\ \A i \in 1..Len(x2) : x2'[i] = x2[i]
      /\ x2'[Len(x2) + 1] = e
  BY <1>1
<1>3. Settings!Places' = 0..Len(x2) + 1
  BY <1>2 DEF Settings!Places
<1>4. x3' \in Settings!Places' /\ Settings!Places \subseteq Settings!Places'
  BY <1>1, <1>3 DEF Settings!Places
<1>5. \A i \in Settings!Places : Settings!EntryAt(i)' = Settings!EntryAt(i)
  <2>. TAKE i \in Settings!Places
  <2>1. i = 0 \/ i \in 1..Len(x2)
    BY <1>1 DEF Settings!Places
  <2>. QED BY <1>2, <2>1 DEF Settings!EntryAt
<1>6. Settings!EntryAt(x3)' = e
  <2>1. x3' # 0
    BY <1>1
  <2>. QED BY <1>1, <1>2, <2>1 DEF Settings!EntryAt
<1>. QED BY <1>1, <1>2, <1>4, <1>5, <1>6

LEMMA SettingsInitIsGood ==
    ASSUME Settings!SettingsAssumption, Settings!Init
    PROVE  Settings!IInv
<1>. USE DEF Settings!Init, Settings!SettingsAssumption
<1>1. x2 = <<>> /\ Len(x2) = 0 /\ Len(x7) = 0 /\ Settings!Places = 0..0 /\ 0 \in 0..0
  BY DEF Settings!Places
<1>2. Settings!Shapes
  <2>1. /\ <<>> \in Seq(Settings!Entries) /\ <<>> \in Seq(SessionModels \cup {None})
        /\ 0 \in 0..MaxChanges
    OBVIOUS
  <2>. QED BY <2>1 DEF Settings!Shapes
<1>3. Settings!TypeOK
  BY <1>1 DEF Settings!TypeOK
<1>4. Settings!AgentIsCurrent /\ Settings!RowIsThePath /\ Settings!CompactionIsCurrent /\ Settings!UsageIsOfItsModel
  BY DEF Settings!AgentIsCurrent, Settings!RowIsThePath, Settings!CompactionIsCurrent, Settings!UsageIsOfItsModel, Settings!EntryAt
<1>5. Settings!BufferIsNamed
  BY <1>1 DEF Settings!BufferIsNamed
<1>. QED BY <1>2, <1>3, <1>4, <1>5 DEF Settings!IInv

\* What the types say besides the shapes
LEMMA SettingsTypesFollow ==
    ASSUME Settings!SettingsAssumption, Settings!Shapes', x1' \in SessionModels, x3' \in Settings!Places', Len(x2') <= MaxEntries
    PROVE  Settings!TypeOK'
<1>1. x2' \in Seq(Settings!Entries) /\ x4' \in [model : SessionModels, leaf : Settings!Places', running : BOOLEAN, takes : BOOLEAN] \cup {None}
  BY DEF Settings!Shapes, Settings!Entries
<1>2. \A i \in DOMAIN x2' : x2'[i].model \in SessionModels /\ x2'[i].changes \subseteq 1..MaxChanges
  <2>. TAKE i \in DOMAIN x2'
  <2>1. x2'[i] \in Settings!Entries
    BY <1>1
  <2>. QED BY <2>1 DEF Settings!Entries
<1>3. x4' # None => x4'.model \in SessionModels /\ x4'.leaf \in 0..Len(x2') /\ {x4'.running, x4'.takes} \subseteq BOOLEAN
  BY <1>1 DEF Settings!Places
<1>. QED BY <1>2, <1>3 DEF Settings!TypeOK, Settings!Places

\* A step that leaves the tree alone
LEMMA SettingsSameTree ==
    ASSUME Settings!SettingsAssumption, Settings!IInv, x2' = x2, x1' = x1, x3' \in Settings!Places
    PROVE  /\ Settings!Places' = Settings!Places /\ \A i \in Settings!Places : Settings!EntryAt(i)' = Settings!EntryAt(i)
           /\ x3 \in Settings!Places
           /\ Settings!Shapes' => Settings!TypeOK'
<1>1. Settings!Places' = Settings!Places /\ \A i \in Settings!Places : Settings!EntryAt(i)' = Settings!EntryAt(i)
  BY DEF Settings!Places, Settings!EntryAt
<1>2. x3 \in Settings!Places /\ Len(x2) <= MaxEntries /\ x1 \in SessionModels
  BY DEF Settings!IInv, Settings!TypeOK, Settings!Places
<1>. QED BY <1>1, <1>2, SettingsTypesFollow

LEMMA SettingsLoadedIsCurrent ==
    ASSUME Settings!SettingsAssumption, Settings!Shapes, x3 \in Settings!Places
    PROVE  /\ Settings!Loaded \in [model : SessionModels, leaf : Settings!Places, running : BOOLEAN, takes : BOOLEAN]
           /\ Settings!Loaded.leaf = x3 /\ Settings!Loaded.model = Settings!EntryAt(x3).model /\ Settings!Loaded.running = FALSE /\ Settings!Loaded.takes = TRUE
<1>1. Settings!EntryAt(x3).model \in SessionModels
  BY SettingsPlacesHaveModels DEF Settings!Entries
<1>. QED BY <1>1 DEF Settings!Loaded

LEMMA SettingsSubmitKeeps == ASSUME Settings!SettingsAssumption, Settings!IInv, Settings!Submit PROVE Settings!IInv'
<1>1. /\ x5 = None /\ x5' = x5 /\ x2' = x2 /\ x1' = x1 /\ x3' = x3 /\ x6' = x6
      /\ x7' = x7 /\ x8' = x8 /\ x10' = x10 /\ x11' = x11 /\ x12' = x12
      /\ x9' = (x9 \/ x6 # None)
  BY DEF Settings!Submit
<1>11. x4 # None => ~x4.running /\ x4.takes
  BY DEF Settings!Submit, Settings!Ready
<1>2. x3 \in Settings!Places /\ (~x9 => x1 = Settings!EntryAt(x3).model \/ x10)
  BY DEF Settings!IInv, Settings!TypeOK, Settings!Places, Settings!RowIsThePath
<1>3. Settings!Places' = Settings!Places /\ \A i \in Settings!Places : Settings!EntryAt(i)' = Settings!EntryAt(i)
  BY <1>1, <1>2, SettingsSameTree
<1>. DEFINE before == IF x4 = None THEN Settings!Loaded ELSE x4
<1>4. /\ before \in [model : SessionModels, leaf : Settings!Places, running : BOOLEAN, takes : BOOLEAN]
      /\ ~x9 => before.leaf = x3 /\ before.model = Settings!EntryAt(x3).model
      /\ before.takes
  <2>1. /\ x4 \in [model : SessionModels, leaf : Settings!Places, running : BOOLEAN, takes : BOOLEAN] \cup {None}
        /\ x4 # None /\ ~x9 => x4.leaf = x3 /\ x4.model = Settings!EntryAt(x3).model
    BY <1>11, <1>1 DEF Settings!IInv, Settings!Shapes, Settings!AgentIsCurrent
  <2>2. CASE x4 = None
    BY <2>2, <1>2, SettingsLoadedIsCurrent DEF Settings!IInv
  <2>3. CASE x4 # None
    BY <1>11, <2>1, <2>3
  <2>. QED BY <2>2, <2>3
<1>5. x4' = [before EXCEPT !.running = TRUE]
  BY DEF Settings!Submit
<1>. HIDE DEF before
<1>6. /\ x4' \in [model : SessionModels, leaf : Settings!Places, running : BOOLEAN, takes : BOOLEAN]
      /\ ~x9 => x4'.leaf = x3 /\ x4'.model = Settings!EntryAt(x3).model
      /\ x4'.takes
  BY <1>4, <1>5
<1>7. Settings!Shapes'
  BY <1>1, <1>3, <1>6 DEF Settings!IInv, Settings!Shapes
<1>8. Settings!TypeOK'
  BY <1>1, <1>2, <1>7, SettingsSameTree
<1>9. Settings!AgentIsCurrent' /\ Settings!CompactionIsCurrent'
  BY <1>1, <1>2, <1>3, <1>6 DEF Settings!AgentIsCurrent, Settings!CompactionIsCurrent, Settings!IInv
<1>10. Settings!RowIsThePath' /\ Settings!BufferIsNamed' /\ Settings!UsageIsOfItsModel'
  BY <1>1, <1>2, <1>3 DEF Settings!RowIsThePath, Settings!BufferIsNamed, Settings!UsageIsOfItsModel, Settings!IInv
<1>. QED BY <1>7, <1>8, <1>9, <1>10 DEF Settings!IInv

LEMMA SettingsEndRunKeeps == ASSUME Settings!SettingsAssumption, Settings!IInv, Settings!EndRun PROVE Settings!IInv'
<1>1. /\ x5' = x5 /\ x2' = x2 /\ x1' = x1 /\ x3' = x3 /\ x6' = x6
      /\ x7' = x7 /\ x8' = x8 /\ x10' = x10 /\ x11' = x11 /\ x12' = x12
      /\ x9' = x9
  BY DEF Settings!EndRun
<1>2. x3 \in Settings!Places
  BY DEF Settings!IInv, Settings!TypeOK, Settings!Places
<1>3. Settings!Places' = Settings!Places /\ \A i \in Settings!Places : Settings!EntryAt(i)' = Settings!EntryAt(i)
  BY <1>1, <1>2, SettingsSameTree
<1>4. x4 \in [model : SessionModels, leaf : Settings!Places, running : BOOLEAN, takes : BOOLEAN] /\ x4' = [x4 EXCEPT !.running = FALSE]
  BY DEF Settings!EndRun, Settings!IInv, Settings!Shapes
<1>5. /\ x4' \in [model : SessionModels, leaf : Settings!Places, running : BOOLEAN, takes : BOOLEAN]
      /\ x4'.leaf = x4.leaf /\ x4'.model = x4.model /\ x4'.running = FALSE
      /\ x4'.takes = x4.takes
  BY <1>4
<1>6. x4 # None
  BY DEF Settings!EndRun
<1>7. Settings!Shapes'
  BY <1>1, <1>3, <1>5 DEF Settings!IInv, Settings!Shapes
<1>8. Settings!TypeOK'
  BY <1>1, <1>2, <1>7, SettingsSameTree
<1>9. Settings!AgentIsCurrent' /\ Settings!CompactionIsCurrent'
  BY <1>1, <1>2, <1>3, <1>5, <1>6 DEF Settings!AgentIsCurrent, Settings!CompactionIsCurrent, Settings!IInv
<1>10. Settings!RowIsThePath' /\ Settings!BufferIsNamed' /\ Settings!UsageIsOfItsModel'
  BY <1>1, <1>2, <1>3 DEF Settings!RowIsThePath, Settings!BufferIsNamed, Settings!UsageIsOfItsModel, Settings!IInv
<1>. QED BY <1>7, <1>8, <1>9, <1>10 DEF Settings!IInv

\* An answer comes from an agent that works, and then no change has the lock and nothing compacts unnoticed.
LEMMA SettingsAnswerKeeps == ASSUME Settings!SettingsAssumption, Settings!IInv, Settings!Answer PROVE Settings!IInv'
<1>1. /\ x5' = x5 /\ x1' = x1 /\ x6' = x6 /\ x8' = x8 /\ x10' = x10
      /\ x11' = x11 /\ x12' = x12 /\ x9' = x9
      /\ x4 # None /\ x4.running /\ Len(x2) < MaxEntries /\ Settings!Appends(x4.leaf, Settings!EntryAt(x4.leaf))
      /\ x4' = [x4 EXCEPT !.leaf = Len(x2) + 1]
      /\ x7' = Append(x7, IF x10 \/ x9 THEN None ELSE x4.model)
  BY DEF Settings!Answer, Settings!Room
<1>2. x4 \in [model : SessionModels, leaf : Settings!Places, running : BOOLEAN, takes : BOOLEAN]
  BY <1>1 DEF Settings!IInv, Settings!Shapes
<1>3. x4.leaf \in Settings!Places /\ x4.model \in SessionModels
  BY <1>2
<1>4. Settings!EntryAt(x4.leaf) \in Settings!Entries
  BY <1>3, SettingsPlacesHaveModels DEF Settings!IInv
<1>5. /\ x2' \in Seq(Settings!Entries) /\ Len(x2') <= MaxEntries /\ x3' = Len(x2) + 1 /\ x3' \in Settings!Places'
      /\ Settings!Places \subseteq Settings!Places' /\ Settings!EntryAt(x3)' = Settings!EntryAt(x4.leaf)
  BY <1>1, <1>3, <1>4, SettingsTreeGrows DEF Settings!IInv
<1>6. /\ x4' \in [model : SessionModels, leaf : Settings!Places', running : BOOLEAN, takes : BOOLEAN]
      /\ x4'.leaf = x3' /\ x4'.model = x4.model /\ x4'.running = x4.running /\ x4'.takes = x4.takes
  BY <1>1, <1>2, <1>5
<1>7. x5 = None /\ x4.takes /\ (~x9 => x4.leaf = x3 /\ x4.model = Settings!EntryAt(x3).model)
  BY <1>1 DEF Settings!IInv, Settings!AgentIsCurrent
<1>8. ~x9 => x6 = None
  BY <1>1 DEF Settings!IInv, Settings!CompactionIsCurrent
<1>9. x7 \in Seq(SessionModels \cup {None})
  BY DEF Settings!IInv, Settings!Shapes
<1>10. Settings!Shapes'
  <2>1. x7' \in Seq(SessionModels \cup {None})
    BY <1>1, <1>3, <1>9
  <2>2. x6' \in Settings!Places' \cup {None} /\ x8' \in 0..MaxChanges /\ {x9', x10', x11', x12'} \subseteq BOOLEAN
    BY <1>1, <1>5 DEF Settings!IInv, Settings!Shapes
  <2>. QED BY <1>1, <1>5, <1>6, <1>7, <2>1, <2>2 DEF Settings!Shapes
<1>11. Settings!TypeOK'
  BY <1>1, <1>5, <1>6, <1>10, SettingsTypesFollow DEF Settings!IInv, Settings!TypeOK
<1>12. Settings!AgentIsCurrent' /\ Settings!CompactionIsCurrent'
  BY <1>1, <1>5, <1>6, <1>7, <1>8 DEF Settings!AgentIsCurrent, Settings!CompactionIsCurrent
<1>13. Settings!RowIsThePath' /\ Settings!UsageIsOfItsModel'
  BY <1>1, <1>5, <1>7 DEF Settings!RowIsThePath, Settings!UsageIsOfItsModel, Settings!IInv
<1>14. Settings!BufferIsNamed'
  <2>1. /\ Len(x7) \in Nat /\ Len(x7') = Len(x7) + 1
        /\ \A i \in 1..Len(x7) : x7'[i] = x7[i]
        /\ x7'[Len(x7) + 1] = IF x10 \/ x9 THEN None ELSE x4.model
    BY <1>1, <1>9
  <2>2. x7'[Len(x7) + 1] \in {x1, None}
    BY <2>1, <1>7 DEF Settings!IInv, Settings!RowIsThePath
  <2>3. ASSUME ~x11, NEW i \in 1..Len(x7') PROVE x7'[i] \in {x1, None}
    <3>1. CASE i = Len(x7) + 1
      BY <2>2, <3>1
    <3>2. CASE i # Len(x7) + 1
      <4>1. i \in 1..Len(x7)
        BY <2>1, <3>2
      <4>. QED BY <2>1, <2>3, <4>1 DEF Settings!IInv, Settings!BufferIsNamed
    <3>. QED BY <3>1, <3>2
  <2>. QED BY <1>1, <2>3 DEF Settings!BufferIsNamed
<1>. QED BY <1>10, <1>11, <1>12, <1>13, <1>14 DEF Settings!IInv

LEMMA SettingsProjectKeeps == ASSUME Settings!SettingsAssumption, Settings!IInv, Settings!Project PROVE Settings!IInv'
<1>1. /\ x5' = x5 /\ x2' = x2 /\ x1' = x1 /\ x3' = x3 /\ x6' = x6 /\ x4' = x4
      /\ x8' = x8 /\ x10' = x10 /\ x9' = x9
      /\ x7 # <<>> /\ x7' = Tail(x7)
      /\ x12' = (x12 \/ (Head(x7) \notin {x1, None} /\ ~x11))
      /\ x11' = (x11 /\ Len(x7) > 1)
  BY DEF Settings!Project
<1>2. x3 \in Settings!Places
  BY DEF Settings!IInv, Settings!TypeOK, Settings!Places
<1>3. Settings!Places' = Settings!Places /\ \A i \in Settings!Places : Settings!EntryAt(i)' = Settings!EntryAt(i)
  BY <1>1, <1>2, SettingsSameTree
<1>4. x7 \in Seq(SessionModels \cup {None})
  BY DEF Settings!IInv, Settings!Shapes
<1>5. /\ Len(x7) \in Nat \ {0} /\ Tail(x7) \in Seq(SessionModels \cup {None}) /\ Len(Tail(x7)) = Len(x7) - 1
      /\ \A i \in 1..(Len(x7) - 1) : Tail(x7)[i] = x7[i + 1]
      /\ Head(x7) = x7[1]
  BY <1>1, <1>4
<1>6. Settings!Shapes'
  BY <1>1, <1>3, <1>5 DEF Settings!IInv, Settings!Shapes
<1>7. Settings!TypeOK'
  BY <1>1, <1>2, <1>6, SettingsSameTree
<1>8. Settings!AgentIsCurrent' /\ Settings!CompactionIsCurrent' /\ Settings!RowIsThePath'
  BY <1>1, <1>2, <1>3 DEF Settings!AgentIsCurrent, Settings!CompactionIsCurrent, Settings!RowIsThePath, Settings!IInv
<1>9. Settings!UsageIsOfItsModel'
  <2>1. 1 \in 1..Len(x7)
    BY <1>5
  <2>. QED BY <1>1, <1>5, <2>1 DEF Settings!IInv, Settings!UsageIsOfItsModel, Settings!BufferIsNamed
<1>10. Settings!BufferIsNamed'
  <2>1. ASSUME ~x11', NEW i \in 1..Len(x7') PROVE x7'[i] \in {x1, None}
    <3>1. i \in 1..(Len(x7) - 1) /\ i + 1 \in 1..Len(x7) /\ Len(x7) > 1
      BY <1>1, <1>5, <2>1
    <3>2. ~x11
      BY <1>1, <2>1, <3>1
    <3>. QED BY <1>1, <1>5, <3>1, <3>2 DEF Settings!IInv, Settings!BufferIsNamed
  <2>. QED BY <1>1, <2>1 DEF Settings!BufferIsNamed
<1>. QED BY <1>6, <1>7, <1>8, <1>9, <1>10 DEF Settings!IInv

LEMMA SettingsCompactKeeps == ASSUME Settings!SettingsAssumption, Settings!IInv, Settings!Compact PROVE Settings!IInv'
<1>1. /\ x5 = None /\ x5' = x5 /\ x2' = x2 /\ x1' = x1 /\ x3' = x3 /\ x7' = x7
      /\ x8' = x8 /\ x10' = x10 /\ x9' = x9 /\ x11' = x11 /\ x12' = x12
      /\ x4' = (IF x4 = None THEN Settings!Loaded ELSE x4) /\ x6' = x4'.leaf
      /\ x4 # None => ~x4.running /\ x4.takes
  BY DEF Settings!Compact, Settings!Ready
<1>2. x3 \in Settings!Places
  BY DEF Settings!IInv, Settings!TypeOK, Settings!Places
<1>3. Settings!Places' = Settings!Places /\ \A i \in Settings!Places : Settings!EntryAt(i)' = Settings!EntryAt(i)
  BY <1>1, <1>2, SettingsSameTree
<1>4. /\ x4' \in [model : SessionModels, leaf : Settings!Places, running : BOOLEAN, takes : BOOLEAN] /\ x4'.running = FALSE /\ x4'.takes
      /\ ~x9 => x4'.leaf = x3 /\ x4'.model = Settings!EntryAt(x3).model
  <2>1. /\ x4 \in [model : SessionModels, leaf : Settings!Places, running : BOOLEAN, takes : BOOLEAN] \cup {None}
        /\ x4 # None /\ ~x9 => x4.leaf = x3 /\ x4.model = Settings!EntryAt(x3).model
    BY <1>1 DEF Settings!IInv, Settings!Shapes, Settings!AgentIsCurrent
  <2>2. CASE x4 = None
    BY <1>1, <2>2, <1>2, SettingsLoadedIsCurrent DEF Settings!IInv
  <2>3. CASE x4 # None
    BY <1>1, <2>1, <2>3
  <2>. QED BY <2>2, <2>3
<1>5. x6' \in Settings!Places
  BY <1>1, <1>4
<1>6. Settings!Shapes'
  BY <1>1, <1>3, <1>4, <1>5 DEF Settings!IInv, Settings!Shapes
<1>7. Settings!TypeOK'
  BY <1>1, <1>2, <1>6, SettingsSameTree
<1>8. Settings!AgentIsCurrent' /\ Settings!CompactionIsCurrent'
  BY <1>1, <1>2, <1>3, <1>4 DEF Settings!AgentIsCurrent, Settings!CompactionIsCurrent
<1>9. Settings!RowIsThePath' /\ Settings!BufferIsNamed' /\ Settings!UsageIsOfItsModel'
  BY <1>1, <1>2, <1>3 DEF Settings!RowIsThePath, Settings!BufferIsNamed, Settings!UsageIsOfItsModel, Settings!IInv
<1>. QED BY <1>6, <1>7, <1>8, <1>9 DEF Settings!IInv

\* A compaction that nothing overtook extends the path the agent is at.
LEMMA SettingsCompactedKeeps == ASSUME Settings!SettingsAssumption, Settings!IInv, Settings!Compacted PROVE Settings!IInv'
<1>1. /\ x5' = x5 /\ x1' = x1 /\ x6 # None /\ x6' = None /\ x7' = x7 /\ x8' = x8
      /\ x10' = x10 /\ x9' = x9 /\ x11' = x11 /\ x12' = x12
  BY DEF Settings!Compacted
<1>2. x3 \in Settings!Places /\ x6 \in Settings!Places
  BY <1>1 DEF Settings!IInv, Settings!TypeOK, Settings!Shapes, Settings!Places
<1>3. Settings!BufferIsNamed' /\ Settings!UsageIsOfItsModel' /\ Settings!CompactionIsCurrent'
  BY <1>1 DEF Settings!BufferIsNamed, Settings!UsageIsOfItsModel, Settings!CompactionIsCurrent, Settings!IInv
<1>4. CASE UNCHANGED <<x2, x3, x4>>
  <2>1. Settings!Places' = Settings!Places /\ \A i \in Settings!Places : Settings!EntryAt(i)' = Settings!EntryAt(i)
    BY <1>1, <1>2, <1>4, SettingsSameTree
  <2>2. Settings!Shapes'
    BY <1>1, <1>4, <2>1 DEF Settings!IInv, Settings!Shapes
  <2>3. Settings!TypeOK'
    BY <1>1, <1>2, <1>4, <2>2, SettingsSameTree
  <2>4. Settings!AgentIsCurrent' /\ Settings!RowIsThePath'
    BY <1>1, <1>2, <1>4, <2>1 DEF Settings!AgentIsCurrent, Settings!RowIsThePath, Settings!IInv
  <2>. QED BY <1>3, <2>2, <2>3, <2>4 DEF Settings!IInv
<1>5. CASE /\ Len(x2) < MaxEntries /\ Settings!Appends(x6, Settings!EntryAt(x6))
           /\ x4' = IF x4 # None /\ x4.leaf = x6 THEN [x4 EXCEPT !.leaf = Len(x2) + 1] ELSE x4
  <2>1. Settings!EntryAt(x6) \in Settings!Entries
    BY <1>2, SettingsPlacesHaveModels DEF Settings!IInv
  <2>2. /\ x2' \in Seq(Settings!Entries) /\ Len(x2') <= MaxEntries /\ x3' = Len(x2) + 1 /\ x3' \in Settings!Places'
        /\ Settings!Places \subseteq Settings!Places' /\ Settings!EntryAt(x3)' = Settings!EntryAt(x6)
    BY <1>2, <1>5, <2>1, SettingsTreeGrows DEF Settings!IInv
  <2>3. x4 \in [model : SessionModels, leaf : Settings!Places, running : BOOLEAN, takes : BOOLEAN] \cup {None}
    BY DEF Settings!IInv, Settings!Shapes
  <2>4. CASE x4 = None
    <3>1. x4' = None
      BY <1>5, <2>4
    <3>2. Settings!Shapes'
      BY <1>1, <2>2, <3>1 DEF Settings!IInv, Settings!Shapes
    <3>3. Settings!TypeOK'
      BY <1>1, <2>2, <3>2, SettingsTypesFollow DEF Settings!IInv, Settings!TypeOK
    <3>4. Settings!AgentIsCurrent'
      BY <3>1 DEF Settings!AgentIsCurrent
    <3>5. Settings!RowIsThePath'
      BY <1>1, <2>2 DEF Settings!IInv, Settings!RowIsThePath, Settings!CompactionIsCurrent
    <3>. QED BY <1>3, <3>2, <3>3, <3>4, <3>5 DEF Settings!IInv
  <2>5. CASE x4 # None
    <3>1. x4 \in [model : SessionModels, leaf : Settings!Places, running : BOOLEAN, takes : BOOLEAN]
      BY <2>3, <2>5
    <3>2. /\ x4' \in [model : SessionModels, leaf : Settings!Places', running : BOOLEAN, takes : BOOLEAN]
          /\ x4'.model = x4.model /\ x4'.running = x4.running /\ x4'.takes = x4.takes
          /\ x4.leaf = x6 => x4'.leaf = x3'
      BY <1>5, <2>2, <2>5, <3>1
    <3>3. Settings!Shapes'
      BY <1>1, <2>2, <3>2 DEF Settings!IInv, Settings!Shapes
    <3>4. Settings!TypeOK'
      BY <1>1, <2>2, <3>3, SettingsTypesFollow DEF Settings!IInv, Settings!TypeOK
    <3>9. ~x9 => x6 = x3 /\ ~x4.running /\ x4.takes /\ (x5 # None => ~x5.done)
      BY <1>1, <2>5 DEF Settings!IInv, Settings!CompactionIsCurrent
    <3>5. ~x9 => x6 = x3 /\ ~x4.running /\ x4.leaf = x3 /\ x4.model = Settings!EntryAt(x3).model
      BY <2>5, <3>9 DEF Settings!IInv, Settings!AgentIsCurrent
    <3>6. (x5 # None => ~x4.running) /\ (x4.running => x4.takes)
      BY <2>5 DEF Settings!IInv, Settings!AgentIsCurrent
    <3>7. Settings!AgentIsCurrent'
      BY <1>1, <2>2, <3>2, <3>5, <3>6 DEF Settings!AgentIsCurrent
    <3>8. Settings!RowIsThePath'
      BY <1>1, <2>2, <3>5 DEF Settings!IInv, Settings!RowIsThePath
    <3>. QED BY <1>3, <3>3, <3>4, <3>7, <3>8 DEF Settings!IInv
  <2>. QED BY <2>4, <2>5
<1>. QED BY <1>4, <1>5 DEF Settings!Compacted, Settings!Room

\* What only takes or gives back the lock
LEMMA SettingsLockingKeeps ==
    ASSUME Settings!SettingsAssumption, Settings!IInv, x2' = x2, x1' = x1, x3' = x3, x6' = x6, x7' = x7,
           x10' = x10, x9' = x9, x11' = x11, x12' = x12,
           x8' \in 0..MaxChanges, x4' \in {x4, None},
           x5' \in [what : {"model", "thinking", "branch"}, done : {FALSE}] \cup {None},
           x5' # None => x8' > 0 /\ (x4 # None => ~x4.running),
           x5 = None \/ ~x5.done \/ x4' = None
    PROVE  Settings!IInv'
<1>1. x3 \in Settings!Places
  BY DEF Settings!IInv, Settings!TypeOK, Settings!Places
<1>2. Settings!Places' = Settings!Places /\ \A i \in Settings!Places : Settings!EntryAt(i)' = Settings!EntryAt(i)
  BY <1>1, SettingsSameTree
<1>3. Settings!Shapes'
  BY <1>2 DEF Settings!IInv, Settings!Shapes
<1>4. Settings!TypeOK'
  BY <1>1, <1>3, SettingsSameTree
<1>5. Settings!RowIsThePath' /\ Settings!BufferIsNamed' /\ Settings!UsageIsOfItsModel'
  BY <1>1, <1>2 DEF Settings!RowIsThePath, Settings!BufferIsNamed, Settings!UsageIsOfItsModel, Settings!IInv
<1>6. Settings!CompactionIsCurrent'
  BY DEF Settings!CompactionIsCurrent, Settings!IInv
<1>7. Settings!AgentIsCurrent'
  BY <1>1, <1>2 DEF Settings!AgentIsCurrent, Settings!IInv
<1>. QED BY <1>3, <1>4, <1>5, <1>6, <1>7 DEF Settings!IInv

LEMMA SettingsBeginKeeps == ASSUME Settings!SettingsAssumption, Settings!IInv, NEW what \in {"model", "thinking", "branch"}, Settings!Begin(what) PROVE Settings!IInv'
<1>1. x5' = [what |-> what, done |-> FALSE] /\ x5 = None /\ x8 < MaxChanges /\ x8' = x8 + 1 /\ (x4 # None => ~x4.running)
  BY DEF Settings!Begin, Settings!Idle
<1>2. x5' \in [what : {"model", "thinking", "branch"}, done : {FALSE}]
  BY <1>1
<1>3. x8' \in 0..MaxChanges /\ x8' > 0
  BY <1>1 DEF Settings!IInv, Settings!Shapes, Settings!SettingsAssumption
<1>. QED BY <1>1, <1>2, <1>3, SettingsLockingKeeps DEF Settings!Begin

LEMMA SettingsChangeFailsKeeps == ASSUME Settings!SettingsAssumption, Settings!IInv, Settings!ChangeFails PROVE Settings!IInv'
<1>1. x8' \in 0..MaxChanges
  BY DEF Settings!ChangeFails, Settings!IInv, Settings!Shapes
<1>. QED BY <1>1, SettingsLockingKeeps DEF Settings!ChangeFails

\* An agent that is not removed takes no work, and nothing is said of it.
LEMMA SettingsDiscardFailsKeeps == ASSUME Settings!SettingsAssumption, Settings!IInv, Settings!DiscardFails PROVE Settings!IInv'
<1>1. /\ x2' = x2 /\ x1' = x1 /\ x3' = x3 /\ x6' = x6 /\ x7' = x7 /\ x8' = x8
      /\ x10' = x10 /\ x9' = x9 /\ x11' = x11 /\ x12' = x12
      /\ x5 # None /\ x5.done /\ x5' = None /\ x4 # None /\ x4' = [x4 EXCEPT !.takes = FALSE]
  BY DEF Settings!DiscardFails
<1>2. x3 \in Settings!Places
  BY DEF Settings!IInv, Settings!TypeOK, Settings!Places
<1>3. Settings!Places' = Settings!Places /\ \A i \in Settings!Places : Settings!EntryAt(i)' = Settings!EntryAt(i)
  BY <1>1, <1>2, SettingsSameTree
<1>4. x4 \in [model : SessionModels, leaf : Settings!Places, running : BOOLEAN, takes : BOOLEAN] /\ ~x4.running
  BY <1>1 DEF Settings!IInv, Settings!Shapes, Settings!AgentIsCurrent
<1>5. /\ x4' \in [model : SessionModels, leaf : Settings!Places, running : BOOLEAN, takes : BOOLEAN]
      /\ ~x4'.running /\ ~x4'.takes
  BY <1>1, <1>4
<1>6. Settings!Shapes'
  BY <1>1, <1>3, <1>5 DEF Settings!IInv, Settings!Shapes
<1>7. Settings!TypeOK'
  BY <1>1, <1>2, <1>6, SettingsSameTree
<1>8. Settings!AgentIsCurrent'
  BY <1>1, <1>5 DEF Settings!AgentIsCurrent
<1>9. Settings!CompactionIsCurrent'
  BY <1>1 DEF Settings!CompactionIsCurrent, Settings!IInv
<1>10. Settings!RowIsThePath' /\ Settings!BufferIsNamed' /\ Settings!UsageIsOfItsModel'
  BY <1>1, <1>2, <1>3 DEF Settings!RowIsThePath, Settings!BufferIsNamed, Settings!UsageIsOfItsModel, Settings!IInv
<1>. QED BY <1>6, <1>7, <1>8, <1>9, <1>10 DEF Settings!IInv

LEMMA SettingsDiscardKeeps == ASSUME Settings!SettingsAssumption, Settings!IInv, Settings!Discard PROVE Settings!IInv'
<1>1. x8' \in 0..MaxChanges
  BY DEF Settings!Discard, Settings!IInv, Settings!Shapes
<1>. QED BY <1>1, SettingsLockingKeeps DEF Settings!Discard, Settings!Remaining

\* A change that is made: the agent is not at work, and nothing is said of it until it is discarded.
LEMMA SettingsChangedKeeps ==
    ASSUME Settings!SettingsAssumption, Settings!IInv, x5 # None, ~x5.done, x5' = [x5 EXCEPT !.done = TRUE],
           x2' \in Seq(Settings!Entries), x3' \in Settings!Places', Settings!Places \subseteq Settings!Places', Len(x2') <= MaxEntries, x1' \in SessionModels,
           x4' = x4, x6' = x6, x7' = x7, x8' = x8, x12' = x12,
           x9' = (x9 \/ x6 # None), {x10', x11'} \subseteq BOOLEAN,
           ~x9 /\ ~x10' => x1' = Settings!EntryAt(x3).model', Settings!BufferIsNamed'
    PROVE  Settings!IInv'
<1>1. x5' \in [what : {"model", "thinking", "branch"}, done : BOOLEAN] /\ x5'.done = TRUE /\ x8 > 0
  BY DEF Settings!IInv, Settings!Shapes
<1>2. Settings!Shapes'
  BY <1>1 DEF Settings!IInv, Settings!Shapes
<1>3. Settings!TypeOK'
  BY <1>2, SettingsTypesFollow
<1>4. Settings!AgentIsCurrent'
  <2>1. x5' # None
    BY <1>1 DEF Settings!SettingsAssumption
  <2>. QED BY <1>1, <2>1 DEF Settings!AgentIsCurrent, Settings!IInv
<1>5. Settings!CompactionIsCurrent'
  BY <1>1 DEF Settings!CompactionIsCurrent
<1>6. Settings!RowIsThePath' /\ Settings!UsageIsOfItsModel'
  BY DEF Settings!RowIsThePath, Settings!UsageIsOfItsModel, Settings!IInv
<1>. QED BY <1>2, <1>3, <1>4, <1>5, <1>6 DEF Settings!IInv

LEMMA SettingsChangeModelKeeps == ASSUME Settings!SettingsAssumption, Settings!IInv, NEW m \in SessionModels, Settings!ChangeModel(m) PROVE Settings!IInv'
<1>1. /\ x5 # None /\ ~x5.done /\ x5' = [x5 EXCEPT !.done = TRUE] /\ x1' = m /\ Len(x2) < MaxEntries
      /\ Settings!Appends(x3, [model |-> m, changes |-> Settings!EntryAt(x3).changes \cup {x8}])
      /\ x11' = (x11 \/ x7 # <<>>) /\ x10' = FALSE /\ x9' = (x9 \/ x6 # None)
      /\ x4' = x4 /\ x6' = x6 /\ x7' = x7 /\ x8' = x8 /\ x12' = x12
  BY DEF Settings!ChangeModel, Settings!Room
<1>2. x3 \in Settings!Places /\ x8 \in 1..MaxChanges
  BY <1>1 DEF Settings!IInv, Settings!TypeOK, Settings!Places, Settings!Shapes, Settings!SettingsAssumption
<1>3. [model |-> m, changes |-> Settings!EntryAt(x3).changes \cup {x8}] \in Settings!Entries
  <2>1. Settings!EntryAt(x3).changes \in SUBSET (1..MaxChanges)
    BY <1>2, SettingsPlacesHaveModels DEF Settings!IInv, Settings!Entries
  <2>. QED BY <1>2, <2>1 DEF Settings!Entries
<1>4. /\ x2' \in Seq(Settings!Entries) /\ x3' \in Settings!Places' /\ Settings!Places \subseteq Settings!Places' /\ Len(x2') <= MaxEntries
      /\ Settings!EntryAt(x3)' = [model |-> m, changes |-> Settings!EntryAt(x3).changes \cup {x8}]
  BY <1>1, <1>2, <1>3, SettingsTreeGrows DEF Settings!IInv
<1>5. Settings!BufferIsNamed'
  <2>1. CASE x7 = <<>>
    <3>1. Len(x7') = 0
      BY <1>1, <2>1
    <3>. QED BY <3>1 DEF Settings!BufferIsNamed
  <2>2. CASE x7 # <<>>
    BY <1>1, <2>2 DEF Settings!BufferIsNamed
  <2>. QED BY <2>1, <2>2
<1>6. {x10', x11'} \subseteq BOOLEAN
  BY <1>1 DEF Settings!IInv, Settings!Shapes
<1>7. Settings!EntryAt(x3).model' = m
  BY <1>4
<1>. QED BY <1>1, <1>4, <1>5, <1>6, <1>7, SettingsChangedKeeps

LEMMA SettingsChangeThinkingKeeps == ASSUME Settings!SettingsAssumption, Settings!IInv, Settings!ChangeThinking PROVE Settings!IInv'
<1>1. /\ x5 # None /\ ~x5.done /\ x5' = [x5 EXCEPT !.done = TRUE] /\ x1' = x1 /\ Len(x2) < MaxEntries
      /\ Settings!Appends(x3, [Settings!EntryAt(x3) EXCEPT !.changes = @ \cup {x8}])
      /\ x11' = x11 /\ x10' = x10 /\ x9' = (x9 \/ x6 # None)
      /\ x4' = x4 /\ x6' = x6 /\ x7' = x7 /\ x8' = x8 /\ x12' = x12
  BY DEF Settings!ChangeThinking, Settings!Room
<1>2. x3 \in Settings!Places /\ x8 \in 1..MaxChanges
  BY <1>1 DEF Settings!IInv, Settings!TypeOK, Settings!Places, Settings!Shapes, Settings!SettingsAssumption
<1>. DEFINE e == [Settings!EntryAt(x3) EXCEPT !.changes = @ \cup {x8}]
<1>3. e \in Settings!Entries /\ e.model = Settings!EntryAt(x3).model
  <2>1. Settings!EntryAt(x3) \in Settings!Entries
    BY <1>2, SettingsPlacesHaveModels DEF Settings!IInv
  <2>. QED BY <1>2, <2>1 DEF Settings!Entries
<1>. HIDE DEF e
<1>4. /\ x2' \in Seq(Settings!Entries) /\ x3' \in Settings!Places' /\ Settings!Places \subseteq Settings!Places' /\ Len(x2') <= MaxEntries
      /\ Settings!EntryAt(x3)' = e
  <2>1. Settings!Appends(x3, e)
    BY <1>1 DEF e
  <2>. QED BY <1>1, <1>2, <1>3, <2>1, SettingsTreeGrows DEF Settings!IInv
<1>5. Settings!BufferIsNamed' /\ x1' \in SessionModels
  BY <1>1 DEF Settings!BufferIsNamed, Settings!IInv, Settings!TypeOK
<1>6. {x10', x11'} \subseteq BOOLEAN
  BY <1>1 DEF Settings!IInv, Settings!Shapes
<1>7. ~x9 /\ ~x10' => x1' = Settings!EntryAt(x3).model'
  BY <1>1, <1>3, <1>4 DEF Settings!IInv, Settings!RowIsThePath
<1>. QED BY <1>1, <1>4, <1>5, <1>6, <1>7, SettingsChangedKeeps

LEMMA SettingsSelectBranchKeeps == ASSUME Settings!SettingsAssumption, Settings!IInv, NEW i \in 0..Len(x2), Settings!SelectBranch(i) PROVE Settings!IInv'
<1>1. /\ x5 # None /\ ~x5.done /\ x5' = [x5 EXCEPT !.done = TRUE] /\ x1' = x1 /\ x2' = x2 /\ x3' = i
      /\ x11' = x11 /\ x10' = (Settings!EntryAt(i).model # x1) /\ x9' = (x9 \/ x6 # None)
      /\ x4' = x4 /\ x6' = x6 /\ x7' = x7 /\ x8' = x8 /\ x12' = x12
  BY DEF Settings!SelectBranch
<1>2. i \in Settings!Places /\ Len(x2) <= MaxEntries /\ x2 \in Seq(Settings!Entries) /\ x1 \in SessionModels
  BY DEF Settings!IInv, Settings!TypeOK, Settings!Shapes, Settings!Places
<1>3. Settings!Places' = Settings!Places /\ Settings!EntryAt(x3)' = Settings!EntryAt(i)
  BY <1>1, <1>2 DEF Settings!Places, Settings!EntryAt
<1>4. Settings!BufferIsNamed'
  BY <1>1 DEF Settings!BufferIsNamed, Settings!IInv
<1>5. {x10', x11'} \subseteq BOOLEAN
  BY <1>1 DEF Settings!IInv, Settings!Shapes
<1>6. ~x10' => x1' = Settings!EntryAt(x3).model'
  BY <1>1, <1>3
<1>. QED BY <1>1, <1>2, <1>3, <1>4, <1>5, <1>6, SettingsChangedKeeps

LEMMA SettingsStepKeeps ==
    ASSUME Settings!SettingsAssumption, Settings!IInv, [Settings!Next]_(Settings!vars)
    PROVE  Settings!IInv'
<1>1. CASE Settings!Submit \/ Settings!Answer \/ Settings!EndRun \/ Settings!Project
  BY <1>1, SettingsSubmitKeeps, SettingsAnswerKeeps, SettingsEndRunKeeps, SettingsProjectKeeps
<1>2. CASE Settings!Compact \/ Settings!Compacted
  BY <1>2, SettingsCompactKeeps, SettingsCompactedKeeps
<1>3. ASSUME NEW what \in {"model", "thinking", "branch"}, Settings!Begin(what) PROVE Settings!IInv'
  BY <1>3, SettingsBeginKeeps
<1>4. ASSUME NEW m \in SessionModels, Settings!ChangeModel(m) PROVE Settings!IInv'
  BY <1>4, SettingsChangeModelKeeps
<1>5. ASSUME NEW i \in 0..Len(x2), Settings!SelectBranch(i) PROVE Settings!IInv'
  BY <1>5, SettingsSelectBranchKeeps
<1>6. CASE Settings!ChangeThinking \/ Settings!ChangeFails \/ Settings!Discard \/ Settings!DiscardFails
  BY <1>6, SettingsChangeThinkingKeeps, SettingsChangeFailsKeeps, SettingsDiscardKeeps, SettingsDiscardFailsKeeps
<1>7. CASE UNCHANGED Settings!vars
  BY <1>7 DEF Settings!vars, Settings!IInv, Settings!TypeOK, Settings!Shapes, Settings!Places, Settings!EntryAt, Settings!AgentIsCurrent, Settings!RowIsThePath, Settings!CompactionIsCurrent, Settings!BufferIsNamed, Settings!UsageIsOfItsModel
<1>. QED BY <1>1, <1>2, <1>3, <1>4, <1>5, <1>6, <1>7 DEF Settings!Next

\* Changes of model and thinking level, selected branches, runs, compactions and projections in any order: the agent
\* of the pool, unless it takes no work after a removal that failed, the row and the active path agree, and so
\* do answers that wait to be projected, except where a change overtakes a compaction, a branch of another
\* model is selected, or a change comes late.
THEOREM SettingsAlwaysGood ==
    ASSUME Settings!SettingsAssumption
    PROVE  Settings!Spec => []Settings!IInv
BY SettingsInitIsGood, SettingsStepKeeps, PTL DEF Settings!Spec

-----------------------------------------------------------------------------
(* What extensions store *)

\* Tasks and handlers of extensions: in the runs two of one extension and one of another.
State == INSTANCE ExtensionState WITH
    Clients <- StateClients, Extensions <- StateExtensions, Of <- StateOf, Places <- StatePlaces, Keys <- StateKeys,
    rows <- x1, known <- x2, writes <- x3, reborn <- x4, lost <- x5

LEMMA StateStoredRows ==
    ASSUME State!ExtensionStateAssumption, State!IInv, NEW x \in StateExtensions, NEW p \in StatePlaces, NEW k \in StateKeys
    PROVE  /\ State!At(x, p, k) \in State!Rows \cup {None}
           /\ State!At(x, p, k) # None => State!At(x, p, k) \in State!Rows /\ State!At(x, p, k).revision \in 1..x3
BY DEF State!IInv, State!Shapes, State!At, State!RevisionsCount

\* One row is put, and the others stay.
LEMMA StatePutChanges ==
    ASSUME State!ExtensionStateAssumption, State!IInv, NEW x \in StateExtensions, NEW p \in StatePlaces, NEW k \in StateKeys,
           NEW row \in State!Rows \cup {None}, State!Put(x, p, k, row)
    PROVE  /\ x1' \in [StateExtensions -> [StatePlaces -> [StateKeys -> State!Rows \cup {None}]]]
           /\ State!At(x, p, k)' = row
           /\ \A y \in StateExtensions, q \in StatePlaces, l \in StateKeys : <<y, q, l>> # <<x, p, k>> => State!At(y, q, l)' = State!At(y, q, l)
<1>1. x1 \in [StateExtensions -> [StatePlaces -> [StateKeys -> State!Rows \cup {None}]]] /\ x1' = [x1 EXCEPT ![x][p][k] = row]
  BY DEF State!IInv, State!Shapes, State!Put
<1>2. x1' \in [StateExtensions -> [StatePlaces -> [StateKeys -> State!Rows \cup {None}]]] /\ x1'[x][p][k] = row
  BY <1>1
<1>3. ASSUME NEW y \in StateExtensions, NEW q \in StatePlaces, NEW l \in StateKeys, <<y, q, l>> # <<x, p, k>>
      PROVE  x1'[y][q][l] = x1[y][q][l]
  <2>1. CASE y # x
    BY <1>1, <2>1
  <2>2. CASE y = x /\ q # p
    BY <1>1, <2>2
  <2>3. CASE y = x /\ q = p /\ l # k
    BY <1>1, <2>3
  <2>. QED BY <1>3, <2>1, <2>2, <2>3
<1>. QED BY <1>2, <1>3 DEF State!At

\* What the invariant says, for the parts of a slot
LEMMA StateGoodByParts ==
    ASSUME State!ExtensionStateAssumption, x3' \in 0..MaxWrites, x4' \subseteq State!Slots, x5' \subseteq x4',
           x1' \in [StateExtensions -> [StatePlaces -> [StateKeys -> State!Rows \cup {None}]]],
           x2' \in [StateClients -> State!Copies \cup {None}], State!ReadersAreAllowed', State!RevisionsTell',
           \A x \in StateExtensions, p \in StatePlaces, k \in StateKeys : State!At(x, p, k)' # None =>
               State!At(x, p, k)'.revision \in 1..x3' /\ x \in Permitted /\ (p \in Connections => Persistent)
    PROVE  State!IInv'
<1>1. ASSUME NEW slot \in State!Slots
      PROVE  slot[1] \in StateExtensions /\ slot[2] \in StatePlaces /\ slot[3] \in StateKeys
  BY DEF State!Slots
<1>2. \A x \in StateExtensions, p \in StatePlaces, k \in StateKeys : State!At(x, p, k)' \in State!Rows \cup {None}
  BY DEF State!At
<1>3. MaxWrites \in Nat /\ x3' \in Nat /\ \A i \in 1..x3' : i \in 1..MaxWrites
  BY DEF State!ExtensionStateAssumption
<1>4. State!TypeOK'
  <2>1. ASSUME NEW slot \in State!Slots, State!At(slot[1], slot[2], slot[3])' # None
        PROVE  State!At(slot[1], slot[2], slot[3])'.value \in Values /\ State!At(slot[1], slot[2], slot[3])'.revision \in 1..MaxWrites
    <3>1. State!At(slot[1], slot[2], slot[3])' \in State!Rows
      BY <1>1, <1>2, <2>1
    <3>. QED BY <1>1, <1>3, <2>1, <3>1 DEF State!Rows
  <2>2. x5' \subseteq State!Slots
    OBVIOUS
  <2>. QED BY <2>1, <2>2 DEF State!TypeOK
<1>5. State!OnlyPermitted'
  BY <1>1 DEF State!OnlyPermitted
<1>6. State!RevisionsCount' /\ State!Shapes' /\ State!NoUpdateIsLost'
  BY DEF State!RevisionsCount, State!Shapes, State!NoUpdateIsLost
<1>. QED BY <1>4, <1>5, <1>6 DEF State!IInv

LEMMA StateOnlyPermittedStore ==
    ASSUME State!ExtensionStateAssumption, State!IInv, NEW x \in StateExtensions, NEW p \in StatePlaces, NEW k \in StateKeys, State!At(x, p, k) # None
    PROVE  x \in Permitted /\ (p \in Connections => Persistent)
<1>1. <<x, p, k>> \in State!Slots
  BY DEF State!Slots
<1>. QED BY <1>1 DEF State!IInv, State!OnlyPermitted

LEMMA StateNoneIsNoRow ==
    ASSUME State!ExtensionStateAssumption
    PROVE  /\ None \notin State!Rows
           /\ \A v \in Values : v # None
           /\ \A n \in Nat : n # None
BY DEF State!ExtensionStateAssumption, State!Rows

\* A row is not older than itself.
LEMMA StateFollowsItself ==
    ASSUME NEW row \in State!Rows, row # None
    PROVE  State!Follows(row, row)
<1>1. row.revision \in Nat
  BY DEF State!Rows
<1>. QED BY <1>1 DEF State!Follows

\* d has a copy of one row.
HasCopy(d, p, k, old) == x2[d] # None /\ x2[d].p = p /\ x2[d].k = k /\ x2[d].row = old

LEMMA StateTold ==
    ASSUME State!RevisionsTell, NEW d \in StateClients, NEW p \in StatePlaces, NEW k \in StateKeys, NEW old \in State!Rows, old # None,
           HasCopy(d, p, k, old), <<StateOf(d), p, k>> \notin x4
    PROVE  State!Follows(x1[StateOf(d)][p][k], old)
BY DEF State!RevisionsTell, HasCopy, State!At

LEMMA StateTellsByParts ==
    ASSUME x2' \in [StateClients -> State!Copies \cup {None}],
           \A d \in StateClients, p \in StatePlaces, k \in StateKeys, old \in State!Rows :
               HasCopy(d, p, k, old)' /\ <<StateOf(d), p, k>> \notin x4' => State!Follows(x1'[StateOf(d)][p][k], old)
    PROVE  State!RevisionsTell'
<1>1. ASSUME NEW d \in StateClients, x2'[d] # None, x2'[d].row # None, <<StateOf(d), x2'[d].p, x2'[d].k>> \notin x4'
      PROVE  State!Follows(x1'[StateOf(d)][x2'[d].p][x2'[d].k], x2'[d].row)
  <2>1. x2'[d] \in State!Copies
    BY <1>1
  <2>2. x2'[d].p \in StatePlaces /\ x2'[d].k \in StateKeys /\ x2'[d].row \in State!Rows
    BY <1>1, <2>1 DEF State!Copies
  <2>. DEFINE p == x2'[d].p  k == x2'[d].k  old == x2'[d].row
  <2>4. x2'[d] # None /\ x2'[d].p = p /\ x2'[d].k = k /\ x2'[d].row = old
    BY <1>1
  <2>. HIDE DEF p, k, old
  <2>. QED BY <1>1, <2>2, <2>4 DEF HasCopy
<1>. QED BY <1>1 DEF State!RevisionsTell, State!At

LEMMA StateInitIsGood ==
    ASSUME State!ExtensionStateAssumption, State!Init
    PROVE  State!IInv
<1>1. /\ x1 = [x \in StateExtensions |-> [p \in StatePlaces |-> [k \in StateKeys |-> None]]]
      /\ x2 = [c \in StateClients |-> None] /\ x3 = 0 /\ x4 = {} /\ x5 = {}
  BY DEF State!Init
<1>2. State!Shapes
  BY <1>1 DEF State!Shapes
<1>3. \A x \in StateExtensions, p \in StatePlaces, k \in StateKeys : State!At(x, p, k) = None
  BY <1>1 DEF State!At
<1>4. \A slot \in State!Slots : State!At(slot[1], slot[2], slot[3]) = None
  BY <1>3 DEF State!Slots
<1>5. State!TypeOK
  BY <1>1, <1>4 DEF State!TypeOK, State!ExtensionStateAssumption
<1>6. State!RevisionsCount /\ State!OnlyPermitted
  BY <1>3, <1>4 DEF State!RevisionsCount, State!OnlyPermitted
<1>7. \A c \in StateClients : x2[c] = None
  BY <1>1
<1>8. State!ReadersAreAllowed /\ State!RevisionsTell /\ State!NoUpdateIsLost
  BY <1>1, <1>7 DEF State!ReadersAreAllowed, State!RevisionsTell, State!NoUpdateIsLost
<1>. QED BY <1>2, <1>5, <1>6, <1>8 DEF State!IInv

\* A copy, and what is known of the row it was made of
LEMMA StateCopiesTell ==
    ASSUME State!ExtensionStateAssumption, State!IInv, NEW c \in StateClients, x2[c] # None
    PROVE  /\ x2[c] \in State!Copies /\ x2[c].p \in StatePlaces /\ x2[c].k \in StateKeys /\ x2[c].row \in State!Rows \cup {None}
           /\ StateOf(c) \in StateExtensions /\ State!Allowed(c, x2[c].p)
           /\ <<StateOf(c), x2[c].p, x2[c].k>> \in State!Slots
<1>1. x2[c] \in State!Copies /\ StateOf(c) \in StateExtensions /\ State!Allowed(c, x2[c].p)
  BY DEF State!IInv, State!Shapes, State!ReadersAreAllowed, State!ExtensionStateAssumption
<1>. QED BY <1>1 DEF State!Copies, State!Slots

LEMMA StateGetKeeps ==
    ASSUME State!ExtensionStateAssumption, State!IInv, NEW c \in StateClients, NEW p \in StatePlaces, NEW k \in StateKeys, State!Get(c, p, k)
    PROVE  State!IInv'
<1>. DEFINE copy == [p |-> p, k |-> k, row |-> State!At(StateOf(c), p, k)]
<1>1. /\ State!Allowed(c, p) /\ x2' = [x2 EXCEPT ![c] = copy]
      /\ x1' = x1 /\ x3' = x3 /\ x4' = x4 /\ x5' = x5
  BY DEF State!Get
<1>2. StateOf(c) \in StateExtensions /\ State!At(StateOf(c), p, k) \in State!Rows \cup {None}
  BY StateStoredRows DEF State!ExtensionStateAssumption
<1>3. copy \in State!Copies /\ copy.p = p /\ copy.k = k /\ copy.row = State!At(StateOf(c), p, k)
  BY <1>2 DEF State!Copies
<1>. HIDE DEF copy
<1>4. /\ x2' \in [StateClients -> State!Copies \cup {None}] /\ x2'[c] = copy
      /\ \A d \in StateClients : d # c => x2'[d] = x2[d]
  BY <1>1, <1>3 DEF State!IInv, State!Shapes
<1>5. \A x \in StateExtensions, q \in StatePlaces, l \in StateKeys : State!At(x, q, l)' = State!At(x, q, l)
  BY <1>1 DEF State!At
<1>6. State!ReadersAreAllowed'
  BY <1>1, <1>3, <1>4 DEF State!IInv, State!ReadersAreAllowed, State!Allowed
<1>7. State!RevisionsTell'
  <2>1. ASSUME NEW d \in StateClients, NEW q \in StatePlaces, NEW l \in StateKeys, NEW old \in State!Rows,
               HasCopy(d, q, l, old)', <<StateOf(d), q, l>> \notin x4'
        PROVE  State!Follows(x1'[StateOf(d)][q][l], old)
    <3>1. CASE d = c
      <4>1. q = p /\ l = k /\ old = State!At(StateOf(c), p, k)
        BY <1>3, <1>4, <2>1, <3>1 DEF HasCopy
      <4>2. State!Follows(old, old)
        BY <2>1, StateNoneIsNoRow, StateFollowsItself
      <4>. QED BY <1>1, <3>1, <4>1, <4>2 DEF State!At
    <3>2. CASE d # c
      <4>1. HasCopy(d, q, l, old) /\ <<StateOf(d), q, l>> \notin x4
        BY <1>1, <1>4, <2>1, <3>2 DEF HasCopy
      <4>. QED BY <1>1, <4>1, StateTold, StateNoneIsNoRow DEF State!IInv
    <3>. QED BY <3>1, <3>2
  <2>. QED BY <1>4, <2>1, StateTellsByParts
<1>8. x3' \in 0..MaxWrites /\ x4' \subseteq State!Slots /\ x5' \subseteq x4'
      /\ x1' \in [StateExtensions -> [StatePlaces -> [StateKeys -> State!Rows \cup {None}]]]
  BY <1>1 DEF State!IInv, State!TypeOK, State!Shapes, State!NoUpdateIsLost
<1>9. \A x \in StateExtensions, q \in StatePlaces, l \in StateKeys : State!At(x, q, l)' # None =>
        State!At(x, q, l)'.revision \in 1..x3' /\ x \in Permitted /\ (q \in Connections => Persistent)
  BY <1>1, <1>5, StateStoredRows, StateOnlyPermittedStore
<1>. QED BY <1>4, <1>6, <1>7, <1>8, <1>9, StateGoodByParts

\* c writes over the row of which it has a copy, or deletes it.
LEMMA StateWritingKeeps ==
    ASSUME State!ExtensionStateAssumption, State!IInv, NEW c \in StateClients, NEW p, NEW k, NEW new \in State!Rows \cup {None},
           x2[c] # None, x2[c].p = p, x2[c].k = k, State!Put(StateOf(c), p, k, new),
           x2' = [x2 EXCEPT ![c].row = new], x3' \in {x3, x3 + 1}, x3' \in 0..MaxWrites,
           new # None => new.revision \in 1..x3',
           x4 \subseteq x4', x4' \subseteq State!Slots, x5' \subseteq x4',
           \A old \in State!Rows : State!Follows(State!At(StateOf(c), p, k), old) /\ <<StateOf(c), p, k>> \notin x4' /\ new # None => State!Follows(new, old),
           \A old \in State!Rows : State!Follows(State!At(StateOf(c), p, k), old) /\ new = None => <<StateOf(c), p, k>> \in x4'
    PROVE  State!IInv'
<1>1. /\ x2[c] \in State!Copies /\ p \in StatePlaces /\ k \in StateKeys /\ StateOf(c) \in StateExtensions /\ State!Allowed(c, p)
  BY StateCopiesTell
<1>2. x3 \in Nat /\ \A i \in 1..x3 : i \in 1..x3'
  BY DEF State!IInv, State!TypeOK, State!ExtensionStateAssumption
<1>3. [x2[c] EXCEPT !.row = new] \in State!Copies /\ [x2[c] EXCEPT !.row = new].p = p
      /\ [x2[c] EXCEPT !.row = new].k = k /\ [x2[c] EXCEPT !.row = new].row = new
  BY <1>1 DEF State!Copies
<1>4. /\ x2' \in [StateClients -> State!Copies \cup {None}]
      /\ x2'[c].p = p /\ x2'[c].k = k /\ x2'[c].row = new
      /\ \A d \in StateClients : d # c => x2'[d] = x2[d]
  <2>1. x2 \in [StateClients -> State!Copies \cup {None}] /\ x2' = [x2 EXCEPT ![c] = [x2[c] EXCEPT !.row = new]]
    BY DEF State!IInv, State!Shapes
  <2>. DEFINE copy == [x2[c] EXCEPT !.row = new]
  <2>2. copy \in State!Copies /\ copy.p = p /\ copy.k = k /\ copy.row = new /\ x2' = [x2 EXCEPT ![c] = copy]
    BY <1>3, <2>1
  <2>. HIDE DEF copy
  <2>. QED BY <2>1, <2>2
<1>5. /\ x1' \in [StateExtensions -> [StatePlaces -> [StateKeys -> State!Rows \cup {None}]]] /\ State!At(StateOf(c), p, k)' = new
      /\ \A y \in StateExtensions, q \in StatePlaces, l \in StateKeys : <<y, q, l>> # <<StateOf(c), p, k>> => State!At(y, q, l)' = State!At(y, q, l)
  BY <1>1, StatePutChanges
<1>6. State!ReadersAreAllowed'
  <2>1. \A d \in StateClients : x2'[d] # None => State!Allowed(d, x2'[d].p)
    BY <1>1, <1>4 DEF State!IInv, State!ReadersAreAllowed
  <2>. QED BY <2>1 DEF State!ReadersAreAllowed, State!Allowed
<1>7. State!RevisionsTell'
  <2>1. ASSUME NEW d \in StateClients, NEW q \in StatePlaces, NEW l \in StateKeys, NEW old \in State!Rows,
               HasCopy(d, q, l, old)', <<StateOf(d), q, l>> \notin x4'
        PROVE  State!Follows(x1'[StateOf(d)][q][l], old)
    <3>1. StateOf(d) \in StateExtensions /\ <<StateOf(d), q, l>> \notin x4 /\ old # None
      BY <2>1, StateNoneIsNoRow DEF State!ExtensionStateAssumption
    <3>2. CASE d = c
      <4>1. q = p /\ l = k /\ old = new
        BY <1>4, <2>1, <3>2 DEF HasCopy
      <4>2. State!Follows(old, old)
        BY <3>1, StateFollowsItself
      <4>. QED BY <1>5, <3>2, <4>1, <4>2 DEF State!At
    <3>3. CASE d # c
      <4>1. HasCopy(d, q, l, old)
        BY <1>4, <2>1, <3>3 DEF HasCopy
      <4>2. State!Follows(State!At(StateOf(d), q, l), old)
        BY <3>1, <4>1, StateTold DEF State!IInv, State!At
      <4>3. CASE <<StateOf(d), q, l>> = <<StateOf(c), p, k>>
        <5>1. StateOf(d) = StateOf(c) /\ q = p /\ l = k
          BY <4>3
        <5>2. State!Follows(new, old)
          BY <2>1, <4>2, <5>1
        <5>. QED BY <1>5, <5>1, <5>2 DEF State!At
      <4>4. CASE <<StateOf(d), q, l>> # <<StateOf(c), p, k>>
        BY <1>5, <3>1, <4>2, <4>4 DEF State!At
      <4>. QED BY <4>3, <4>4
    <3>. QED BY <3>2, <3>3
  <2>. QED BY <1>4, <2>1, StateTellsByParts
<1>8. ASSUME NEW x \in StateExtensions, NEW q \in StatePlaces, NEW l \in StateKeys, State!At(x, q, l)' # None
      PROVE  State!At(x, q, l)'.revision \in 1..x3' /\ x \in Permitted /\ (q \in Connections => Persistent)
  <2>1. CASE <<x, q, l>> = <<StateOf(c), p, k>>
    <3>1. x = StateOf(c) /\ q = p /\ l = k
      BY <2>1
    <3>. QED BY <1>1, <1>5, <1>8, <3>1 DEF State!Allowed
  <2>2. CASE <<x, q, l>> # <<StateOf(c), p, k>>
    BY <1>2, <1>5, <1>8, <2>2, StateStoredRows, StateOnlyPermittedStore
  <2>. QED BY <2>1, <2>2
<1>. QED BY <1>4, <1>5, <1>6, <1>7, <1>8, StateGoodByParts

\* A save that is not refused was computed from the row it replaces, unless the row was made anew since.
LEMMA StateSaveKeeps ==
    ASSUME State!ExtensionStateAssumption, State!IInv, NEW c \in StateClients, NEW v \in Values, NEW e \in State!Expected(c), x2[c] # None,
           State!Save(c, v, e)
    PROVE  State!IInv'
<1>. DEFINE p == x2[c].p  k == x2[c].k  row == State!At(StateOf(c), p, k)
            new == [value |-> v, revision |-> State!Revision(row), write |-> x3 + 1]
<1>1. /\ x3 < MaxWrites /\ x3' = x3 + 1 /\ x4' = x4
      /\ State!Matches(row, e) /\ State!Put(StateOf(c), p, k, new) /\ State!Loses(c, <<StateOf(c), p, k>>)
      /\ x2' = [x2 EXCEPT ![c].row = new]
  BY DEF State!Save
<1>2. /\ x2[c] \in State!Copies /\ p \in StatePlaces /\ k \in StateKeys /\ x2[c].row \in State!Rows \cup {None}
      /\ StateOf(c) \in StateExtensions /\ <<StateOf(c), p, k>> \in State!Slots
  BY StateCopiesTell
<1>3. row \in State!Rows \cup {None} /\ (row # None => row \in State!Rows /\ row.revision \in 1..x3) /\ x3 \in Nat
  BY <1>2, StateStoredRows DEF State!IInv, State!TypeOK
<1>4. State!Revision(row) \in Nat /\ State!Revision(row) \in 1..(x3 + 1)
  BY <1>3 DEF State!Revision
<1>5. new \in State!Rows /\ new.revision = State!Revision(row)
  BY <1>3, <1>4 DEF State!Rows
<1>6. x3' \in 0..MaxWrites
  BY <1>1, <1>3 DEF State!ExtensionStateAssumption
<1>7. ASSUME row # None
      PROVE  x2[c].row # None /\ x2[c].row \in State!Rows /\ row.revision = x2[c].row.revision
  <2>1. e = row.revision /\ e \in Nat /\ e # 0 /\ e # None
    BY <1>1, <1>3, <1>7, StateNoneIsNoRow DEF State!Matches
  <2>2. CASE x2[c].row = None
    BY <2>1, <2>2 DEF State!Expected
  <2>3. CASE x2[c].row # None
    BY <1>2, <2>1, <2>3 DEF State!Expected
  <2>. QED BY <2>2, <2>3
<1>8. x5' \subseteq x4'
  <2>1. x5' = IF row # None /\ x2[c].row # row THEN x5 \cup {<<StateOf(c), p, k>>} ELSE x5
    BY <1>1 DEF State!Loses
  <2>2. CASE row # None /\ x2[c].row # row
    <3>1. ASSUME <<StateOf(c), p, k>> \notin x4
          PROVE  row = x2[c].row
      <4>1. State!Follows(row, x2[c].row)
        BY <1>7, <2>2, <3>1 DEF State!IInv, State!RevisionsTell
      <4>. QED BY <1>7, <2>2, <4>1 DEF State!Follows
    <3>. QED BY <1>1, <2>1, <2>2, <3>1 DEF State!IInv, State!NoUpdateIsLost
  <2>3. CASE ~(row # None /\ x2[c].row # row)
    BY <1>1, <2>1, <2>3 DEF State!IInv, State!NoUpdateIsLost
  <2>. QED BY <2>2, <2>3
<1>9. ASSUME NEW old \in State!Rows, State!Follows(row, old)
      PROVE  State!Follows(new, old)
  <2>1. row # None /\ row.revision >= old.revision /\ row.revision \in Nat /\ old.revision \in Nat
    BY <1>3, <1>9 DEF State!Follows, State!Rows
  <2>2. new.revision = row.revision + 1
    BY <1>5, <2>1 DEF State!Revision
  <2>3. new.revision >= old.revision /\ new.revision # old.revision
    BY <2>1, <2>2
  <2>. QED BY <1>5, <2>3, StateNoneIsNoRow DEF State!Follows
<1>10. new # None
  BY <1>5, StateNoneIsNoRow
<1>11. x3' \in {x3, x3 + 1} /\ new.revision \in 1..x3'
  BY <1>1, <1>4, <1>5
<1>12. x4 \subseteq x4' /\ x4' \subseteq State!Slots
  BY <1>1 DEF State!IInv, State!TypeOK
<1>. HIDE DEF new
<1>. QED BY <1>1, <1>5, <1>6, <1>8, <1>9, <1>10, <1>11, <1>12, StateWritingKeeps

LEMMA StateDeleteKeeps ==
    ASSUME State!ExtensionStateAssumption, State!IInv, NEW c \in StateClients, x2[c] # None, State!Delete(c)
    PROVE  State!IInv'
<1>. DEFINE p == x2[c].p  k == x2[c].k  row == State!At(StateOf(c), p, k)
<1>1. /\ State!Put(StateOf(c), p, k, None) /\ State!Loses(c, <<StateOf(c), p, k>>) /\ x2' = [x2 EXCEPT ![c].row = None]
      /\ x4' = (IF row = None THEN x4 ELSE x4 \cup {<<StateOf(c), p, k>>}) /\ x3' = x3
  BY DEF State!Delete
<1>2. <<StateOf(c), p, k>> \in State!Slots
  BY StateCopiesTell
<1>3. x4 \subseteq x4' /\ x4' \subseteq State!Slots
  BY <1>1, <1>2 DEF State!IInv, State!TypeOK
<1>4. x5' \subseteq x4'
  BY <1>1 DEF State!Loses, State!IInv, State!NoUpdateIsLost
<1>5. \A old \in State!Rows : State!Follows(row, old) => <<StateOf(c), p, k>> \in x4'
  BY <1>1 DEF State!Follows
<1>6. x3' \in 0..MaxWrites
  BY <1>1 DEF State!IInv, State!TypeOK
<1>. QED BY <1>1, <1>3, <1>4, <1>5, <1>6, StateWritingKeeps

LEMMA StateClearKeeps ==
    ASSUME State!ExtensionStateAssumption, State!IInv, NEW chosen \in StatePlaces, NEW only \in StateExtensions \cup {None}, State!Clear(chosen, only)
    PROVE  State!IInv'
<1>1. /\ x1' = [x \in StateExtensions |-> [p \in StatePlaces |->
                   IF State!Clears(x, p, chosen, only) THEN [k \in StateKeys |-> None] ELSE x1[x][p]]]
      /\ x4' = x4 \cup {slot \in State!Slots : State!Clears(slot[1], slot[2], chosen, only) /\ State!At(slot[1], slot[2], slot[3]) # None}
      /\ x2' = x2 /\ x3' = x3 /\ x5' = x5
  BY DEF State!Clear
<1>2. \A x \in StateExtensions, p \in StatePlaces, k \in StateKeys :
        State!At(x, p, k)' = IF State!Clears(x, p, chosen, only) THEN None ELSE State!At(x, p, k)
  BY <1>1 DEF State!At
<1>3. ASSUME NEW x \in StateExtensions, NEW p \in StatePlaces, NEW k \in StateKeys, State!Clears(x, p, chosen, only), State!At(x, p, k) # None
      PROVE  <<x, p, k>> \in x4'
  <2>1. <<x, p, k>> \in State!Slots
    BY DEF State!Slots
  <2>. QED BY <1>1, <1>3, <2>1
<1>4. x1' \in [StateExtensions -> [StatePlaces -> [StateKeys -> State!Rows \cup {None}]]]
  BY <1>1 DEF State!IInv, State!Shapes
<1>5. x4 \subseteq x4' /\ x4' \subseteq State!Slots
  BY <1>1 DEF State!IInv, State!TypeOK
<1>6. State!ReadersAreAllowed' /\ x2' \in [StateClients -> State!Copies \cup {None}] /\ x3' \in 0..MaxWrites /\ x5' \subseteq x4'
  BY <1>1, <1>5 DEF State!IInv, State!TypeOK, State!Shapes, State!NoUpdateIsLost, State!ReadersAreAllowed
<1>7. State!RevisionsTell'
  <2>1. ASSUME NEW d \in StateClients, NEW q \in StatePlaces, NEW l \in StateKeys, NEW old \in State!Rows,
               HasCopy(d, q, l, old)', <<StateOf(d), q, l>> \notin x4'
        PROVE  State!Follows(x1'[StateOf(d)][q][l], old)
    <3>1. HasCopy(d, q, l, old) /\ <<StateOf(d), q, l>> \notin x4 /\ StateOf(d) \in StateExtensions /\ old # None
      BY <1>1, <1>5, <2>1, StateNoneIsNoRow DEF HasCopy, State!ExtensionStateAssumption
    <3>2. State!Follows(State!At(StateOf(d), q, l), old)
      BY <3>1, StateTold DEF State!IInv, State!At
    <3>3. ~State!Clears(StateOf(d), q, chosen, only)
      BY <1>3, <2>1, <3>1, <3>2 DEF State!Follows
    <3>4. State!At(StateOf(d), q, l)' = State!At(StateOf(d), q, l)
      BY <1>2, <3>1, <3>3
    <3>. QED BY <3>2, <3>4 DEF State!At
  <2>. QED BY <1>6, <2>1, StateTellsByParts
<1>8. \A x \in StateExtensions, p \in StatePlaces, k \in StateKeys : State!At(x, p, k)' # None =>
        State!At(x, p, k)'.revision \in 1..x3' /\ x \in Permitted /\ (p \in Connections => Persistent)
  BY <1>1, <1>2, StateStoredRows, StateOnlyPermittedStore
<1>. QED BY <1>4, <1>5, <1>6, <1>7, <1>8, StateGoodByParts

LEMMA StateStepKeeps ==
    ASSUME State!ExtensionStateAssumption, State!IInv, [State!Next]_(State!vars)
    PROVE  State!IInv'
<1>1. ASSUME NEW c \in StateClients, NEW p \in StatePlaces, NEW k \in StateKeys, State!Get(c, p, k)
      PROVE  State!IInv'
  BY <1>1, StateGetKeeps
<1>2. ASSUME NEW c \in StateClients, x2[c] # None, State!Delete(c)
      PROVE  State!IInv'
  BY <1>2, StateDeleteKeeps
<1>3. ASSUME NEW c \in StateClients, x2[c] # None, NEW v \in Values, NEW e \in State!Expected(c), State!Save(c, v, e)
      PROVE  State!IInv'
  BY <1>3, StateSaveKeeps
<1>4. ASSUME NEW p \in StatePlaces, NEW only \in StateExtensions \cup {None}, State!Clear(p, only)
      PROVE  State!IInv'
  BY <1>4, StateClearKeeps
<1>5. CASE UNCHANGED State!vars
  BY <1>5 DEF State!vars, State!IInv, State!TypeOK, State!Shapes, State!RevisionsCount, State!ReadersAreAllowed, State!Allowed, State!NoUpdateIsLost, State!RevisionsTell, State!OnlyPermitted, State!At
<1>. QED BY <1>1, <1>2, <1>3, <1>4, <1>5 DEF State!Next

\* Reads, saves, deletions and cleared scopes of any extensions in any order: a revision stands for one value
\* as long as its row is not deleted, so that no save replaces what its author has not seen, and rows
\* are only there for extensions and scopes that are permitted.
THEOREM StateAlwaysGood ==
    ASSUME State!ExtensionStateAssumption
    PROVE  State!Spec => []State!IInv
BY StateInitIsGood, StateStepKeeps, PTL DEF State!Spec

-----------------------------------------------------------------------------
(* The terminal application *)

\* In the runs two prompts and two compactions in the terminal.
App == INSTANCE TuiApp WITH
    Sessions <- AppSessions, First <- FirstSession, fate <- x1, task <- x2, worker <- x3, current <- x4, running <- x5,
    busy <- x6, owner <- x7, compactor <- x8, compacts <- x9, modal <- x10, job <- x11, jobs <- x12,
    home <- x13, view <- x14, odd <- x15

LEMMA AppInitIsGood ==
    ASSUME App!TuiAppAssumption, App!Init
    PROVE  App!IInv
BY DEF App!Init, App!TuiAppAssumption, App!IInv, App!Jobs, App!TypeOK, App!Shapes, App!RunningIsTrue, App!CancelledIsOld, App!WorkerIsCurrent, App!HandlerKeeps, App!OneWorks, App!JobsAreAlone, App!CompactorRuns, App!CompactsAlone, App!StaysHome, App!ShowsSession, App!Working, App!Undisturbed, App!Direct, App!Live, App!Free

LEMMA AppSubmitKeeps ==
    ASSUME App!TuiAppAssumption, App!IInv, NEW p \in Prompts, App!Submit(p)
    PROVE  App!IInv'
<1>. USE DEF App!TuiAppAssumption, App!IInv, App!Working, App!Undisturbed, App!Live, App!Direct, App!Free, App!Submit, App!Starts, App!CompactionActive, App!Compaction
<1>1. App!TypeOK'
  BY DEF App!TypeOK, App!Shapes, App!Jobs
<1>2. App!Shapes'
  <2>1. x5' \in BOOLEAN /\ x8' \in Compactions \cup {None} /\ x11' \in App!Jobs \cup {None}
    BY DEF App!TypeOK, App!Shapes, App!Jobs
  <2>2. x7' \in [Prompts -> AppSessions \cup {None}]
    BY DEF App!TypeOK, App!Shapes
  <2>3. x9' \in [Compactions -> {"none", "run", "cancelled", "done"}]
    BY DEF App!Shapes
  <2>4. x15' \subseteq {"failed", "resumed", "cancelled", "raised"}
    BY DEF App!Shapes
  <2>. QED BY <2>1, <2>2, <2>3, <2>4 DEF App!Shapes
<1>3. App!RunningIsTrue'
  BY DEF App!TypeOK, App!Shapes, App!RunningIsTrue, App!CancelledIsOld, App!WorkerIsCurrent, App!HandlerKeeps, App!OneWorks
<1>4. App!CancelledIsOld'
  BY DEF App!TypeOK, App!CancelledIsOld, App!WorkerIsCurrent
<1>5. App!WorkerIsCurrent'
  BY DEF App!TypeOK, App!WorkerIsCurrent
<1>6. App!OneWorks'
  BY DEF App!TypeOK, App!Shapes, App!RunningIsTrue, App!CancelledIsOld, App!WorkerIsCurrent, App!HandlerKeeps, App!OneWorks, App!JobsAreAlone
<1>7. App!JobsAreAlone'
  BY DEF App!TypeOK, App!Shapes, App!RunningIsTrue, App!CancelledIsOld, App!HandlerKeeps, App!OneWorks, App!JobsAreAlone
<1>8. App!CompactorRuns'
  BY DEF App!TypeOK, App!Shapes, App!RunningIsTrue, App!HandlerKeeps, App!OneWorks, App!CompactorRuns
<1>9. App!CompactsAlone'
  BY <1>8 DEF App!CompactsAlone, App!CompactorRuns
<1>10. App!StaysHome'
  BY DEF App!TypeOK, App!Shapes, App!StaysHome, App!HandlerKeeps, App!OneWorks, App!JobsAreAlone, App!RunningIsTrue
<1>11. App!ShowsSession'
  BY DEF App!TypeOK, App!Shapes, App!ShowsSession, App!CompactorRuns, App!JobsAreAlone, App!Jobs
<1>12. App!HandlerKeeps'
  <2>1. \A q \in Prompts : x1'[q] \in {"new", "queued"} => x2'[q] = "none"
    BY DEF App!TypeOK, App!Shapes, App!HandlerKeeps, App!CancelledIsOld
  <2>2. \A q \in Prompts : x1'[q] = "direct" => x2'[q] # "cancelled"
    BY DEF App!TypeOK, App!Shapes, App!HandlerKeeps, App!CancelledIsOld
  <2>3. x10' = "tree" => App!Free'
    BY DEF App!TypeOK, App!Shapes, App!HandlerKeeps, App!CancelledIsOld
  <2>4. x3' # None => x1'[x3'] \in {"started", "sent", "lost"}
    BY DEF App!TypeOK, App!Shapes, App!HandlerKeeps, App!CancelledIsOld
  <2>. QED BY <2>1, <2>2, <2>3, <2>4 DEF App!HandlerKeeps
<1>. HIDE DEF App!TuiAppAssumption, App!Working, App!Undisturbed, App!Live, App!Direct, App!Free, App!Submit, App!Starts, App!CompactionActive, App!Compaction
<1>. QED BY <1>1, <1>2, <1>3, <1>4, <1>5, <1>6, <1>7, <1>8, <1>9, <1>10, <1>11, <1>12 DEF App!IInv

LEMMA AppPreparedKeeps ==
    ASSUME App!TuiAppAssumption, App!IInv, NEW p \in Prompts, App!Prepared(p)
    PROVE  App!IInv'
<1>. USE DEF App!TuiAppAssumption, App!IInv, App!Working, App!Undisturbed, App!Live, App!Direct, App!Free, App!Prepared, App!Ended, App!Compaction, App!Screen
<1>1. App!TypeOK'
  BY DEF App!TypeOK, App!Shapes, App!Jobs
<1>2. App!Shapes'
  BY DEF App!TypeOK, App!Shapes, App!Jobs
<1>3. App!RunningIsTrue'
  BY DEF App!TypeOK, App!Shapes, App!RunningIsTrue, App!CancelledIsOld, App!WorkerIsCurrent, App!HandlerKeeps, App!OneWorks
<1>4. App!CancelledIsOld'
  BY DEF App!TypeOK, App!CancelledIsOld, App!WorkerIsCurrent
<1>5. App!WorkerIsCurrent'
  BY DEF App!TypeOK, App!WorkerIsCurrent
<1>6. App!OneWorks'
  BY DEF App!TypeOK, App!Shapes, App!RunningIsTrue, App!CancelledIsOld, App!WorkerIsCurrent, App!HandlerKeeps, App!OneWorks, App!JobsAreAlone
<1>7. App!JobsAreAlone'
  BY DEF App!TypeOK, App!Shapes, App!RunningIsTrue, App!CancelledIsOld, App!HandlerKeeps, App!OneWorks, App!JobsAreAlone
<1>8. App!CompactorRuns'
  BY DEF App!TypeOK, App!Shapes, App!RunningIsTrue, App!HandlerKeeps, App!OneWorks, App!CompactorRuns
<1>9. App!CompactsAlone'
  BY <1>8 DEF App!CompactsAlone, App!CompactorRuns
<1>10. App!StaysHome'
  BY DEF App!TypeOK, App!Shapes, App!StaysHome, App!HandlerKeeps, App!OneWorks, App!JobsAreAlone, App!RunningIsTrue
<1>11. App!ShowsSession'
  BY DEF App!TypeOK, App!Shapes, App!ShowsSession, App!CompactorRuns, App!JobsAreAlone, App!Jobs
<1>12. App!HandlerKeeps'
  BY DEF App!TypeOK, App!Shapes, App!HandlerKeeps, App!CancelledIsOld
<1>. HIDE DEF App!TuiAppAssumption, App!Working, App!Undisturbed, App!Live, App!Direct, App!Free, App!Prepared, App!Ended, App!Compaction, App!Screen
<1>. QED BY <1>1, <1>2, <1>3, <1>4, <1>5, <1>6, <1>7, <1>8, <1>9, <1>10, <1>11, <1>12 DEF App!IInv

LEMMA AppHandledKeeps ==
    ASSUME App!TuiAppAssumption, App!IInv, NEW p \in Prompts, App!Handled(p)
    PROVE  App!IInv'
<1>. USE DEF App!TuiAppAssumption, App!IInv, App!Working, App!Undisturbed, App!Live, App!Direct, App!Free, App!Handled, App!Compaction, App!Screen
<1>1. App!TypeOK'
  BY DEF App!TypeOK, App!Shapes, App!Jobs
<1>2. App!Shapes'
  BY DEF App!TypeOK, App!Shapes, App!Jobs
<1>3. App!RunningIsTrue'
  BY DEF App!TypeOK, App!Shapes, App!RunningIsTrue, App!CancelledIsOld, App!WorkerIsCurrent, App!HandlerKeeps, App!OneWorks
<1>4. App!CancelledIsOld'
  BY DEF App!TypeOK, App!CancelledIsOld, App!WorkerIsCurrent
<1>5. App!WorkerIsCurrent'
  BY DEF App!TypeOK, App!WorkerIsCurrent
<1>6. App!OneWorks'
  BY DEF App!TypeOK, App!Shapes, App!RunningIsTrue, App!CancelledIsOld, App!WorkerIsCurrent, App!HandlerKeeps, App!OneWorks, App!JobsAreAlone
<1>7. App!JobsAreAlone'
  BY DEF App!TypeOK, App!Shapes, App!RunningIsTrue, App!CancelledIsOld, App!HandlerKeeps, App!OneWorks, App!JobsAreAlone
<1>8. App!CompactorRuns'
  BY DEF App!TypeOK, App!Shapes, App!RunningIsTrue, App!HandlerKeeps, App!OneWorks, App!CompactorRuns
<1>9. App!CompactsAlone'
  BY <1>8 DEF App!CompactsAlone, App!CompactorRuns
<1>10. App!StaysHome'
  BY DEF App!TypeOK, App!Shapes, App!StaysHome, App!HandlerKeeps, App!OneWorks, App!JobsAreAlone, App!RunningIsTrue
<1>11. App!ShowsSession'
  BY DEF App!TypeOK, App!Shapes, App!ShowsSession, App!CompactorRuns, App!JobsAreAlone, App!Jobs
<1>12. App!HandlerKeeps'
  BY DEF App!TypeOK, App!Shapes, App!HandlerKeeps, App!CancelledIsOld
<1>. HIDE DEF App!TuiAppAssumption, App!Working, App!Undisturbed, App!Live, App!Direct, App!Free, App!Handled, App!Compaction, App!Screen
<1>. QED BY <1>1, <1>2, <1>3, <1>4, <1>5, <1>6, <1>7, <1>8, <1>9, <1>10, <1>11, <1>12 DEF App!IInv

LEMMA AppFaultKeeps ==
    ASSUME App!TuiAppAssumption, App!IInv, NEW p \in Prompts, App!Fault(p)
    PROVE  App!IInv'
<1>. USE DEF App!TuiAppAssumption, App!IInv, App!Working, App!Undisturbed, App!Live, App!Direct, App!Free, App!Fault, App!Applies, App!Compaction, App!Screen
<1>1. App!TypeOK'
  BY DEF App!TypeOK, App!Shapes, App!Jobs
<1>2. App!Shapes'
  BY DEF App!TypeOK, App!Shapes, App!Jobs
<1>3. App!RunningIsTrue'
  BY DEF App!TypeOK, App!Shapes, App!RunningIsTrue, App!CancelledIsOld, App!WorkerIsCurrent, App!HandlerKeeps, App!OneWorks
<1>4. App!CancelledIsOld'
  BY DEF App!TypeOK, App!CancelledIsOld, App!WorkerIsCurrent
<1>5. App!WorkerIsCurrent'
  BY DEF App!TypeOK, App!WorkerIsCurrent
<1>6. App!OneWorks'
  BY DEF App!TypeOK, App!Shapes, App!RunningIsTrue, App!CancelledIsOld, App!WorkerIsCurrent, App!HandlerKeeps, App!OneWorks, App!JobsAreAlone
<1>7. App!JobsAreAlone'
  BY DEF App!TypeOK, App!Shapes, App!RunningIsTrue, App!CancelledIsOld, App!HandlerKeeps, App!OneWorks, App!JobsAreAlone
<1>8. App!CompactorRuns'
  BY DEF App!TypeOK, App!Shapes, App!RunningIsTrue, App!HandlerKeeps, App!OneWorks, App!CompactorRuns
<1>9. App!CompactsAlone'
  BY <1>8 DEF App!CompactsAlone, App!CompactorRuns
<1>10. App!StaysHome'
  BY DEF App!TypeOK, App!Shapes, App!StaysHome, App!HandlerKeeps, App!OneWorks, App!JobsAreAlone, App!RunningIsTrue
<1>11. App!ShowsSession'
  BY DEF App!TypeOK, App!Shapes, App!ShowsSession, App!CompactorRuns, App!JobsAreAlone, App!Jobs
<1>12. App!HandlerKeeps'
  BY DEF App!TypeOK, App!Shapes, App!HandlerKeeps, App!CancelledIsOld
<1>. HIDE DEF App!TuiAppAssumption, App!Working, App!Undisturbed, App!Live, App!Direct, App!Free, App!Fault, App!Applies, App!Compaction, App!Screen
<1>. QED BY <1>1, <1>2, <1>3, <1>4, <1>5, <1>6, <1>7, <1>8, <1>9, <1>10, <1>11, <1>12 DEF App!IInv

LEMMA AppRaisesKeeps ==
    ASSUME App!TuiAppAssumption, App!IInv, NEW p \in Prompts, App!Raises(p)
    PROVE  App!IInv'
<1>. USE DEF App!TuiAppAssumption, App!IInv, App!Working, App!Undisturbed, App!Live, App!Direct, App!Free, App!Raises, App!Ended, App!Compaction, App!Screen
<1>1. App!TypeOK'
  BY DEF App!TypeOK, App!Shapes, App!Jobs
<1>2. App!Shapes'
  BY DEF App!TypeOK, App!Shapes, App!Jobs
<1>3. App!RunningIsTrue'
  BY DEF App!TypeOK, App!Shapes, App!RunningIsTrue, App!CancelledIsOld, App!WorkerIsCurrent, App!HandlerKeeps, App!OneWorks
<1>4. App!CancelledIsOld'
  BY DEF App!TypeOK, App!CancelledIsOld, App!WorkerIsCurrent
<1>5. App!WorkerIsCurrent'
  BY DEF App!TypeOK, App!WorkerIsCurrent
<1>6. App!OneWorks'
  BY DEF App!TypeOK, App!Shapes, App!RunningIsTrue, App!CancelledIsOld, App!WorkerIsCurrent, App!HandlerKeeps, App!OneWorks, App!JobsAreAlone
<1>7. App!JobsAreAlone'
  BY DEF App!TypeOK, App!Shapes, App!RunningIsTrue, App!CancelledIsOld, App!HandlerKeeps, App!OneWorks, App!JobsAreAlone
<1>8. App!CompactorRuns'
  BY DEF App!TypeOK, App!Shapes, App!RunningIsTrue, App!HandlerKeeps, App!OneWorks, App!CompactorRuns
<1>9. App!CompactsAlone'
  BY <1>8 DEF App!CompactsAlone, App!CompactorRuns
<1>10. App!StaysHome'
  BY DEF App!TypeOK, App!Shapes, App!StaysHome, App!HandlerKeeps, App!OneWorks, App!JobsAreAlone, App!RunningIsTrue
<1>11. App!ShowsSession'
  BY DEF App!TypeOK, App!Shapes, App!ShowsSession, App!CompactorRuns, App!JobsAreAlone, App!Jobs
<1>12. App!HandlerKeeps'
  BY DEF App!TypeOK, App!Shapes, App!HandlerKeeps, App!CancelledIsOld
<1>. HIDE DEF App!TuiAppAssumption, App!Working, App!Undisturbed, App!Live, App!Direct, App!Free, App!Raises, App!Ended, App!Compaction, App!Screen
<1>. QED BY <1>1, <1>2, <1>3, <1>4, <1>5, <1>6, <1>7, <1>8, <1>9, <1>10, <1>11, <1>12 DEF App!IInv

LEMMA AppAnnounceKeeps ==
    ASSUME App!TuiAppAssumption, App!IInv, NEW p \in Prompts, App!Announce(p)
    PROVE  App!IInv'
<1>. USE DEF App!TuiAppAssumption, App!IInv, App!Working, App!Undisturbed, App!Live, App!Direct, App!Free, App!Announce, App!Applies, App!Compaction, App!Screen
<1>1. App!TypeOK'
  BY DEF App!TypeOK, App!Shapes, App!Jobs
<1>2. App!Shapes'
  BY DEF App!TypeOK, App!Shapes, App!Jobs
<1>3. App!RunningIsTrue'
  BY DEF App!TypeOK, App!Shapes, App!RunningIsTrue, App!CancelledIsOld, App!WorkerIsCurrent, App!HandlerKeeps, App!OneWorks
<1>4. App!CancelledIsOld'
  BY DEF App!TypeOK, App!CancelledIsOld, App!WorkerIsCurrent
<1>5. App!WorkerIsCurrent'
  BY DEF App!TypeOK, App!WorkerIsCurrent
<1>6. App!OneWorks'
  BY DEF App!TypeOK, App!Shapes, App!RunningIsTrue, App!CancelledIsOld, App!WorkerIsCurrent, App!HandlerKeeps, App!OneWorks, App!JobsAreAlone
<1>7. App!JobsAreAlone'
  BY DEF App!TypeOK, App!Shapes, App!RunningIsTrue, App!CancelledIsOld, App!HandlerKeeps, App!OneWorks, App!JobsAreAlone
<1>8. App!CompactorRuns'
  BY DEF App!TypeOK, App!Shapes, App!RunningIsTrue, App!HandlerKeeps, App!OneWorks, App!CompactorRuns
<1>9. App!CompactsAlone'
  BY <1>8 DEF App!CompactsAlone, App!CompactorRuns
<1>10. App!StaysHome'
  BY DEF App!TypeOK, App!Shapes, App!StaysHome, App!HandlerKeeps, App!OneWorks, App!JobsAreAlone, App!RunningIsTrue
<1>11. App!ShowsSession'
  BY DEF App!TypeOK, App!Shapes, App!ShowsSession, App!CompactorRuns, App!JobsAreAlone, App!Jobs
<1>12. App!HandlerKeeps'
  BY DEF App!TypeOK, App!Shapes, App!HandlerKeeps, App!CancelledIsOld
<1>. HIDE DEF App!TuiAppAssumption, App!Working, App!Undisturbed, App!Live, App!Direct, App!Free, App!Announce, App!Applies, App!Compaction, App!Screen
<1>. QED BY <1>1, <1>2, <1>3, <1>4, <1>5, <1>6, <1>7, <1>8, <1>9, <1>10, <1>11, <1>12 DEF App!IInv

LEMMA AppDrainKeeps ==
    ASSUME App!TuiAppAssumption, App!IInv, NEW p \in Prompts, NEW q \in Prompts, App!Drain(p, q)
    PROVE  App!IInv'
<1>. USE DEF App!TuiAppAssumption, App!IInv, App!Working, App!Undisturbed, App!Live, App!Direct, App!Free, App!Drain, App!Compaction, App!Screen
<1>1. App!TypeOK'
  BY DEF App!TypeOK, App!Shapes, App!Jobs
<1>2. App!Shapes'
  BY DEF App!TypeOK, App!Shapes, App!Jobs
<1>3. App!RunningIsTrue'
  BY DEF App!TypeOK, App!Shapes, App!RunningIsTrue, App!CancelledIsOld, App!WorkerIsCurrent, App!HandlerKeeps, App!OneWorks
<1>4. App!CancelledIsOld'
  BY DEF App!TypeOK, App!CancelledIsOld, App!WorkerIsCurrent
<1>5. App!WorkerIsCurrent'
  BY DEF App!TypeOK, App!WorkerIsCurrent
<1>6. App!OneWorks'
  BY DEF App!TypeOK, App!Shapes, App!RunningIsTrue, App!CancelledIsOld, App!WorkerIsCurrent, App!HandlerKeeps, App!OneWorks, App!JobsAreAlone
<1>7. App!JobsAreAlone'
  BY DEF App!TypeOK, App!Shapes, App!RunningIsTrue, App!CancelledIsOld, App!HandlerKeeps, App!OneWorks, App!JobsAreAlone
<1>8. App!CompactorRuns'
  BY DEF App!TypeOK, App!Shapes, App!RunningIsTrue, App!HandlerKeeps, App!OneWorks, App!CompactorRuns
<1>9. App!CompactsAlone'
  BY <1>8 DEF App!CompactsAlone, App!CompactorRuns
<1>10. App!StaysHome'
  BY DEF App!TypeOK, App!Shapes, App!StaysHome, App!HandlerKeeps, App!OneWorks, App!JobsAreAlone, App!RunningIsTrue
<1>11. App!ShowsSession'
  BY DEF App!TypeOK, App!Shapes, App!ShowsSession, App!CompactorRuns, App!JobsAreAlone, App!Jobs
<1>12. App!HandlerKeeps'
  BY DEF App!TypeOK, App!Shapes, App!HandlerKeeps, App!CancelledIsOld
<1>. HIDE DEF App!TuiAppAssumption, App!Working, App!Undisturbed, App!Live, App!Direct, App!Free, App!Drain, App!Compaction, App!Screen
<1>. QED BY <1>1, <1>2, <1>3, <1>4, <1>5, <1>6, <1>7, <1>8, <1>9, <1>10, <1>11, <1>12 DEF App!IInv

LEMMA AppAgentEndKeeps ==
    ASSUME App!TuiAppAssumption, App!IInv, NEW p \in Prompts, App!AgentEnd(p)
    PROVE  App!IInv'
<1>. USE DEF App!TuiAppAssumption, App!IInv, App!Working, App!Undisturbed, App!Live, App!Direct, App!Free, App!AgentEnd, App!Applies, App!Compaction, App!Screen
<1>1. App!TypeOK'
  BY DEF App!TypeOK, App!Shapes, App!Jobs
<1>2. App!Shapes'
  BY DEF App!TypeOK, App!Shapes, App!Jobs
<1>3. App!RunningIsTrue'
  BY DEF App!TypeOK, App!Shapes, App!RunningIsTrue, App!CancelledIsOld, App!WorkerIsCurrent, App!HandlerKeeps, App!OneWorks
<1>4. App!CancelledIsOld'
  BY DEF App!TypeOK, App!CancelledIsOld, App!WorkerIsCurrent
<1>5. App!WorkerIsCurrent'
  BY DEF App!TypeOK, App!WorkerIsCurrent
<1>6. App!OneWorks'
  BY DEF App!TypeOK, App!Shapes, App!RunningIsTrue, App!CancelledIsOld, App!WorkerIsCurrent, App!HandlerKeeps, App!OneWorks, App!JobsAreAlone
<1>7. App!JobsAreAlone'
  BY DEF App!TypeOK, App!Shapes, App!RunningIsTrue, App!CancelledIsOld, App!HandlerKeeps, App!OneWorks, App!JobsAreAlone
<1>8. App!CompactorRuns'
  BY DEF App!TypeOK, App!Shapes, App!RunningIsTrue, App!HandlerKeeps, App!OneWorks, App!CompactorRuns
<1>9. App!CompactsAlone'
  BY <1>8 DEF App!CompactsAlone, App!CompactorRuns
<1>10. App!StaysHome'
  BY DEF App!TypeOK, App!Shapes, App!StaysHome, App!HandlerKeeps, App!OneWorks, App!JobsAreAlone, App!RunningIsTrue
<1>11. App!ShowsSession'
  BY DEF App!TypeOK, App!Shapes, App!ShowsSession, App!CompactorRuns, App!JobsAreAlone, App!Jobs
<1>12. App!HandlerKeeps'
  BY DEF App!TypeOK, App!Shapes, App!HandlerKeeps, App!CancelledIsOld
<1>. HIDE DEF App!TuiAppAssumption, App!Working, App!Undisturbed, App!Live, App!Direct, App!Free, App!AgentEnd, App!Applies, App!Compaction, App!Screen
<1>. QED BY <1>1, <1>2, <1>3, <1>4, <1>5, <1>6, <1>7, <1>8, <1>9, <1>10, <1>11, <1>12 DEF App!IInv

LEMMA AppAfterKeeps ==
    ASSUME App!TuiAppAssumption, App!IInv, NEW p \in Prompts, App!After(p)
    PROVE  App!IInv'
<1>. USE DEF App!TuiAppAssumption, App!IInv, App!Working, App!Undisturbed, App!Live, App!Direct, App!Free, App!After, App!Ended, App!Compaction, App!Screen
<1>1. App!TypeOK'
  BY DEF App!TypeOK, App!Shapes, App!Jobs
<1>2. App!Shapes'
  BY DEF App!TypeOK, App!Shapes, App!Jobs
<1>3. App!RunningIsTrue'
  BY DEF App!TypeOK, App!Shapes, App!RunningIsTrue, App!CancelledIsOld, App!WorkerIsCurrent, App!HandlerKeeps, App!OneWorks
<1>4. App!CancelledIsOld'
  BY DEF App!TypeOK, App!CancelledIsOld, App!WorkerIsCurrent
<1>5. App!WorkerIsCurrent'
  BY DEF App!TypeOK, App!WorkerIsCurrent
<1>6. App!OneWorks'
  BY DEF App!TypeOK, App!Shapes, App!RunningIsTrue, App!CancelledIsOld, App!WorkerIsCurrent, App!HandlerKeeps, App!OneWorks, App!JobsAreAlone
<1>7. App!JobsAreAlone'
  BY DEF App!TypeOK, App!Shapes, App!RunningIsTrue, App!CancelledIsOld, App!HandlerKeeps, App!OneWorks, App!JobsAreAlone
<1>8. App!CompactorRuns'
  BY DEF App!TypeOK, App!Shapes, App!RunningIsTrue, App!HandlerKeeps, App!OneWorks, App!CompactorRuns
<1>9. App!CompactsAlone'
  BY <1>8 DEF App!CompactsAlone, App!CompactorRuns
<1>10. App!StaysHome'
  BY DEF App!TypeOK, App!Shapes, App!StaysHome, App!HandlerKeeps, App!OneWorks, App!JobsAreAlone, App!RunningIsTrue
<1>11. App!ShowsSession'
  BY DEF App!TypeOK, App!Shapes, App!ShowsSession, App!CompactorRuns, App!JobsAreAlone, App!Jobs
<1>12. App!HandlerKeeps'
  BY DEF App!TypeOK, App!Shapes, App!HandlerKeeps, App!CancelledIsOld
<1>. HIDE DEF App!TuiAppAssumption, App!Working, App!Undisturbed, App!Live, App!Direct, App!Free, App!After, App!Ended, App!Compaction, App!Screen
<1>. QED BY <1>1, <1>2, <1>3, <1>4, <1>5, <1>6, <1>7, <1>8, <1>9, <1>10, <1>11, <1>12 DEF App!IInv

LEMMA AppDiesKeeps ==
    ASSUME App!TuiAppAssumption, App!IInv, NEW p \in Prompts, App!Dies(p)
    PROVE  App!IInv'
<1>. USE DEF App!TuiAppAssumption, App!IInv, App!Working, App!Undisturbed, App!Live, App!Direct, App!Free, App!Dies, App!Ended, App!Compaction, App!Screen
<1>1. App!TypeOK'
  BY DEF App!TypeOK, App!Shapes, App!Jobs
<1>2. App!Shapes'
  BY DEF App!TypeOK, App!Shapes, App!Jobs
<1>3. App!RunningIsTrue'
  BY DEF App!TypeOK, App!Shapes, App!RunningIsTrue, App!CancelledIsOld, App!WorkerIsCurrent, App!HandlerKeeps, App!OneWorks
<1>4. App!CancelledIsOld'
  BY DEF App!TypeOK, App!CancelledIsOld, App!WorkerIsCurrent
<1>5. App!WorkerIsCurrent'
  BY DEF App!TypeOK, App!WorkerIsCurrent
<1>6. App!OneWorks'
  BY DEF App!TypeOK, App!Shapes, App!RunningIsTrue, App!CancelledIsOld, App!WorkerIsCurrent, App!HandlerKeeps, App!OneWorks, App!JobsAreAlone
<1>7. App!JobsAreAlone'
  BY DEF App!TypeOK, App!Shapes, App!RunningIsTrue, App!CancelledIsOld, App!HandlerKeeps, App!OneWorks, App!JobsAreAlone
<1>8. App!CompactorRuns'
  BY DEF App!TypeOK, App!Shapes, App!RunningIsTrue, App!HandlerKeeps, App!OneWorks, App!CompactorRuns
<1>9. App!CompactsAlone'
  BY <1>8 DEF App!CompactsAlone, App!CompactorRuns
<1>10. App!StaysHome'
  BY DEF App!TypeOK, App!Shapes, App!StaysHome, App!HandlerKeeps, App!OneWorks, App!JobsAreAlone, App!RunningIsTrue
<1>11. App!ShowsSession'
  BY DEF App!TypeOK, App!Shapes, App!ShowsSession, App!CompactorRuns, App!JobsAreAlone, App!Jobs
<1>12. App!HandlerKeeps'
  BY DEF App!TypeOK, App!Shapes, App!HandlerKeeps, App!CancelledIsOld
<1>. HIDE DEF App!TuiAppAssumption, App!Working, App!Undisturbed, App!Live, App!Direct, App!Free, App!Dies, App!Ended, App!Compaction, App!Screen
<1>. QED BY <1>1, <1>2, <1>3, <1>4, <1>5, <1>6, <1>7, <1>8, <1>9, <1>10, <1>11, <1>12 DEF App!IInv

LEMMA AppEditKeeps ==
    ASSUME App!TuiAppAssumption, App!IInv, NEW p \in Prompts, App!Edit(p)
    PROVE  App!IInv'
<1>. USE DEF App!TuiAppAssumption, App!IInv, App!Working, App!Undisturbed, App!Live, App!Direct, App!Free, App!Edit, App!Compaction, App!Screen
<1>1. App!TypeOK'
  BY DEF App!TypeOK, App!Shapes, App!Jobs
<1>2. App!Shapes'
  BY DEF App!TypeOK, App!Shapes, App!Jobs
<1>3. App!RunningIsTrue'
  BY DEF App!TypeOK, App!Shapes, App!RunningIsTrue, App!CancelledIsOld, App!WorkerIsCurrent, App!HandlerKeeps, App!OneWorks
<1>4. App!CancelledIsOld'
  BY DEF App!TypeOK, App!CancelledIsOld, App!WorkerIsCurrent
<1>5. App!WorkerIsCurrent'
  BY DEF App!TypeOK, App!WorkerIsCurrent
<1>6. App!OneWorks'
  BY DEF App!TypeOK, App!Shapes, App!RunningIsTrue, App!CancelledIsOld, App!WorkerIsCurrent, App!HandlerKeeps, App!OneWorks, App!JobsAreAlone
<1>7. App!JobsAreAlone'
  BY DEF App!TypeOK, App!Shapes, App!RunningIsTrue, App!CancelledIsOld, App!HandlerKeeps, App!OneWorks, App!JobsAreAlone
<1>8. App!CompactorRuns'
  BY DEF App!TypeOK, App!Shapes, App!RunningIsTrue, App!HandlerKeeps, App!OneWorks, App!CompactorRuns
<1>9. App!CompactsAlone'
  BY <1>8 DEF App!CompactsAlone, App!CompactorRuns
<1>10. App!StaysHome'
  BY DEF App!TypeOK, App!Shapes, App!StaysHome, App!HandlerKeeps, App!OneWorks, App!JobsAreAlone, App!RunningIsTrue
<1>11. App!ShowsSession'
  BY DEF App!TypeOK, App!Shapes, App!ShowsSession, App!CompactorRuns, App!JobsAreAlone, App!Jobs
<1>12. App!HandlerKeeps'
  BY DEF App!TypeOK, App!Shapes, App!HandlerKeeps, App!CancelledIsOld
<1>. HIDE DEF App!TuiAppAssumption, App!Working, App!Undisturbed, App!Live, App!Direct, App!Free, App!Edit, App!Compaction, App!Screen
<1>. QED BY <1>1, <1>2, <1>3, <1>4, <1>5, <1>6, <1>7, <1>8, <1>9, <1>10, <1>11, <1>12 DEF App!IInv

LEMMA AppCancelKeeps ==
    ASSUME App!TuiAppAssumption, App!IInv, App!Cancel
    PROVE  App!IInv'
<1>. USE DEF App!TuiAppAssumption, App!IInv, App!Working, App!Undisturbed, App!Live, App!Direct, App!Free, App!Cancel, App!CancelsPrompt, App!CompactionActive, App!Compaction, App!Run
<1>1. App!TypeOK'
  BY DEF App!TypeOK, App!Shapes, App!Jobs
<1>2. App!Shapes'
  BY DEF App!TypeOK, App!Shapes, App!Jobs
<1>3. App!RunningIsTrue'
  BY DEF App!TypeOK, App!Shapes, App!RunningIsTrue, App!CancelledIsOld, App!WorkerIsCurrent, App!HandlerKeeps, App!OneWorks
<1>4. App!CancelledIsOld'
  BY DEF App!TypeOK, App!CancelledIsOld, App!WorkerIsCurrent
<1>5. App!WorkerIsCurrent'
  BY DEF App!TypeOK, App!WorkerIsCurrent
<1>6. App!OneWorks'
  BY DEF App!TypeOK, App!Shapes, App!RunningIsTrue, App!CancelledIsOld, App!WorkerIsCurrent, App!HandlerKeeps, App!OneWorks, App!JobsAreAlone
<1>7. App!JobsAreAlone'
  BY DEF App!TypeOK, App!Shapes, App!RunningIsTrue, App!CancelledIsOld, App!HandlerKeeps, App!OneWorks, App!JobsAreAlone
<1>8. App!CompactorRuns'
  BY DEF App!TypeOK, App!Shapes, App!RunningIsTrue, App!HandlerKeeps, App!OneWorks, App!CompactorRuns
<1>9. App!CompactsAlone'
  BY <1>8 DEF App!CompactsAlone, App!CompactorRuns
<1>10. App!StaysHome'
  BY DEF App!TypeOK, App!Shapes, App!StaysHome, App!HandlerKeeps, App!OneWorks, App!JobsAreAlone, App!RunningIsTrue
<1>11. App!ShowsSession'
  BY DEF App!TypeOK, App!Shapes, App!ShowsSession, App!CompactorRuns, App!JobsAreAlone, App!Jobs
<1>12. App!HandlerKeeps'
  <2>1. \A q \in Prompts : x1'[q] \in {"new", "queued"} => x2'[q] = "none"
    BY DEF App!TypeOK, App!Shapes, App!HandlerKeeps, App!CancelledIsOld
  <2>2. \A q \in Prompts : x1'[q] = "direct" => x2'[q] # "cancelled"
    BY DEF App!TypeOK, App!Shapes, App!HandlerKeeps, App!CancelledIsOld
  <2>3. x10' = "tree" => App!Free'
    BY DEF App!TypeOK, App!Shapes, App!HandlerKeeps, App!CancelledIsOld
  <2>4. x3' # None => x1'[x3'] \in {"started", "sent", "lost"}
    BY DEF App!TypeOK, App!Shapes, App!HandlerKeeps, App!CancelledIsOld
  <2>. QED BY <2>1, <2>2, <2>3, <2>4 DEF App!HandlerKeeps
<1>. HIDE DEF App!TuiAppAssumption, App!Working, App!Undisturbed, App!Live, App!Direct, App!Free, App!Cancel, App!CancelsPrompt, App!CompactionActive, App!Compaction, App!Run
<1>. QED BY <1>1, <1>2, <1>3, <1>4, <1>5, <1>6, <1>7, <1>8, <1>9, <1>10, <1>11, <1>12 DEF App!IInv

LEMMA AppCompactKeeps ==
    ASSUME App!TuiAppAssumption, App!IInv, NEW c \in Compactions, App!Compact(c)
    PROVE  App!IInv'
<1>. USE DEF App!TuiAppAssumption, App!IInv, App!Working, App!Undisturbed, App!Live, App!Direct, App!Free, App!Compact, App!Active, App!CompactionActive, App!Run
<1>1. App!TypeOK'
  BY DEF App!TypeOK, App!Shapes, App!Jobs
<1>2. App!Shapes'
  BY DEF App!TypeOK, App!Shapes, App!Jobs
<1>3. App!RunningIsTrue'
  BY DEF App!TypeOK, App!Shapes, App!RunningIsTrue, App!CancelledIsOld, App!WorkerIsCurrent, App!HandlerKeeps, App!OneWorks
<1>4. App!CancelledIsOld'
  BY DEF App!TypeOK, App!CancelledIsOld, App!WorkerIsCurrent
<1>5. App!WorkerIsCurrent'
  BY DEF App!TypeOK, App!WorkerIsCurrent
<1>6. App!OneWorks'
  BY DEF App!TypeOK, App!Shapes, App!RunningIsTrue, App!CancelledIsOld, App!WorkerIsCurrent, App!HandlerKeeps, App!OneWorks, App!JobsAreAlone
<1>7. App!JobsAreAlone'
  BY DEF App!TypeOK, App!Shapes, App!RunningIsTrue, App!CancelledIsOld, App!HandlerKeeps, App!OneWorks, App!JobsAreAlone
<1>8. App!CompactorRuns'
  BY DEF App!TypeOK, App!Shapes, App!RunningIsTrue, App!HandlerKeeps, App!OneWorks, App!CompactorRuns
<1>9. App!CompactsAlone'
  BY <1>8 DEF App!CompactsAlone, App!CompactorRuns
<1>10. App!StaysHome'
  BY DEF App!TypeOK, App!Shapes, App!StaysHome, App!HandlerKeeps, App!OneWorks, App!JobsAreAlone, App!RunningIsTrue
<1>11. App!ShowsSession'
  BY DEF App!TypeOK, App!Shapes, App!ShowsSession, App!CompactorRuns, App!JobsAreAlone, App!Jobs
<1>12. App!HandlerKeeps'
  BY DEF App!TypeOK, App!Shapes, App!HandlerKeeps, App!CancelledIsOld
<1>. HIDE DEF App!TuiAppAssumption, App!Working, App!Undisturbed, App!Live, App!Direct, App!Free, App!Compact, App!Active, App!CompactionActive, App!Run
<1>. QED BY <1>1, <1>2, <1>3, <1>4, <1>5, <1>6, <1>7, <1>8, <1>9, <1>10, <1>11, <1>12 DEF App!IInv

LEMMA AppCompactEndsKeeps ==
    ASSUME App!TuiAppAssumption, App!IInv, NEW c \in Compactions, App!CompactEnds(c)
    PROVE  App!IInv'
<1>. USE DEF App!TuiAppAssumption, App!IInv, App!Working, App!Undisturbed, App!Live, App!Direct, App!Free, App!CompactEnds, App!Run
<1>1. App!TypeOK'
  BY DEF App!TypeOK, App!Shapes, App!Jobs
<1>2. App!Shapes'
  BY DEF App!TypeOK, App!Shapes, App!Jobs
<1>3. App!RunningIsTrue'
  BY DEF App!TypeOK, App!Shapes, App!RunningIsTrue, App!CancelledIsOld, App!WorkerIsCurrent, App!HandlerKeeps, App!OneWorks
<1>4. App!CancelledIsOld'
  BY DEF App!TypeOK, App!CancelledIsOld, App!WorkerIsCurrent
<1>5. App!WorkerIsCurrent'
  BY DEF App!TypeOK, App!WorkerIsCurrent
<1>6. App!OneWorks'
  BY DEF App!TypeOK, App!Shapes, App!RunningIsTrue, App!CancelledIsOld, App!WorkerIsCurrent, App!HandlerKeeps, App!OneWorks, App!JobsAreAlone
<1>7. App!JobsAreAlone'
  BY DEF App!TypeOK, App!Shapes, App!RunningIsTrue, App!CancelledIsOld, App!HandlerKeeps, App!OneWorks, App!JobsAreAlone
<1>8. App!CompactorRuns'
  BY DEF App!TypeOK, App!Shapes, App!RunningIsTrue, App!HandlerKeeps, App!OneWorks, App!CompactorRuns
<1>9. App!CompactsAlone'
  BY <1>8 DEF App!CompactsAlone, App!CompactorRuns
<1>10. App!StaysHome'
  BY DEF App!TypeOK, App!Shapes, App!StaysHome, App!HandlerKeeps, App!OneWorks, App!JobsAreAlone, App!RunningIsTrue
<1>11. App!ShowsSession'
  BY DEF App!TypeOK, App!Shapes, App!ShowsSession, App!CompactorRuns, App!JobsAreAlone, App!Jobs
<1>12. App!HandlerKeeps'
  BY DEF App!TypeOK, App!Shapes, App!HandlerKeeps, App!CancelledIsOld
<1>. HIDE DEF App!TuiAppAssumption, App!Working, App!Undisturbed, App!Live, App!Direct, App!Free, App!CompactEnds, App!Run
<1>. QED BY <1>1, <1>2, <1>3, <1>4, <1>5, <1>6, <1>7, <1>8, <1>9, <1>10, <1>11, <1>12 DEF App!IInv

LEMMA AppOpenPickerKeeps ==
    ASSUME App!TuiAppAssumption, App!IInv, NEW screen \in {"sessions", "tree"}, App!OpenPicker(screen)
    PROVE  App!IInv'
<1>. USE DEF App!TuiAppAssumption, App!IInv, App!Working, App!Undisturbed, App!Live, App!Direct, App!Free, App!OpenPicker, App!Run, App!Compaction
<1>1. App!TypeOK'
  BY DEF App!TypeOK, App!Shapes, App!Jobs
<1>2. App!Shapes'
  BY DEF App!TypeOK, App!Shapes, App!Jobs
<1>3. App!RunningIsTrue'
  BY DEF App!TypeOK, App!Shapes, App!RunningIsTrue, App!CancelledIsOld, App!WorkerIsCurrent, App!HandlerKeeps, App!OneWorks
<1>4. App!CancelledIsOld'
  BY DEF App!TypeOK, App!CancelledIsOld, App!WorkerIsCurrent
<1>5. App!WorkerIsCurrent'
  BY DEF App!TypeOK, App!WorkerIsCurrent
<1>6. App!OneWorks'
  BY DEF App!TypeOK, App!Shapes, App!RunningIsTrue, App!CancelledIsOld, App!WorkerIsCurrent, App!HandlerKeeps, App!OneWorks, App!JobsAreAlone
<1>7. App!JobsAreAlone'
  BY DEF App!TypeOK, App!Shapes, App!RunningIsTrue, App!CancelledIsOld, App!HandlerKeeps, App!OneWorks, App!JobsAreAlone
<1>8. App!CompactorRuns'
  BY DEF App!TypeOK, App!Shapes, App!RunningIsTrue, App!HandlerKeeps, App!OneWorks, App!CompactorRuns
<1>9. App!CompactsAlone'
  BY <1>8 DEF App!CompactsAlone, App!CompactorRuns
<1>10. App!StaysHome'
  BY DEF App!TypeOK, App!Shapes, App!StaysHome, App!HandlerKeeps, App!OneWorks, App!JobsAreAlone, App!RunningIsTrue
<1>11. App!ShowsSession'
  BY DEF App!TypeOK, App!Shapes, App!ShowsSession, App!CompactorRuns, App!JobsAreAlone, App!Jobs
<1>12. App!HandlerKeeps'
  BY DEF App!TypeOK, App!Shapes, App!HandlerKeeps, App!CancelledIsOld
<1>. HIDE DEF App!TuiAppAssumption, App!Working, App!Undisturbed, App!Live, App!Direct, App!Free, App!OpenPicker, App!Run, App!Compaction
<1>. QED BY <1>1, <1>2, <1>3, <1>4, <1>5, <1>6, <1>7, <1>8, <1>9, <1>10, <1>11, <1>12 DEF App!IInv

LEMMA AppClosePickerKeeps ==
    ASSUME App!TuiAppAssumption, App!IInv, App!ClosePicker
    PROVE  App!IInv'
<1>. USE DEF App!TuiAppAssumption, App!IInv, App!Working, App!Undisturbed, App!Live, App!Direct, App!Free, App!ClosePicker, App!Run, App!Compaction
<1>1. App!TypeOK'
  BY DEF App!TypeOK, App!Shapes, App!Jobs
<1>2. App!Shapes'
  BY DEF App!TypeOK, App!Shapes, App!Jobs
<1>3. App!RunningIsTrue'
  BY DEF App!TypeOK, App!Shapes, App!RunningIsTrue, App!CancelledIsOld, App!WorkerIsCurrent, App!HandlerKeeps, App!OneWorks
<1>4. App!CancelledIsOld'
  BY DEF App!TypeOK, App!CancelledIsOld, App!WorkerIsCurrent
<1>5. App!WorkerIsCurrent'
  BY DEF App!TypeOK, App!WorkerIsCurrent
<1>6. App!OneWorks'
  BY DEF App!TypeOK, App!Shapes, App!RunningIsTrue, App!CancelledIsOld, App!WorkerIsCurrent, App!HandlerKeeps, App!OneWorks, App!JobsAreAlone
<1>7. App!JobsAreAlone'
  BY DEF App!TypeOK, App!Shapes, App!RunningIsTrue, App!CancelledIsOld, App!HandlerKeeps, App!OneWorks, App!JobsAreAlone
<1>8. App!CompactorRuns'
  BY DEF App!TypeOK, App!Shapes, App!RunningIsTrue, App!HandlerKeeps, App!OneWorks, App!CompactorRuns
<1>9. App!CompactsAlone'
  BY <1>8 DEF App!CompactsAlone, App!CompactorRuns
<1>10. App!StaysHome'
  BY DEF App!TypeOK, App!Shapes, App!StaysHome, App!HandlerKeeps, App!OneWorks, App!JobsAreAlone, App!RunningIsTrue
<1>11. App!ShowsSession'
  BY DEF App!TypeOK, App!Shapes, App!ShowsSession, App!CompactorRuns, App!JobsAreAlone, App!Jobs
<1>12. App!HandlerKeeps'
  <2>1. \A q \in Prompts : x1'[q] \in {"new", "queued"} => x2'[q] = "none"
    BY DEF App!TypeOK, App!Shapes, App!HandlerKeeps, App!CancelledIsOld
  <2>2. \A q \in Prompts : x1'[q] = "direct" => x2'[q] # "cancelled"
    BY DEF App!TypeOK, App!Shapes, App!HandlerKeeps, App!CancelledIsOld
  <2>3. x10' = "tree" => App!Free'
    BY DEF App!TypeOK, App!Shapes, App!HandlerKeeps, App!CancelledIsOld
  <2>4. x3' # None => x1'[x3'] \in {"started", "sent", "lost"}
    BY DEF App!TypeOK, App!Shapes, App!HandlerKeeps, App!CancelledIsOld
  <2>. QED BY <2>1, <2>2, <2>3, <2>4 DEF App!HandlerKeeps
<1>. HIDE DEF App!TuiAppAssumption, App!Working, App!Undisturbed, App!Live, App!Direct, App!Free, App!ClosePicker, App!Run, App!Compaction
<1>. QED BY <1>1, <1>2, <1>3, <1>4, <1>5, <1>6, <1>7, <1>8, <1>9, <1>10, <1>11, <1>12 DEF App!IInv

LEMMA AppResumeKeeps ==
    ASSUME App!TuiAppAssumption, App!IInv, NEW s \in AppSessions, App!Resume(s)
    PROVE  App!IInv'
<1>. USE DEF App!TuiAppAssumption, App!IInv, App!Working, App!Undisturbed, App!Live, App!Direct, App!Free, App!Resume, App!Job, App!CompactionActive, App!Run, App!Compaction
<1>1. App!TypeOK'
  BY DEF App!TypeOK, App!Shapes, App!Jobs
<1>2. App!Shapes'
  BY DEF App!TypeOK, App!Shapes, App!Jobs
<1>3. App!RunningIsTrue'
  BY DEF App!TypeOK, App!Shapes, App!RunningIsTrue, App!CancelledIsOld, App!WorkerIsCurrent, App!HandlerKeeps, App!OneWorks
<1>4. App!CancelledIsOld'
  BY DEF App!TypeOK, App!CancelledIsOld, App!WorkerIsCurrent
<1>5. App!WorkerIsCurrent'
  BY DEF App!TypeOK, App!WorkerIsCurrent
<1>6. App!OneWorks'
  BY DEF App!TypeOK, App!Shapes, App!RunningIsTrue, App!CancelledIsOld, App!WorkerIsCurrent, App!HandlerKeeps, App!OneWorks, App!JobsAreAlone
<1>7. App!JobsAreAlone'
  BY DEF App!TypeOK, App!Shapes, App!RunningIsTrue, App!CancelledIsOld, App!HandlerKeeps, App!OneWorks, App!JobsAreAlone
<1>8. App!CompactorRuns'
  BY DEF App!TypeOK, App!Shapes, App!RunningIsTrue, App!HandlerKeeps, App!OneWorks, App!CompactorRuns
<1>9. App!CompactsAlone'
  BY <1>8 DEF App!CompactsAlone, App!CompactorRuns
<1>10. App!StaysHome'
  BY DEF App!TypeOK, App!Shapes, App!StaysHome, App!HandlerKeeps, App!OneWorks, App!JobsAreAlone, App!RunningIsTrue
<1>11. App!ShowsSession'
  BY DEF App!TypeOK, App!Shapes, App!ShowsSession, App!CompactorRuns, App!JobsAreAlone, App!Jobs
<1>12. App!HandlerKeeps'
  <2>1. \A q \in Prompts : x1'[q] \in {"new", "queued"} => x2'[q] = "none"
    BY DEF App!TypeOK, App!Shapes, App!HandlerKeeps, App!CancelledIsOld
  <2>2. \A q \in Prompts : x1'[q] = "direct" => x2'[q] # "cancelled"
    BY DEF App!TypeOK, App!Shapes, App!HandlerKeeps, App!CancelledIsOld
  <2>3. x10' = "tree" => App!Free'
    BY DEF App!TypeOK, App!Shapes, App!HandlerKeeps, App!CancelledIsOld
  <2>4. x3' # None => x1'[x3'] \in {"started", "sent", "lost"}
    BY DEF App!TypeOK, App!Shapes, App!HandlerKeeps, App!CancelledIsOld
  <2>. QED BY <2>1, <2>2, <2>3, <2>4 DEF App!HandlerKeeps
<1>. HIDE DEF App!TuiAppAssumption, App!Working, App!Undisturbed, App!Live, App!Direct, App!Free, App!Resume, App!Job, App!CompactionActive, App!Run, App!Compaction
<1>. QED BY <1>1, <1>2, <1>3, <1>4, <1>5, <1>6, <1>7, <1>8, <1>9, <1>10, <1>11, <1>12 DEF App!IInv

LEMMA AppNewKeeps ==
    ASSUME App!TuiAppAssumption, App!IInv, NEW s \in AppSessions, App!New(s)
    PROVE  App!IInv'
<1>. USE DEF App!TuiAppAssumption, App!IInv, App!Working, App!Undisturbed, App!Live, App!Direct, App!Free, App!New, App!Job, App!CancelsPrompt, App!CompactionActive, App!Run, App!Compaction
<1>1. App!TypeOK'
  BY DEF App!TypeOK, App!Shapes, App!Jobs
<1>2. App!Shapes'
  BY DEF App!TypeOK, App!Shapes, App!Jobs
<1>3. App!RunningIsTrue'
  BY DEF App!TypeOK, App!Shapes, App!RunningIsTrue, App!CancelledIsOld, App!WorkerIsCurrent, App!HandlerKeeps, App!OneWorks
<1>4. App!CancelledIsOld'
  BY DEF App!TypeOK, App!CancelledIsOld, App!WorkerIsCurrent
<1>5. App!WorkerIsCurrent'
  BY DEF App!TypeOK, App!WorkerIsCurrent
<1>6. App!OneWorks'
  BY DEF App!TypeOK, App!Shapes, App!RunningIsTrue, App!CancelledIsOld, App!WorkerIsCurrent, App!HandlerKeeps, App!OneWorks, App!JobsAreAlone
<1>7. App!JobsAreAlone'
  BY DEF App!TypeOK, App!Shapes, App!RunningIsTrue, App!CancelledIsOld, App!HandlerKeeps, App!OneWorks, App!JobsAreAlone
<1>8. App!CompactorRuns'
  BY DEF App!TypeOK, App!Shapes, App!RunningIsTrue, App!HandlerKeeps, App!OneWorks, App!CompactorRuns
<1>9. App!CompactsAlone'
  BY <1>8 DEF App!CompactsAlone, App!CompactorRuns
<1>10. App!StaysHome'
  BY DEF App!TypeOK, App!Shapes, App!StaysHome, App!HandlerKeeps, App!OneWorks, App!JobsAreAlone, App!RunningIsTrue
<1>11. App!ShowsSession'
  BY DEF App!TypeOK, App!Shapes, App!ShowsSession, App!CompactorRuns, App!JobsAreAlone, App!Jobs
<1>12. App!HandlerKeeps'
  <2>1. \A q \in Prompts : x1'[q] \in {"new", "queued"} => x2'[q] = "none"
    BY DEF App!TypeOK, App!Shapes, App!HandlerKeeps, App!CancelledIsOld
  <2>2. \A q \in Prompts : x1'[q] = "direct" => x2'[q] # "cancelled"
    BY DEF App!TypeOK, App!Shapes, App!HandlerKeeps, App!CancelledIsOld
  <2>3. x10' = "tree" => App!Free'
    BY DEF App!TypeOK, App!Shapes, App!HandlerKeeps, App!CancelledIsOld
  <2>4. x3' # None => x1'[x3'] \in {"started", "sent", "lost"}
    BY DEF App!TypeOK, App!Shapes, App!HandlerKeeps, App!CancelledIsOld
  <2>. QED BY <2>1, <2>2, <2>3, <2>4 DEF App!HandlerKeeps
<1>. HIDE DEF App!TuiAppAssumption, App!Working, App!Undisturbed, App!Live, App!Direct, App!Free, App!New, App!Job, App!CancelsPrompt, App!CompactionActive, App!Run, App!Compaction
<1>. QED BY <1>1, <1>2, <1>3, <1>4, <1>5, <1>6, <1>7, <1>8, <1>9, <1>10, <1>11, <1>12 DEF App!IInv

LEMMA AppBranchKeeps ==
    ASSUME App!TuiAppAssumption, App!IInv, NEW summarize \in BOOLEAN, App!Branch(summarize)
    PROVE  App!IInv'
<1>. USE DEF App!TuiAppAssumption, App!IInv, App!Working, App!Undisturbed, App!Live, App!Direct, App!Free, App!Branch, App!Job, App!Active, App!Queue, App!Run, App!Compaction
<1>1. App!TypeOK'
  BY DEF App!TypeOK, App!Shapes, App!Jobs
<1>2. App!Shapes'
  BY DEF App!TypeOK, App!Shapes, App!Jobs
<1>3. App!RunningIsTrue'
  BY DEF App!TypeOK, App!Shapes, App!RunningIsTrue, App!CancelledIsOld, App!WorkerIsCurrent, App!HandlerKeeps, App!OneWorks
<1>4. App!CancelledIsOld'
  BY DEF App!TypeOK, App!CancelledIsOld, App!WorkerIsCurrent
<1>5. App!WorkerIsCurrent'
  BY DEF App!TypeOK, App!WorkerIsCurrent
<1>6. App!OneWorks'
  BY DEF App!TypeOK, App!Shapes, App!RunningIsTrue, App!CancelledIsOld, App!WorkerIsCurrent, App!HandlerKeeps, App!OneWorks, App!JobsAreAlone
<1>7. App!JobsAreAlone'
  BY DEF App!TypeOK, App!Shapes, App!RunningIsTrue, App!CancelledIsOld, App!HandlerKeeps, App!OneWorks, App!JobsAreAlone
<1>8. App!CompactorRuns'
  BY DEF App!TypeOK, App!Shapes, App!RunningIsTrue, App!HandlerKeeps, App!OneWorks, App!CompactorRuns
<1>9. App!CompactsAlone'
  BY <1>8 DEF App!CompactsAlone, App!CompactorRuns
<1>10. App!StaysHome'
  BY DEF App!TypeOK, App!Shapes, App!StaysHome, App!HandlerKeeps, App!OneWorks, App!JobsAreAlone, App!RunningIsTrue
<1>11. App!ShowsSession'
  BY DEF App!TypeOK, App!Shapes, App!ShowsSession, App!CompactorRuns, App!JobsAreAlone, App!Jobs
<1>12. App!HandlerKeeps'
  BY DEF App!TypeOK, App!Shapes, App!HandlerKeeps, App!CancelledIsOld
<1>. HIDE DEF App!TuiAppAssumption, App!Working, App!Undisturbed, App!Live, App!Direct, App!Free, App!Branch, App!Job, App!Active, App!Queue, App!Run, App!Compaction
<1>. QED BY <1>1, <1>2, <1>3, <1>4, <1>5, <1>6, <1>7, <1>8, <1>9, <1>10, <1>11, <1>12 DEF App!IInv

LEMMA AppJobEndsKeeps ==
    ASSUME App!TuiAppAssumption, App!IInv, App!JobEnds
    PROVE  App!IInv'
<1>. USE DEF App!TuiAppAssumption, App!IInv, App!Working, App!Undisturbed, App!Live, App!Direct, App!Free, App!JobEnds, App!CompactionActive, App!Compaction
<1>1. App!TypeOK'
  BY DEF App!TypeOK, App!Shapes, App!Jobs
<1>2. App!Shapes'
  BY DEF App!TypeOK, App!Shapes, App!Jobs
<1>3. App!RunningIsTrue'
  BY DEF App!TypeOK, App!Shapes, App!RunningIsTrue, App!CancelledIsOld, App!WorkerIsCurrent, App!OneWorks, App!Jobs
<1>4. App!CancelledIsOld'
  BY DEF App!TypeOK, App!CancelledIsOld, App!WorkerIsCurrent
<1>5. App!WorkerIsCurrent'
  BY DEF App!TypeOK, App!WorkerIsCurrent
<1>6. App!OneWorks'
  <2>1. CASE UNCHANGED x6
    BY <2>1 DEF App!OneWorks
  <2>2. CASE x13' = x11.to /\ x11.kind # "branch" /\ x6' = None
    <3>1. x11.kind \in {"resume", "new"}
      BY <2>2 DEF App!Shapes, App!Jobs
    <3>2. CASE x11.kind = "new"
      BY <3>2, <2>2 DEF App!OneWorks, App!JobsAreAlone
    <3>3. CASE x11.kind = "resume"
      BY <3>3, <2>2 DEF App!OneWorks
    <3>. QED BY <3>1, <3>2, <3>3
  <2>. QED BY <2>1, <2>2
<1>7. App!JobsAreAlone'
  BY DEF App!TypeOK, App!Shapes, App!RunningIsTrue, App!CancelledIsOld, App!HandlerKeeps, App!OneWorks, App!JobsAreAlone
<1>8. App!CompactorRuns'
  BY DEF App!TypeOK, App!Shapes, App!RunningIsTrue, App!OneWorks, App!CompactorRuns, App!Jobs
<1>9. App!CompactsAlone'
  BY <1>8 DEF App!CompactsAlone, App!CompactorRuns
<1>10. App!StaysHome'
  <2>2. CASE UNCHANGED x13
    BY <2>2 DEF App!StaysHome
  <2>3. CASE x13' = x11.to /\ x11.kind = "branch"
    BY <2>3 DEF App!StaysHome, App!JobsAreAlone
  <2>4. CASE x13' = x11.to /\ x11.kind # "branch"
    <3>1. x11.kind \in {"resume", "new"}
      BY <2>4 DEF App!Shapes, App!Jobs
    <3>2. CASE x11.kind = "new"
      BY <3>2, <2>4 DEF App!StaysHome, App!JobsAreAlone
    <3>3. CASE x11.kind = "resume"
      BY <3>3, <2>4 DEF App!StaysHome
    <3>. QED BY <3>1, <3>2, <3>3
  <2>. QED BY <2>2, <2>3, <2>4
<1>11. App!ShowsSession'
  BY DEF App!TypeOK, App!Shapes, App!ShowsSession, App!CompactorRuns, App!JobsAreAlone, App!Jobs
<1>12. App!HandlerKeeps'
  BY DEF App!TypeOK, App!Shapes, App!HandlerKeeps, App!CancelledIsOld
<1>. HIDE DEF App!TuiAppAssumption, App!Working, App!Undisturbed, App!Live, App!Direct, App!Free, App!JobEnds, App!CompactionActive, App!Compaction
<1>. QED BY <1>1, <1>2, <1>3, <1>4, <1>5, <1>6, <1>7, <1>8, <1>9, <1>10, <1>11, <1>12 DEF App!IInv

LEMMA AppStepKeeps ==
    ASSUME App!TuiAppAssumption, App!IInv, [App!Next]_(App!vars)
    PROVE  App!IInv'
<1>1. CASE UNCHANGED App!vars
  BY <1>1 DEF App!vars, App!IInv, App!TypeOK, App!Shapes, App!RunningIsTrue, App!CancelledIsOld, App!WorkerIsCurrent, App!HandlerKeeps, App!OneWorks, App!JobsAreAlone,
              App!CompactorRuns, App!CompactsAlone, App!StaysHome, App!ShowsSession, App!Working, App!Undisturbed, App!Direct, App!Live, App!Free
<1>2. CASE App!Next
  BY <1>2, AppSubmitKeeps, AppPreparedKeeps, AppHandledKeeps, AppFaultKeeps, AppRaisesKeeps, AppAnnounceKeeps, AppDrainKeeps, AppAgentEndKeeps, AppAfterKeeps, AppDiesKeeps, AppEditKeeps,
     AppCancelKeeps, AppCompactKeeps, AppCompactEndsKeeps, AppOpenPickerKeeps, AppClosePickerKeeps, AppResumeKeeps, AppNewKeeps,
     AppBranchKeeps, AppJobEndsKeeps DEF App!Next
<1>. QED BY <1>1, <1>2

\* Prompts, compactions, cancellations, resumed sessions, branches and screens in any order: what the terminal shows
\* as running is a run that has not ended, unless one that the handler drives itself has raised; at most one
\* prompt works, a compaction runs alone unless another one was cancelled, a prompt is run in the session it
\* was typed in unless another one was resumed under it, and when nothing goes on the messages shown are
\* those of the session.
THEOREM AppAlwaysGood ==
    ASSUME App!TuiAppAssumption
    PROVE  App!Spec => []App!IInv
BY AppInitIsGood, AppStepKeeps, PTL DEF App!Spec

-----------------------------------------------------------------------------
(* The extension host and its registry *)

\* In the runs two extensions and a blocked one.
Host == INSTANCE ExtensionHost WITH
    Keys <- ContributionKeys, status <- x1, turn <- x2, entries <- x3, keysOf <- x4, listeners <- x5, handles <- x6,
    owned <- x7, index <- x8, emitting <- x9, called <- x10, late <- x11, intruded <- x12

LEMMA HostInitIsGood ==
    ASSUME Host!ExtensionHostAssumption, Host!Init
    PROVE  Host!IInv
BY DEF Host!Init, Host!ExtensionHostAssumption, Host!IInv, Host!TypeOK, Host!Shapes, Host!EntriesAreKnown, Host!NumbersAreOwn, Host!NothingIsLeft, Host!TablesAgree, Host!Contributions, Host!Statuses, Host!Extensions

LEMMA HostContributeKeeps ==
    ASSUME Host!ExtensionHostAssumption, Host!IInv, NEW e \in Host!Range(Plan), Host!Contribute(e)
    PROVE  Host!IInv'
<1>. USE DEF Host!ExtensionHostAssumption, Host!IInv, Host!Contribute, Host!Registers, Host!Extensions, Host!Live
<1>1. Host!TypeOK'
  BY DEF Host!TypeOK, Host!Shapes, Host!Contributions, Host!Statuses
<1>2. Host!Shapes'
  BY DEF Host!TypeOK, Host!Shapes, Host!Contributions, Host!Statuses
<1>3. Host!EntriesAreKnown'
  BY DEF Host!TypeOK, Host!Shapes, Host!Contributions, Host!Statuses, Host!EntriesAreKnown
<1>4. Host!NumbersAreOwn'
  BY DEF Host!TypeOK, Host!Shapes, Host!Contributions, Host!Statuses, Host!NumbersAreOwn
<1>5. Host!NothingIsLeft'
  BY DEF Host!TypeOK, Host!Shapes, Host!Contributions, Host!Statuses, Host!EntriesAreKnown, Host!NothingIsLeft
<1>6. Host!TablesAgree'
  BY DEF Host!TypeOK, Host!Shapes, Host!Contributions, Host!Statuses, Host!TablesAgree, Host!EntriesAreKnown, Host!NumbersAreOwn
<1>. HIDE DEF Host!ExtensionHostAssumption, Host!Contribute, Host!Registers, Host!Extensions, Host!Live
<1>. QED BY <1>1, <1>2, <1>3, <1>4, <1>5, <1>6 DEF Host!IInv

LEMMA HostListenKeeps ==
    ASSUME Host!ExtensionHostAssumption, Host!IInv, NEW e \in Host!Range(Plan), Host!Listen(e)
    PROVE  Host!IInv'
<1>. USE DEF Host!ExtensionHostAssumption, Host!IInv, Host!Listen, Host!Registers, Host!Extensions, Host!Live
<1>1. Host!TypeOK'
  BY DEF Host!TypeOK, Host!Shapes, Host!Contributions, Host!Statuses
<1>2. Host!Shapes'
  BY DEF Host!TypeOK, Host!Shapes, Host!Contributions, Host!Statuses
<1>3. Host!EntriesAreKnown'
  BY DEF Host!TypeOK, Host!Shapes, Host!Contributions, Host!Statuses, Host!EntriesAreKnown
<1>4. Host!NumbersAreOwn'
  BY DEF Host!TypeOK, Host!Shapes, Host!Contributions, Host!Statuses, Host!NumbersAreOwn
<1>5. Host!NothingIsLeft'
  BY DEF Host!TypeOK, Host!Shapes, Host!Contributions, Host!Statuses, Host!EntriesAreKnown, Host!NothingIsLeft
<1>6. Host!TablesAgree'
  BY DEF Host!TypeOK, Host!Shapes, Host!Contributions, Host!Statuses, Host!TablesAgree, Host!EntriesAreKnown, Host!NumbersAreOwn
<1>. HIDE DEF Host!ExtensionHostAssumption, Host!Listen, Host!Registers, Host!Extensions, Host!Live
<1>. QED BY <1>1, <1>2, <1>3, <1>4, <1>5, <1>6 DEF Host!IInv

LEMMA HostDisposeKeeps ==
    ASSUME Host!ExtensionHostAssumption, Host!IInv, NEW h \in x6, Host!Dispose(h)
    PROVE  Host!IInv'
<1>. USE DEF Host!ExtensionHostAssumption, Host!IInv, Host!Dispose, Host!Foreign
<1>1. Host!TypeOK'
  BY DEF Host!TypeOK, Host!Shapes, Host!Contributions, Host!Statuses
<1>2. Host!Shapes'
  BY DEF Host!TypeOK, Host!Shapes, Host!Contributions, Host!Statuses
<1>3. Host!EntriesAreKnown'
  BY DEF Host!TypeOK, Host!Shapes, Host!Contributions, Host!Statuses, Host!EntriesAreKnown
<1>4. Host!NumbersAreOwn'
  BY DEF Host!TypeOK, Host!Shapes, Host!Contributions, Host!Statuses, Host!NumbersAreOwn
<1>5. Host!NothingIsLeft'
  BY DEF Host!TypeOK, Host!Shapes, Host!Contributions, Host!Statuses, Host!EntriesAreKnown, Host!NothingIsLeft
<1>6. Host!TablesAgree'
  BY DEF Host!TypeOK, Host!Shapes, Host!Contributions, Host!Statuses, Host!TablesAgree, Host!EntriesAreKnown, Host!NumbersAreOwn
<1>. HIDE DEF Host!ExtensionHostAssumption, Host!Dispose, Host!Foreign
<1>. QED BY <1>1, <1>2, <1>3, <1>4, <1>5, <1>6 DEF Host!IInv

LEMMA HostUnlistenKeeps ==
    ASSUME Host!ExtensionHostAssumption, Host!IInv, NEW l \in x5, Host!Unlisten(l)
    PROVE  Host!IInv'
<1>. USE DEF Host!ExtensionHostAssumption, Host!IInv, Host!Unlisten
<1>1. Host!TypeOK'
  BY DEF Host!TypeOK, Host!Shapes, Host!Contributions, Host!Statuses
<1>2. Host!Shapes'
  BY DEF Host!TypeOK, Host!Shapes, Host!Contributions, Host!Statuses
<1>3. Host!EntriesAreKnown'
  BY DEF Host!TypeOK, Host!Shapes, Host!Contributions, Host!Statuses, Host!EntriesAreKnown
<1>4. Host!NumbersAreOwn'
  BY DEF Host!TypeOK, Host!Shapes, Host!Contributions, Host!Statuses, Host!NumbersAreOwn
<1>5. Host!NothingIsLeft'
  BY DEF Host!TypeOK, Host!Shapes, Host!Contributions, Host!Statuses, Host!EntriesAreKnown, Host!NothingIsLeft
<1>6. Host!TablesAgree'
  BY DEF Host!TypeOK, Host!Shapes, Host!Contributions, Host!Statuses, Host!TablesAgree, Host!EntriesAreKnown, Host!NumbersAreOwn
<1>. HIDE DEF Host!ExtensionHostAssumption, Host!Unlisten
<1>. QED BY <1>1, <1>2, <1>3, <1>4, <1>5, <1>6 DEF Host!IInv

LEMMA HostActivateKeeps ==
    ASSUME Host!ExtensionHostAssumption, Host!IInv, NEW e \in Host!Range(Plan), Host!Activate(e)
    PROVE  Host!IInv'
<1>. USE DEF Host!ExtensionHostAssumption, Host!IInv, Host!Activate, Host!Activatable, Host!Live, Host!Extensions
<1>1. Host!TypeOK'
  BY DEF Host!TypeOK, Host!Shapes, Host!Contributions, Host!Statuses
<1>2. Host!Shapes'
  BY DEF Host!TypeOK, Host!Shapes, Host!Contributions, Host!Statuses
<1>3. Host!EntriesAreKnown'
  BY DEF Host!TypeOK, Host!Shapes, Host!Contributions, Host!Statuses, Host!EntriesAreKnown
<1>4. Host!NumbersAreOwn'
  BY DEF Host!TypeOK, Host!Shapes, Host!Contributions, Host!Statuses, Host!NumbersAreOwn
<1>5. Host!NothingIsLeft'
  BY DEF Host!TypeOK, Host!Shapes, Host!Contributions, Host!Statuses, Host!EntriesAreKnown, Host!NothingIsLeft
<1>6. Host!TablesAgree'
  BY DEF Host!TypeOK, Host!Shapes, Host!Contributions, Host!Statuses, Host!TablesAgree, Host!EntriesAreKnown, Host!NumbersAreOwn
<1>. HIDE DEF Host!ExtensionHostAssumption, Host!Activate, Host!Activatable, Host!Live, Host!Extensions
<1>. QED BY <1>1, <1>2, <1>3, <1>4, <1>5, <1>6 DEF Host!IInv

LEMMA HostSetupRaisesKeeps ==
    ASSUME Host!ExtensionHostAssumption, Host!IInv, Host!SetupRaises
    PROVE  Host!IInv'
<1>. USE DEF Host!ExtensionHostAssumption, Host!IInv, Host!SetupRaises, Host!Disposes, Host!Cleared, Host!Foreign
<1>1. Host!TypeOK'
  BY DEF Host!TypeOK, Host!Shapes, Host!Contributions, Host!Statuses
<1>2. Host!Shapes'
  BY DEF Host!TypeOK, Host!Shapes, Host!Contributions, Host!Statuses
<1>3. Host!EntriesAreKnown'
  BY DEF Host!TypeOK, Host!Shapes, Host!Contributions, Host!Statuses, Host!EntriesAreKnown
<1>4. Host!NumbersAreOwn'
  BY DEF Host!TypeOK, Host!Shapes, Host!Contributions, Host!Statuses, Host!NumbersAreOwn
<1>5. Host!NothingIsLeft'
  BY DEF Host!TypeOK, Host!Shapes, Host!Contributions, Host!Statuses, Host!EntriesAreKnown, Host!NothingIsLeft
<1>6. Host!TablesAgree'
  BY DEF Host!TypeOK, Host!Shapes, Host!Contributions, Host!Statuses, Host!TablesAgree, Host!EntriesAreKnown, Host!NumbersAreOwn
<1>. HIDE DEF Host!ExtensionHostAssumption, Host!SetupRaises, Host!Disposes, Host!Cleared, Host!Foreign
<1>. QED BY <1>1, <1>2, <1>3, <1>4, <1>5, <1>6 DEF Host!IInv

LEMMA HostSetupEndsKeeps ==
    ASSUME Host!ExtensionHostAssumption, Host!IInv, Host!SetupEnds
    PROVE  Host!IInv'
<1>. USE DEF Host!ExtensionHostAssumption, Host!IInv, Host!SetupEnds
<1>1. Host!TypeOK'
  <2>1. x1' \in [Host!Extensions -> Host!Statuses] /\ x8' \in 0..MaxIndex /\ x4' \in [Host!Extensions -> SUBSET ContributionKeys]
    BY DEF Host!TypeOK, Host!Shapes, Host!Statuses
  <2>2. PICK hs \in SUBSET {h \in x6 : h.by = x2 /\ h \notin x7} : x7' = x7 \cup hs
    OBVIOUS
  <2>3. x7' \subseteq [by : Host!Extensions, key : ContributionKeys, n : 0..MaxIndex]
    BY <2>2 DEF Host!TypeOK, Host!Shapes
  <2>. QED BY <2>1, <2>3 DEF Host!TypeOK
<1>2. Host!Shapes'
  BY DEF Host!TypeOK, Host!Shapes, Host!Contributions, Host!Statuses
<1>3. Host!EntriesAreKnown'
  BY DEF Host!TypeOK, Host!Shapes, Host!Contributions, Host!Statuses, Host!EntriesAreKnown
<1>4. Host!NumbersAreOwn'
  BY DEF Host!TypeOK, Host!Shapes, Host!Contributions, Host!Statuses, Host!NumbersAreOwn
<1>5. Host!NothingIsLeft'
  BY DEF Host!TypeOK, Host!Shapes, Host!Contributions, Host!Statuses, Host!EntriesAreKnown, Host!NothingIsLeft
<1>6. Host!TablesAgree'
  BY DEF Host!TypeOK, Host!Shapes, Host!Contributions, Host!Statuses, Host!TablesAgree, Host!EntriesAreKnown, Host!NumbersAreOwn
<1>. HIDE DEF Host!ExtensionHostAssumption, Host!SetupEnds
<1>. QED BY <1>1, <1>2, <1>3, <1>4, <1>5, <1>6 DEF Host!IInv

LEMMA HostDeactivateKeeps ==
    ASSUME Host!ExtensionHostAssumption, Host!IInv, NEW e \in Host!Range(Plan), Host!Deactivate(e)
    PROVE  Host!IInv'
<1>. USE DEF Host!ExtensionHostAssumption, Host!IInv, Host!Deactivate, Host!Disposes, Host!Cleared, Host!Foreign, Host!Extensions
<1>1. Host!TypeOK'
  BY DEF Host!TypeOK, Host!Shapes, Host!Contributions, Host!Statuses
<1>2. Host!Shapes'
  BY DEF Host!TypeOK, Host!Shapes, Host!Contributions, Host!Statuses
<1>3. Host!EntriesAreKnown'
  BY DEF Host!TypeOK, Host!Shapes, Host!Contributions, Host!Statuses, Host!EntriesAreKnown
<1>4. Host!NumbersAreOwn'
  BY DEF Host!TypeOK, Host!Shapes, Host!Contributions, Host!Statuses, Host!NumbersAreOwn
<1>5. Host!NothingIsLeft'
  BY DEF Host!TypeOK, Host!Shapes, Host!Contributions, Host!Statuses, Host!EntriesAreKnown, Host!NothingIsLeft
<1>6. Host!TablesAgree'
  BY DEF Host!TypeOK, Host!Shapes, Host!Contributions, Host!Statuses, Host!TablesAgree, Host!EntriesAreKnown, Host!NumbersAreOwn
<1>. HIDE DEF Host!ExtensionHostAssumption, Host!Deactivate, Host!Disposes, Host!Cleared, Host!Foreign, Host!Extensions
<1>. QED BY <1>1, <1>2, <1>3, <1>4, <1>5, <1>6 DEF Host!IInv

LEMMA HostReloadKeeps ==
    ASSUME Host!ExtensionHostAssumption, Host!IInv, NEW e \in Host!Range(Plan), Host!Reload(e)
    PROVE  Host!IInv'
<1>. USE DEF Host!ExtensionHostAssumption, Host!IInv, Host!Reload, Host!Disposes, Host!Cleared, Host!Foreign, Host!Extensions, Host!Live
<1>1. Host!TypeOK'
  BY DEF Host!TypeOK, Host!Shapes, Host!Contributions, Host!Statuses
<1>2. Host!Shapes'
  BY DEF Host!TypeOK, Host!Shapes, Host!Contributions, Host!Statuses
<1>3. Host!EntriesAreKnown'
  BY DEF Host!TypeOK, Host!Shapes, Host!Contributions, Host!Statuses, Host!EntriesAreKnown
<1>4. Host!NumbersAreOwn'
  BY DEF Host!TypeOK, Host!Shapes, Host!Contributions, Host!Statuses, Host!NumbersAreOwn
<1>5. Host!NothingIsLeft'
  BY DEF Host!TypeOK, Host!Shapes, Host!Contributions, Host!Statuses, Host!EntriesAreKnown, Host!NothingIsLeft
<1>6. Host!TablesAgree'
  BY DEF Host!TypeOK, Host!Shapes, Host!Contributions, Host!Statuses, Host!TablesAgree, Host!EntriesAreKnown, Host!NumbersAreOwn
<1>. HIDE DEF Host!ExtensionHostAssumption, Host!Reload, Host!Disposes, Host!Cleared, Host!Foreign, Host!Extensions, Host!Live
<1>. QED BY <1>1, <1>2, <1>3, <1>4, <1>5, <1>6 DEF Host!IInv

LEMMA HostEmitKeeps ==
    ASSUME Host!ExtensionHostAssumption, Host!IInv, Host!Emit
    PROVE  Host!IInv'
<1>. USE DEF Host!ExtensionHostAssumption, Host!IInv, Host!Emit
<1>1. Host!TypeOK'
  BY DEF Host!TypeOK, Host!Shapes, Host!Contributions, Host!Statuses
<1>2. Host!Shapes'
  BY DEF Host!TypeOK, Host!Shapes, Host!Contributions, Host!Statuses
<1>3. Host!EntriesAreKnown'
  BY DEF Host!TypeOK, Host!Shapes, Host!Contributions, Host!Statuses, Host!EntriesAreKnown
<1>4. Host!NumbersAreOwn'
  BY DEF Host!TypeOK, Host!Shapes, Host!Contributions, Host!Statuses, Host!NumbersAreOwn
<1>5. Host!NothingIsLeft'
  BY DEF Host!TypeOK, Host!Shapes, Host!Contributions, Host!Statuses, Host!EntriesAreKnown, Host!NothingIsLeft
<1>6. Host!TablesAgree'
  BY DEF Host!TypeOK, Host!Shapes, Host!Contributions, Host!Statuses, Host!TablesAgree, Host!EntriesAreKnown, Host!NumbersAreOwn
<1>. HIDE DEF Host!ExtensionHostAssumption, Host!Emit
<1>. QED BY <1>1, <1>2, <1>3, <1>4, <1>5, <1>6 DEF Host!IInv

LEMMA HostCallKeeps ==
    ASSUME Host!ExtensionHostAssumption, Host!IInv, Host!Call
    PROVE  Host!IInv'
<1>. USE DEF Host!ExtensionHostAssumption, Host!IInv, Host!Call
<1>1. Host!TypeOK'
  BY DEF Host!TypeOK, Host!Shapes, Host!Contributions, Host!Statuses
<1>2. Host!Shapes'
  BY DEF Host!TypeOK, Host!Shapes, Host!Contributions, Host!Statuses
<1>3. Host!EntriesAreKnown'
  BY DEF Host!TypeOK, Host!Shapes, Host!Contributions, Host!Statuses, Host!EntriesAreKnown
<1>4. Host!NumbersAreOwn'
  BY DEF Host!TypeOK, Host!Shapes, Host!Contributions, Host!Statuses, Host!NumbersAreOwn
<1>5. Host!NothingIsLeft'
  BY DEF Host!TypeOK, Host!Shapes, Host!Contributions, Host!Statuses, Host!EntriesAreKnown, Host!NothingIsLeft
<1>6. Host!TablesAgree'
  BY DEF Host!TypeOK, Host!Shapes, Host!Contributions, Host!Statuses, Host!TablesAgree, Host!EntriesAreKnown, Host!NumbersAreOwn
<1>. HIDE DEF Host!ExtensionHostAssumption, Host!Call
<1>. QED BY <1>1, <1>2, <1>3, <1>4, <1>5, <1>6 DEF Host!IInv

LEMMA HostStepKeeps ==
    ASSUME Host!ExtensionHostAssumption, Host!IInv, [Host!Next]_(Host!vars)
    PROVE  Host!IInv'
<1>1. CASE UNCHANGED Host!vars
  BY <1>1 DEF Host!vars, Host!IInv, Host!TypeOK, Host!Shapes, Host!EntriesAreKnown, Host!NumbersAreOwn, Host!NothingIsLeft, Host!TablesAgree
<1>2. CASE Host!Next
  BY <1>2, HostContributeKeeps, HostListenKeeps, HostDisposeKeeps, HostUnlistenKeeps, HostActivateKeeps, HostSetupRaisesKeeps,
     HostSetupEndsKeeps, HostDeactivateKeeps, HostReloadKeeps, HostEmitKeeps, HostCallKeeps DEF Host!Next
<1>. QED BY <1>1, <1>2

\* Whatever extensions contribute, dispose, listen to, raise or reload, and in whatever order: the three tables of the
\* registry agree, a contribution is listed under its owner only, and nothing of an extension is left
\* once it is deactivated or has failed.
THEOREM HostAlwaysGood ==
    ASSUME Host!ExtensionHostAssumption
    PROVE  Host!Spec => []Host!IInv
BY HostInitIsGood, HostStepKeeps, PTL DEF Host!Spec

-----------------------------------------------------------------------------
(* The services of an extension *)

\* In the runs an extension and its successor of the same id.
Services == INSTANCE ExtensionServices WITH
    Owner <- BundleOwner, Ids <- BundleIds, listed <- x1, closed <- x2, closing <- x3, pc <- x4, tasks <- x5,
    pending <- x6, assets <- x7, total <- x8, handles <- x9, uses <- x10, shut <- x11, tardy <- x12,
    revived <- x13, broken <- x14

LEMMA ServicesInitIsGood ==
    ASSUME Services!ExtensionServicesAssumption, Services!Init
    PROVE  Services!IInv
<1>. USE DEF Services!Init, Services!ExtensionServicesAssumption
<1>1. Services!TypeOK
  BY DEF Services!TypeOK
<1>2. Services!Shapes
  BY DEF Services!Shapes
<1>3. Services!DisposalsWait /\ Services!ClosingGoesOn /\ Services!DisposedIsEmpty /\ Services!ClosedIsDisposed
  BY DEF Services!DisposalsWait, Services!ClosingGoesOn, Services!DisposedIsEmpty, Services!ClosedIsDisposed, Services!Disposing, Services!Of
<1>. QED BY <1>1, <1>2, <1>3 DEF Services!IInv

LEMMA ServicesSpawnKeeps ==
    ASSUME Services!ExtensionServicesAssumption, Services!IInv, NEW b \in Bundles, Services!Spawn(b)
    PROVE  Services!IInv'
<1>. USE DEF Services!ExtensionServicesAssumption, Services!IInv, Services!Spawn, Services!Directory, Services!Assets
<1>1. Services!TypeOK'
  BY DEF Services!TypeOK, Services!Shapes
<1>2. Services!Shapes'
  BY DEF Services!TypeOK, Services!Shapes
<1>3. Services!DisposalsWait'
  BY DEF Services!TypeOK, Services!Shapes, Services!DisposalsWait, Services!Disposing, Services!Of
<1>4. Services!ClosingGoesOn'
  BY DEF Services!TypeOK, Services!Shapes, Services!ClosingGoesOn, Services!Disposing
<1>5. Services!DisposedIsEmpty'
  BY DEF Services!TypeOK, Services!Shapes, Services!DisposedIsEmpty, Services!DisposalsWait, Services!Disposing, Services!Of
<1>6. Services!ClosedIsDisposed'
  BY DEF Services!TypeOK, Services!Shapes, Services!ClosingGoesOn, Services!ClosedIsDisposed, Services!Disposing
<1>. HIDE DEF Services!ExtensionServicesAssumption, Services!Spawn, Services!Directory, Services!Assets
<1>. QED BY <1>1, <1>2, <1>3, <1>4, <1>5, <1>6 DEF Services!IInv

LEMMA ServicesFinishKeeps ==
    ASSUME Services!ExtensionServicesAssumption, Services!IInv, NEW t \in x5, Services!Finish(t)
    PROVE  Services!IInv'
<1>. USE DEF Services!ExtensionServicesAssumption, Services!IInv, Services!Finish, Services!Directory, Services!Assets
<1>1. Services!TypeOK'
  BY DEF Services!TypeOK, Services!Shapes
<1>2. Services!Shapes'
  BY DEF Services!TypeOK, Services!Shapes
<1>3. Services!DisposalsWait'
  BY DEF Services!TypeOK, Services!Shapes, Services!DisposalsWait, Services!Disposing, Services!Of
<1>4. Services!ClosingGoesOn'
  BY DEF Services!TypeOK, Services!Shapes, Services!ClosingGoesOn, Services!Disposing
<1>5. Services!DisposedIsEmpty'
  BY DEF Services!TypeOK, Services!Shapes, Services!DisposedIsEmpty, Services!DisposalsWait, Services!Disposing, Services!Of
<1>6. Services!ClosedIsDisposed'
  BY DEF Services!TypeOK, Services!Shapes, Services!ClosingGoesOn, Services!ClosedIsDisposed, Services!Disposing
<1>. HIDE DEF Services!ExtensionServicesAssumption, Services!Finish, Services!Directory, Services!Assets
<1>. QED BY <1>1, <1>2, <1>3, <1>4, <1>5, <1>6 DEF Services!IInv

LEMMA ServicesRegisterKeeps ==
    ASSUME Services!ExtensionServicesAssumption, Services!IInv, NEW b \in Bundles, Services!Register(b)
    PROVE  Services!IInv'
<1>. USE DEF Services!ExtensionServicesAssumption, Services!IInv, Services!Register, Services!Directory, Services!Background
<1>1. Services!TypeOK'
  BY DEF Services!TypeOK, Services!Shapes
<1>2. Services!Shapes'
  BY DEF Services!TypeOK, Services!Shapes
<1>3. Services!DisposalsWait'
  BY DEF Services!TypeOK, Services!Shapes, Services!DisposalsWait, Services!Disposing, Services!Of
<1>4. Services!ClosingGoesOn'
  BY DEF Services!TypeOK, Services!Shapes, Services!ClosingGoesOn, Services!Disposing
<1>5. Services!DisposedIsEmpty'
  BY DEF Services!TypeOK, Services!Shapes, Services!DisposedIsEmpty, Services!DisposalsWait, Services!Disposing, Services!Of
<1>6. Services!ClosedIsDisposed'
  BY DEF Services!TypeOK, Services!Shapes, Services!ClosingGoesOn, Services!ClosedIsDisposed, Services!Disposing
<1>. HIDE DEF Services!ExtensionServicesAssumption, Services!Register, Services!Directory, Services!Background
<1>. QED BY <1>1, <1>2, <1>3, <1>4, <1>5, <1>6 DEF Services!IInv

LEMMA ServicesUnregisterKeeps ==
    ASSUME Services!ExtensionServicesAssumption, Services!IInv, NEW h \in x9, Services!Unregister(h)
    PROVE  Services!IInv'
<1>. USE DEF Services!ExtensionServicesAssumption, Services!IInv, Services!Unregister, Services!Directory, Services!Background
<1>1. Services!TypeOK'
  BY DEF Services!TypeOK, Services!Shapes
<1>2. Services!Shapes'
  BY DEF Services!TypeOK, Services!Shapes
<1>3. Services!DisposalsWait'
  BY DEF Services!TypeOK, Services!Shapes, Services!DisposalsWait, Services!Disposing, Services!Of
<1>4. Services!ClosingGoesOn'
  BY DEF Services!TypeOK, Services!Shapes, Services!ClosingGoesOn, Services!Disposing
<1>5. Services!DisposedIsEmpty'
  BY DEF Services!TypeOK, Services!Shapes, Services!DisposedIsEmpty, Services!DisposalsWait, Services!Disposing, Services!Of
<1>6. Services!ClosedIsDisposed'
  BY DEF Services!TypeOK, Services!Shapes, Services!ClosingGoesOn, Services!ClosedIsDisposed, Services!Disposing
<1>. HIDE DEF Services!ExtensionServicesAssumption, Services!Unregister, Services!Directory, Services!Background
<1>. QED BY <1>1, <1>2, <1>3, <1>4, <1>5, <1>6 DEF Services!IInv

LEMMA ServicesEndDisposeKeeps ==
    ASSUME Services!ExtensionServicesAssumption, Services!IInv, NEW b \in Bundles, Services!EndDispose(b)
    PROVE  Services!IInv'
<1>. USE DEF Services!ExtensionServicesAssumption, Services!IInv, Services!EndDispose, Services!Background
<1>1. Services!TypeOK'
  BY DEF Services!TypeOK, Services!Shapes
<1>2. Services!Shapes'
  BY DEF Services!TypeOK, Services!Shapes
<1>3. Services!DisposalsWait'
  BY DEF Services!TypeOK, Services!Shapes, Services!DisposalsWait, Services!Disposing, Services!Of
<1>4. Services!ClosingGoesOn'
  BY DEF Services!TypeOK, Services!Shapes, Services!ClosingGoesOn, Services!Disposing
<1>5. Services!DisposedIsEmpty'
  BY DEF Services!TypeOK, Services!Shapes, Services!DisposedIsEmpty, Services!DisposalsWait, Services!Disposing, Services!Of
<1>6. Services!ClosedIsDisposed'
  BY DEF Services!TypeOK, Services!Shapes, Services!ClosingGoesOn, Services!ClosedIsDisposed, Services!Disposing
<1>. HIDE DEF Services!ExtensionServicesAssumption, Services!EndDispose, Services!Background
<1>. QED BY <1>1, <1>2, <1>3, <1>4, <1>5, <1>6 DEF Services!IInv

LEMMA ServicesCancelDisposeKeeps ==
    ASSUME Services!ExtensionServicesAssumption, Services!IInv, NEW b \in Bundles, Services!CancelDispose(b)
    PROVE  Services!IInv'
<1>. USE DEF Services!ExtensionServicesAssumption, Services!IInv, Services!CancelDispose, Services!Assets
<1>1. Services!TypeOK'
  BY DEF Services!TypeOK, Services!Shapes
<1>2. Services!Shapes'
  BY DEF Services!TypeOK, Services!Shapes
<1>3. Services!DisposalsWait'
  BY DEF Services!TypeOK, Services!Shapes, Services!DisposalsWait, Services!Disposing, Services!Of
<1>4. Services!ClosingGoesOn'
  BY DEF Services!TypeOK, Services!Shapes, Services!ClosingGoesOn, Services!Disposing
<1>5. Services!DisposedIsEmpty'
  BY DEF Services!TypeOK, Services!Shapes, Services!DisposedIsEmpty, Services!DisposalsWait, Services!Disposing, Services!Of
<1>6. Services!ClosedIsDisposed'
  BY DEF Services!TypeOK, Services!Shapes, Services!ClosingGoesOn, Services!ClosedIsDisposed, Services!Disposing
<1>. HIDE DEF Services!ExtensionServicesAssumption, Services!CancelDispose, Services!Assets
<1>. QED BY <1>1, <1>2, <1>3, <1>4, <1>5, <1>6 DEF Services!IInv

LEMMA ServicesListKeeps ==
    ASSUME Services!ExtensionServicesAssumption, Services!IInv, NEW b \in Bundles, Services!List(b)
    PROVE  Services!IInv'
<1>. USE DEF Services!ExtensionServicesAssumption, Services!IInv, Services!List, Services!Background, Services!Assets
<1>1. Services!TypeOK'
  BY DEF Services!TypeOK, Services!Shapes
<1>2. Services!Shapes'
  BY DEF Services!TypeOK, Services!Shapes
<1>3. Services!DisposalsWait'
  BY DEF Services!TypeOK, Services!Shapes, Services!DisposalsWait, Services!Disposing, Services!Of
<1>4. Services!ClosingGoesOn'
  BY DEF Services!TypeOK, Services!Shapes, Services!ClosingGoesOn, Services!Disposing
<1>5. Services!DisposedIsEmpty'
  BY DEF Services!TypeOK, Services!Shapes, Services!DisposedIsEmpty, Services!DisposalsWait, Services!Disposing, Services!Of
<1>6. Services!ClosedIsDisposed'
  BY DEF Services!TypeOK, Services!Shapes, Services!ClosingGoesOn, Services!ClosedIsDisposed, Services!Disposing
<1>. HIDE DEF Services!ExtensionServicesAssumption, Services!List, Services!Background, Services!Assets
<1>. QED BY <1>1, <1>2, <1>3, <1>4, <1>5, <1>6 DEF Services!IInv

LEMMA ServicesUnlistKeeps ==
    ASSUME Services!ExtensionServicesAssumption, Services!IInv, NEW i \in BundleIds, Services!Unlist(i)
    PROVE  Services!IInv'
<1>. USE DEF Services!ExtensionServicesAssumption, Services!IInv, Services!Unlist, Services!Begins, Services!Assets
<1>1. Services!TypeOK'
  <2>1. x4' \in [Bundles -> {"open", "cancelling", "swept", "disposed"}] /\ x3' \subseteq Bundles
    BY DEF Services!TypeOK, Services!Shapes
  <2>2. x6' \subseteq x5' /\ x10' \in 0..MaxUses
    BY DEF Services!TypeOK, Services!Of
  <2>. QED BY <2>1, <2>2 DEF Services!TypeOK
<1>2. Services!Shapes'
  BY DEF Services!TypeOK, Services!Shapes
<1>3. Services!DisposalsWait'
  BY DEF Services!TypeOK, Services!Shapes, Services!DisposalsWait, Services!Disposing, Services!Of
<1>4. Services!ClosingGoesOn'
  BY DEF Services!TypeOK, Services!Shapes, Services!ClosingGoesOn, Services!Disposing
<1>5. Services!DisposedIsEmpty'
  BY DEF Services!TypeOK, Services!Shapes, Services!DisposedIsEmpty, Services!DisposalsWait, Services!Disposing, Services!Of
<1>6. Services!ClosedIsDisposed'
  BY DEF Services!TypeOK, Services!Shapes, Services!ClosingGoesOn, Services!ClosedIsDisposed, Services!Disposing
<1>. HIDE DEF Services!ExtensionServicesAssumption, Services!Unlist, Services!Begins, Services!Assets
<1>. QED BY <1>1, <1>2, <1>3, <1>4, <1>5, <1>6 DEF Services!IInv

LEMMA ServicesCloseKeeps ==
    ASSUME Services!ExtensionServicesAssumption, Services!IInv, Services!Close
    PROVE  Services!IInv'
<1>. USE DEF Services!ExtensionServicesAssumption, Services!IInv, Services!Close, Services!Background, Services!Assets
<1>1. Services!TypeOK'
  BY DEF Services!TypeOK, Services!Shapes
<1>2. Services!Shapes'
  BY DEF Services!TypeOK, Services!Shapes
<1>3. Services!DisposalsWait'
  BY DEF Services!TypeOK, Services!Shapes, Services!DisposalsWait, Services!Disposing, Services!Of
<1>4. Services!ClosingGoesOn'
  BY DEF Services!TypeOK, Services!Shapes, Services!ClosingGoesOn, Services!Disposing
<1>5. Services!DisposedIsEmpty'
  BY DEF Services!TypeOK, Services!Shapes, Services!DisposedIsEmpty, Services!DisposalsWait, Services!Disposing, Services!Of
<1>6. Services!ClosedIsDisposed'
  BY DEF Services!TypeOK, Services!Shapes, Services!ClosingGoesOn, Services!ClosedIsDisposed, Services!Disposing
<1>. HIDE DEF Services!ExtensionServicesAssumption, Services!Close, Services!Background, Services!Assets
<1>. QED BY <1>1, <1>2, <1>3, <1>4, <1>5, <1>6 DEF Services!IInv

LEMMA ServicesCloseNextKeeps ==
    ASSUME Services!ExtensionServicesAssumption, Services!IInv, NEW b \in Bundles, Services!CloseNext(b)
    PROVE  Services!IInv'
<1>. USE DEF Services!ExtensionServicesAssumption, Services!IInv, Services!CloseNext, Services!Begins, Services!Directory, Services!Assets
<1>1. Services!TypeOK'
  <2>1. x4' \in [Bundles -> {"open", "cancelling", "swept", "disposed"}] /\ x3' \subseteq Bundles
    BY DEF Services!TypeOK, Services!Shapes
  <2>2. x6' \subseteq x5' /\ x10' \in 0..MaxUses
    BY DEF Services!TypeOK, Services!Of
  <2>. QED BY <2>1, <2>2 DEF Services!TypeOK
<1>2. Services!Shapes'
  BY DEF Services!TypeOK, Services!Shapes
<1>3. Services!DisposalsWait'
  BY DEF Services!TypeOK, Services!Shapes, Services!DisposalsWait, Services!Disposing, Services!Of
<1>4. Services!ClosingGoesOn'
  BY DEF Services!TypeOK, Services!Shapes, Services!ClosingGoesOn, Services!Disposing
<1>5. Services!DisposedIsEmpty'
  BY DEF Services!TypeOK, Services!Shapes, Services!DisposedIsEmpty, Services!DisposalsWait, Services!Disposing, Services!Of
<1>6. Services!ClosedIsDisposed'
  BY DEF Services!TypeOK, Services!Shapes, Services!ClosingGoesOn, Services!ClosedIsDisposed, Services!Disposing
<1>. HIDE DEF Services!ExtensionServicesAssumption, Services!CloseNext, Services!Begins, Services!Directory, Services!Assets
<1>. QED BY <1>1, <1>2, <1>3, <1>4, <1>5, <1>6 DEF Services!IInv

LEMMA ServicesQuitKeeps ==
    ASSUME Services!ExtensionServicesAssumption, Services!IInv, NEW b \in Bundles, Services!Quit(b)
    PROVE  Services!IInv'
<1>. USE DEF Services!ExtensionServicesAssumption, Services!IInv, Services!Quit, Services!Begins, Services!Directory, Services!Assets
<1>1. Services!TypeOK'
  <2>1. x4' \in [Bundles -> {"open", "cancelling", "swept", "disposed"}] /\ x3' \subseteq Bundles
    BY DEF Services!TypeOK, Services!Shapes
  <2>2. x6' \subseteq x5' /\ x10' \in 0..MaxUses
    BY DEF Services!TypeOK, Services!Of
  <2>. QED BY <2>1, <2>2 DEF Services!TypeOK
<1>2. Services!Shapes'
  BY DEF Services!TypeOK, Services!Shapes
<1>3. Services!DisposalsWait'
  BY DEF Services!TypeOK, Services!Shapes, Services!DisposalsWait, Services!Disposing, Services!Of
<1>4. Services!ClosingGoesOn'
  BY DEF Services!TypeOK, Services!Shapes, Services!ClosingGoesOn, Services!Disposing
<1>5. Services!DisposedIsEmpty'
  BY DEF Services!TypeOK, Services!Shapes, Services!DisposedIsEmpty, Services!DisposalsWait, Services!Disposing, Services!Of
<1>6. Services!ClosedIsDisposed'
  BY DEF Services!TypeOK, Services!Shapes, Services!ClosingGoesOn, Services!ClosedIsDisposed, Services!Disposing
<1>. HIDE DEF Services!ExtensionServicesAssumption, Services!Quit, Services!Begins, Services!Directory, Services!Assets
<1>. QED BY <1>1, <1>2, <1>3, <1>4, <1>5, <1>6 DEF Services!IInv

LEMMA ServicesStepKeeps ==
    ASSUME Services!ExtensionServicesAssumption, Services!IInv, [Services!Next]_(Services!vars)
    PROVE  Services!IInv'
<1>1. CASE UNCHANGED Services!vars
  BY <1>1 DEF Services!vars, Services!IInv, Services!TypeOK, Services!Shapes, Services!DisposalsWait, Services!ClosingGoesOn, Services!DisposedIsEmpty, Services!ClosedIsDisposed,
              Services!Disposing, Services!Of
<1>2. CASE Services!Next
  BY <1>2, ServicesSpawnKeeps, ServicesFinishKeeps, ServicesRegisterKeeps, ServicesUnregisterKeeps, ServicesEndDisposeKeeps, ServicesCancelDisposeKeeps,
     ServicesListKeeps, ServicesUnlistKeeps, ServicesCloseKeeps, ServicesCloseNextKeeps, ServicesQuitKeeps DEF Services!Next
<1>. QED BY <1>1, <1>2

\* Tasks, assets, listings and disposals of bundles in any order: after its disposal a bundle has no asset and no
\* task, and a closed one is disposed, unless it was started, listed or cancelled meanwhile.
THEOREM ServicesAlwaysGood ==
    ASSUME Services!ExtensionServicesAssumption
    PROVE  Services!Spec => []Services!IInv
BY ServicesInitIsGood, ServicesStepKeeps, PTL DEF Services!Spec

-----------------------------------------------------------------------------
(* Logins and their credentials *)

\* Logins by callback or device code beside requests: in the runs two, with no request and with two.
Login(R, D) == INSTANCE OAuthCredentials WITH
    Requests <- R, Device <- D, login <- x1, port <- x2, future <- x3, posted <- x4, pasted <- x5, code <- x6,
    polls <- x7, store <- x8, tokens <- x9, accepted <- x10, expired <- x11, request <- x12, odd <- x13

LEMMA LoginInitIsGood ==
    ASSUME NEW R, NEW D, Login(R, D)!OAuthAssumption, Login(R, D)!Init
    PROVE  Login(R, D)!IInv
BY DEF Login!Init, Login!OAuthAssumption, Login!IInv, Login!TypeOK, Login!Shapes, Login!CallbacksMatch, Login!TokensAreGiven, Login!RefreshesAreSerial, Login!CodeIsOwn,
       Login!PortIsReleased, Login!Credentials, Login!Codes, Login!Refreshing

\* Who refreshes has a credential that was handed out.
LEMMA LoginCredentialsAreNumbered ==
    ASSUME NEW R, NEW D, Login(R, D)!OAuthAssumption, Login(R, D)!Shapes, Login(R, D)!TokensAreGiven, NEW r \in R, x12[r].at \in {"ask", "answer"}
    PROVE  x12[r].credential # None /\ x12[r].credential.refresh <= x9 /\ x12[r].credential.refresh \in Nat
<1>1. x12[r].credential \in Login(R, D)!Credentials \cup {None}
  BY DEF Login!Shapes
<1>2. x12[r].credential \in Login(R, D)!Credentials /\ x12[r].credential # None
  BY <1>1 DEF Login!TokensAreGiven
<1>3. \A c \in Login(R, D)!Credentials : c.refresh \in Nat
  BY DEF Login!Credentials, Login!OAuthAssumption
<1>4. x12[r].credential.refresh <= x9
  BY <1>2 DEF Login!TokensAreGiven
<1>. QED BY <1>2, <1>3, <1>4

\* What the runs check of a stored token follows from the invariant.
LEMMA LoginGoodIsAccepted ==
    ASSUME NEW R, NEW D, Login(R, D)!IInv
    PROVE  Login(R, D)!StoredIsAccepted
BY DEF Login!IInv, Login!RefreshesAreSerial, Login!StoredIsAccepted

LEMMA LoginFlowStays ==
    ASSUME NEW R, NEW D, Login(R, D)!IInv, UNCHANGED Login(R, D)!Flow
    PROVE  Login(R, D)!CallbacksMatch' /\ Login(R, D)!CodeIsOwn' /\ Login(R, D)!PortIsReleased'
BY DEF Login!IInv, Login!CallbacksMatch, Login!CodeIsOwn, Login!PortIsReleased, Login!Flow

LEMMA LoginTokensStay ==
    ASSUME NEW R, NEW D, Login(R, D)!IInv, UNCHANGED <<x8, x9, x10, x12, x13>>
    PROVE  Login(R, D)!TokensAreGiven' /\ Login(R, D)!RefreshesAreSerial'
BY DEF Login!IInv, Login!TokensAreGiven, Login!RefreshesAreSerial, Login!Refreshing

\* A token that was just handed out is the one that is accepted.
LEMMA LoginGrantsSerial ==
    ASSUME NEW R, NEW D, Login(R, D)!OAuthAssumption, Login(R, D)!IInv, Login(R, D)!Grants(TRUE), Login(R, D)!Saves([access |-> x9', refresh |-> x9']), UNCHANGED x12
    PROVE  Login(R, D)!TokensAreGiven' /\ Login(R, D)!RefreshesAreSerial'
<1>1. x9 \in Nat /\ x9' = x9 + 1 /\ x10' = x9'
  BY DEF Login!IInv, Login!TypeOK, Login!Grants
<1>2. \A r \in R : x12[r].at \in {"ask", "answer"} =>
          x12[r].credential # None /\ x12[r].credential.refresh <= x9 /\ x12[r].credential.refresh \in Nat
  BY LoginCredentialsAreNumbered DEF Login!IInv
<1>3. Login(R, D)!TokensAreGiven'
  BY <1>1 DEF Login!IInv, Login!TokensAreGiven, Login!Saves, Login!Shapes, Login!Credentials, Login!OAuthAssumption
<1>4. ASSUME x13' = {}
      PROVE  Login(R, D)!RefreshesAreSerial'
  <2>1. x13 = {} /\ x8'.refresh = x9' /\ x8' # Torn
    BY <1>4 DEF Login!IInv, Login!TypeOK, Login!Saves, Login!Grants, Login!Credentials, Login!OAuthAssumption
  <2>. QED BY <1>1, <1>2, <2>1 DEF Login!IInv, Login!RefreshesAreSerial, Login!Refreshing
<1>. QED BY <1>3, <1>4 DEF Login!RefreshesAreSerial

LEMMA LoginBeginKeeps ==
    ASSUME NEW R, NEW D, Login(R, D)!OAuthAssumption, Login(R, D)!IInv, NEW l \in Logins, Login(R, D)!Begin(l)
    PROVE  Login(R, D)!IInv'
<1>1. Login(R, D)!TypeOK' /\ Login(R, D)!Shapes'
  BY DEF Login!OAuthAssumption, Login!IInv, Login!TypeOK, Login!Shapes, Login!Codes, Login!Begin, Login!Moves, Login!Issuer
<1>2. Login(R, D)!CallbacksMatch' /\ Login(R, D)!CodeIsOwn' /\ Login(R, D)!PortIsReleased'
  BY DEF Login!OAuthAssumption, Login!IInv, Login!TypeOK, Login!Shapes, Login!Codes, Login!CallbacksMatch, Login!CodeIsOwn, Login!PortIsReleased, Login!Begin, Login!Moves
<1>3. UNCHANGED <<x8, x9, x10, x12, x13>>
  BY DEF Login!Begin, Login!Issuer
<1>. QED BY <1>1, <1>2, <1>3, LoginTokensStay DEF Login!IInv

LEMMA LoginCallbackKeeps ==
    ASSUME NEW R, NEW D, Login(R, D)!OAuthAssumption, Login(R, D)!IInv, NEW l \in Logins, Login(R, D)!Callback(l)
    PROVE  Login(R, D)!IInv'
<1>1. Login(R, D)!TypeOK' /\ Login(R, D)!Shapes'
  BY DEF Login!OAuthAssumption, Login!IInv, Login!TypeOK, Login!Shapes, Login!Codes, Login!Callback, Login!Matches, Login!Issuer
<1>2. Login(R, D)!CallbacksMatch' /\ Login(R, D)!CodeIsOwn' /\ Login(R, D)!PortIsReleased'
  BY DEF Login!OAuthAssumption, Login!IInv, Login!TypeOK, Login!Shapes, Login!Codes, Login!CallbacksMatch, Login!CodeIsOwn, Login!PortIsReleased, Login!Callback, Login!Matches
<1>3. UNCHANGED <<x8, x9, x10, x12, x13>>
  BY DEF Login!Callback, Login!Issuer
<1>. QED BY <1>1, <1>2, <1>3, LoginTokensStay DEF Login!IInv

LEMMA LoginDeliverKeeps ==
    ASSUME NEW R, NEW D, Login(R, D)!OAuthAssumption, Login(R, D)!IInv, NEW p \in x4, Login(R, D)!Deliver(p)
    PROVE  Login(R, D)!IInv'
<1>. DEFINE new == [of |-> p.of, bare |-> FALSE]
<1>1. new \in Login(R, D)!Codes /\ new.of = p.to /\ new # None /\ p.to \in Logins
  BY DEF Login!IInv, Login!Shapes, Login!Codes, Login!CallbacksMatch, Login!OAuthAssumption
<1>2. /\ \/ x6' = x6 /\ x3' = x3
         \/ x6' = [x6 EXCEPT ![p.to] = new] /\ x3' = [x3 EXCEPT ![p.to] = "set"] /\ x3[p.to] = "open"
      /\ x1' = x1 /\ x2' = x2 /\ x5' = x5 /\ x4' \subseteq x4
      /\ UNCHANGED <<x8, x9, x10, x12, x13>>
  BY DEF Login!Deliver, Login!Issuer
<1>. HIDE DEF new
<1>3. Login(R, D)!TypeOK' /\ Login(R, D)!Shapes'
  BY <1>1, <1>2 DEF Login!IInv, Login!TypeOK, Login!Shapes
<1>4. Login(R, D)!CallbacksMatch' /\ Login(R, D)!CodeIsOwn' /\ Login(R, D)!PortIsReleased'
  BY <1>1, <1>2 DEF Login!IInv, Login!Shapes, Login!CallbacksMatch, Login!CodeIsOwn, Login!PortIsReleased
<1>. QED BY <1>2, <1>3, <1>4, LoginTokensStay DEF Login!IInv

LEMMA LoginPasteKeeps ==
    ASSUME NEW R, NEW D, Login(R, D)!OAuthAssumption, Login(R, D)!IInv, NEW l \in Logins, NEW of \in Logins, NEW bare \in BOOLEAN, Login(R, D)!Paste(l, of, bare)
    PROVE  Login(R, D)!IInv'
<1>1. Login(R, D)!TypeOK' /\ Login(R, D)!Shapes'
  BY DEF Login!OAuthAssumption, Login!IInv, Login!TypeOK, Login!Shapes, Login!Codes, Login!Paste, Login!Issuer
<1>2. Login(R, D)!CallbacksMatch' /\ Login(R, D)!CodeIsOwn' /\ Login(R, D)!PortIsReleased'
  BY DEF Login!OAuthAssumption, Login!IInv, Login!TypeOK, Login!Shapes, Login!Codes, Login!CallbacksMatch, Login!CodeIsOwn, Login!PortIsReleased, Login!Paste
<1>3. UNCHANGED <<x8, x9, x10, x12, x13>>
  BY DEF Login!Paste, Login!Issuer
<1>. QED BY <1>1, <1>2, <1>3, LoginTokensStay DEF Login!IInv

LEMMA LoginTakeKeeps ==
    ASSUME NEW R, NEW D, Login(R, D)!OAuthAssumption, Login(R, D)!IInv, NEW l \in Logins, Login(R, D)!Take(l)
    PROVE  Login(R, D)!IInv'
<1>1. Login(R, D)!TypeOK' /\ Login(R, D)!Shapes'
  BY DEF Login!OAuthAssumption, Login!IInv, Login!TypeOK, Login!Shapes, Login!Codes, Login!Take, Login!Moves, Login!Released, Login!Issuer
<1>2. Login(R, D)!CallbacksMatch' /\ Login(R, D)!CodeIsOwn' /\ Login(R, D)!PortIsReleased'
  BY DEF Login!OAuthAssumption, Login!IInv, Login!TypeOK, Login!Shapes, Login!Codes, Login!CallbacksMatch, Login!CodeIsOwn, Login!PortIsReleased, Login!Take, Login!Moves, Login!Released
<1>3. UNCHANGED <<x8, x9, x10, x12, x13>>
  BY DEF Login!Take, Login!Issuer
<1>. QED BY <1>1, <1>2, <1>3, LoginTokensStay DEF Login!IInv

LEMMA LoginBeginDeviceKeeps ==
    ASSUME NEW R, NEW D, Login(R, D)!OAuthAssumption, Login(R, D)!IInv, NEW l \in Logins, Login(R, D)!BeginDevice(l)
    PROVE  Login(R, D)!IInv'
<1>1. Login(R, D)!TypeOK' /\ Login(R, D)!Shapes'
  BY DEF Login!OAuthAssumption, Login!IInv, Login!TypeOK, Login!Shapes, Login!Codes, Login!BeginDevice, Login!Moves, Login!Issuer
<1>2. Login(R, D)!CallbacksMatch' /\ Login(R, D)!CodeIsOwn' /\ Login(R, D)!PortIsReleased'
  BY DEF Login!OAuthAssumption, Login!IInv, Login!TypeOK, Login!Shapes, Login!Codes, Login!CallbacksMatch, Login!CodeIsOwn, Login!PortIsReleased, Login!BeginDevice, Login!Moves
<1>3. UNCHANGED <<x8, x9, x10, x12, x13>>
  BY DEF Login!BeginDevice, Login!Issuer
<1>. QED BY <1>1, <1>2, <1>3, LoginTokensStay DEF Login!IInv

LEMMA LoginPollKeeps ==
    ASSUME NEW R, NEW D, Login(R, D)!OAuthAssumption, Login(R, D)!IInv, NEW l \in Logins, Login(R, D)!Poll(l)
    PROVE  Login(R, D)!IInv'
<1>1. Login(R, D)!TypeOK' /\ Login(R, D)!Shapes'
  BY DEF Login!OAuthAssumption, Login!IInv, Login!TypeOK, Login!Shapes, Login!Codes, Login!Poll, Login!Moves, Login!Issuer
<1>2. Login(R, D)!CallbacksMatch' /\ Login(R, D)!CodeIsOwn' /\ Login(R, D)!PortIsReleased'
  BY DEF Login!OAuthAssumption, Login!IInv, Login!TypeOK, Login!Shapes, Login!Codes, Login!CallbacksMatch, Login!CodeIsOwn, Login!PortIsReleased, Login!Poll, Login!Moves
<1>3. UNCHANGED <<x8, x9, x10, x12, x13>>
  BY DEF Login!Poll, Login!Issuer
<1>. QED BY <1>1, <1>2, <1>3, LoginTokensStay DEF Login!IInv

LEMMA LoginCancelKeeps ==
    ASSUME NEW R, NEW D, Login(R, D)!OAuthAssumption, Login(R, D)!IInv, NEW l \in Logins, Login(R, D)!Cancel(l)
    PROVE  Login(R, D)!IInv'
<1>1. Login(R, D)!TypeOK' /\ Login(R, D)!Shapes'
  BY DEF Login!OAuthAssumption, Login!IInv, Login!TypeOK, Login!Shapes, Login!Codes, Login!Cancel, Login!Moves, Login!Released, Login!Issuer
<1>2. Login(R, D)!CallbacksMatch' /\ Login(R, D)!CodeIsOwn' /\ Login(R, D)!PortIsReleased'
  BY DEF Login!OAuthAssumption, Login!IInv, Login!TypeOK, Login!Shapes, Login!Codes, Login!CallbacksMatch, Login!CodeIsOwn, Login!PortIsReleased, Login!Cancel, Login!Moves, Login!Released
<1>3. UNCHANGED <<x8, x9, x10, x12, x13>>
  BY DEF Login!Cancel, Login!Issuer
<1>. QED BY <1>1, <1>2, <1>3, LoginTokensStay DEF Login!IInv

LEMMA LoginExchangeKeeps ==
    ASSUME NEW R, NEW D, Login(R, D)!OAuthAssumption, Login(R, D)!IInv, NEW l \in Logins, Login(R, D)!Exchange(l)
    PROVE  Login(R, D)!IInv'
<1>1. Login(R, D)!TypeOK' /\ Login(R, D)!Shapes'
  BY DEF Login!OAuthAssumption, Login!IInv, Login!TypeOK, Login!Shapes, Login!Codes, Login!Credentials, Login!Exchange, Login!Moves, Login!Leaves, Login!Released, Login!Grants, Login!Saves, Login!Issuer
<1>2. Login(R, D)!CallbacksMatch' /\ Login(R, D)!CodeIsOwn' /\ Login(R, D)!PortIsReleased'
  BY DEF Login!OAuthAssumption, Login!IInv, Login!TypeOK, Login!Shapes, Login!Codes, Login!CallbacksMatch, Login!CodeIsOwn, Login!PortIsReleased, Login!Exchange, Login!Moves, Login!Leaves, Login!Released, Login!Grants, Login!Saves
<1>3. \/ UNCHANGED <<x8, x9, x10, x12, x13>>
      \/ Login(R, D)!Grants(TRUE) /\ Login(R, D)!Saves([access |-> x9', refresh |-> x9']) /\ UNCHANGED x12
  BY DEF Login!Exchange, Login!Issuer
<1>. QED BY <1>1, <1>2, <1>3, LoginTokensStay, LoginGrantsSerial DEF Login!IInv

LEMMA LoginTokenKeeps ==
    ASSUME NEW R, NEW D, Login(R, D)!OAuthAssumption, Login(R, D)!IInv, NEW l \in Logins, Login(R, D)!Token(l)
    PROVE  Login(R, D)!IInv'
<1>1. Login(R, D)!TypeOK' /\ Login(R, D)!Shapes'
  BY DEF Login!OAuthAssumption, Login!IInv, Login!TypeOK, Login!Shapes, Login!Codes, Login!Credentials, Login!Token, Login!Moves, Login!Grants, Login!Saves, Login!Issuer
<1>2. Login(R, D)!CallbacksMatch' /\ Login(R, D)!CodeIsOwn' /\ Login(R, D)!PortIsReleased'
  BY DEF Login!OAuthAssumption, Login!IInv, Login!TypeOK, Login!Shapes, Login!Codes, Login!CallbacksMatch, Login!CodeIsOwn, Login!PortIsReleased, Login!Token, Login!Moves, Login!Grants, Login!Saves
<1>3. \/ UNCHANGED <<x8, x9, x10, x12, x13>>
      \/ Login(R, D)!Grants(TRUE) /\ Login(R, D)!Saves([access |-> x9', refresh |-> x9']) /\ UNCHANGED x12
  BY DEF Login!Token, Login!Issuer
<1>. QED BY <1>1, <1>2, <1>3, LoginTokensStay, LoginGrantsSerial DEF Login!IInv

LEMMA LoginResolveKeeps ==
    ASSUME NEW R, NEW D, Login(R, D)!OAuthAssumption, Login(R, D)!IInv, NEW r \in R, Login(R, D)!Resolve(r)
    PROVE  Login(R, D)!IInv'
<1>1. Login(R, D)!CallbacksMatch' /\ Login(R, D)!CodeIsOwn' /\ Login(R, D)!PortIsReleased'
  BY LoginFlowStays DEF Login!Resolve
<1>2. Login(R, D)!TypeOK' /\ Login(R, D)!Shapes'
  BY DEF Login!OAuthAssumption, Login!IInv, Login!TypeOK, Login!Shapes, Login!Credentials, Login!Resolve, Login!Sets, Login!Expired, Login!Flow, Login!Issuer
<1>3. Login(R, D)!TokensAreGiven' /\ Login(R, D)!RefreshesAreSerial'
  BY DEF Login!OAuthAssumption, Login!IInv, Login!TypeOK, Login!Shapes, Login!Credentials, Login!TokensAreGiven, Login!RefreshesAreSerial, Login!Refreshing, Login!Resolve, Login!Sets, Login!Expired, Login!Flow, Login!Issuer
<1>. QED BY <1>1, <1>2, <1>3 DEF Login!IInv

LEMMA LoginAnswerKeeps ==
    ASSUME NEW R, NEW D, Login(R, D)!OAuthAssumption, Login(R, D)!IInv, NEW r \in R, Login(R, D)!Answer(r)
    PROVE  Login(R, D)!IInv'
<1>1. Login(R, D)!CallbacksMatch' /\ Login(R, D)!CodeIsOwn' /\ Login(R, D)!PortIsReleased'
  BY LoginFlowStays DEF Login!Answer
<1>2. Login(R, D)!TypeOK' /\ Login(R, D)!Shapes'
  BY DEF Login!OAuthAssumption, Login!IInv, Login!TypeOK, Login!Shapes, Login!Credentials, Login!Answer, Login!Sets, Login!Grants, Login!Kept, Login!Flow, Login!Issuer, Login!TokensAreGiven
<1>3. Login(R, D)!TokensAreGiven'
  <2>. USE DEF Login!OAuthAssumption, Login!IInv, Login!Answer, Login!Sets, Login!Grants, Login!Kept, Login!Flow, Login!Issuer
  <2>1. CASE UNCHANGED Login(R, D)!Issuer
    BY <2>1 DEF Login!TypeOK, Login!Shapes, Login!TokensAreGiven
  <2>2. CASE x10 = x12[r].credential.refresh /\ \E replaces \in BOOLEAN : Login(R, D)!Grants(replaces)
    <3>1. x9 \in Nat /\ x9' = x9 + 1 /\ x8' = x8
      BY <2>2 DEF Login!TypeOK
    <3>2. x12[r].credential # None /\ x12[r].credential.refresh <= x9 /\ x12[r].credential.refresh \in Nat
      BY LoginCredentialsAreNumbered
    <3>3. \A n \in {x9', x12[r].credential.refresh} : [access |-> x9', refresh |-> n] \in Login(R, D)!Credentials
      BY <2>2, <3>1, <3>2, LoginCredentialsAreNumbered DEF Login!Credentials, Login!TypeOK
    <3>4. \A n \in {x9', x12[r].credential.refresh} : [access |-> x9', refresh |-> n] # None
      BY <3>3
    <3>5. \A q \in R \ {r} : x12'[q] = x12[q]
      BY <2>2 DEF Login!Shapes
    <3>6. \/ x12'[r].at = "idle" /\ x12'[r].credential = None
          \/ x12'[r].credential # None /\ x12'[r].credential.refresh \in {x9', x12[r].credential.refresh}
      BY <2>2, <3>4 DEF Login!Shapes
    <3>7. x12'[r].credential # None => x12'[r].credential.refresh <= x9'
      BY <3>1, <3>2, <3>6
    <3>8. \A q \in R \ {r} : x12'[q].credential # None => x12'[q].credential.refresh <= x9'
      BY <3>1, <3>5 DEF Login!TokensAreGiven, Login!Shapes, Login!Credentials
    <3>9. x8' \notin {None, Torn} => x8'.refresh <= x9'
      BY <3>1 DEF Login!TokensAreGiven, Login!Shapes, Login!Credentials
    <3>. QED BY <3>5, <3>6, <3>7, <3>8, <3>9 DEF Login!TokensAreGiven
  <2>. QED BY <2>1, <2>2
<1>4. Login(R, D)!RefreshesAreSerial'
  BY DEF Login!OAuthAssumption, Login!IInv, Login!TypeOK, Login!Shapes, Login!Credentials, Login!RefreshesAreSerial, Login!TokensAreGiven, Login!Refreshing, Login!Answer, Login!Sets, Login!Grants, Login!Kept, Login!Flow, Login!Issuer
<1>. QED BY <1>1, <1>2, <1>3, <1>4 DEF Login!IInv

LEMMA LoginSaveKeeps ==
    ASSUME NEW R, NEW D, Login(R, D)!OAuthAssumption, Login(R, D)!IInv, NEW r \in R, Login(R, D)!Save(r)
    PROVE  Login(R, D)!IInv'
<1>1. Login(R, D)!CallbacksMatch' /\ Login(R, D)!CodeIsOwn' /\ Login(R, D)!PortIsReleased'
  BY LoginFlowStays DEF Login!Save
<1>2. Login(R, D)!TypeOK' /\ Login(R, D)!Shapes'
  BY DEF Login!OAuthAssumption, Login!IInv, Login!TypeOK, Login!Shapes, Login!Credentials, Login!Save, Login!Sets, Login!Flow, Login!Issuer, Login!TokensAreGiven
<1>3. Login(R, D)!TokensAreGiven'
  <2>. USE DEF Login!OAuthAssumption, Login!IInv, Login!Save, Login!Sets, Login!Flow, Login!Issuer
  <2>1. x8' = Torn \/ x8' = x12[r].credential
    OBVIOUS
  <2>2. x9' = x9 /\ x12[r].credential # None /\ x12[r].credential.refresh <= x9
    BY LoginCredentialsAreNumbered
  <2>3. x12' = [x12 EXCEPT ![r] = [at |-> "use", credential |-> x12[r].credential]]
    OBVIOUS
  <2>. HIDE DEF Login!Save, Login!Sets
  <2>. QED BY <2>1, <2>2, <2>3 DEF Login!Shapes, Login!TokensAreGiven
<1>4. Login(R, D)!RefreshesAreSerial'
  BY DEF Login!OAuthAssumption, Login!IInv, Login!TypeOK, Login!Shapes, Login!Credentials, Login!RefreshesAreSerial, Login!TokensAreGiven, Login!Refreshing, Login!Save, Login!Sets, Login!Flow, Login!Issuer
<1>. QED BY <1>1, <1>2, <1>3, <1>4 DEF Login!IInv

LEMMA LoginFinishKeeps ==
    ASSUME NEW R, NEW D, Login(R, D)!OAuthAssumption, Login(R, D)!IInv, NEW r \in R, Login(R, D)!Finish(r)
    PROVE  Login(R, D)!IInv'
<1>1. Login(R, D)!CallbacksMatch' /\ Login(R, D)!CodeIsOwn' /\ Login(R, D)!PortIsReleased'
  BY LoginFlowStays DEF Login!Finish
<1>2. Login(R, D)!TypeOK' /\ Login(R, D)!Shapes'
  BY DEF Login!OAuthAssumption, Login!IInv, Login!TypeOK, Login!Shapes, Login!Credentials, Login!Finish, Login!Sets, Login!Flow, Login!Issuer
<1>3. Login(R, D)!TokensAreGiven' /\ Login(R, D)!RefreshesAreSerial'
  BY DEF Login!OAuthAssumption, Login!IInv, Login!TypeOK, Login!Shapes, Login!Credentials, Login!TokensAreGiven, Login!RefreshesAreSerial, Login!Refreshing, Login!Finish, Login!Sets, Login!Flow, Login!Issuer
<1>. QED BY <1>1, <1>2, <1>3 DEF Login!IInv

LEMMA LoginLogoutKeeps ==
    ASSUME NEW R, NEW D, Login(R, D)!OAuthAssumption, Login(R, D)!IInv, Login(R, D)!Logout
    PROVE  Login(R, D)!IInv'
<1>1. Login(R, D)!CallbacksMatch' /\ Login(R, D)!CodeIsOwn' /\ Login(R, D)!PortIsReleased'
  BY LoginFlowStays DEF Login!Logout
<1>2. Login(R, D)!TypeOK' /\ Login(R, D)!Shapes'
  BY DEF Login!OAuthAssumption, Login!IInv, Login!TypeOK, Login!Shapes, Login!Credentials, Login!Logout, Login!Flow, Login!Issuer
<1>3. Login(R, D)!TokensAreGiven' /\ Login(R, D)!RefreshesAreSerial'
  BY DEF Login!OAuthAssumption, Login!IInv, Login!TypeOK, Login!Shapes, Login!Credentials, Login!TokensAreGiven, Login!RefreshesAreSerial, Login!Refreshing, Login!Logout, Login!Flow, Login!Issuer
<1>. QED BY <1>1, <1>2, <1>3 DEF Login!IInv

LEMMA LoginExpireKeeps ==
    ASSUME NEW R, NEW D, Login(R, D)!OAuthAssumption, Login(R, D)!IInv, Login(R, D)!Expire
    PROVE  Login(R, D)!IInv'
<1>1. Login(R, D)!CallbacksMatch' /\ Login(R, D)!CodeIsOwn' /\ Login(R, D)!PortIsReleased'
  BY LoginFlowStays DEF Login!Expire
<1>2. Login(R, D)!TypeOK' /\ Login(R, D)!Shapes'
  BY DEF Login!OAuthAssumption, Login!IInv, Login!TypeOK, Login!Shapes, Login!Credentials, Login!Expire, Login!Flow, Login!Issuer
<1>3. Login(R, D)!TokensAreGiven' /\ Login(R, D)!RefreshesAreSerial'
  BY DEF Login!OAuthAssumption, Login!IInv, Login!TypeOK, Login!Shapes, Login!Credentials, Login!TokensAreGiven, Login!RefreshesAreSerial, Login!Refreshing, Login!Expire, Login!Flow, Login!Issuer
<1>. QED BY <1>1, <1>2, <1>3 DEF Login!IInv

LEMMA LoginStepKeeps ==
    ASSUME NEW R, NEW D, Login(R, D)!OAuthAssumption, Login(R, D)!IInv, [Login(R, D)!Next]_(Login(R, D)!vars)
    PROVE  Login(R, D)!IInv'
<1>1. CASE UNCHANGED Login(R, D)!vars
  BY <1>1 DEF Login!vars, Login!IInv, Login!TypeOK, Login!Shapes, Login!CallbacksMatch, Login!TokensAreGiven, Login!RefreshesAreSerial, Login!Refreshing, Login!CodeIsOwn,
              Login!PortIsReleased
<1>2. CASE Login(R, D)!Next
  BY <1>2, LoginBeginKeeps, LoginCallbackKeeps, LoginDeliverKeeps, LoginPasteKeeps, LoginTakeKeeps, LoginExchangeKeeps, LoginBeginDeviceKeeps, LoginPollKeeps,
     LoginTokenKeeps, LoginCancelKeeps, LoginResolveKeeps, LoginAnswerKeeps, LoginSaveKeeps, LoginFinishKeeps, LoginLogoutKeeps, LoginExpireKeeps
     DEF Login!Next
<1>. QED BY <1>1, <1>2

\* Callbacks, pasted codes, polls, refreshes, logouts and torn files, in any order: a login exchanges a code of its
\* own, the port is held only while a login waits or exchanges, and one refresh at a time is under way whose
\* answer the issuer accepts, unless two overlapped, one came late, or the file was torn.
THEOREM LoginAlwaysGood ==
    ASSUME NEW CONSTANT R, NEW CONSTANT D, Login(R, D)!OAuthAssumption
    PROVE  Login(R, D)!Spec => []Login(R, D)!IInv
BY LoginInitIsGood, LoginStepKeeps, PTL DEF Login!Spec
=============================================================================
