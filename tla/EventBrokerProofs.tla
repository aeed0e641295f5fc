-------------------------- MODULE EventBrokerProofs --------------------------
(* Theorems about EventBroker for every set of sessions and clients, every capacity and every
   number of events, broken connections and restarts. *)
EXTENDS EventBroker, SequenceTheorems, WellFoundedInduction, TLAPS

-----------------------------------------------------------------------------
(* Queues *)

\* One more event at the end
LEMMA Appended ==
    ASSUME NEW S, NEW q \in Seq(S), NEW e \in S
    PROVE  /\ Append(q, e) \in Seq(S) /\ Len(Append(q, e)) = Len(q) + 1 /\ Len(q) \in Nat
           /\ DOMAIN q = 1..Len(q) /\ DOMAIN Append(q, e) = 1..(Len(q) + 1)
           /\ \A i \in 1..(Len(q) + 1) : Append(q, e)[i] = IF i = Len(q) + 1 THEN e ELSE q[i]
<1>1. /\ Append(q, e) \in Seq(S) /\ Len(Append(q, e)) = Len(q) + 1
      /\ \A i \in 1..Len(q) : Append(q, e)[i] = q[i]
      /\ Append(q, e)[Len(q) + 1] = e
  BY AppendProperties
<1>2. Len(q) \in Nat /\ DOMAIN q = 1..Len(q) /\ DOMAIN Append(q, e) = 1..(Len(q) + 1)
  BY <1>1
<1>3. \A i \in 1..(Len(q) + 1) : i \in 1..Len(q) \/ i = Len(q) + 1
  BY <1>2
<1>. QED BY <1>1, <1>2, <1>3

\* The first is taken.
LEMMA Taken ==
    ASSUME NEW S, NEW q \in Seq(S), q # <<>>
    PROVE  /\ Head(q) \in S /\ Head(q) = q[1] /\ 1 \in DOMAIN q
           /\ Tail(q) \in Seq(S) /\ Len(Tail(q)) = Len(q) - 1 /\ Len(q) \in Nat \ {0}
           /\ \A i \in DOMAIN Tail(q) : i \in Nat /\ i + 1 \in DOMAIN q /\ Tail(q)[i] = q[i + 1]
           /\ \A j \in DOMAIN q : j # 1 => \E i \in DOMAIN Tail(q) : Tail(q)[i] = q[j]
<1>1. /\ Head(q) \in S /\ Tail(q) \in Seq(S) /\ Len(Tail(q)) = Len(q) - 1
      /\ \A i \in 1..Len(Tail(q)) : Tail(q)[i] = q[i + 1]
  BY HeadTailProperties
<1>2. Len(q) \in Nat \ {0} /\ DOMAIN q = 1..Len(q) /\ DOMAIN Tail(q) = 1..(Len(q) - 1)
  BY <1>1, EmptySeq
<1>3. \A j \in DOMAIN q : j # 1 => j - 1 \in DOMAIN Tail(q) /\ Tail(q)[j - 1] = q[j]
  BY <1>1, <1>2
<1>. QED BY <1>1, <1>2, <1>3

\* One is taken out, wherever it stands.
LEMMA Removed ==
    ASSUME NEW S, NEW q \in Seq(S), NEW i \in 1..Len(q)
    PROVE  /\ RemoveAt(q, i) \in Seq(S) /\ Len(RemoveAt(q, i)) = Len(q) - 1
           /\ \A j \in 1..(Len(q) - 1) : RemoveAt(q, i)[j] = IF j < i THEN q[j] ELSE q[j + 1]
<1>0. Len(q) \in Nat /\ DOMAIN q = 1..Len(q) /\ (\A j \in DOMAIN q : q[j] \in S) /\ i \in Nat
  BY LenProperties, ElementOfSeq
<1>. DEFINE a == SubSeq(q, 1, i - 1)
            b == SubSeq(q, i + 1, Len(q))
<1>1. /\ a \in Seq(S) /\ Len(a) = i - 1
      /\ \A j \in 1..(i - 1) : a[j] = q[j]
  <2>1. /\ 1 \in Int /\ i - 1 \in Int
        /\ \A j \in 1..(i - 1) : q[j] \in S
    BY <1>0
  <2>2. /\ SubSeq(q, 1, i - 1) \in Seq(S)
        /\ Len(SubSeq(q, 1, i - 1)) = IF 1 <= i - 1 THEN (i - 1) - 1 + 1 ELSE 0
        /\ \A j \in 1..((i - 1) - 1 + 1) : SubSeq(q, 1, i - 1)[j] = q[1 + j - 1]
    BY <2>1, SubSeqProperties
  <2>3. (i - 1) - 1 + 1 = i - 1 /\ (IF 1 <= i - 1 THEN (i - 1) - 1 + 1 ELSE 0) = i - 1
    BY <1>0
  <2>4. \A j \in 1..(i - 1) : 1 + j - 1 = j
    BY <1>0
  <2>. QED BY <2>2, <2>3, <2>4
<1>2. /\ b \in Seq(S) /\ Len(b) = Len(q) - i
      /\ \A j \in 1..(Len(q) - i) : b[j] = q[i + j]
  <2>1. /\ i + 1 \in Int /\ Len(q) \in Int
        /\ \A j \in (i + 1)..Len(q) : q[j] \in S
    BY <1>0
  <2>2. /\ SubSeq(q, i + 1, Len(q)) \in Seq(S)
        /\ Len(SubSeq(q, i + 1, Len(q))) = IF i + 1 <= Len(q) THEN Len(q) - (i + 1) + 1 ELSE 0
        /\ \A j \in 1..(Len(q) - (i + 1) + 1) : SubSeq(q, i + 1, Len(q))[j] = q[(i + 1) + j - 1]
    BY <2>1, SubSeqProperties
  <2>3. Len(q) \in Nat /\ i \in Nat /\ i <= Len(q)
    BY <1>0
  <2>4. /\ Len(q) - (i + 1) + 1 = Len(q) - i
        /\ (IF i + 1 <= Len(q) THEN Len(q) - (i + 1) + 1 ELSE 0) = Len(q) - i
    BY <2>3
  <2>5. \A j \in 1..(Len(q) - i) : (i + 1) + j - 1 = i + j
    BY <2>3
  <2>. QED BY <2>2, <2>4, <2>5
<1>. DEFINE w == a \o b
<1>3. RemoveAt(q, i) = w
  BY DEF RemoveAt
<1>. HIDE DEF a, b
<1>4. /\ w \in Seq(S) /\ Len(w) = Len(a) + Len(b)
      /\ \A j \in 1..(Len(a) + Len(b)) : w[j] = IF j <= Len(a) THEN a[j] ELSE b[j - Len(a)]
  BY <1>1, <1>2, ConcatProperties, Zenon
<1>5. Len(a) + Len(b) = Len(q) - 1
  BY <1>0, <1>1, <1>2
<1>6. ASSUME NEW j \in 1..(Len(q) - 1)
      PROVE  w[j] = IF j < i THEN q[j] ELSE q[j + 1]
  <2>1. CASE j < i
    <3>1. j \in 1..(i - 1) /\ j <= Len(a)
      BY <1>0, <1>1, <2>1
    <3>. QED BY <1>4, <1>5, <3>1, <1>1, <2>1
  <2>2. CASE ~(j < i)
    <3>1. j - (i - 1) \in 1..(Len(q) - i) /\ ~(j <= Len(a)) /\ i + (j - (i - 1)) = j + 1
      BY <1>0, <1>1, <2>2
    <3>2. w[j] = b[j - Len(a)]
      BY <1>4, <1>5, <3>1
    <3>3. b[j - (i - 1)] = q[i + (j - (i - 1))]
      BY <3>1, <1>2
    <3>. QED BY <3>1, <3>2, <3>3, <1>1, <2>2
  <2>. QED BY <2>1, <2>2
<1>. HIDE DEF w
<1>. QED BY <1>3, <1>4, <1>5, <1>6

-----------------------------------------------------------------------------
(* The replay buffer *)

\* What is known of the events that were published
LEMMA Typed ==
    ASSUME IInv
    PROVE  /\ history \in Seq(EventType) /\ Cursor \in Nat /\ DOMAIN history = 1..Cursor
           /\ replay \in Seq(EventType) /\ Len(replay) \in Nat /\ DOMAIN replay = 1..Len(replay)
           /\ Kept \in Nat /\ Kept + Len(replay) = Cursor
           /\ \A i \in 1..Cursor : history[i] \in EventType /\ history[i].cursor = i
           /\ floor \in [Sessions \cup {Global, All} -> Nat]
<1>1. /\ history \in Seq(EventType) /\ replay \in Seq(EventType) /\ Len(replay) <= Cursor
      /\ floor \in [Sessions \cup {Global, All} -> Nat]
  BY DEF IInv, TypeOK, ReplayExact
<1>2. Cursor \in Nat /\ DOMAIN history = 1..Cursor /\ Len(replay) \in Nat /\ DOMAIN replay = 1..Len(replay)
  BY <1>1, LenProperties DEF Cursor
<1>3. \A i \in 1..Cursor : history[i] \in EventType
  BY <1>1, ElementOfSeq DEF Cursor
<1>. QED BY <1>1, <1>2, <1>3 DEF IInv, HistoryExact, Kept

\* The retained events are those after the Kept first ones.
LEMMA Retained ==
    ASSUME IInv, NEW i \in 1..Cursor
    PROVE  /\ i <= Kept => \A j \in DOMAIN replay : replay[j].cursor # i
           /\ i > Kept => history[i] \in Range(replay) /\ \E j \in DOMAIN replay : replay[j].cursor = i
<1>1. \A j \in DOMAIN replay : replay[j] = history[Kept + j] /\ Kept + j \in 1..Cursor /\ j > 0
  BY Typed DEF IInv, ReplayExact
<1>2. CASE i <= Kept
  BY <1>1, <1>2, Typed
<1>3. CASE i > Kept
  <2>1. i - Kept \in DOMAIN replay /\ Kept + (i - Kept) = i
    BY <1>3, Typed
  <2>2. replay[i - Kept] = history[i]
    BY <1>1, <2>1
  <2>. QED BY <1>3, <2>1, <2>2, Typed DEF Range
<1>. QED BY <1>2, <1>3, Typed

\* A session matches the filters All, its own and, when it is Global, every one.
LEMMA FilterMeans ==
    ASSUME NEW f \in Sessions, NEW s
    PROVE  /\ Matches(All, s)
           /\ Matches(f, s) <=> s = Global \/ s = f
  BY BrokerAssumption DEF Matches

\* The floor of a filter is the last event of it that is not retained.
LEMMA FloorMeans ==
    ASSUME IInv, NEW f \in Sessions \cup {All}
    PROVE  /\ DropFloor(f) \in 0..Kept
           /\ DropFloor(f) > 0 => Matches(f, history[DropFloor(f)].session)
           /\ \A i \in (DropFloor(f) + 1)..Kept : ~Matches(f, history[i].session)
<1>1. CASE f = All
  BY <1>1, Typed, FilterMeans DEF DropFloor, Matches, IInv, ReplayExact
<1>2. CASE f \in Sessions
  <2>1. f # All /\ f # Global
    BY <1>2, BrokerAssumption
  <2>2. ASSUME NEW g \in {f, Global}
        PROVE  /\ floor[g] \in 0..Kept
               /\ floor[g] > 0 => history[floor[g]].session = g
               /\ \A i \in (floor[g] + 1)..Kept : history[i].session # g
    BY <1>2, Typed DEF IInv, ReplayExact
  <2>3. DropFloor(f) = IF floor[Global] > floor[f] THEN floor[Global] ELSE floor[f]
    BY <2>1 DEF DropFloor
  <2>. QED BY <1>2, <2>2, <2>3, Typed, FilterMeans
<1>. QED BY <1>1, <1>2

\* A resume falls back to a snapshot exactly when an event it would need is gone.
LEMMA FloorsAreExact ==
    ASSUME IInv
    PROVE  FloorExact
<1>. SUFFICES ASSUME NEW f \in Sessions \cup {All}, NEW n \in 0..Cursor
              PROVE  n < DropFloor(f) <=>
                         \E i \in (n + 1)..Cursor :
                             /\ Matches(f, history[i].session)
                             /\ \A j \in DOMAIN replay : replay[j].cursor # i
  BY DEF FloorExact
<1>1. DropFloor(f) \in 0..Kept /\ Kept \in 0..Cursor /\ Cursor \in Nat
  BY FloorMeans, Typed
<1>2. ASSUME n < DropFloor(f)
      PROVE  \E i \in (n + 1)..Cursor :
                 Matches(f, history[i].session) /\ \A j \in DOMAIN replay : replay[j].cursor # i
  <2>1. DropFloor(f) \in (n + 1)..Cursor /\ DropFloor(f) \in 1..Cursor
    BY <1>1, <1>2
  <2>. QED BY <1>1, <2>1, FloorMeans, Retained
<1>3. ASSUME NEW i \in (n + 1)..Cursor, Matches(f, history[i].session),
             \A j \in DOMAIN replay : replay[j].cursor # i
      PROVE  n < DropFloor(f)
  <2>1. i \in 1..Cursor /\ i <= Kept
    BY <1>1, <1>3, Retained
  <2>2. ~(i > DropFloor(f))
    BY <1>1, <1>3, <2>1, FloorMeans
  <2>. QED BY <1>1, <2>1, <2>2
<1>. QED BY <1>2, <1>3

\* What publish() does to the history
LEMMA PublishGrows ==
    ASSUME IInv, NEW s \in Sessions \cup {Global}, NEW k \in Kinds, Publish(s, k)
    PROVE  /\ Event(Cursor + 1, s, k) \in EventType /\ Event(Cursor + 1, s, k).kind # "snapshot"
           /\ history' \in Seq(EventType) /\ Cursor' = Cursor + 1 /\ DOMAIN history' = 1..(Cursor + 1)
           /\ \A i \in 1..Cursor : history'[i] = history[i]
           /\ history'[Cursor + 1] = Event(Cursor + 1, s, k)
           /\ HistoryExact'
<1>. DEFINE e == Event(Cursor + 1, s, k)
<1>1. e \in EventType /\ e.kind # "snapshot" /\ e.cursor = Cursor + 1 /\ e.parts = {Cursor + 1}
  BY Typed, BrokerAssumption DEF Event, EventType
<1>2. history' = Append(history, e)
  BY DEF Publish
<1>. HIDE DEF e
<1>3. /\ history' \in Seq(EventType) /\ Cursor' = Cursor + 1 /\ DOMAIN history' = 1..(Cursor + 1)
      /\ \A i \in 1..Cursor : history'[i] = history[i]
      /\ history'[Cursor + 1] = e
  BY <1>1, <1>2, Typed, Appended DEF Cursor
<1>4. \A i \in 1..(Cursor + 1) : i \in 1..Cursor \/ i = Cursor + 1
  BY Typed
<1>5. HistoryExact'
  BY <1>1, <1>3, <1>4, Typed DEF HistoryExact, IInv
<1>. QED BY <1>1, <1>3, <1>5 DEF e

\* The replay buffer and its floors follow.
LEMMA PublishRetains ==
    ASSUME IInv, NEW s \in Sessions \cup {Global}, NEW k \in Kinds, Publish(s, k)
    PROVE  /\ ReplayExact' /\ replay' \in Seq(EventType) /\ Len(replay') <= ReplayCapacity
           /\ floor' \in [Sessions \cup {Global, All} -> Nat]
<1>. DEFINE e == Event(Cursor + 1, s, k)
<1>1. /\ e \in EventType /\ Cursor' = Cursor + 1 /\ history'[Cursor + 1] = e
      /\ \A i \in 1..Cursor : history'[i] = history[i]
  BY PublishGrows
<1>. HIDE DEF e
<1>2. /\ ReplayCapacity \in Nat \ {0} /\ Len(replay) <= ReplayCapacity /\ All \notin Sessions \cup {Global}
      /\ \A j \in DOMAIN replay : replay[j] = history[Kept + j]
      /\ floor[All] = Kept
      /\ \A f \in Sessions \cup {Global} :
             /\ floor[f] \in 0..Kept
             /\ floor[f] > 0 => history[floor[f]].session = f
             /\ \A i \in (floor[f] + 1)..Kept : history[i].session # f
  BY Typed, BrokerAssumption DEF IInv, TypeOK, ReplayExact
<1>3. CASE Len(replay) >= ReplayCapacity
  <2>. DEFINE h == Head(replay)
  <2>1. replay' = Append(Tail(replay), e) /\ floor' = Dropped(h)
    BY <1>3 DEF Publish, e
  <2>2. /\ replay # <<>> /\ h = replay[1] /\ Tail(replay) \in Seq(EventType)
        /\ Len(Tail(replay)) = Len(replay) - 1
        /\ \A j \in DOMAIN Tail(replay) : j + 1 \in DOMAIN replay /\ Tail(replay)[j] = replay[j + 1]
    <3>1. replay # <<>>
      BY <1>2, <1>3, EmptySeq, Typed
    <3>. QED BY <3>1, Taken, Typed
  <2>3. /\ replay' \in Seq(EventType) /\ Len(replay') = Len(replay)
        /\ DOMAIN replay' = 1..Len(replay)
        /\ \A j \in 1..Len(replay) : replay'[j] = IF j = Len(replay) THEN e ELSE replay[j + 1]
    <3>1. DOMAIN Tail(replay) = 1..(Len(replay) - 1) /\ Len(replay) \in Nat
      BY <2>2, Typed, LenProperties
    <3>. DEFINE t == Tail(replay)
    <3>2. /\ replay' \in Seq(EventType) /\ Len(replay') = Len(t) + 1
          /\ DOMAIN replay' = 1..(Len(t) + 1)
          /\ \A j \in 1..(Len(t) + 1) : replay'[j] = IF j = Len(t) + 1 THEN e ELSE t[j]
      <4>1. t \in Seq(EventType) /\ replay' = Append(t, e)
        BY <2>1, <2>2
      <4>. HIDE DEF t
      <4>. QED BY <1>1, <4>1, Appended
    <3>3. Len(t) + 1 = Len(replay)
      BY <2>2, <3>1
    <3>4. \A j \in 1..Len(replay) : j # Len(replay) => j \in DOMAIN Tail(replay)
      BY <3>1
    <3>. QED BY <3>2, <3>3, <3>4, <2>2
  <2>4. Kept' = Kept + 1 /\ Kept + 1 <= Cursor /\ Kept + 1 >= 1
    <3>1. /\ Len(replay) \in Nat \ {0} /\ Cursor \in Nat /\ Kept \in Nat
          /\ Kept + Len(replay) = Cursor
      BY <1>2, <1>3, Typed
    <3>2. Kept' = (Cursor + 1) - Len(replay)
      BY <1>1, <2>3 DEF Kept
    <3>. QED BY <3>1, <3>2
  <2>5. h = history[Kept + 1] /\ h.cursor = Kept + 1 /\ h.session \in Sessions \cup {Global}
    <3>1. 1 \in DOMAIN replay /\ Kept + 1 \in 1..Cursor
      BY <1>2, <1>3, <2>4, Typed
    <3>. QED BY <3>1, <1>2, <2>2, Typed DEF EventType
  <2>6. /\ DOMAIN floor = Sessions \cup {Global, All}
        /\ floor' = [f \in DOMAIN floor |-> IF f \in {All, h.session} THEN Kept + 1 ELSE floor[f]]
    BY <2>1, <2>5, Typed DEF Dropped
  <2>. HIDE DEF h
  <2>7. floor' \in [Sessions \cup {Global, All} -> Nat] /\ floor'[All] = Kept + 1
    BY <2>6, Typed
  <2>8. \A j \in DOMAIN replay' : replay'[j] = history'[Kept' + j]
    <3>. SUFFICES ASSUME NEW j \in 1..Len(replay) PROVE replay'[j] = history'[Kept' + j]
      BY <2>3
    <3>1. CASE j = Len(replay)
      <4>1. Kept' + j = Cursor + 1
        BY <2>4, <3>1, Typed
      <4>. QED BY <1>1, <2>3, <3>1, <4>1
    <3>2. CASE j # Len(replay)
      <4>1. /\ Len(replay) \in Nat \ {0} /\ Cursor \in Nat /\ Kept \in Nat
            /\ Kept + Len(replay) = Cursor /\ DOMAIN replay = 1..Len(replay)
        BY Typed
      <4>7. Len(replay) \in Nat /\ j \in 1..Len(replay) /\ j # Len(replay)
        BY <3>2, <4>1
      <4>2. j \in Nat /\ j >= 1 /\ j < Len(replay)
        BY <4>7
      <4>4. Kept' = Kept + 1
        BY <2>4
      <4>5. j + 1 \in DOMAIN replay /\ Kept + (j + 1) \in 1..Cursor
        BY <4>1, <4>2
      <4>6. Kept + (j + 1) = Kept' + j
        BY <4>1, <4>2, <4>4
      <4>3. replay'[j] = replay[j + 1] /\ replay[j + 1] = history[Kept + (j + 1)]
        BY <1>2, <2>3, <3>2, <4>5
      <4>. QED BY <1>1, <4>3, <4>5, <4>6
    <3>. QED BY <3>1, <3>2
  <2>9. ASSUME NEW f \in Sessions \cup {Global}
        PROVE  /\ floor'[f] <= Kept'
               /\ floor'[f] > 0 => history'[floor'[f]].session = f
               /\ \A i \in (floor'[f] + 1)..Kept' : history'[i].session # f
    <3>0. Kept + 1 \in 1..Cursor /\ history'[Kept + 1] = h /\ f # All /\ f \in DOMAIN floor
      BY <1>1, <1>2, <2>4, <2>5, <2>6, Typed
    <3>1. CASE f = h.session
      <4>1. floor'[f] = Kept + 1
        BY <2>6, <3>0, <3>1
      <4>. QED BY <2>4, <3>0, <3>1, <4>1, Typed
    <3>2. CASE f # h.session
      <4>1. floor'[f] = floor[f]
        BY <2>6, <3>0, <3>2
      <4>2. floor[f] \in 0..Kept /\ (floor[f] > 0 => floor[f] \in 1..Cursor)
        BY <1>2, Typed
      <4>3. ASSUME NEW i \in (floor[f] + 1)..(Kept + 1)
            PROVE  history'[i].session # f
        <5>1. i \in (floor[f] + 1)..Kept \/ i = Kept + 1
          BY <4>2, Typed
        <5>2. i \in (floor[f] + 1)..Kept => i \in 1..Cursor
          BY <4>2, Typed
        <5>. QED BY <1>1, <1>2, <3>0, <3>2, <5>1, <5>2
      <4>. QED BY <1>1, <1>2, <2>4, <4>1, <4>2, <4>3, Typed
    <3>. QED BY <3>1, <3>2
  <2>. QED BY <1>1, <1>2, <2>3, <2>4, <2>7, <2>8, <2>9, Typed DEF ReplayExact
<1>4. CASE ~(Len(replay) >= ReplayCapacity)
  <2>1. replay' = Append(replay, e) /\ floor' = floor
    BY <1>4 DEF Publish, e
  <2>2. /\ replay' \in Seq(EventType) /\ Len(replay') = Len(replay) + 1
        /\ DOMAIN replay' = 1..(Len(replay) + 1)
        /\ \A j \in 1..(Len(replay) + 1) : replay'[j] = IF j = Len(replay) + 1 THEN e ELSE replay[j]
    BY <1>1, <2>1, Typed, Appended
  <2>3. Kept' = Kept /\ Len(replay') <= Cursor' /\ Len(replay') <= ReplayCapacity
    BY <1>1, <1>2, <1>4, <2>2, Typed DEF Kept
  <2>4. \A j \in DOMAIN replay' : replay'[j] = history'[Kept' + j]
    <3>. SUFFICES ASSUME NEW j \in 1..(Len(replay) + 1) PROVE replay'[j] = history'[Kept' + j]
      BY <2>2
    <3>1. CASE j = Len(replay) + 1
      <4>1. Kept' + j = Cursor + 1
        BY <2>3, <3>1, Typed
      <4>. QED BY <1>1, <2>2, <3>1, <4>1
    <3>2. CASE j # Len(replay) + 1
      <4>1. j \in DOMAIN replay /\ Kept + j \in 1..Cursor
        BY <3>2, Typed
      <4>. QED BY <1>1, <1>2, <2>2, <2>3, <3>2, <4>1
    <3>. QED BY <3>1, <3>2
  <2>5. ASSUME NEW f \in Sessions \cup {Global}
        PROVE  /\ floor'[f] <= Kept'
               /\ floor'[f] > 0 => history'[floor'[f]].session = f
               /\ \A i \in (floor'[f] + 1)..Kept' : history'[i].session # f
    <3>1. /\ floor[f] \in 0..Kept /\ (floor[f] > 0 => floor[f] \in 1..Cursor)
          /\ \A i \in (floor[f] + 1)..Kept : i \in 1..Cursor
      BY <1>2, Typed
    <3>. QED BY <1>1, <1>2, <2>1, <2>3, <3>1
  <2>6. floor'[All] = Kept' /\ floor' \in [Sessions \cup {Global, All} -> Nat]
    BY <1>2, <2>1, <2>3, Typed
  <2>. QED BY <2>2, <2>3, <2>4, <2>5, <2>6 DEF ReplayExact
<1>. QED BY <1>3, <1>4, Typed

-----------------------------------------------------------------------------
(* Events under way *)

\* Every set of cursors has a first.
LEMMA Least ==
    ASSUME NEW T \in SUBSET Nat, T # {}
    PROVE  \E x \in T : \A y \in T : x <= y
<1>. DEFINE R == {ss \in Nat \X Nat : ss[1] < ss[2]}
<1>0. IsWellFoundedOn(R, Nat)
  BY NatLessThanWellFounded DEF OpToRel
<1>1. \A y, x \in Nat : y < x => <<y, x>> \in R
  OBVIOUS
<1>. HIDE DEF R
<1>2. PICK x \in T : \A y \in T : ~ (<<y, x>> \in R)
  BY <1>0, WFMin
<1>3. ASSUME NEW y \in T
      PROVE  x <= y
  <2>1. x \in Nat /\ y \in Nat /\ ~(y < x)
    BY <1>1, <1>2
  <2>. QED BY <2>1
<1>. QED BY <1>3

\* The history h, and h after e was published
Past(h) ==
    /\ h \in Seq(EventType)
    /\ \A i \in DOMAIN h : h[i].cursor = i /\ h[i].parts = {i} /\ h[i].kind # "snapshot"
Grown(h, g, e) ==
    /\ Past(h) /\ Past(g) /\ Len(g) = Len(h) + 1 /\ e = g[Len(h) + 1]
    /\ \A i \in 1..Len(h) : g[i] = h[i]

LEMMA PastEvents ==
    ASSUME NEW h, Past(h)
    PROVE  /\ Len(h) \in Nat /\ DOMAIN h = 1..Len(h)
           /\ \A i \in 1..Len(h) : /\ h[i] \in EventType /\ h[i].cursor = i /\ h[i].parts = {i}
                                   /\ h[i].kind # "snapshot"
BY LenProperties, ElementOfSeq DEF Past

LEMMA GrownEvents ==
    ASSUME NEW h, NEW g, NEW e, Grown(h, g, e)
    PROVE  /\ Len(h) \in Nat /\ Len(g) = Len(h) + 1 /\ Past(h) /\ Past(g)
           /\ e \in EventType /\ e.cursor = Len(h) + 1 /\ e.parts = {Len(h) + 1} /\ e.kind # "snapshot"
           /\ g[Len(h) + 1] = e /\ \A i \in 1..Len(h) : g[i] = h[i]
<1>1. Len(h) \in Nat /\ Len(h) + 1 \in 1..Len(g)
  BY PastEvents DEF Grown
<1>. QED BY <1>1, PastEvents DEF Grown

\* What was carried is still carried when the history grows.
LEMMA StillCarried ==
    ASSUME NEW h, NEW g, NEW e, Grown(h, g, e), NEW d \in EventType, NEW m \in Nat, Carries(h, d, m)
    PROVE  Carries(g, d, m)
<1>1. d.cursor \in 1..Len(h)
  BY GrownEvents DEF Carries, EventType
<1>. QED BY <1>1, GrownEvents DEF Carries

\* What is published now comes after everything.
LEMMA NowCarried ==
    ASSUME NEW h, NEW g, NEW e, Grown(h, g, e), NEW m \in Nat, m <= Len(h)
    PROVE  Carries(g, e, m)
BY GrownEvents DEF Carries

\* The events of a queue
LEMMA QueueEvents ==
    ASSUME NEW q \in Seq(EventType)
    PROVE  /\ Len(q) \in Nat /\ DOMAIN q = 1..Len(q)
           /\ \A i \in 1..Len(q) : /\ q[i] \in EventType /\ q[i].cursor \in Nat /\ q[i].parts \in SUBSET Nat
<1>1. Len(q) \in Nat /\ DOMAIN q = 1..Len(q) /\ \A i \in 1..Len(q) : q[i] \in EventType
  BY LenProperties, ElementOfSeq
<1>. QED BY <1>1 DEF EventType

LEMMA ChainGrows ==
    ASSUME NEW h, NEW g, NEW e, Grown(h, g, e), NEW m \in Nat,
           NEW q \in Seq(EventType), Chain(h, q, m)
    PROVE  Chain(g, q, m)
BY QueueEvents, StillCarried DEF Chain

LEMMA ChainLengthens ==
    ASSUME NEW h, NEW g, NEW e, Grown(h, g, e), NEW m \in Nat, m <= Len(h),
           NEW q \in Seq(EventType), Chain(h, q, m)
    PROVE  Chain(g, Append(q, e), m)
<1>1. /\ Append(q, e) \in Seq(EventType) /\ DOMAIN Append(q, e) = 1..(Len(q) + 1) /\ Len(q) \in Nat
      /\ \A i \in 1..(Len(q) + 1) : Append(q, e)[i] = IF i = Len(q) + 1 THEN e ELSE q[i]
  BY Appended, GrownEvents
<1>2. \A i \in 1..(Len(q) + 1) : i \in 1..Len(q) \/ i = Len(q) + 1
  BY <1>1
<1>3. \A i \in 1..Len(q) : /\ i \in 1..(Len(q) + 1) /\ i # Len(q) + 1
                           /\ Carries(g, q[i], m) /\ Carries(g, e, q[i].cursor)
                           /\ \A j \in 1..Len(q) : i < j => Carries(g, q[j], q[i].cursor)
  <2>. TAKE i \in 1..Len(q)
  <2>1. Carries(h, q[i], m) /\ q[i].cursor \in Nat /\ q[i].cursor <= Len(h)
    BY QueueEvents DEF Chain, Carries
  <2>2. Carries(g, q[i], m) /\ Carries(g, e, q[i].cursor)
    BY <2>1, QueueEvents, StillCarried, NowCarried
  <2>3. \A j \in 1..Len(q) : i < j => Carries(g, q[j], q[i].cursor)
    BY <2>1, QueueEvents, StillCarried DEF Chain
  <2>. QED BY <1>1, <2>2, <2>3
<1>4. Carries(g, e, m)
  BY NowCarried
<1>. DEFINE p == Append(q, e)
<1>5. DOMAIN p = 1..(Len(q) + 1) /\ \A i \in 1..(Len(q) + 1) : p[i] = IF i = Len(q) + 1 THEN e ELSE q[i]
  BY <1>1
<1>. HIDE DEF p
<1>6. ASSUME NEW i \in DOMAIN p
      PROVE  Carries(g, p[i], m) /\ \A j \in DOMAIN p : i < j => Carries(g, p[j], p[i].cursor)
  <2>1. CASE i = Len(q) + 1
    <3>1. \A j \in DOMAIN p : ~(i < j)
      BY <1>1, <1>5, <2>1
    <3>. QED BY <1>4, <1>5, <2>1, <3>1
  <2>2. CASE i \in 1..Len(q)
    <3>1. p[i] = q[i]
      BY <1>3, <1>5, <2>2
    <3>2. \A j \in DOMAIN p : p[j] = e \/ (j \in 1..Len(q) /\ p[j] = q[j])
      BY <1>2, <1>3, <1>5
    <3>. QED BY <1>3, <2>2, <3>1, <3>2
  <2>. QED BY <1>2, <1>5, <2>1, <2>2
<1>. QED BY <1>6 DEF Chain, p

\* An event that was merged into the last carries what both did.
LEMMA MergedCarries ==
    ASSUME NEW h, NEW g, NEW e, Grown(h, g, e), NEW m \in Nat,
           NEW old \in EventType, Carries(h, old, m), Coalesces(old, e)
    PROVE  /\ Merged(old, e) \in EventType /\ Carries(g, Merged(old, e), m)
           /\ Merged(old, e).cursor = Len(h) + 1 /\ Merged(old, e).kind # "high" /\ old.kind # "high"
<1>1. /\ e \in EventType /\ e.cursor = Len(h) + 1 /\ e.parts = {Len(h) + 1} /\ g[Len(h) + 1] = e
      /\ Len(h) \in Nat /\ Len(g) = Len(h) + 1
  BY GrownEvents
<1>2. /\ old.cursor \in Nat /\ old.cursor <= Len(h) /\ m < old.cursor
      /\ \A i \in old.parts : i \in Nat /\ m < i /\ i <= old.cursor
  BY DEF Carries, EventType
<1>3. e.kind # "high" /\ old.kind # "high"
  BY DEF Coalesces, IsLow
<1>. DEFINE p == Merged(old, e)
<1>4. /\ p \in EventType /\ p.cursor = Len(h) + 1 /\ p.kind = e.kind /\ p.session = e.session
      /\ p.parts = IF e.kind = "delta" THEN old.parts \cup {Len(h) + 1} ELSE {Len(h) + 1}
  BY <1>1, <1>2 DEF Merged, EventType
<1>5. \A i \in p.parts : m < i /\ i <= p.cursor
  BY <1>1, <1>2, <1>4
<1>. HIDE DEF p
<1>6. Carries(g, p, m)
  BY <1>1, <1>2, <1>3, <1>4, <1>5 DEF Carries
<1>. QED BY <1>3, <1>4, <1>6 DEF p

LEMMA ChainMerges ==
    ASSUME NEW h, NEW g, NEW e, Grown(h, g, e), NEW m \in Nat,
           NEW q \in Seq(EventType), q # <<>>, Chain(h, q, m), Coalesces(Last(q), e)
    PROVE  LET p == [q EXCEPT ![Len(q)] = Merged(Last(q), e)] IN
           /\ p \in Seq(EventType) /\ Len(p) = Len(q) /\ Chain(g, p, m)
           /\ \A i \in DOMAIN q : q[i].kind = "high" => \E j \in DOMAIN p : p[j].cursor = q[i].cursor
           /\ \A j \in DOMAIN p : p[j].kind # "snapshot" \/ p[j] = q[j]
<1>. DEFINE n == Len(q)
            x == Merged(Last(q), e)
            p == [q EXCEPT ![n] = x]
<1>1. n \in Nat \ {0} /\ DOMAIN q = 1..n /\ \A i \in 1..n : q[i] \in EventType /\ q[i].cursor \in Nat
  BY QueueEvents, EmptySeq
<1>2. Last(q) = q[n] /\ n \in 1..n
  BY <1>1 DEF Last
<1>3. ASSUME NEW k \in Nat, Carries(h, q[n], k)
      PROVE  x \in EventType /\ Carries(g, x, k) /\ x.kind # "high" /\ q[n].kind # "high"
  BY <1>1, <1>2, <1>3, MergedCarries
<1>4. Carries(h, q[n], m)
  BY <1>1, <1>2 DEF Chain
<1>5. x \in EventType /\ Carries(g, x, m) /\ x.kind # "high" /\ q[n].kind # "high" /\ x.kind # "snapshot"
  <2>1. x.kind = e.kind
    BY GrownEvents DEF Merged, EventType
  <2>. QED BY <1>3, <1>4, <2>1, GrownEvents
<1>6. /\ p \in Seq(EventType) /\ Len(p) = n /\ DOMAIN p = 1..n
      /\ \A i \in 1..n : p[i] = IF i = n THEN x ELSE q[i]
  <2>1. p \in Seq(EventType) /\ Len(p) = Len(q) /\ \A i \in 1..Len(q) : p[i] = IF i = n THEN x ELSE q[i]
    BY <1>1, <1>2, <1>5, ExceptSeq
  <2>. QED BY <2>1
<1>. HIDE DEF p, x, n
<1>7. ASSUME NEW i \in DOMAIN p
      PROVE  Carries(g, p[i], m) /\ \A j \in DOMAIN p : i < j => Carries(g, p[j], p[i].cursor)
  <2>1. CASE i = n
    <3>1. \A j \in DOMAIN p : ~(i < j)
      BY <1>1, <1>6, <2>1
    <3>. QED BY <1>5, <1>6, <2>1, <3>1
  <2>2. CASE i # n
    <3>1. i \in 1..n /\ p[i] = q[i] /\ q[i] \in EventType /\ q[i].cursor \in Nat /\ i < n
      BY <1>1, <1>6, <2>2
    <3>2. Carries(g, q[i], m)
      BY <1>1, <3>1, StillCarried DEF Chain
    <3>3. ASSUME NEW j \in DOMAIN p, i < j
          PROVE  Carries(g, p[j], p[i].cursor)
      <4>1. Carries(h, q[j], q[i].cursor) /\ q[j] \in EventType /\ j \in 1..n
        BY <1>1, <1>6, <3>1, <3>3 DEF Chain
      <4>2. CASE j = n
        BY <1>3, <1>6, <3>1, <4>1, <4>2
      <4>3. CASE j # n
        BY <1>6, <3>1, <4>1, <4>3, StillCarried
      <4>. QED BY <4>2, <4>3
    <3>. QED BY <3>1, <3>2, <3>3
  <2>. QED BY <2>1, <2>2
<1>8. Chain(g, p, m)
  BY <1>7 DEF Chain
<1>. QED BY <1>1, <1>5, <1>6, <1>8 DEF p, x, n

\* Taking one out leaves a chain.
LEMMA ChainShortens ==
    ASSUME NEW h, NEW m \in Nat, NEW q \in Seq(EventType), Chain(h, q, m), NEW i \in 1..Len(q)
    PROVE  Chain(h, RemoveAt(q, i), m)
<1>. DEFINE p == RemoveAt(q, i)
            n == Len(q)
            at(j) == IF j < i THEN j ELSE j + 1
<1>1. n \in Nat /\ DOMAIN q = 1..n /\ i \in 1..n
  BY LenProperties
<1>2. p \in Seq(EventType) /\ Len(p) = n - 1 /\ \A j \in 1..(n - 1) : p[j] = IF j < i THEN q[j] ELSE q[j + 1]
  BY Removed
<1>3. DOMAIN p = 1..(n - 1)
  BY <1>1, <1>2
<1>. HIDE DEF p, n
<1>4. \A j \in DOMAIN p : at(j) \in 1..n /\ p[j] = q[at(j)]
  BY <1>1, <1>2, <1>3
<1>5. \A j, k \in DOMAIN p : j < k => at(j) < at(k)
  BY <1>1, <1>3
<1>. HIDE DEF at
<1>6. Chain(h, p, m)
  BY <1>1, <1>4, <1>5 DEF Chain
<1>. QED BY <1>6 DEF p

-----------------------------------------------------------------------------
(* _enqueue *)

ConnType ==
    [on : BOOLEAN, todo : SUBSET EventType, queue : Seq(EventType), ended : BOOLEAN,
     overflowed : BOOLEAN, skip : Nat, wait : {"no", "waiting", "timed"}]

\* A waiter is woken, nothing else changes.
LEMMA Woken ==
    ASSUME NEW d \in ConnType
    PROVE  /\ Wake(d) \in ConnType /\ Wake(d).wait # "waiting"
           /\ Wake(d).on = d.on /\ Wake(d).todo = d.todo /\ Wake(d).queue = d.queue
           /\ Wake(d).ended = d.ended /\ Wake(d).overflowed = d.overflowed /\ Wake(d).skip = d.skip
BY DEF Wake, ConnType

\* The same with another queue
LEMMA WokenWith ==
    ASSUME NEW d \in ConnType, NEW q \in Seq(EventType)
    PROVE  LET p == Wake([d EXCEPT !.queue = q]) IN
           /\ p \in ConnType /\ p.wait # "waiting" /\ p.on = d.on /\ p.todo = d.todo /\ p.queue = q
           /\ p.ended = d.ended /\ p.overflowed = d.overflowed /\ p.skip = d.skip
<1>. DEFINE c == [d EXCEPT !.queue = q]
<1>1. /\ c \in ConnType /\ c.on = d.on /\ c.todo = d.todo /\ c.queue = q
      /\ c.ended = d.ended /\ c.overflowed = d.overflowed /\ c.skip = d.skip
  BY DEF ConnType
<1>. HIDE DEF c
<1>2. LET p == Wake(c) IN
      /\ p \in ConnType /\ p.wait # "waiting" /\ p.on = d.on /\ p.todo = d.todo /\ p.queue = q
      /\ p.ended = d.ended /\ p.overflowed = d.overflowed /\ p.skip = d.skip
  BY <1>1, Woken
<1>. QED BY <1>2 DEF c

\* The oldest low event of a queue that has one
LEMMA Oldest ==
    ASSUME NEW q \in Seq(EventType), \E i \in DOMAIN q : IsLow(q[i])
    PROVE  OldestLow(q) \in 1..Len(q) /\ IsLow(q[OldestLow(q)])
<1>. DEFINE T == {i \in 1..Len(q) : IsLow(q[i])}
<1>1. T \in SUBSET Nat /\ T # {} /\ DOMAIN q = 1..Len(q) /\ Len(q) \in Nat
  BY QueueEvents
<1>2. PICK x \in T : \A y \in T : x <= y
  BY <1>1, Least
<1>3. x \in 1..Len(q) /\ IsLow(q[x])
  OBVIOUS
<1>4. \A j \in 1..(x - 1) : ~IsLow(q[j])
  <2>. SUFFICES ASSUME NEW j \in 1..(x - 1), IsLow(q[j]) PROVE FALSE
    OBVIOUS
  <2>1. j \in T /\ ~(x <= j)
    BY <1>1, <1>3
  <2>. QED BY <1>2, <2>1
<1>. QED BY <1>1, <1>3, <1>4 DEF OldestLow

\* It makes room for e.
LEMMA ChainReplaces ==
    ASSUME NEW h, NEW g, NEW e, Grown(h, g, e), NEW m \in Nat, m <= Len(h),
           NEW q \in Seq(EventType), Chain(h, q, m), Len(q) <= Capacity, \E i \in DOMAIN q : IsLow(q[i])
    PROVE  LET r == Append(RemoveAt(q, OldestLow(q)), e) IN
           /\ r \in Seq(EventType) /\ Len(r) <= Capacity /\ Chain(g, r, m)
           /\ \A i \in DOMAIN q : q[i].kind = "high" => \E j \in DOMAIN r : r[j].cursor = q[i].cursor
           /\ \E j \in DOMAIN r : r[j].cursor = e.cursor
<1>1. Len(q) \in Nat /\ DOMAIN q = 1..Len(q) /\ e \in EventType
  BY QueueEvents, GrownEvents
<1>2. PICK o \in 1..Len(q) : o = OldestLow(q) /\ q[o].kind # "high"
  BY <1>1, Oldest DEF IsLow
<1>. DEFINE t == RemoveAt(q, o)
            r == Append(t, e)
<1>3. /\ t \in Seq(EventType) /\ Len(t) = Len(q) - 1 /\ Chain(h, t, m)
      /\ \A j \in 1..(Len(q) - 1) : t[j] = IF j < o THEN q[j] ELSE q[j + 1]
  BY <1>1, Removed, ChainShortens
<1>. HIDE DEF t
<1>4. /\ r \in Seq(EventType) /\ DOMAIN r = 1..(Len(t) + 1) /\ Len(r) = Len(t) + 1 /\ Len(t) \in Nat
      /\ DOMAIN t = 1..Len(t)
      /\ \A i \in 1..(Len(t) + 1) : r[i] = IF i = Len(t) + 1 THEN e ELSE t[i]
  <2>1. t \in Seq(EventType) /\ e \in EventType
    BY <1>1, <1>3
  <2>. QED BY <2>1, Appended
<1>5. Chain(g, r, m)
  <2>1. t \in Seq(EventType) /\ Chain(h, t, m)
    BY <1>3
  <2>. QED BY <2>1, ChainLengthens
<1>6. /\ Len(t) + 1 \in 1..(Len(t) + 1) /\ \A i \in 1..Len(t) : i \in 1..(Len(t) + 1) /\ i # Len(t) + 1
      /\ Len(r) <= Capacity
  <2>1. Len(t) \in Nat /\ Len(r) = Len(t) + 1
    BY <1>4
  <2>2. Len(t) = Len(q) - 1 /\ Len(q) \in Nat
    BY <1>1, <1>3
  <2>3. Len(r) = Len(q)
    BY <2>1, <2>2
  <2>. QED BY <2>1, <2>3
<1>. HIDE DEF r
<1>7. ASSUME NEW i \in 1..Len(q), q[i].kind = "high"
      PROVE  \E j \in DOMAIN r : r[j].cursor = q[i].cursor
  <2>1. CASE i < o
    <3>1. i \in 1..Len(t) /\ i \in 1..(Len(q) - 1)
      BY <1>1, <1>3, <2>1
    <3>2. i \in DOMAIN r /\ r[i] = q[i]
      BY <1>3, <1>4, <1>6, <2>1, <3>1
    <3>. QED BY <3>2
  <2>2. CASE ~(i < o)
    <3>1. i # o /\ i \in Nat /\ o \in Nat
      BY <1>1, <1>2, <1>7
    <3>2. i - 1 \in 1..Len(t) /\ i - 1 \in 1..(Len(q) - 1) /\ ~(i - 1 < o) /\ (i - 1) + 1 = i
      BY <1>1, <1>3, <2>2, <3>1
    <3>3. i - 1 \in DOMAIN r /\ r[i - 1] = q[i]
      BY <1>3, <1>4, <1>6, <3>2
    <3>. QED BY <3>3
  <2>. QED BY <2>1, <2>2
<1>8. \E j \in DOMAIN r : r[j].cursor = e.cursor
  BY <1>4, <1>6
<1>9. r = Append(RemoveAt(q, OldestLow(q)), e)
  BY <1>2 DEF r, t
<1>. QED BY <1>1, <1>4, <1>5, <1>6, <1>7, <1>8, <1>9

\* What becomes of the connection d when e is enqueued: nothing, if it is over; or the queue takes
\* e, alone, in the last event or in the place of an older low one; or the connection ends.
LEMMA EnqueueChains ==
    ASSUME NEW h, NEW g, NEW e, Grown(h, g, e), NEW d \in ConnType, Len(d.queue) <= Capacity,
           NEW m \in Nat, m <= Len(h), Chain(h, d.queue, m), d.overflowed => d.ended
    PROVE  LET p == Enqueued(d, e) IN
           /\ p \in ConnType /\ Len(p.queue) <= Capacity /\ Chain(g, p.queue, m)
           /\ p.on = d.on /\ p.todo = d.todo /\ p.skip = d.skip /\ (p.overflowed => p.ended)
           /\ p.wait = "waiting" => p = d
           /\ \A i \in DOMAIN d.queue : d.queue[i].kind = "high" =>
                  \E j \in DOMAIN p.queue : p.queue[j].cursor = d.queue[i].cursor
           /\ \/ ~d.on /\ p = d
              \/ d.ended /\ p = d
              \/ p.ended /\ ~d.ended /\ p.queue = d.queue
              \/ ~p.ended /\ ~d.ended /\ \E j \in DOMAIN p.queue : p.queue[j].cursor = e.cursor
<1>. DEFINE p == Enqueued(d, e)
            q == d.queue
<1>1. /\ q \in Seq(EventType) /\ Len(q) \in Nat /\ DOMAIN q = 1..Len(q) /\ Capacity \in Nat \ {0}
      /\ d.on \in BOOLEAN /\ d.ended \in BOOLEAN /\ d.overflowed \in BOOLEAN
  BY BrokerAssumption, QueueEvents DEF ConnType
<1>2. CASE ~d.on \/ d.ended \/ d.overflowed
  <2>1. p = d /\ (~d.on \/ d.ended)
    BY <1>1, <1>2 DEF Enqueued
  <2>2. Chain(g, q, m)
    BY <1>1, ChainGrows
  <2>. QED BY <1>1, <2>1, <2>2
<1>. DEFINE Sent(r) ==
       /\ r \in Seq(EventType) /\ Len(r) <= Capacity /\ Chain(g, r, m)
       /\ \A i \in DOMAIN q : q[i].kind = "high" => \E j \in DOMAIN r : r[j].cursor = q[i].cursor
       /\ \E j \in DOMAIN r : r[j].cursor = e.cursor
<1>3. ASSUME ~(~d.on \/ d.ended \/ d.overflowed), NEW r, Sent(r), p = Wake([d EXCEPT !.queue = r])
      PROVE  /\ p \in ConnType /\ Len(p.queue) <= Capacity /\ Chain(g, p.queue, m)
             /\ p.on = d.on /\ p.todo = d.todo /\ p.skip = d.skip /\ (p.overflowed => p.ended)
             /\ p.wait = "waiting" => p = d
             /\ \A i \in DOMAIN q : q[i].kind = "high" =>
                    \E j \in DOMAIN p.queue : p.queue[j].cursor = q[i].cursor
             /\ ~p.ended /\ ~d.ended /\ \E j \in DOMAIN p.queue : p.queue[j].cursor = e.cursor
  <2>1. /\ p \in ConnType /\ p.wait # "waiting" /\ p.on = d.on /\ p.todo = d.todo /\ p.queue = r
        /\ p.ended = d.ended /\ p.overflowed = d.overflowed /\ p.skip = d.skip
    <3>. HIDE DEF p
    <3>. QED BY <1>3, WokenWith
  <2>. QED BY <1>3, <2>1
<1>4. /\ e \in EventType /\ e.cursor = Len(h) + 1
  BY GrownEvents
<1>5. CASE ~(~d.on \/ d.ended \/ d.overflowed) /\ Len(q) < Capacity
  <2>1. p = Wake([d EXCEPT !.queue = Append(q, e)])
    BY <1>5 DEF Enqueued
  <2>2. Sent(Append(q, e))
    <3>1. /\ Append(q, e) \in Seq(EventType) /\ DOMAIN Append(q, e) = 1..(Len(q) + 1)
          /\ Len(Append(q, e)) = Len(q) + 1
          /\ \A i \in 1..(Len(q) + 1) : Append(q, e)[i] = IF i = Len(q) + 1 THEN e ELSE q[i]
      BY <1>1, <1>4, Appended
    <3>2. Chain(g, Append(q, e), m)
      BY <1>1, ChainLengthens
    <3>3. Len(q) + 1 \in 1..(Len(q) + 1) /\ \A i \in 1..Len(q) : i \in 1..(Len(q) + 1) /\ i # Len(q) + 1
      BY <1>1
    <3>4. Len(q) + 1 <= Capacity
      BY <1>1, <1>5
    <3>. DEFINE r == Append(q, e)
    <3>5. /\ r \in Seq(EventType) /\ DOMAIN r = 1..(Len(q) + 1) /\ Len(r) <= Capacity /\ Chain(g, r, m)
          /\ r[Len(q) + 1] = e /\ \A i \in 1..Len(q) : r[i] = q[i]
      BY <3>1, <3>2, <3>3, <3>4
    <3>. HIDE DEF r
    <3>6. Sent(r)
      BY <1>1, <3>3, <3>5
    <3>. QED BY <3>6 DEF r
  <2>. QED BY <1>3, <1>5, <2>1, <2>2
<1>6. CASE ~(~d.on \/ d.ended \/ d.overflowed) /\ ~(Len(q) < Capacity) /\ Coalesces(Last(q), e)
  <2>. DEFINE r == [q EXCEPT ![Len(q)] = Merged(Last(q), e)]
  <2>1. p = Wake([d EXCEPT !.queue = r])
    BY <1>6 DEF Enqueued
  <2>2. q # <<>>
    BY <1>1, <1>6, EmptySeq
  <2>3. /\ r \in Seq(EventType) /\ Len(r) = Len(q) /\ Chain(g, r, m)
        /\ \A i \in DOMAIN q : q[i].kind = "high" => \E j \in DOMAIN r : r[j].cursor = q[i].cursor
    BY <1>1, <1>6, <2>2, ChainMerges
  <2>4. Len(q) \in DOMAIN r /\ r[Len(q)] = Merged(Last(q), e)
    BY <1>1, <2>2, EmptySeq
  <2>5. Merged(Last(q), e).cursor = e.cursor
    BY <1>4 DEF Merged, EventType
  <2>. HIDE DEF r
  <2>6. Sent(r)
    BY <2>3, <2>4, <2>5
  <2>. QED BY <1>3, <1>6, <2>1, <2>6
<1>7. CASE /\ ~(~d.on \/ d.ended \/ d.overflowed) /\ ~(Len(q) < Capacity) /\ ~Coalesces(Last(q), e)
           /\ \E i \in DOMAIN q : IsLow(q[i])
  <2>. DEFINE r == Append(RemoveAt(q, OldestLow(q)), e)
  <2>1. p = Wake([d EXCEPT !.queue = r])
    BY <1>7 DEF Enqueued
  <2>2. Chain(h, q, m)
    OBVIOUS
  <2>3. Sent(r)
    <3>1. /\ q \in Seq(EventType) /\ Len(q) <= Capacity /\ \E i \in DOMAIN q : IsLow(q[i])
          /\ r = Append(RemoveAt(q, OldestLow(q)), e)
      BY <1>1, <1>7
    <3>. HIDE DEF q, r
    <3>2. /\ r \in Seq(EventType) /\ Len(r) <= Capacity /\ Chain(g, r, m)
          /\ \A i \in DOMAIN q : q[i].kind = "high" => \E j \in DOMAIN r : r[j].cursor = q[i].cursor
          /\ \E j \in DOMAIN r : r[j].cursor = e.cursor
      BY <2>2, <3>1, ChainReplaces
    <3>. QED BY <3>2
  <2>. QED BY <1>3, <1>7, <2>1, <2>3
<1>8. CASE /\ ~(~d.on \/ d.ended \/ d.overflowed) /\ ~(Len(q) < Capacity) /\ ~Coalesces(Last(q), e)
           /\ ~(\E i \in DOMAIN q : IsLow(q[i]))
  <2>. DEFINE b == [d EXCEPT !.overflowed = TRUE, !.ended = TRUE]
  <2>1. p = Wake(b)
    BY <1>8 DEF Enqueued, Overflowed
  <2>2. /\ b \in ConnType /\ b.on = d.on /\ b.todo = d.todo /\ b.queue = q
        /\ b.ended /\ b.skip = d.skip
    BY DEF ConnType
  <2>. HIDE DEF b, p
  <2>3. /\ p \in ConnType /\ p.wait # "waiting" /\ p.on = d.on /\ p.todo = d.todo /\ p.queue = q
        /\ p.ended /\ p.skip = d.skip
    BY <2>1, <2>2, Woken
  <2>4. Chain(g, q, m)
    BY <1>1, ChainGrows
  <2>. QED BY <1>1, <1>8, <2>3, <2>4 DEF p
<1>. QED BY <1>2, <1>5, <1>6, <1>7, <1>8

-----------------------------------------------------------------------------
(* One connection and its client *)

ClientType == [last : Nat \cup {None}, base : Nat, got : SUBSET Nat, stale : BOOLEAN]

\* The cursors of h that a client with the filter f must not miss
Wanted(h, f) == {i \in DOMAIN h : h[i].kind = "high" /\ Matches(f, h[i].session)}

\* What IInv says of a connection d of the client x: h is the history, w what is wanted of it,
\* cl whether the broker is closed and r the number of restarts.
ConnFits(h, w, d, x, cl, r) ==
    /\ d \in ConnType /\ Len(d.queue) <= Capacity
    /\ d.wait = "waiting" => d.queue = <<>> /\ ~d.ended
    /\ d.overflowed => d.ended
    /\ cl /\ d.on => d.ended
    /\ ~d.on => d = NoConnection
    /\ d.on => Ordered(h, d, x)
    /\ d.on /\ r = 0 => Complete(w, d, x)
ClientFits(h, w, x, r) ==
    /\ x \in ClientType
    /\ x.stale => x.last # None /\ x.got = {} /\ r > 0
    /\ x.last = None => x.got = {}
    /\ x.last # None /\ ~x.stale => x.last <= Len(h)
    /\ x.last # None => \A i \in x.got : i <= x.last
    /\ r = 0 => (~x.stale /\ x.last # None =>
                     \A i \in w : x.base < i /\ i <= x.last => i \in x.got)

LEMMA NoneFits ==
    ASSUME NEW h, NEW w, NEW x, NEW cl \in BOOLEAN, NEW r \in Nat
    PROVE  ConnFits(h, w, NoConnection, x, cl, r)
<1>1. <<>> \in Seq(EventType) /\ Len(<<>>) = 0 /\ Capacity \in Nat
  BY EmptySeq, BrokerAssumption
<1>. QED BY <1>1 DEF ConnFits, NoConnection, ConnType

\* Only the waiter changes.
LEMMA WaitFits ==
    ASSUME NEW h, NEW w, NEW d, NEW x, NEW cl, NEW r, ConnFits(h, w, d, x, cl, r), d.on,
           NEW v \in {"no", "waiting", "timed"}, v = "waiting" => d.queue = <<>> /\ ~d.ended
    PROVE  ConnFits(h, w, [d EXCEPT !.wait = v], x, cl, r)
<1>. DEFINE p == [d EXCEPT !.wait = v]
<1>1. /\ p \in ConnType /\ p.wait = v /\ p.on = d.on /\ p.todo = d.todo /\ p.queue = d.queue
      /\ p.ended = d.ended /\ p.overflowed = d.overflowed /\ p.skip = d.skip
  BY DEF ConnFits, ConnType
<1>. HIDE DEF p
<1>2. Ordered(h, p, x)
  <2>1. Ordered(h, d, x)
    BY DEF ConnFits
  <2>. QED BY <1>1, <2>1 DEF Ordered, Opening, Mark
<1>3. r = 0 => Complete(w, p, x)
  <2>1. r = 0 => Complete(w, d, x)
    BY DEF ConnFits
  <2>. QED BY <1>1, <2>1 DEF Complete, Opening, Mark, UnderWay
<1>4. ConnFits(h, w, p, x, cl, r)
  BY <1>1, <1>2, <1>3 DEF ConnFits
<1>. QED BY <1>4 DEF p

\* The broker is closed.
LEMMA CloseFits ==
    ASSUME NEW h, NEW w, NEW d, NEW x, NEW r, ConnFits(h, w, d, x, FALSE, r)
    PROVE  ConnFits(h, w, IF d.on THEN Wake([d EXCEPT !.ended = TRUE]) ELSE d, x, TRUE, r)
<1>1. CASE ~d.on
  BY <1>1 DEF ConnFits
<1>2. CASE d.on
  <2>. DEFINE b == [d EXCEPT !.ended = TRUE]
              p == Wake(b)
  <2>1. /\ b \in ConnType /\ b.on = d.on /\ b.todo = d.todo /\ b.queue = d.queue
        /\ b.ended /\ b.overflowed = d.overflowed /\ b.skip = d.skip
    BY DEF ConnFits, ConnType
  <2>. HIDE DEF b
  <2>2. /\ p \in ConnType /\ p.wait # "waiting" /\ p.on /\ p.todo = d.todo /\ p.queue = d.queue
        /\ p.ended /\ p.skip = d.skip
    BY <1>2, <2>1, Woken
  <2>. HIDE DEF p
  <2>3. Ordered(h, p, x)
    <3>1. Ordered(h, d, x)
      BY <1>2 DEF ConnFits
    <3>. QED BY <2>2, <3>1 DEF Ordered, Opening, Mark
  <2>4. r = 0 => Complete(w, p, x)
    <3>1. r = 0 => Complete(w, d, x)
      BY <1>2 DEF ConnFits
    <3>. QED BY <2>2, <3>1 DEF Complete, Opening, Mark, UnderWay
  <2>5. ConnFits(h, w, p, x, TRUE, r)
    BY <2>2, <2>3, <2>4 DEF ConnFits
  <2>. QED BY <1>2, <2>5 DEF p, b
<1>3. d.on \in BOOLEAN
  BY DEF ConnFits, ConnType
<1>. QED BY <1>1, <1>2, <1>3

\* Where the client stands
LEMMA Marked ==
    ASSUME NEW h, Past(h), NEW d \in ConnType, NEW x \in ClientType, Ordered(h, d, x)
    PROVE  /\ Mark(d, x) \in Nat /\ Mark(d, x) <= Len(h)
           /\ \A e \in d.todo : e \in EventType /\ e.cursor \in Nat
           /\ d.queue \in Seq(EventType)
BY PastEvents DEF ConnType, ClientType, Ordered, Mark, EventType

\* What is under way belongs to the history.
LEMMA Going ==
    ASSUME NEW h, Past(h), NEW d \in ConnType, NEW x \in ClientType, Ordered(h, d, x)
    PROVE  \A n \in UnderWay(d) : n \in 1..Len(h) /\ n > Mark(d, x)
<1>. SUFFICES ASSUME NEW n \in UnderWay(d) PROVE n \in 1..Len(h) /\ n > Mark(d, x)
  OBVIOUS
<1>1. PICK e \in EventType : e.cursor = n /\ Carries(h, e, Mark(d, x))
  <2>1. PICK e \in {f \in d.todo : f.kind # "snapshot"} \cup Range(d.queue) : e.cursor = n
    BY DEF UnderWay
  <2>2. CASE e \in d.todo /\ e.kind # "snapshot"
    BY <2>1, <2>2, Marked DEF Ordered
  <2>3. CASE e \in Range(d.queue)
    <3>1. PICK i \in DOMAIN d.queue : e = d.queue[i]
      BY <2>3 DEF Range
    <3>. QED BY <2>1, <3>1, Marked, QueueEvents DEF Ordered, Chain
  <2>. QED BY <2>1, <2>2, <2>3
<1>. QED BY <1>1, Marked, PastEvents DEF Carries, EventType

\* What is wanted of the history when e is published
LEMMA WantedGrows ==
    ASSUME NEW h, NEW g, NEW e, Grown(h, g, e), NEW f
    PROVE  /\ Wanted(h, f) \subseteq 1..Len(h)
           /\ \A i \in Wanted(g, f) : \/ i \in Wanted(h, f)
                                      \/ i = Len(h) + 1 /\ Matches(f, e.session)
<1>1. /\ Len(h) \in Nat /\ DOMAIN h = 1..Len(h) /\ DOMAIN g = 1..(Len(h) + 1)
      /\ g[Len(h) + 1] = e /\ \A i \in 1..Len(h) : g[i] = h[i]
  BY GrownEvents, PastEvents
<1>2. \A i \in 1..(Len(h) + 1) : i \in 1..Len(h) \/ i = Len(h) + 1
  BY <1>1
<1>. QED BY <1>1, <1>2 DEF Wanted

\* An event is published, and enqueued if it matches.
LEMMA PublishOrders ==
    ASSUME NEW h, NEW g, NEW e, Grown(h, g, e), NEW d \in ConnType, NEW x \in ClientType,
           Len(d.queue) <= Capacity, d.overflowed => d.ended, Ordered(h, d, x),
           NEW p \in ConnType, p \in {d, Enqueued(d, e)}, d.on
    PROVE  /\ Ordered(g, p, x) /\ Mark(p, x) = Mark(d, x)
           /\ \A i \in UnderWay(d) : g[i].kind = "high" => i \in UnderWay(p)
<1>1. /\ Mark(d, x) \in Nat /\ Mark(d, x) <= Len(h) /\ d.queue \in Seq(EventType)
      /\ \A i \in d.todo : i \in EventType /\ i.cursor \in Nat
      /\ Len(h) \in Nat /\ Len(g) = Len(h) + 1 /\ Past(h)
  BY Marked, GrownEvents
<1>2. p.todo = d.todo /\ p.skip = d.skip
  <2>1. Chain(h, d.queue, Mark(d, x))
    BY DEF Ordered
  <2>. QED BY <1>1, <2>1, EnqueueChains
<1>3. ASSUME NEW m \in Nat, m <= Len(h), Chain(h, d.queue, m)
      PROVE  Chain(g, p.queue, m)
  BY <1>1, <1>3, EnqueueChains, ChainGrows
<1>4. Opening(p) = Opening(d) /\ Mark(p, x) = Mark(d, x)
  BY <1>2 DEF Opening, Mark
<1>5. Chain(g, p.queue, Mark(p, x))
  BY <1>1, <1>3, <1>4 DEF Ordered
<1>6. ASSUME NEW a \in p.todo, a.kind # "snapshot"
      PROVE  /\ Carries(g, a, Mark(p, x))
             /\ \A b \in p.todo : IF a.cursor < b.cursor THEN Carries(g, b, a.cursor)
                                   ELSE b.cursor = a.cursor => b = a
             /\ Chain(g, p.queue, a.cursor)
  <2>1. /\ Carries(h, a, Mark(d, x)) /\ a \in d.todo
        /\ \A b \in d.todo : IF a.cursor < b.cursor THEN Carries(h, b, a.cursor)
                              ELSE b.cursor = a.cursor => b = a
        /\ Chain(h, d.queue, a.cursor)
    BY <1>2, <1>6 DEF Ordered
  <2>2. a.cursor \in Nat /\ a.cursor <= Len(h)
    BY <1>1, <2>1 DEF Carries
  <2>3. Carries(g, a, Mark(p, x))
    BY <1>1, <1>4, <2>1, StillCarried
  <2>4. \A b \in p.todo : IF a.cursor < b.cursor THEN Carries(g, b, a.cursor)
                            ELSE b.cursor = a.cursor => b = a
    BY <1>1, <1>2, <2>1, <2>2, StillCarried
  <2>. QED BY <1>3, <2>1, <2>2, <2>3, <2>4
<1>7. Ordered(g, p, x)
  <2>1. /\ Opening(p) => /\ p.todo = {Snapshot(p.skip)}
                         /\ x.last # None /\ ~x.stale => x.last < p.skip
        /\ ~Opening(p) => x.last # None /\ p.skip <= x.last /\ x.last <= Len(h)
        /\ p.skip <= Len(h)
    BY <1>2, <1>4 DEF Ordered
  <2>2. ~Opening(p) => x.last <= Len(g)
    <3>1. ~Opening(p) => x.last \in Nat
      BY <2>1 DEF ClientType
    <3>. QED BY <1>1, <2>1, <3>1
  <2>3. p.skip <= Len(g)
    BY <1>1, <2>1 DEF ConnType
  <2>. QED BY <1>5, <1>6, <2>1, <2>2, <2>3 DEF Ordered
<1>8. ASSUME NEW i \in UnderWay(d), g[i].kind = "high"
      PROVE  i \in UnderWay(p)
  <2>1. PICK a \in {f \in d.todo : f.kind # "snapshot"} \cup Range(d.queue) : a.cursor = i
    BY DEF UnderWay
  <2>2. CASE a \in d.todo /\ a.kind # "snapshot"
    BY <1>2, <2>1, <2>2 DEF UnderWay
  <2>3. CASE a \in Range(d.queue)
    <3>1. PICK k \in DOMAIN d.queue : a = d.queue[k]
      BY <2>3 DEF Range
    <3>2. d.queue[k].kind = "high"
      <4>1. Carries(h, d.queue[k], Mark(d, x)) /\ i \in 1..Len(h)
        BY <1>1, <3>1, Going DEF Ordered, Chain
      <4>2. g[i] = h[i]
        BY <4>1, GrownEvents
      <4>. QED BY <1>8, <2>1, <3>1, <4>1, <4>2 DEF Carries
    <3>3. \E j \in DOMAIN p.queue : p.queue[j].cursor = d.queue[k].cursor
      <4>1. Chain(h, d.queue, Mark(d, x))
        BY DEF Ordered
      <4>2. CASE p = d
        BY <4>2
      <4>3. CASE p = Enqueued(d, e)
        BY <1>1, <3>2, <4>1, <4>3, EnqueueChains
      <4>. QED BY <4>2, <4>3
    <3>. QED BY <2>1, <3>1, <3>3 DEF UnderWay, Range
  <2>. QED BY <2>1, <2>2, <2>3
<1>. QED BY <1>4, <1>7, <1>8

LEMMA PublishFits ==
    ASSUME NEW h, NEW g, NEW e, Grown(h, g, e), NEW f, NEW d, NEW x, NEW r \in Nat,
           ConnFits(h, Wanted(h, f), d, x, FALSE, r), ClientFits(h, Wanted(h, f), x, r)
    PROVE  /\ ConnFits(g, Wanted(g, f), IF Matches(f, e.session) THEN Enqueued(d, e) ELSE d, x, FALSE, r)
           /\ ClientFits(g, Wanted(g, f), x, r)
<1>. DEFINE p == IF Matches(f, e.session) THEN Enqueued(d, e) ELSE d
            w == Wanted(h, f)
            v == Wanted(g, f)
<1>1. /\ d \in ConnType /\ x \in ClientType /\ Len(d.queue) <= Capacity /\ (d.overflowed => d.ended)
      /\ Len(h) \in Nat /\ Len(g) = Len(h) + 1 /\ Past(h)
      /\ e.cursor = Len(h) + 1 /\ e \in EventType /\ e.kind # "snapshot"
      /\ \A i \in 1..Len(h) : g[i] = h[i]
  BY GrownEvents DEF ConnFits, ClientFits
<1>2. /\ w \subseteq 1..Len(h)
      /\ \A i \in v : i \in w \/ (i = Len(h) + 1 /\ Matches(f, e.session))
      /\ \A i \in v : g[i].kind = "high"
  BY WantedGrows DEF Wanted
<1>. HIDE DEF w, v
<1>3. ClientFits(g, v, x, r)
  <2>1. ClientFits(h, w, x, r)
    BY DEF w
  <2>2. /\ x.last # None /\ ~x.stale => x.last \in Nat /\ x.last <= Len(h) /\ x.last <= Len(g)
    BY <1>1, <2>1 DEF ClientFits, ClientType
  <2>3. ASSUME r = 0, ~x.stale, x.last # None, NEW i \in v, x.base < i, i <= x.last
        PROVE  i \in x.got
    <3>1. i \in w
      BY <1>1, <1>2, <2>2, <2>3
    <3>. QED BY <2>1, <2>3, <3>1 DEF ClientFits
  <2>. QED BY <2>1, <2>2, <2>3 DEF ClientFits
<1>4. CASE ~d.on
  <2>1. p = d /\ d = NoConnection
    BY <1>4 DEF Enqueued, ConnFits
  <2>. QED BY <1>3, <2>1, NoneFits DEF v
<1>5. CASE d.on
  <2>1. /\ Ordered(h, d, x) /\ (r = 0 => Complete(w, d, x))
        /\ d.wait = "waiting" => d.queue = <<>> /\ ~d.ended
    BY <1>5 DEF ConnFits, w
  <2>2. Chain(h, d.queue, Mark(d, x)) /\ Mark(d, x) \in Nat /\ Mark(d, x) <= Len(h)
    BY <1>1, <2>1, Marked DEF Ordered
  <2>3. /\ p \in ConnType /\ Len(p.queue) <= Capacity /\ p.on = d.on /\ (p.overflowed => p.ended)
        /\ p.todo = d.todo
        /\ p.wait = "waiting" => p = d
        /\ p \in {d, Enqueued(d, e)}
        /\ \/ p = d /\ d.ended
           \/ p = d /\ ~Matches(f, e.session)
           \/ p.ended /\ ~d.ended /\ p.queue = d.queue
           \/ ~p.ended /\ ~d.ended /\ \E j \in DOMAIN p.queue : p.queue[j].cursor = e.cursor
    <3>1. CASE Matches(f, e.session)
      <4>1. p = Enqueued(d, e)
        BY <3>1
      <4>2. /\ p \in ConnType /\ Len(p.queue) <= Capacity /\ p.on = d.on /\ p.todo = d.todo
            /\ (p.overflowed => p.ended) /\ (p.wait = "waiting" => p = d)
        <5>. HIDE DEF p
        <5>. QED BY <1>1, <2>2, <4>1, EnqueueChains
      <4>3. \/ ~d.on /\ p = d
            \/ d.ended /\ p = d
            \/ p.ended /\ ~d.ended /\ p.queue = d.queue
            \/ ~p.ended /\ ~d.ended /\ \E j \in DOMAIN p.queue : p.queue[j].cursor = e.cursor
        <5>. HIDE DEF p
        <5>. QED BY <1>1, <2>2, <4>1, EnqueueChains
      <4>. HIDE DEF p
      <4>. QED BY <1>5, <4>1, <4>2, <4>3
    <3>2. CASE ~Matches(f, e.session)
      BY <1>1, <3>2
    <3>. QED BY <3>1, <3>2
  <2>. HIDE DEF p
  <2>4. /\ Ordered(g, p, x) /\ Mark(p, x) = Mark(d, x)
        /\ \A i \in UnderWay(d) : g[i].kind = "high" => i \in UnderWay(p)
    BY <1>1, <1>5, <2>1, <2>3, PublishOrders
  <2>5. \A n \in UnderWay(d) : n \in 1..Len(h)
    BY <1>1, <2>1, Going
  <2>6. ASSUME r = 0, NEW i \in v, Mark(p, x) < i, ~p.ended \/ \E n \in UnderWay(p) : i <= n
        PROVE  i \in UnderWay(p)
    <3>0. Complete(w, d, x) /\ g[i].kind = "high" /\ Mark(d, x) < i
      BY <1>2, <2>1, <2>4, <2>6
    <3>1. CASE i \in w
      <4>1. ~d.ended \/ \E n \in UnderWay(d) : i <= n
        BY <2>3, <2>6
      <4>2. i \in UnderWay(d)
        BY <3>0, <3>1, <4>1 DEF Complete
      <4>. QED BY <2>4, <3>0, <4>2
    <3>2. CASE i = Len(h) + 1 /\ Matches(f, e.session)
      <4>1. CASE p.ended /\ (p = d \/ p.queue = d.queue)
        <5>1. UnderWay(p) = UnderWay(d)
          BY <2>3, <4>1 DEF UnderWay
        <5>2. PICK n \in UnderWay(d) : i <= n
          BY <2>6, <4>1, <5>1
        <5>. QED BY <1>1, <2>5, <3>2, <5>2
      <4>2. CASE \E j \in DOMAIN p.queue : p.queue[j].cursor = e.cursor
        BY <1>1, <3>2, <4>2 DEF UnderWay, Range
      <4>. QED BY <2>3, <3>2, <4>1, <4>2
    <3>. QED BY <1>2, <3>1, <3>2
  <2>7. r = 0 => Complete(v, p, x)
    BY <2>6 DEF Complete
  <2>8. ConnFits(g, v, p, x, FALSE, r)
    BY <1>5, <2>1, <2>3, <2>4, <2>7 DEF ConnFits
  <2>. QED BY <1>3, <2>8 DEF p, v
<1>6. d.on \in BOOLEAN
  BY <1>1 DEF ConnType
<1>. QED BY <1>4, <1>5, <1>6

\* next() returns the first event of the queue.
LEMMA TakeFits ==
    ASSUME NEW h, Past(h), NEW w, NEW d, NEW x \in ClientType, NEW cl, NEW r,
           ConnFits(h, w, d, x, cl, r), d.on, d.todo = {}, d.wait = "no", d.queue # <<>>
    PROVE  ConnFits(h, w, [d EXCEPT !.queue = Tail(d.queue),
                                    !.todo = IF Head(d.queue).cursor <= d.skip THEN {}
                                             ELSE {Head(d.queue)}], x, cl, r)
<1>. DEFINE q == d.queue
            e == Head(q)
            t == Tail(q)
            p == [d EXCEPT !.queue = t, !.todo = IF e.cursor <= d.skip THEN {} ELSE {e}]
<1>1. /\ d \in ConnType /\ q \in Seq(EventType) /\ Len(q) <= Capacity /\ Ordered(h, d, x)
      /\ Capacity \in Nat
  BY BrokerAssumption DEF ConnFits, ConnType
<1>2. /\ e \in EventType /\ e = q[1] /\ 1 \in DOMAIN q
      /\ t \in Seq(EventType) /\ Len(t) = Len(q) - 1 /\ Len(q) \in Nat
      /\ \A i \in DOMAIN t : i \in Nat /\ i + 1 \in DOMAIN q /\ t[i] = q[i + 1]
      /\ \A j \in DOMAIN q : j # 1 => \E i \in DOMAIN t : t[i] = q[j]
  BY <1>1, Taken
<1>3. /\ Carries(h, e, x.last) /\ Mark(d, x) = x.last /\ x.last \in Nat /\ d.skip \in Nat /\ d.skip <= x.last
      /\ Chain(h, q, x.last) /\ x.last # None /\ x.last <= Len(h) /\ d.skip <= Len(h)
  <2>1. ~Opening(d) /\ Mark(d, x) = x.last
    BY DEF Opening, Mark
  <2>2. /\ x.last # None /\ d.skip <= x.last /\ x.last <= Len(h) /\ d.skip <= Len(h)
        /\ Chain(h, q, x.last)
    BY <1>1, <2>1 DEF Ordered
  <2>3. Carries(h, e, x.last)
    BY <1>2, <2>2 DEF Chain
  <2>. QED BY <1>1, <2>1, <2>2, <2>3 DEF ClientType, ConnType
<1>4. e.cursor \in Nat /\ ~(e.cursor <= d.skip) /\ e.kind # "snapshot"
  <2>1. e.cursor \in Nat /\ x.last < e.cursor /\ e.cursor <= Len(h) /\ e.kind = h[e.cursor].kind
    BY <1>2, <1>3 DEF Carries, EventType
  <2>2. Len(h) \in Nat
    BY PastEvents
  <2>3. e.cursor \in 1..Len(h)
    BY <1>3, <2>1, <2>2
  <2>. QED BY <1>3, <2>1, <2>3, PastEvents
<1>. HIDE DEF e, t, q
<1>5. /\ p \in ConnType /\ p.on = d.on /\ p.todo = {e} /\ p.queue = t /\ p.ended = d.ended
      /\ p.overflowed = d.overflowed /\ p.skip = d.skip /\ p.wait = d.wait
  BY <1>1, <1>2, <1>4 DEF ConnType
<1>. HIDE DEF p
<1>6. ~Opening(p) /\ Mark(p, x) = x.last
  BY <1>4, <1>5 DEF Opening, Mark
<1>7. Chain(h, t, x.last) /\ Chain(h, t, e.cursor)
  <2>1. ASSUME NEW i \in DOMAIN t
        PROVE  /\ Carries(h, t[i], x.last) /\ Carries(h, t[i], e.cursor)
               /\ \A j \in DOMAIN t : i < j => Carries(h, t[j], t[i].cursor)
    <3>1. i \in Nat /\ i + 1 \in DOMAIN q /\ t[i] = q[i + 1] /\ 1 < i + 1
      <4>1. DOMAIN q = 1..Len(q) /\ i \in Nat /\ i + 1 \in DOMAIN q
        BY <1>1, <1>2
      <4>. QED BY <1>2, <4>1
    <3>2. \A j \in DOMAIN t : i < j => i + 1 < j + 1
      BY <1>2, <3>1
    <3>. QED BY <1>2, <1>3, <3>1, <3>2 DEF Chain
  <2>. QED BY <2>1 DEF Chain
<1>8. Ordered(h, p, x)
  BY <1>3, <1>4, <1>5, <1>6, <1>7 DEF Ordered
<1>9. UnderWay(p) = UnderWay(d)
  <2>1. {e} \cup Range(t) = Range(q)
    <3>1. e \in Range(q) /\ Range(t) \subseteq Range(q)
      BY <1>2 DEF Range
    <3>2. \A b \in Range(q) : b = e \/ b \in Range(t)
      BY <1>2 DEF Range
    <3>. QED BY <3>1, <3>2
  <2>2. {f \in p.todo : f.kind # "snapshot"} = {e} /\ {f \in d.todo : f.kind # "snapshot"} = {}
    BY <1>4, <1>5
  <2>. QED BY <1>5, <2>1, <2>2 DEF UnderWay, q
<1>10. r = 0 => Complete(w, p, x)
  <2>1. r = 0 => Complete(w, d, x)
    BY DEF ConnFits
  <2>. QED BY <1>3, <1>5, <1>6, <1>9, <2>1 DEF Complete
<1>11. ConnFits(h, w, p, x, cl, r)
  BY <1>1, <1>2, <1>5, <1>8, <1>10 DEF ConnFits
<1>. QED BY <1>11 DEF p, e, t, q

\* The event that is written next is not newer than the others.
LEMMA First ==
    ASSUME NEW T \in SUBSET EventType, T # {}
    PROVE  LET e == CHOOSE e \in T : \A f \in T : e.cursor <= f.cursor IN
           e \in T /\ \A f \in T : e.cursor <= f.cursor
<1>. DEFINE C == {e.cursor : e \in T}
<1>1. C \in SUBSET Nat /\ C # {}
  BY DEF EventType
<1>2. PICK n \in C : \A m \in C : n <= m
  BY <1>1, Least
<1>3. \E e \in T : \A f \in T : e.cursor <= f.cursor
  BY <1>2
<1>. QED BY <1>3

\* The client after it has received e
Received(x, e) ==
    IF e.kind = "snapshot" THEN [last |-> e.cursor, base |-> e.cursor, got |-> {}, stale |-> FALSE]
    ELSE [x EXCEPT !.last = e.cursor, !.got = x.got \cup e.parts, !.stale = FALSE]

LEMMA WriteFits ==
    ASSUME NEW h, Past(h), NEW w, w \subseteq {i \in DOMAIN h : h[i].kind = "high"},
           NEW d, NEW x, NEW cl, NEW r \in Nat,
           ConnFits(h, w, d, x, cl, r), ClientFits(h, w, x, r), d.on,
           NEW e \in d.todo, \A f \in d.todo : e.cursor <= f.cursor
    PROVE  /\ ConnFits(h, w, [d EXCEPT !.todo = @ \ {e}], Received(x, e), cl, r)
           /\ ClientFits(h, w, Received(x, e), r)
           /\ ~x.stale => e.parts \cap x.got = {}
           /\ x.last # None /\ ~x.stale => Received(x, e).last > x.last
<1>. DEFINE p == [d EXCEPT !.todo = @ \ {e}]
            y == Received(x, e)
<1>1. /\ d \in ConnType /\ x \in ClientType /\ Ordered(h, d, x) /\ (r = 0 => Complete(w, d, x))
      /\ Len(h) \in Nat /\ e \in EventType /\ e.cursor \in Nat /\ e.parts \in SUBSET Nat
      /\ \A f \in d.todo : f \in EventType /\ f.cursor \in Nat
  BY PastEvents DEF ConnFits, ClientFits, ConnType, EventType
<1>2. /\ p \in ConnType /\ p.on = d.on /\ p.todo = d.todo \ {e} /\ p.queue = d.queue /\ p.ended = d.ended
      /\ p.overflowed = d.overflowed /\ p.skip = d.skip /\ p.wait = d.wait
  BY <1>1 DEF ConnType
<1>. HIDE DEF p
<1>3. CASE e.kind = "snapshot"
  <2>1. /\ y = [last |-> e.cursor, base |-> e.cursor, got |-> {}, stale |-> FALSE]
        /\ y \in ClientType /\ y.last = e.cursor /\ y.base = e.cursor /\ y.got = {} /\ ~y.stale
    BY <1>1, <1>3 DEF Received, ClientType
  <2>. HIDE DEF y
  <2>2. /\ Opening(d) /\ d.todo = {Snapshot(d.skip)} /\ e = Snapshot(d.skip) /\ d.skip <= Len(h)
        /\ x.last # None /\ ~x.stale => x.last < d.skip
        /\ Chain(h, d.queue, d.skip)
    BY <1>1, <1>3 DEF Opening, Ordered, Mark
  <2>3. e.cursor = d.skip /\ e.parts = {} /\ y.last \in Nat /\ y.last # None
    BY <1>1, <2>1, <2>2, BrokerAssumption DEF Snapshot
  <2>4. p.todo = {} /\ ~Opening(p) /\ Mark(p, y) = d.skip /\ Mark(d, x) = d.skip
    BY <1>2, <2>1, <2>2, <2>3 DEF Opening, Mark
  <2>5. Ordered(h, p, y)
    BY <1>1, <1>2, <2>1, <2>2, <2>3, <2>4 DEF Ordered
  <2>6. UnderWay(p) = UnderWay(d)
    <3>1. {f \in p.todo : f.kind # "snapshot"} = {} /\ {f \in d.todo : f.kind # "snapshot"} = {}
      BY <1>3, <2>2, <2>4
    <3>. QED BY <1>2, <3>1 DEF UnderWay
  <2>7. r = 0 => Complete(w, p, y)
    BY <1>1, <1>2, <2>4, <2>6 DEF Complete
  <2>8. ConnFits(h, w, p, y, cl, r)
    BY <1>2, <2>5, <2>7 DEF ConnFits
  <2>9. ClientFits(h, w, y, r)
    <3>1. \A i \in w : i \in Nat
      BY PastEvents
    <3>2. \A i \in w : ~(y.base < i /\ i <= y.last)
      BY <1>1, <2>1, <3>1
    <3>. QED BY <2>1, <2>2, <2>3, <3>2 DEF ClientFits
  <2>10. x.last # None /\ ~x.stale => y.last > x.last
    BY <1>1, <2>1, <2>2, <2>3 DEF ClientType
  <2>. QED BY <2>3, <2>8, <2>9, <2>10 DEF p, y
<1>4. CASE e.kind # "snapshot"
  <2>1. /\ y \in ClientType /\ y.last = e.cursor /\ y.base = x.base /\ y.got = x.got \cup e.parts /\ ~y.stale
    BY <1>1, <1>4 DEF Received, ClientType
  <2>. HIDE DEF y
  <2>2. ~Opening(d) /\ Mark(d, x) = x.last /\ x.last # None /\ x.last \in Nat /\ d.skip <= x.last /\ d.skip \in Nat
    <3>1. ~Opening(d)
      <4>1. Opening(d) => e = Snapshot(d.skip)
        BY <1>1 DEF Ordered
      <4>. QED BY <1>4, <4>1 DEF Snapshot
    <3>. QED BY <1>1, <3>1 DEF Ordered, Mark, ConnType, ClientType
  <2>3. /\ Carries(h, e, x.last) /\ Chain(h, d.queue, e.cursor)
        /\ \A f \in d.todo : IF e.cursor < f.cursor THEN Carries(h, f, e.cursor)
                              ELSE f.cursor = e.cursor => f = e
    BY <1>1, <1>4, <2>2 DEF Ordered
  <2>4. /\ x.last < e.cursor /\ e.cursor <= Len(h) /\ (e.kind = "high" => e.parts = {e.cursor})
        /\ e.kind = h[e.cursor].kind
        /\ \A i \in e.parts : i \in Nat /\ x.last < i /\ i <= e.cursor
    BY <1>1, <2>3 DEF Carries
  <2>5. ~Opening(p) /\ Mark(p, y) = e.cursor /\ y.last # None /\ y.last \in Nat
    BY <1>1, <1>2, <2>1, <2>2, BrokerAssumption DEF Opening, Mark
  <2>6. ASSUME NEW f \in p.todo
        PROVE  /\ Carries(h, f, e.cursor) /\ f.kind # "snapshot"
               /\ \A b \in p.todo : IF f.cursor < b.cursor THEN Carries(h, b, f.cursor)
                                     ELSE b.cursor = f.cursor => b = f
               /\ Chain(h, p.queue, f.cursor)
    <3>1. f \in d.todo /\ f # e /\ f.kind # "snapshot"
      BY <1>2, <2>2 DEF Opening
    <3>2. e.cursor < f.cursor
      BY <1>1, <2>3, <3>1
    <3>. QED BY <1>1, <1>2, <2>3, <3>1, <3>2 DEF Ordered
  <2>7. Ordered(h, p, y)
    <3>1. p.skip <= y.last /\ p.skip <= Len(h) /\ y.last <= Len(h)
      BY <1>1, <1>2, <2>1, <2>2, <2>4
    <3>2. Chain(h, p.queue, Mark(p, y))
      BY <1>2, <2>3, <2>5
    <3>3. \A f \in p.todo : Carries(h, f, Mark(p, y))
      BY <2>5, <2>6
    <3>. QED BY <2>5, <2>6, <3>1, <3>2, <3>3 DEF Ordered
  <2>8. UnderWay(p) \cup {e.cursor} = UnderWay(d)
    <3>1. {f \in d.todo : f.kind # "snapshot"} = {f \in p.todo : f.kind # "snapshot"} \cup {e}
      BY <1>2, <1>4
    <3>. QED BY <1>2, <3>1 DEF UnderWay
  <2>9. r = 0 => Complete(w, p, y)
    <3>. SUFFICES ASSUME r = 0, NEW i \in w, e.cursor < i, ~d.ended \/ \E n \in UnderWay(p) : i <= n
                  PROVE  i \in UnderWay(p)
      BY <1>2, <2>5 DEF Complete
    <3>1. i \in Nat
      BY PastEvents
    <3>2. x.last < i /\ (~d.ended \/ \E n \in UnderWay(d) : i <= n)
      BY <1>1, <2>2, <2>4, <2>8, <3>1
    <3>3. i \in UnderWay(d)
      BY <1>1, <2>2, <3>2 DEF Complete
    <3>. QED BY <1>1, <2>8, <3>1, <3>3
  <2>10. ConnFits(h, w, p, y, cl, r)
    BY <1>2, <2>7, <2>9 DEF ConnFits
  <2>11. ASSUME r = 0, NEW i \in w, y.base < i, i <= y.last
         PROVE  i \in y.got
    <3>0. i \in 1..Len(h) /\ h[i].kind = "high" /\ i \in Nat
      BY PastEvents
    <3>1. CASE i <= x.last
      <4>1. ~x.stale
        BY <2>11 DEF ClientFits
      <4>. QED BY <2>1, <2>2, <2>11, <3>1, <4>1 DEF ClientFits
    <3>2. CASE x.last < i
      <4>1. e.cursor \in UnderWay(d) /\ i <= e.cursor
        BY <2>1, <2>8, <2>11
      <4>2. i \in UnderWay(d)
        BY <1>1, <2>2, <2>11, <3>2, <4>1 DEF Complete
      <4>3. i = e.cursor
        <5>1. CASE \E f \in p.todo : f.cursor = i
          <6>1. PICK f \in p.todo : f.cursor = i
            BY <5>1
          <6>2. e.cursor < i
            BY <1>1, <2>6, <6>1 DEF Carries
          <6>. QED BY <1>1, <3>0, <4>1, <6>2
        <5>2. CASE \E k \in DOMAIN d.queue : d.queue[k].cursor = i
          <6>1. PICK k \in DOMAIN d.queue : d.queue[k].cursor = i
            BY <5>2
          <6>2. e.cursor < i
            BY <1>1, <2>3, <6>1 DEF Chain, Carries
          <6>. QED BY <1>1, <3>0, <4>1, <6>2
        <5>3. i \in UnderWay(p) \/ i = e.cursor
          BY <2>8, <4>2
        <5>. QED BY <1>2, <5>1, <5>2, <5>3 DEF UnderWay, Range
      <4>. QED BY <2>1, <2>4, <3>0, <4>3
    <3>. QED BY <2>2, <3>0, <3>1, <3>2
  <2>12. \A i \in x.got : i \in Nat /\ i <= x.last
    BY <1>1, <2>2 DEF ClientFits, ClientType
  <2>13. ClientFits(h, w, y, r)
    <3>1. \A i \in y.got : i <= y.last
      BY <1>1, <2>1, <2>2, <2>4, <2>12
    <3>. QED BY <2>1, <2>4, <2>5, <2>11, <3>1 DEF ClientFits
  <2>14. e.parts \cap x.got = {}
    <3>1. \A i \in e.parts : i \notin x.got
      BY <2>2, <2>4, <2>12
    <3>. QED BY <3>1
  <2>15. y.last > x.last
    BY <1>1, <2>1, <2>2, <2>4
  <2>. QED BY <2>10, <2>13, <2>14, <2>15 DEF p, y
<1>. QED BY <1>3, <1>4

-----------------------------------------------------------------------------
(* The steps *)

\* What IInv says of the broker, and of every client
BrokerFits ==
    /\ Past(history) /\ replay \in Seq(EventType) /\ closed \in BOOLEAN
    /\ floor \in [Sessions \cup {Global, All} -> Nat]
    /\ conn \in [Clients -> ConnType] /\ client \in [Clients -> ClientType]
    /\ drops \in 0..MaxDrops /\ restarts \in 0..MaxRestarts
    /\ Len(replay) <= ReplayCapacity
    /\ ReplayExact
Fits(c) ==
    /\ ConnFits(history, Wanted(history, Interest[c]), conn[c], client[c], closed, restarts)
    /\ ClientFits(history, Wanted(history, Interest[c]), client[c], restarts)

AllFit == BrokerFits /\ \A c \in Clients : Fits(c)

LEMMA Apart == IInv <=> AllFit
<1>1. \A c \in Clients : Important(c) = Wanted(history, Interest[c])
  BY DEF Important, Wanted
<1>2. TypeOK <=> /\ history \in Seq(EventType) /\ replay \in Seq(EventType) /\ closed \in BOOLEAN
                 /\ floor \in [Sessions \cup {Global, All} -> Nat]
                 /\ conn \in [Clients -> ConnType] /\ client \in [Clients -> ClientType]
                 /\ drops \in 0..MaxDrops /\ restarts \in 0..MaxRestarts
                 /\ Len(replay) <= ReplayCapacity
                 /\ \A c \in Clients : Len(conn[c].queue) <= Capacity
  BY DEF TypeOK, ConnType, ClientType
<1>3. conn \in [Clients -> ConnType] /\ client \in [Clients -> ClientType] =>
          \A c \in Clients : conn[c] \in ConnType /\ client[c] \in ClientType
  OBVIOUS
<1>4. ASSUME IInv
      PROVE  BrokerFits /\ \A c \in Clients : Fits(c)
  <2>1. BrokerFits
    BY <1>2, <1>4 DEF IInv, BrokerFits, HistoryExact, Past
  <2>2. ASSUME NEW c \in Clients
        PROVE  Fits(c)
    <3>1. ConnFits(history, Wanted(history, Interest[c]), conn[c], client[c], closed, restarts)
      BY <1>1, <1>2, <1>3, <1>4 DEF IInv, ConnFits, NoWakeIsLost, ConnectionsExact, StreamExact
    <3>2. ClientFits(history, Wanted(history, Interest[c]), client[c], restarts)
      BY <1>1, <1>2, <1>3, <1>4 DEF IInv, ClientFits, ClientsExact, HighComplete, Cursor
    <3>. QED BY <3>1, <3>2 DEF Fits
  <2>. QED BY <2>1, <2>2
<1>5. ASSUME BrokerFits, \A c \in Clients : Fits(c)
      PROVE  IInv
  <2>1. TypeOK /\ HistoryExact /\ ReplayExact
    BY <1>2, <1>5 DEF BrokerFits, Fits, ConnFits, Past, HistoryExact
  <2>2. NoWakeIsLost /\ ConnectionsExact /\ StreamExact
    BY <1>1, <1>5 DEF Fits, ConnFits, NoWakeIsLost, ConnectionsExact, StreamExact
  <2>3. ClientsExact /\ (restarts = 0 => HighComplete)
    BY <1>1, <1>5 DEF Fits, ClientFits, ClientsExact, HighComplete, Cursor
  <2>. QED BY <2>1, <2>2, <2>3 DEF IInv
<1>. QED BY <1>4, <1>5 DEF AllFit

\* A request, fresh or resumed: the route opens with a snapshot, or with every retained event that the
\* client wants, which are all that there were.
LEMMA ConnectFits ==
    ASSUME IInv, NEW c \in Clients, Connect(c)
    PROVE  ConnFits(history, Wanted(history, Interest[c]), conn'[c], client[c], closed, restarts)
<1>. DEFINE h == history
            w == Wanted(history, Interest[c])
            x == client[c]
            last == x.last
            fresh == last = None \/ (last # None /\ SnapshotRequired(c, last))
            todo == IF fresh THEN {Snapshot(Cursor)} ELSE Missed(c, last)
            skip == IF fresh THEN Cursor ELSE 0
            p == [NoConnection EXCEPT !.on = TRUE, !.ended = closed, !.todo = todo, !.skip = skip]
<1>1. /\ Past(h) /\ Len(h) = Cursor /\ Cursor \in Nat /\ DOMAIN h = 1..Cursor
      /\ x \in ClientType /\ closed \in BOOLEAN /\ restarts \in Nat
      /\ x.last # None /\ ~x.stale => x.last <= Cursor
      /\ \A i \in 1..Cursor : /\ h[i] \in EventType /\ h[i].cursor = i /\ h[i].parts = {i}
                               /\ h[i].kind # "snapshot"
      /\ conn \in [Clients -> ConnType]
  BY Apart, PastEvents, BrokerAssumption DEF AllFit, BrokerFits, Fits, ClientFits, Cursor
<1>2. conn'[c] = p
  BY <1>1 DEF Connect
<1>3. <<>> \in Seq(EventType) /\ Len(<<>>) = 0 /\ Capacity \in Nat /\ Range(<<>>) = {}
  BY EmptySeq, BrokerAssumption DEF Range
<1>4. ASSUME todo \in SUBSET EventType
      PROVE  /\ p \in ConnType /\ p.on /\ p.ended = closed /\ p.todo = todo /\ p.skip = skip
             /\ p.queue = <<>> /\ p.wait = "no" /\ ~p.overflowed
  <2>1. skip \in Nat
    BY <1>1
  <2>. HIDE DEF todo, skip
  <2>. QED BY <1>1, <1>3, <1>4, <2>1 DEF NoConnection, ConnType
<1>5. \A m : Chain(h, <<>>, m)
  BY <1>3 DEF Chain
<1>6. CASE fresh
  <2>1. todo = {Snapshot(Cursor)} /\ skip = Cursor
    BY <1>6
  <2>2. Snapshot(Cursor) \in EventType /\ Snapshot(Cursor).kind = "snapshot"
    BY <1>1 DEF Snapshot, EventType
  <2>3. /\ p \in ConnType /\ p.on /\ p.ended = closed /\ p.todo = {Snapshot(Cursor)} /\ p.skip = Cursor
        /\ p.queue = <<>> /\ p.wait = "no" /\ ~p.overflowed
    <3>1. todo \in SUBSET EventType
      BY <2>1, <2>2
    <3>. QED BY <1>4, <2>1, <3>1
  <2>4. x.last # None /\ ~x.stale => x.last < Cursor
    <3>. SUFFICES ASSUME x.last # None, ~x.stale PROVE x.last < Cursor
      OBVIOUS
    <3>1. x.last <= Cursor /\ x.last \in Nat /\ SnapshotRequired(c, x.last)
      BY <1>1, <1>6 DEF ClientType
    <3>2. x.last < DropFloor(Interest[c])
      BY <1>1, <3>1 DEF SnapshotRequired
    <3>3. DropFloor(Interest[c]) \in 0..Kept /\ Kept \in Nat /\ Kept <= Cursor
      BY FloorMeans, Typed, BrokerAssumption
    <3>. QED BY <1>1, <3>1, <3>2, <3>3
  <2>. HIDE DEF p
  <2>5. Opening(p) /\ Mark(p, x) = Cursor
    BY <2>2, <2>3 DEF Opening, Mark
  <2>6. Ordered(h, p, x)
    BY <1>1, <1>5, <2>2, <2>3, <2>4, <2>5 DEF Ordered
  <2>7. Complete(w, p, x)
    <3>1. \A i \in w : ~(Cursor < i)
      BY <1>1 DEF Wanted
    <3>. QED BY <2>5, <3>1 DEF Complete
  <2>8. ConnFits(h, w, p, x, closed, restarts)
    BY <1>3, <2>3, <2>6, <2>7 DEF ConnFits
  <2>. QED BY <1>2, <2>8
<1>7. CASE ~fresh
  <2>1. /\ todo = Missed(c, last) /\ skip = 0 /\ last # None /\ last \in Nat
        /\ last <= Cursor /\ DropFloor(Interest[c]) <= last
    <3>1. todo = Missed(c, last) /\ skip = 0 /\ last # None /\ ~SnapshotRequired(c, last)
      BY <1>7
    <3>2. last \in Nat
      BY <1>1, <3>1 DEF ClientType
    <3>3. DropFloor(Interest[c]) \in Nat
      BY FloorMeans, Typed, BrokerAssumption
    <3>. QED BY <1>1, <3>1, <3>2, <3>3 DEF SnapshotRequired
  <2>2. ASSUME NEW e \in Missed(c, last)
        PROVE  e.cursor \in 1..Cursor /\ e = h[e.cursor] /\ e \in EventType /\ last < e.cursor
    <3>1. PICK j \in DOMAIN replay : e = replay[j] /\ e.cursor > last
      BY DEF Missed, Range
    <3>2. Kept + j \in 1..Cursor
      BY Typed
    <3>3. replay[j] = h[Kept + j]
      BY DEF IInv, ReplayExact
    <3>. QED BY <1>1, <2>1, <3>1, <3>2, <3>3
  <2>3. /\ p \in ConnType /\ p.on /\ p.ended = closed /\ p.todo = Missed(c, last) /\ p.skip = 0
        /\ p.queue = <<>> /\ p.wait = "no" /\ ~p.overflowed
    <3>1. todo \in SUBSET EventType
      BY <2>1, <2>2
    <3>. QED BY <1>4, <2>1, <3>1
  <2>. HIDE DEF p
  <2>4. ~Opening(p) /\ Mark(p, x) = last
    BY <1>1, <2>2, <2>3 DEF Opening, Mark
  <2>5. ASSUME NEW e \in p.todo, NEW m \in Nat, m < e.cursor
        PROVE  Carries(h, e, m)
    BY <1>1, <2>2, <2>3, <2>5 DEF Carries
  <2>6. ASSUME NEW e \in p.todo
        PROVE  /\ Carries(h, e, last)
               /\ \A f \in p.todo : IF e.cursor < f.cursor THEN Carries(h, f, e.cursor)
                                     ELSE f.cursor = e.cursor => f = e
    <3>1. e.cursor \in Nat /\ last < e.cursor /\ e = h[e.cursor]
      BY <1>1, <2>2, <2>3
    <3>2. \A f \in p.todo : f = h[f.cursor]
      BY <2>2, <2>3
    <3>. QED BY <2>1, <2>5, <3>1, <3>2
  <2>7. Ordered(h, p, x)
    BY <1>1, <1>5, <2>1, <2>3, <2>4, <2>6 DEF Ordered
  <2>8. ASSUME NEW i \in w, last < i
        PROVE  i \in UnderWay(p)
    <3>1. i \in 1..Cursor /\ Matches(Interest[c], h[i].session)
      BY <1>1 DEF Wanted
    <3>2. i > Kept
      <4>1. /\ DropFloor(Interest[c]) \in Nat /\ Kept \in Nat
            /\ \A k \in (DropFloor(Interest[c]) + 1)..Kept : ~Matches(Interest[c], h[k].session)
        BY FloorMeans, Typed, BrokerAssumption
      <4>2. ~(i \in (DropFloor(Interest[c]) + 1)..Kept)
        BY <3>1, <4>1
      <4>. QED BY <1>1, <2>1, <2>8, <3>1, <4>1, <4>2
    <3>3. h[i] \in Range(replay) /\ h[i].cursor = i
      BY <1>1, <3>1, <3>2, Retained
    <3>4. h[i] \in Missed(c, last)
      BY <2>1, <2>8, <3>1, <3>3 DEF Missed
    <3>. QED BY <1>1, <2>3, <3>1, <3>3, <3>4 DEF UnderWay
  <2>9. Complete(w, p, x)
    BY <2>4, <2>8 DEF Complete
  <2>10. ConnFits(h, w, p, x, closed, restarts)
    BY <1>3, <2>3, <2>7, <2>9 DEF ConnFits
  <2>. QED BY <1>2, <2>10
<1>. QED BY <1>6, <1>7

\* A step of one client, which leaves the broker and the others alone
LEMMA OneClient ==
    ASSUME IInv, NEW c \in Clients, NEW p, NEW y,
           UNCHANGED <<history, replay, floor, closed, restarts>>, drops' \in 0..MaxDrops,
           conn' = [conn EXCEPT ![c] = p], client' = [client EXCEPT ![c] = y],
           ConnFits(history, Wanted(history, Interest[c]), p, y, closed, restarts),
           ClientFits(history, Wanted(history, Interest[c]), y, restarts)
    PROVE  AllFit'
<1>1. BrokerFits /\ \A b \in Clients : Fits(b)
  BY Apart DEF AllFit
<1>2. p \in ConnType /\ y \in ClientType
  BY DEF ConnFits, ClientFits
<1>3. conn' \in [Clients -> ConnType] /\ client' \in [Clients -> ClientType]
  BY <1>1, <1>2 DEF BrokerFits
<1>4. ReplayExact'
  BY <1>1 DEF BrokerFits, ReplayExact, Kept, Cursor
<1>5. BrokerFits'
  BY <1>1, <1>3, <1>4 DEF BrokerFits
<1>6. ASSUME NEW b \in Clients
      PROVE  Fits(b)'
  <2>1. CASE b = c
    <3>1. conn'[b] = p /\ client'[b] = y
      BY <1>1, <2>1 DEF BrokerFits
    <3>. QED BY <2>1, <3>1 DEF Fits
  <2>2. CASE b # c
    <3>1. conn'[b] = conn[b] /\ client'[b] = client[b]
      BY <1>1, <2>2 DEF BrokerFits
    <3>. QED BY <1>1, <3>1 DEF Fits
  <2>. QED BY <2>1, <2>2
<1>. QED BY <1>5, <1>6 DEF AllFit

LEMMA PublishKeeps ==
    ASSUME IInv, NEW s \in Sessions \cup {Global}, NEW k \in Kinds, Publish(s, k)
    PROVE  AllFit'
<1>1. BrokerFits /\ (\A c \in Clients : Fits(c)) /\ restarts \in Nat
  BY Apart, BrokerAssumption DEF AllFit, BrokerFits
<1>. DEFINE e == Event(Cursor + 1, s, k)
<1>2. /\ closed = FALSE /\ UNCHANGED <<closed, client, drops, restarts>>
      /\ conn' = [c \in Clients |->
             IF Matches(Interest[c], s) THEN Enqueued(conn[c], e) ELSE conn[c]]
      /\ e.session = s
  BY <1>1 DEF Publish, BrokerFits, Event
<1>3. Grown(history, history', e)
  BY <1>1, PublishGrows, PublishGrows, Typed
     DEF Grown, Past, BrokerFits, HistoryExact, Cursor
<1>. HIDE DEF e
<1>4. ASSUME NEW c \in Clients
      PROVE  Fits(c)' /\ conn'[c] \in ConnType
  <2>1. /\ ConnFits(history, Wanted(history, Interest[c]), conn[c], client[c], FALSE, restarts)
        /\ ClientFits(history, Wanted(history, Interest[c]), client[c], restarts)
    BY <1>1, <1>2 DEF Fits
  <2>2. /\ ConnFits(history', Wanted(history', Interest[c]),
                    IF Matches(Interest[c], e.session) THEN Enqueued(conn[c], e) ELSE conn[c],
                    client[c], FALSE, restarts)
        /\ ClientFits(history', Wanted(history', Interest[c]), client[c], restarts)
    BY <1>1, <1>3, <2>1, PublishFits
  <2>3. conn'[c] = IF Matches(Interest[c], e.session) THEN Enqueued(conn[c], e) ELSE conn[c]
    BY <1>2
  <2>4. ConnFits(history', Wanted(history', Interest[c]), conn'[c], client[c], FALSE, restarts)
    BY <2>2, <2>3
  <2>. QED BY <1>2, <2>2, <2>4 DEF Fits, ConnFits
<1>5. conn' \in [Clients -> ConnType]
  BY <1>2, <1>4
<1>6. BrokerFits'
  BY <1>1, <1>2, <1>3, <1>5, PublishRetains DEF BrokerFits, Grown
<1>. QED BY <1>4, <1>6 DEF AllFit

LEMMA CloseKeeps ==
    ASSUME IInv, Close
    PROVE  AllFit'
<1>1. BrokerFits /\ (\A c \in Clients : Fits(c))
  BY Apart DEF AllFit
<1>2. closed = FALSE
  BY <1>1 DEF BrokerFits, Close
<1>3. ASSUME NEW c \in Clients
      PROVE  Fits(c)' /\ conn'[c] \in ConnType
  <2>1. conn'[c] = IF conn[c].on THEN Wake([conn[c] EXCEPT !.ended = TRUE]) ELSE conn[c]
    BY DEF Close
  <2>2. ConnFits(history, Wanted(history, Interest[c]), conn'[c], client[c], TRUE, restarts)
    BY <1>1, <1>2, <2>1, CloseFits DEF Fits
  <2>. QED BY <1>1, <2>2 DEF Fits, ConnFits, Close
<1>4. conn' \in [Clients -> ConnType]
  BY <1>3 DEF Close
<1>5. ReplayExact'
  BY <1>1 DEF BrokerFits, ReplayExact, Kept, Cursor, Close
<1>6. BrokerFits'
  BY <1>1, <1>4, <1>5 DEF BrokerFits, Close
<1>. QED BY <1>3, <1>6 DEF AllFit

LEMMA NewBroker ==
    ASSUME history = <<>>, replay = <<>>, floor = [f \in Sessions \cup {Global, All} |-> 0]
    PROVE  /\ Past(history) /\ replay \in Seq(EventType) /\ ReplayExact /\ Len(replay) <= ReplayCapacity
           /\ floor \in [Sessions \cup {Global, All} -> Nat]
<1>1. <<>> \in Seq(EventType) /\ Len(<<>>) = 0 /\ DOMAIN <<>> = {}
  BY EmptySeq
<1>2. Past(history) /\ replay \in Seq(EventType)
  BY <1>1 DEF Past
<1>3. Len(replay) <= ReplayCapacity /\ floor \in [Sessions \cup {Global, All} -> Nat]
  BY <1>1, BrokerAssumption
<1>4. Kept = 0 /\ Cursor = 0
  BY <1>1 DEF Kept, Cursor
<1>5. ReplayExact
  BY <1>1, <1>4 DEF ReplayExact
<1>. QED BY <1>2, <1>3, <1>5

LEMMA RestartKeeps ==
    ASSUME IInv, Restart
    PROVE  AllFit'
<1>1. BrokerFits /\ (\A c \in Clients : Fits(c)) /\ MaxRestarts \in Nat
  BY Apart, BrokerAssumption DEF AllFit
<1>2. /\ history' = <<>> /\ replay' = <<>> /\ closed' = FALSE /\ UNCHANGED drops
      /\ floor' = [f \in Sessions \cup {Global, All} |-> 0]
      /\ conn' = [c \in Clients |-> NoConnection]
      /\ restarts' \in 0..MaxRestarts /\ restarts' \in Nat /\ restarts' > 0
  <2>1. DOMAIN floor = Sessions \cup {Global, All}
    BY <1>1 DEF BrokerFits
  <2>2. restarts \in Nat /\ restarts < MaxRestarts /\ restarts' = restarts + 1
    <3>1. restarts \in 0..MaxRestarts
      BY <1>1 DEF BrokerFits
    <3>2. restarts < MaxRestarts /\ restarts' = restarts + 1
      BY Zenon DEF Restart
    <3>. QED BY <1>1, <3>1, <3>2
  <2>3. restarts' \in 0..MaxRestarts /\ restarts' \in Nat /\ restarts' > 0
    BY <1>1, <2>2
  <2>4. /\ history' = <<>> /\ replay' = <<>> /\ closed' = FALSE /\ UNCHANGED drops
        /\ floor' = [f \in DOMAIN floor |-> 0]
        /\ conn' = [c \in Clients |-> NoConnection]
    BY Zenon DEF Restart
  <2>. QED BY <2>1, <2>3, <2>4
<1>3. /\ Past(history') /\ replay' \in Seq(EventType) /\ ReplayExact' /\ Len(replay') <= ReplayCapacity
      /\ floor' \in [Sessions \cup {Global, All} -> Nat]
  <2>1. <<>> \in Seq(EventType) /\ Len(<<>>) = 0 /\ DOMAIN <<>> = {}
    BY EmptySeq
  <2>2. Past(history') /\ replay' \in Seq(EventType)
    BY <1>2, <2>1 DEF Past
  <2>3. Len(replay') <= ReplayCapacity /\ floor' \in [Sessions \cup {Global, All} -> Nat]
    BY <1>2, <2>1, BrokerAssumption
  <2>4. Kept' = 0 /\ Cursor' = 0
    BY <1>2, <2>1 DEF Kept, Cursor
  <2>5. ReplayExact'
    BY <1>2, <2>1, <2>4 DEF ReplayExact
  <2>. QED BY <2>2, <2>3, <2>5
<1>4. ASSUME NEW c \in Clients
      PROVE  Fits(c)' /\ client'[c] \in ClientType
  <2>1. /\ ClientFits(history, Wanted(history, Interest[c]), client[c], restarts)
        /\ client[c] \in ClientType
    BY <1>1 DEF Fits, ClientFits
  <2>. DEFINE y == [client[c] EXCEPT !.stale = client[c].last # None, !.base = 0, !.got = {}]
  <2>2. client'[c] = y
    BY Zenon DEF Restart
  <2>3. y \in ClientType /\ (y.stale <=> y.last # None) /\ y.got = {}
    BY <2>1 DEF ClientType
  <2>. HIDE DEF y
  <2>4. ClientFits(history', Wanted(history', Interest[c]), y, restarts')
    <3>1. restarts' # 0 /\ restarts' > 0
      BY <1>2
    <3>. QED BY <2>3, <3>1 DEF ClientFits
  <2>5. ConnFits(history', Wanted(history', Interest[c]), NoConnection, y, closed', restarts')
    <3>1. closed' \in BOOLEAN /\ restarts' \in Nat
      BY <1>2
    <3>. QED BY <3>1, NoneFits
  <2>. QED BY <1>2, <2>2, <2>3, <2>4, <2>5 DEF Fits
<1>5. NoConnection \in ConnType
  BY NoneFits DEF ConnFits
<1>6. conn' \in [Clients -> ConnType] /\ client' \in [Clients -> ClientType]
  BY <1>2, <1>4, <1>5 DEF Restart
<1>7. BrokerFits'
  BY <1>1, <1>2, <1>3, <1>6 DEF BrokerFits
<1>. QED BY <1>4, <1>7 DEF AllFit

\* The steps of the route
LEMMA RouteKeeps ==
    ASSUME IInv, NEW c \in Clients,
           \/ Connect(c) \/ Take(c) \/ Wait(c) \/ Expire(c) \/ Heartbeat(c)
           \/ Write(c) \/ Finish(c) \/ Disconnect(c)
    PROVE  AllFit'
<1>. DEFINE h == history
            w == Wanted(history, Interest[c])
            d == conn[c]
            x == client[c]
<1>1. /\ BrokerFits /\ Past(h) /\ ConnFits(h, w, d, x, closed, restarts) /\ ClientFits(h, w, x, restarts)
      /\ d \in ConnType /\ x \in ClientType /\ restarts \in Nat /\ closed \in BOOLEAN
      /\ conn \in [Clients -> ConnType] /\ client = [client EXCEPT ![c] = x]
      /\ drops \in 0..MaxDrops /\ MaxDrops \in Nat
  BY Apart, BrokerAssumption DEF AllFit, BrokerFits, Fits
<1>2. ConnFits(h, w, NoConnection, x, closed, restarts)
  BY <1>1, NoneFits
<1>. DEFINE Same == UNCHANGED <<history, replay, floor, closed, restarts>>
<1>3. ASSUME Same, drops' \in 0..MaxDrops, UNCHANGED client, NEW p, conn' = [conn EXCEPT ![c] = p],
             ConnFits(h, w, p, x, closed, restarts)
      PROVE  AllFit'
  <2>1. client' = [client EXCEPT ![c] = x]
    BY <1>1, <1>3
  <2>. QED BY <1>1, <1>3, <2>1, OneClient
<1>4. CASE Connect(c)
  <2>1. ConnFits(h, w, conn'[c], x, closed, restarts)
    BY <1>4, ConnectFits
  <2>2. conn' = [conn EXCEPT ![c] = conn'[c]]
    BY <1>1, <1>4 DEF Connect
  <2>. QED BY <1>1, <1>3, <1>4, <2>1, <2>2 DEF Connect
<1>5. CASE Take(c)
  <2>. DEFINE p == [d EXCEPT !.queue = Tail(d.queue),
                             !.todo = IF Head(d.queue).cursor <= d.skip THEN {} ELSE {Head(d.queue)}]
  <2>1. conn' = [conn EXCEPT ![c] = p] /\ d.on /\ d.todo = {} /\ d.wait = "no" /\ d.queue # <<>>
    BY <1>5 DEF Take, InNext
  <2>2. ConnFits(h, w, p, x, closed, restarts)
    BY <1>1, <2>1, TakeFits
  <2>. HIDE DEF p
  <2>. QED BY <1>1, <1>3, <1>5, <2>1, <2>2 DEF Take
<1>6. CASE Wait(c)
  <2>. DEFINE p == [d EXCEPT !.wait = "waiting"]
  <2>1. conn' = [conn EXCEPT ![c] = p] /\ d.on /\ d.queue = <<>> /\ ~d.ended
    BY <1>6 DEF Wait, InNext
  <2>2. ConnFits(h, w, p, x, closed, restarts)
    BY <1>1, <2>1, WaitFits
  <2>. HIDE DEF p
  <2>. QED BY <1>1, <1>3, <1>6, <2>1, <2>2 DEF Wait
<1>7. CASE Expire(c)
  <2>. DEFINE p == [d EXCEPT !.wait = "timed"]
  <2>1. conn' = [conn EXCEPT ![c] = p] /\ d.on
    BY <1>1, <1>7 DEF Expire, ConnFits, NoConnection
  <2>2. ConnFits(h, w, p, x, closed, restarts)
    BY <1>1, <2>1, WaitFits
  <2>. HIDE DEF p
  <2>. QED BY <1>1, <1>3, <1>7, <2>1, <2>2 DEF Expire
<1>8. CASE Heartbeat(c)
  <2>. DEFINE p == IF d.ended THEN NoConnection ELSE [d EXCEPT !.wait = "no"]
  <2>1. conn' = [conn EXCEPT ![c] = p] /\ d.on
    BY <1>1, <1>8 DEF Heartbeat, ConnFits, NoConnection
  <2>2. ConnFits(h, w, [d EXCEPT !.wait = "no"], x, closed, restarts)
    BY <1>1, <2>1, WaitFits
  <2>3. ConnFits(h, w, p, x, closed, restarts)
    BY <1>2, <2>2
  <2>. HIDE DEF p
  <2>. QED BY <1>1, <1>3, <1>8, <2>1, <2>3 DEF Heartbeat
<1>9. CASE Write(c)
  <2>. DEFINE e == Upcoming(c)
  <2>1. /\ e \in d.todo /\ \A f \in d.todo : e.cursor <= f.cursor
    BY <1>1, <1>9, First DEF Upcoming, Write, ConnType
  <2>. HIDE DEF e
  <2>2. /\ conn' = [conn EXCEPT ![c] = [d EXCEPT !.todo = @ \ {e}]] /\ d.on
        /\ client' = [client EXCEPT ![c] = Received(x, e)]
    BY <1>9 DEF Write, Received, e
  <2>3. w \subseteq {i \in DOMAIN h : h[i].kind = "high"}
    BY DEF Wanted
  <2>4. /\ ConnFits(h, w, [d EXCEPT !.todo = @ \ {e}], Received(x, e), closed, restarts)
        /\ ClientFits(h, w, Received(x, e), restarts)
    BY <1>1, <2>1, <2>2, <2>3, WriteFits
  <2>5. Same /\ UNCHANGED drops
    BY <1>9 DEF Write
  <2>. QED BY <1>1, <2>2, <2>4, <2>5, OneClient
<1>10. CASE Finish(c)
  BY <1>1, <1>2, <1>3, <1>10 DEF Finish
<1>11. CASE Disconnect(c)
  <2>1. drops' \in 0..MaxDrops
    BY <1>1, <1>11 DEF Disconnect
  <2>. QED BY <1>2, <1>3, <1>11, <2>1 DEF Disconnect
<1>. QED BY <1>4, <1>5, <1>6, <1>7, <1>8, <1>9, <1>10, <1>11

LEMMA InitKeeps == Init => IInv
<1>. SUFFICES ASSUME Init PROVE AllFit
  BY Apart
<1>1. NoConnection \in ConnType /\ NewClient \in ClientType
  BY NoneFits DEF ConnFits, NewClient, ClientType
<1>2. BrokerFits
  <2>1. /\ Past(history) /\ replay \in Seq(EventType) /\ ReplayExact /\ Len(replay) <= ReplayCapacity
        /\ floor \in [Sessions \cup {Global, All} -> Nat]
    BY NewBroker DEF Init
  <2>2. drops \in 0..MaxDrops /\ restarts \in 0..MaxRestarts /\ closed \in BOOLEAN
    <3>1. MaxDrops \in Nat /\ MaxRestarts \in Nat
      BY BrokerAssumption
    <3>2. drops = 0 /\ restarts = 0 /\ closed = FALSE
      BY DEF Init
    <3>3. drops \in 0..MaxDrops
      BY <3>1, <3>2
    <3>4. restarts \in 0..MaxRestarts
      BY <3>1, <3>2
    <3>5. closed \in BOOLEAN
      BY DEF Init
    <3>. QED BY <3>3, <3>4, <3>5
  <2>3. conn \in [Clients -> ConnType] /\ client \in [Clients -> ClientType]
    BY <1>1 DEF Init
  <2>. QED BY <2>1, <2>2, <2>3 DEF BrokerFits
<1>3. ASSUME NEW c \in Clients
      PROVE  Fits(c)
  <2>1. conn[c] = NoConnection /\ client[c] = NewClient /\ closed = FALSE /\ restarts = 0
    BY DEF Init
  <2>2. ClientFits(history, Wanted(history, Interest[c]), NewClient, 0)
    BY <1>1 DEF ClientFits, NewClient
  <2>. QED BY <2>1, <2>2, NoneFits DEF Fits
<1>. QED BY <1>2, <1>3 DEF AllFit

LEMMA NextKeeps == IInv /\ [Next]_vars => AllFit'
<1>. SUFFICES ASSUME IInv, [Next]_vars PROVE AllFit'
  OBVIOUS
<1>1. CASE \E s \in Sessions \cup {Global}, k \in Kinds : Publish(s, k)
  BY <1>1, PublishKeeps
<1>2. CASE Close
  BY <1>2, CloseKeeps
<1>3. CASE Restart
  BY <1>3, RestartKeeps
<1>4. CASE \E c \in Clients :
               \/ Connect(c) \/ Take(c) \/ Wait(c) \/ Expire(c) \/ Heartbeat(c)
               \/ Write(c) \/ Finish(c) \/ Disconnect(c)
  BY <1>4, RouteKeeps
<1>5. CASE UNCHANGED vars
  <2>1. AllFit
    BY Apart
  <2>. QED BY <1>5, <2>1 DEF vars, AllFit, BrokerFits, Fits, ReplayExact, Kept, Cursor
<1>. QED BY <1>1, <1>2, <1>3, <1>4, <1>5 DEF Next

\* The inductive invariant holds in every reachable state.
THEOREM BrokerInvariant == Spec => []IInv
<1>1. IInv /\ [Next]_vars => IInv'
  <2>1. AllFit => IInv
    BY Apart
  <2>. QED BY <2>1, NextKeeps, PTL
<1>. QED BY <1>1, InitKeeps, PTL DEF Spec

\* The replay buffer and the queues keep to their capacities, a resume falls back to a snapshot exactly when
\* an event it would need is gone, no wake-up is lost, and until the server is started again no client
\* misses an important event, whatever was dropped, merged, replayed or cut off.
THEOREM BrokerDelivers == Spec => []Delivers
<1>1. IInv => Delivers
  BY FloorsAreExact DEF Delivers, IInv
<1>. QED BY <1>1, BrokerInvariant, PTL

LEMMA WritesOnce ==
    ASSUME IInv, NEW c \in Clients, Write(c), ~client[c].stale
    PROVE  /\ Upcoming(c).parts \cap client[c].got = {}
           /\ client[c].last # None => client'[c].last > client[c].last
<1>. DEFINE h == history
            w == Wanted(history, Interest[c])
            d == conn[c]
            x == client[c]
            e == Upcoming(c)
<1>1. /\ Past(h) /\ ConnFits(h, w, d, x, closed, restarts) /\ ClientFits(h, w, x, restarts)
      /\ d \in ConnType /\ x \in ClientType /\ restarts \in Nat
      /\ client \in [Clients -> ClientType] /\ d.on
  BY Apart, BrokerAssumption DEF AllFit, BrokerFits, Fits, Write
<1>2. e \in d.todo /\ \A f \in d.todo : e.cursor <= f.cursor
  BY <1>1, First DEF Upcoming, Write, ConnType
<1>3. client'[c] = Received(x, e)
  BY <1>1 DEF Write, Received
<1>4. w \subseteq {i \in DOMAIN h : h[i].kind = "high"}
  BY DEF Wanted
<1>. HIDE DEF e
<1>5. /\ e.parts \cap x.got = {}
      /\ x.last # None => Received(x, e).last > x.last
  BY <1>1, <1>2, <1>4, WriteFits
<1>. QED BY <1>3, <1>5 DEF e

\* No content is delivered twice and the ids of a client grow strictly, across merges, replays, snapshots and
\* connections, until the client holds an id of a broker that is gone.
THEOREM BrokerDeliversOnce == Spec => OnceInOrder
<1>1. IInv /\ [Next]_vars => [\A c \in Clients :
          Write(c) /\ ~client[c].stale => Upcoming(c).parts \cap client[c].got = {}]_vars
  BY WritesOnce
<1>2. IInv /\ [Next]_vars => [\A c \in Clients :
          Write(c) /\ client[c].last # None /\ ~client[c].stale
              => client'[c].last > client[c].last]_vars
  BY WritesOnce
<1>3. Spec => NothingTwice
  BY <1>1, BrokerInvariant, PTL DEF Spec, NothingTwice
<1>4. Spec => CursorsGrow
  BY <1>2, BrokerInvariant, PTL DEF Spec, CursorsGrow
<1>. QED BY <1>3, <1>4 DEF OnceInOrder
=============================================================================
