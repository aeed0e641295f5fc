--------------------------- MODULE SessionQueues ---------------------------
(***************************************************************************)
(* QueueRepository (src/tau_web/sqlite/repositories.py) and the routes of  *)
(* the queue: rows with a position under UNIQUE(session, kind, position).  *)
(* Rows that were consumed stay, with their positions, until a purge.      *)
(* Every call is one transaction; what the user means by a queue, a list   *)
(* that is appended to, reordered and consumed from its head, is kept      *)
(* beside the rows.                                                        *)
(***************************************************************************)
EXTENDS Integers, Sequences, SequencesExt, FiniteSets, FiniteSetsExt

CONSTANTS None,
          Sessions, Kinds,
          MaxIds,       \* bound: messages that are ever queued; their ids, uuids in the code, are numbered
          MaxPosition   \* bound: positions

SessionQueuesAssumption == MaxIds \in Nat /\ MaxPosition \in Nat

Ids == 1..MaxIds

VARIABLES
    row,     \* row[i]: [session, kind, position, consumed], or None
    born,    \* how many ids were used
    list,    \* observed: list[s][k]: the ids that the user expects to be waiting, in order
    handed,  \* observed: what consume_next and consume_exact have returned, in order
    broken   \* observed: a statement failed on the unique index

vars == <<row, born, list, handed, broken>>

Init ==
    /\ row = [i \in Ids |-> None] /\ born = 0 /\ handed = <<>> /\ broken = FALSE
    /\ list = [s \in Sessions |-> [k \in Kinds |-> <<>>]]

-----------------------------------------------------------------------------
Rows(s, k) == {i \in Ids : row[i] # None /\ row[i].session = s /\ row[i].kind = k}
Waiting(s, k) == {i \in Rows(s, k) : ~row[i].consumed}
Positions(s, k) == {row[i].position : i \in Rows(s, k)}

\* Mutant: the positions of consumed rows are taken for free.
AfterWaiting(s, k) == Max({-1} \cup {row[i].position : i \in Waiting(s, k)}) + 1
\* COALESCE(MAX(position), -1) + 1, over every row
NextPosition(s, k) == Max({-1} \cup Positions(s, k)) + 1

\* ORDER BY position LIMIT 1
Head_(s, k) == CHOOSE i \in Waiting(s, k) : \A j \in Waiting(s, k) : row[i].position <= row[j].position

\* list(): ORDER BY queue_kind, position
Listed(s, k) == SetToSortSeq(Waiting(s, k), LAMBDA i, j : row[i].position < row[j].position)

\* A statement that gives i the place p of a queue, where it must be alone.
Taken(rows, i, s, k, p) == \E j \in Ids \ {i} : rows[j] # None /\ rows[j].session = s /\ rows[j].kind = k /\ rows[j].position = p

\* The id is of this session and still waits; otherwise the call raises and nothing happens.
Pending(i, s) == row[i] # None /\ row[i].session = s /\ ~row[i].consumed

-----------------------------------------------------------------------------
Enqueue(i, s, k) ==
    LET p == NextPosition(s, k)
    IN  /\ i = born + 1 /\ p <= MaxPosition
        /\ IF Taken(row, i, s, k, p) THEN broken' = TRUE /\ UNCHANGED <<row, list>>
           ELSE /\ row' = [row EXCEPT ![i] = [session |-> s, kind |-> k, position |-> p, consumed |-> FALSE]]
                /\ list' = [list EXCEPT ![s][k] = Append(@, i)]
                /\ UNCHANGED broken
        /\ born' = i
        /\ UNCHANGED handed

RemovePending(i, s) ==
    /\ Pending(i, s)
    /\ row' = [row EXCEPT ![i] = None]
    /\ list' = [list EXCEPT ![s][row[i].kind] = Remove(@, i)]
    /\ UNCHANGED <<born, handed, broken>>

\* retarget_pending: to the tail of another queue
RetargetPending(i, s, k) ==
    LET p == NextPosition(s, k)
    IN  /\ Pending(i, s) /\ row[i].kind # k /\ p <= MaxPosition
        /\ IF Taken(row, i, s, k, p) THEN broken' = TRUE /\ UNCHANGED <<row, list>>
           ELSE /\ row' = [row EXCEPT ![i].kind = k, ![i].position = p]
                /\ list' = [list EXCEPT ![s][row[i].kind] = Remove(@, i), ![s][k] = Append(@, i)]
                /\ UNCHANGED broken
        /\ UNCHANGED <<born, handed>>

\* Mutant: the first one on that side, not the nearest.
PeersFirst(i, s, up) ==
    LET side == {j \in Waiting(s, row[i].kind) : IF up THEN row[j].position < row[i].position ELSE row[j].position > row[i].position}
    IN  {j \in side : \A l \in side : row[j].position <= row[l].position}
\* The row to swap with: the nearest that waits, on that side.
Peers(i, s, up) ==
    LET side == {j \in Waiting(s, row[i].kind) : IF up THEN row[j].position < row[i].position ELSE row[j].position > row[i].position}
    IN  {j \in side : \A l \in side : IF up THEN row[l].position <= row[j].position ELSE row[j].position <= row[l].position}

\* Mutant: no place of its own for the row in between.
SwapDirect(i, j) == <<<<j, row[i].position>>, <<i, row[j].position>>>>
\* The three updates: i goes out of the way first.
Swap(i, j) == <<<<i, NextPosition(row[i].session, row[i].kind)>>, <<j, row[i].position>>, <<i, row[j].position>>>>

Update(rows, change) == [rows EXCEPT ![change[1]].position = change[2]]

\* move_pending: a failing statement rolls all of them back.
MovePending(i, s, up) ==
    /\ Pending(i, s) /\ NextPosition(s, row[i].kind) <= MaxPosition + 1
    /\ \E j \in Peers(i, s, up) :
        LET k == row[i].kind
            steps == Swap(i, j)
            after == [n \in 0..Len(steps) |-> FoldLeft(Update, row, SubSeq(steps, 1, n))]
            at == CHOOSE n \in DOMAIN list[s][k] : list[s][k][n] = i
            to == IF up THEN at - 1 ELSE at + 1
        IN  /\ broken' = (broken \/ \E n \in 1..Len(steps) : Taken(after[n - 1], steps[n][1], s, k, steps[n][2]))
            /\ row' = IF broken' THEN row ELSE after[Len(steps)]
            /\ list' = IF broken' THEN list ELSE [list EXCEPT ![s][k][at] = list[s][k][to], ![s][k][to] = i]
    /\ UNCHANGED <<born, handed>>

Consume(i, s, k) ==
    /\ row' = [row EXCEPT ![i].consumed = TRUE]
    /\ list' = [list EXCEPT ![s][k] = Remove(@, i)]
    /\ handed' = Append(handed, [id |-> i, due |-> IF list[s][k] = <<>> THEN None ELSE Head(list[s][k])])
    /\ UNCHANGED <<born, broken>>

ConsumeNext(s, k) == Waiting(s, k) # {} /\ Consume(Head_(s, k), s, k)

\* consume_exact: only the head, whatever the caller has listed before
ConsumeExact(i, s, k) ==
    /\ Pending(i, s) /\ row[i].kind = k /\ i = Head_(s, k)
    /\ Consume(i, s, k)

\* purge_consumed_before: the rows consumed up to some moment
Purge(n) ==
    LET gone == {i \in Ids : row[i] # None /\ row[i].consumed /\ \E m \in 1..n : handed[m].id = i}
    IN  /\ gone # {} /\ row' = [i \in Ids |-> IF i \in gone THEN None ELSE row[i]]
        /\ UNCHANGED <<born, list, handed, broken>>

Next ==
    \/ \E i \in Ids, s \in Sessions, k \in Kinds : Enqueue(i, s, k) \/ RetargetPending(i, s, k) \/ ConsumeExact(i, s, k)
    \/ \E i \in Ids, s \in Sessions : RemovePending(i, s) \/ \E up \in BOOLEAN : MovePending(i, s, up)
    \/ \E s \in Sessions, k \in Kinds : ConsumeNext(s, k)
    \/ \E n \in DOMAIN handed : Purge(n)

Spec == Init /\ [][Next]_vars

-----------------------------------------------------------------------------
(* Properties *)

TypeOK ==
    /\ \A i \in Ids : row[i] # None => i <= born /\ row[i] \in [session : Sessions, kind : Kinds, position : 0..MaxPosition, consumed : BOOLEAN]
    /\ broken \in BOOLEAN /\ Len(handed) <= born

\* What waits, in the order of its positions, is the list that the user made by adding, removing and
\* moving: through every swap, change of queue and purge, and the reuse of the positions it frees.
RowsAreTheList == \A s \in Sessions, k \in Kinds : Listed(s, k) = list[s][k]

\* No call ever fails on the unique index of positions, neither at its end nor between its statements.
NoCollision == ~broken

\* Each message is handed out once, and only when it is the first of its queue.
FirstInFirstOut ==
    /\ \A n \in DOMAIN handed : handed[n].id = handed[n].due
    /\ \A m, n \in DOMAIN handed : handed[m].id = handed[n].id => m = n
=============================================================================
