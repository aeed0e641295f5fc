-------------------------- MODULE CompactionSource --------------------------
(***************************************************************************)
(* The algorithms of local compaction: which rows of the context are kept  *)
(* (session.py), and what of the others is put before the model that       *)
(* summarizes them (smart_compaction.py, branch_summary.py,                *)
(* pipelined_compaction.py).  A case picks the data; one step computes.    *)
(* A message is its role and its length; text is blocks of one character   *)
(* <<message, position>>, joined by newlines.                              *)
(***************************************************************************)
EXTENDS Integers, Sequences, FiniteSets, SequencesExt, FiniteSetsExt

CONSTANTS None,
          Lengths,     \* bound: lengths of messages
          MaxRows,     \* bound: messages
          Limits,      \* max_chars and keep_recent_tokens
          MarkerLength \* len(marker)

CompactionSourceAssumption == MarkerLength > 2 /\ Lengths \subseteq Nat \ {0} /\ Limits \subseteq Nat

VARIABLES
    rows,      \* the context, or the messages of a branch: [role, size]
    limit,
    wanted,    \* what is computed: "keep", "source", "branch"
    kept,      \* index of the first row that stays in the context
    text       \* pieces of the source: [of, from, to] of a message, or the marker

vars == <<rows, limit, wanted, kept, text>>

Roles == {"user", "assistant", "tool"}

\* A context: a tool's result follows the message that called it, or another result of it.
IsContext(r) ==
    \A i \in DOMAIN r : r[i].role = "tool" => i > 1 /\ r[i - 1].role \in {"assistant", "tool"}

Contexts == {r \in BoundedSeq([role : Roles, size : Lengths], MaxRows) : IsContext(r)}

Init ==
    /\ rows \in Contexts /\ limit \in Limits /\ wanted \in {"keep", "source", "branch"}
    /\ wanted = "source" => limit >= MarkerLength + 3
    /\ kept = None /\ text = None

Size(r) == FoldLeft(LAMBDA sum, m : sum + m.size, 0, r)
From(i) == SubSeq(rows, i, Len(rows))

-----------------------------------------------------------------------------
(* _first_recent_context_index *)

\* _next_user_message_index
NextUser(start) ==
    LET users == {i \in start..Len(rows) : rows[i].role = "user"} IN IF users = {} THEN None ELSE Min(users)

\* Mutant: a cut at whatever message the budget ends in.
CutsThere(candidate) == candidate

Moved(candidate) ==
    LET rest == {i \in candidate..Len(rows) : rows[i].role # "tool"} IN
    IF NextUser(candidate + 1) # None THEN NextUser(candidate + 1)
    ELSE IF rest = {} THEN Len(rows) + 1 ELSE Min(rest)

\* The first row to keep, counted from 1; 1 keeps all.
FirstRecent ==
    LET candidates == {i \in DOMAIN rows : Size(From(i)) >= limit}
        candidate == Max(candidates)
    IN  IF limit <= 0 THEN Len(rows) + 1
        ELSE IF candidates = {} THEN 1
        ELSE IF rows[candidate].role # "user" THEN Moved(candidate)
        ELSE IF candidate > 1 THEN candidate
        ELSE IF NextUser(2) = None THEN 1 ELSE NextUser(2)

\* _recent_preserving_compaction_plan
Keep ==
    /\ wanted = "keep" /\ kept = None
    /\ kept' = IF Len(rows) < 2 THEN 1 ELSE FirstRecent
    /\ UNCHANGED <<rows, limit, wanted, text>>

-----------------------------------------------------------------------------
(* serialize_compaction_source *)

Piece(i, a, b) == [of |-> i, from |-> a, to |-> b]
WholePiece(i) == Piece(i, 1, rows[i].size)
Marker == Piece(0, 1, MarkerLength - 2)
Length(p) == p.to - p.from + 1
\* joined by newlines
Joined(ps) == IF ps = <<>> THEN 0 ELSE Len(ps) - 1 + FoldLeft(LAMBDA sum, p : sum + Length(p), 0, ps)
Pieces(a, b) == [k \in 1..(b - a + 1) |-> WholePiece(a + k - 1)]

\* _whole_blocks_from_start, and how many those are
FromStart(budget) == Max({0} \cup {n \in DOMAIN rows : Joined(Pieces(1, n)) <= budget})

\* Mutant: the end is taken from all the messages.
FromEndOfAll(after, budget) == Max({0} \cup {n \in 1..Len(rows) : Joined(Pieces(Len(rows) - n + 1, Len(rows))) <= budget + MarkerLength})
\* _whole_blocks_from_end, of the messages after those at the start
FromEnd(after, budget) == Max({0} \cup {n \in 1..(Len(rows) - after) : Joined(Pieces(Len(rows) - n + 1, Len(rows))) <= budget})

\* text[:count]
Short(p, count) == IF count <= 0 THEN <<>> ELSE <<[p EXCEPT !.to = IF Length(p) <= count THEN @ ELSE p.from + count - 1]>>
\* text[-count:]
End(p, count) == IF count <= 0 THEN <<>> ELSE <<[p EXCEPT !.from = IF Length(p) <= count THEN @ ELSE p.to - count + 1]>>

Serialized ==
    LET available == IF limit > MarkerLength THEN limit - MarkerLength ELSE 0
        headBudget == available \div 3
        tailBudget == available - headBudget
        n == FromStart(headBudget)
        m == FromEnd(n, tailBudget)
        head == IF n > 0 THEN Pieces(1, n) ELSE Short(WholePiece(1), headBudget)
        tail == IF m > 0 THEN Pieces(Len(rows) - m + 1, Len(rows))
                ELSE IF Len(rows) > Len(head) THEN End(WholePiece(Len(rows)), tailBudget) ELSE <<>>
    IN  IF rows = <<>> THEN <<>>
        ELSE IF Joined(Pieces(1, Len(rows))) <= limit THEN Pieces(1, Len(rows))
        ELSE IF head = <<>> /\ tail = <<>> THEN Short(Marker, limit)
        ELSE head \o <<Marker>> \o tail

Source ==
    /\ wanted = "source" /\ text = None
    /\ text' = Serialized
    /\ UNCHANGED <<rows, limit, wanted, kept>>

\* _serialize_branch_conversation: whole messages from the start, until one does not fit
Branch ==
    LET fits == Max({0} \cup {n \in DOMAIN rows : Size(SubSeq(rows, 1, n)) <= limit}) IN
    /\ wanted = "branch" /\ text = None
    /\ text' = Pieces(1, fits) \o (IF fits < Len(rows) THEN <<Marker>> ELSE <<>>)
    /\ UNCHANGED <<rows, limit, wanted, kept>>

Next == Keep \/ Source \/ Branch

Spec == Init /\ [][Next]_vars

-----------------------------------------------------------------------------
(* Properties *)

TypeOK == Len(rows) \in 0..MaxRows /\ limit \in Limits /\ (kept = None \/ kept \in 1..(Len(rows) + 1))

\* What compaction keeps is a context again: it starts with no result whose call was summarized; unless one
\* message is larger than the budget alone, it does not exceed it by more than that; and nothing is cut
\* from a context within the budget.
KeptIsContext ==
    kept # None =>
        /\ IsContext(From(kept))
        /\ Size(rows) < limit => kept = 1
        /\ kept > 1 /\ kept <= Len(rows) /\ limit > 0 => Size(From(kept + 1)) < limit

\* The source stays within its limit, in the order of the messages and none of them twice; and however much
\* is left out, the beginning and the end of the history are there and the gap is marked.
SourceKeepsEnds ==
    text # None /\ wanted = "source" =>
        /\ Joined(text) <= limit
        /\ \A i, j \in DOMAIN text : i < j /\ text[i].of # 0 /\ text[j].of # 0 => text[i].of < text[j].of
        /\ Cardinality({i \in DOMAIN text : text[i].of # 0}) < Len(rows) => \E i \in DOMAIN text : text[i].of = 0
        /\ Len(rows) > 1 =>
            /\ text[1].of = 1 /\ text[1].from = 1
            /\ text[Len(text)].of = Len(rows) /\ text[Len(text)].to = rows[Len(rows)].size

\* The summary of a branch is made from its first messages, whole, and says so when some are missing.
BranchIsMarked ==
    text # None /\ wanted = "branch" =>
        /\ \A i \in DOMAIN text : text[i].of \in {0, i}
        /\ Len(text) < Len(rows) => text[Len(text)].of = 0
=============================================================================
