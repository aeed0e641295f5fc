------------------------------ MODULE TextTools ------------------------------
(***************************************************************************)
(* What the coding tools do with texts (tau_coding/tools.py): read shows a *)
(* file part by part, the process tools show the end of an output, edit    *)
(* replaces exact texts, in memory or, for one replacement in a large      *)
(* file, in a stream of chunks.  A text is a sequence of characters, one   *)
(* byte each, of which only the ends of lines matter.                      *)
(***************************************************************************)
EXTENDS Integers, Sequences, FiniteSets, SequencesExt

CONSTANTS CR, NL, Letters,
          MaxLines, MaxBytes,   \* DEFAULT_MAX_OUTPUT_LINES, DEFAULT_MAX_OUTPUT_BYTES
          Chunk,                \* STREAMING_EDIT_CHUNK_BYTES
          MaxText,              \* bound: characters of a file
          Olds, News            \* texts of edits

VARIABLES
    file,      \* the bytes of the file, or the output of a process
    at,        \* the offset that the last read offers, 0 when it offers none
    seen,      \* observed: <<number, line>> of the lines shown
    large,     \* observed: numbers of the lines called too large
    shown,     \* observed: what truncate_tail shows of the output
    edited     \* observed: what the edits of a call make of the file

vars == <<file, at, seen, large, shown, edited>>

Texts == UNION {[1..n -> Letters \cup {NL, CR}] : n \in 0..MaxText}
Nothing == [error |-> "none", text |-> <<>>]
NoTail == [lines |-> <<>>, by |-> "none", partial |-> FALSE]

Init ==
    /\ file \in Texts
    /\ at = 1 /\ seen = <<>> /\ large = {} /\ shown = NoTail
    /\ edited = [edits |-> <<>>, plain |-> Nothing, stream |-> Nothing]

-----------------------------------------------------------------------------
(* Lines *)

\* normalize_to_lf; opening a file as text does the same
Normalized(t) ==
    LET kept == SelectSeq([i \in DOMAIN t |-> i], LAMBDA i : ~(t[i] = NL /\ i > 1 /\ t[i - 1] = CR))
    IN  [k \in DOMAIN kept |-> IF t[kept[k]] = CR THEN NL ELSE t[kept[k]]]

\* str.split("\n") and its inverse
Split(t) ==
    FoldLeft(LAMBDA lines, c : IF c = NL THEN Append(lines, <<>>) ELSE Append(Front(lines), Append(Last(lines), c)),
             <<<<>>>>, t)
Join(lines) == IF lines = <<>> THEN <<>> ELSE FoldLeft(LAMBDA t, line : t \o <<NL>> \o line, lines[1], Tail(lines))

\* _split_lines_for_counting
Counted(t) == IF t = <<>> THEN <<>> ELSE IF Last(t) = NL THEN Front(Split(t)) ELSE Split(t)

Fits(t) == Len(Counted(t)) <= MaxLines /\ Len(t) <= MaxBytes

\* The longest part of at most MaxLines lines and MaxBytes bytes
LongestOf(parts) == CHOOSE p \in parts : \A q \in parts : Len(q) <= Len(p)

Min2(a, b) == IF a < b THEN a ELSE b

\* truncate_head, for a text that does not fit and whose first line does
Head_(t) ==
    LET lines == Counted(t)
        most == {n \in 0..Min2(Len(lines), MaxLines) : Len(Join(SubSeq(lines, 1, n))) <= MaxBytes}
    IN  LongestOf({SubSeq(lines, 1, n) : n \in most})

\* truncate_tail, for a text that does not fit
Partial(t) == Len(Last(Counted(t))) > MaxBytes
TailLines(t) ==
    LET lines == Counted(t)
        n == Len(lines)
        most == {k \in 0..Min2(n, MaxLines) : Len(Join(SubSeq(lines, n - k + 1, n))) <= MaxBytes}
    IN  IF Partial(t) THEN <<SubSeq(Last(lines), Len(Last(lines)) - MaxBytes + 1, Len(Last(lines)))>>
        ELSE LongestOf({SubSeq(lines, n - k + 1, n) : k \in most})
By(t) == IF Len(TailLines(t)) = MaxLines /\ Len(Counted(t)) > MaxLines THEN "lines" ELSE "bytes"

-----------------------------------------------------------------------------
(* read: the part from the offset, as long as the limits allow, and the    *)
(* offset to continue at                                                    *)

\* Mutant: the offset counts from zero.
NextFromZero(n, count) == n + count - 1
Next_(n, count) == n + count

Show(number, lines) == seen' = seen \o [k \in DOMAIN lines |-> <<number + k - 1, lines[k]>>]

\* A limit of 0 stands for none.
Read(limit) ==
    LET lines == Split(Normalized(file))
        end == IF limit = 0 THEN Len(lines) ELSE Min2(at - 1 + limit, Len(lines))
        part == SubSeq(lines, at, end)
        text == Join(part)
    IN  /\ at # 0 /\ edited.edits = <<>> /\ shown = NoTail
        /\ \/ /\ ~Fits(text) /\ Len(part[1]) > MaxBytes
              /\ large' = large \cup {at} /\ UNCHANGED seen
              /\ at' = IF at < Len(lines) THEN Next_(at, 1) ELSE 0      \* the reader goes on behind it
           \/ /\ ~Fits(text) /\ Len(part[1]) <= MaxBytes
              /\ Show(at, Head_(text)) /\ at' = Next_(at, Len(Head_(text)))
              /\ UNCHANGED large
           \/ /\ Fits(text)
              /\ Show(at, part) /\ at' = IF end < Len(lines) THEN Next_(at, Len(part)) ELSE 0
              /\ UNCHANGED large
        /\ UNCHANGED <<file, shown, edited>>

\* The output of sh, python and pytest
Output ==
    /\ shown = NoTail /\ edited.edits = <<>> /\ at = 1 /\ ~Fits(file)
    /\ shown' = [lines |-> TailLines(file), by |-> By(file), partial |-> Partial(file)]
    /\ UNCHANGED <<file, at, seen, large, edited>>

-----------------------------------------------------------------------------
(* edit *)

Fails(error) == [error |-> error, text |-> <<>>]
Makes(t) == [error |-> "none", text |-> t]

At(t, old) == {i \in 1..(Len(t) - Len(old) + 1) : SubSeq(t, i, i + Len(old) - 1) = old}
First(places) == CHOOSE i \in places : \A j \in places : i <= j
Replace(t, i, old, new) == SubSeq(t, 1, i - 1) \o new \o SubSeq(t, i + Len(old), Len(t))

\* Mutant: the spans are replaced in the order of the edits.
InPlaceGiven(spans) == spans
InPlace(spans) == SortSeq(spans, LAMBDA a, b : a.from < b.from)

\* _validate_non_overlapping
Overlap(spans) == \E s, t \in ToSet(spans) : s # t /\ s.from <= t.from /\ t.from < s.to

\* apply_edits_to_normalized_content
Applied(t, edits) ==
    LET places == [k \in DOMAIN edits |-> At(t, edits[k].old)]
        bad == {k \in DOMAIN edits : Cardinality(places[k]) # 1}
        spans == [k \in DOMAIN edits |-> [from |-> First(places[k]), to |-> First(places[k]) + Len(edits[k].old), new |-> edits[k].new]]
        Put(acc, s) == [text |-> acc.text \o SubSeq(t, acc.cursor, s.from - 1) \o s.new, cursor |-> s.to]
        put == FoldLeft(Put, [text |-> <<>>, cursor |-> 1], InPlace(spans))
        made == put.text \o SubSeq(t, put.cursor, Len(t))
    IN  IF bad # {} THEN Fails(IF places[First(bad)] = {} THEN "not found" ELSE "duplicate")
        ELSE IF Overlap(spans) THEN Fails("overlap")
        ELSE IF made = t THEN Fails("no change")
        ELSE Makes(made)

\* detect_line_ending, restore_line_endings
Crlf(t) == \E i \in 1..(Len(t) - 1) : t[i] = CR /\ t[i + 1] = NL /\ \A j \in 1..i : t[j] # NL
Restored(t, crlf) == IF crlf THEN FoldLeft(LAMBDA u, c : u \o (IF c = NL THEN <<CR, NL>> ELSE <<c>>), <<>>, t) ELSE t

\* The path in memory: the file is opened as text, so no CR is left when the ending is detected.
Plain(t, edits) ==
    LET raw == Normalized(t)
        done == Applied(Normalized(raw), [k \in DOMAIN edits |-> [old |-> Normalized(edits[k].old), new |-> Normalized(edits[k].new)]])
    IN  IF done.error # "none" THEN done ELSE Makes(Restored(done.text, Crlf(raw)))

Chunks(t) == [k \in 1..((Len(t) + Chunk - 1) \div Chunk) |-> SubSeq(t, (k - 1) * Chunk + 1, Min2(k * Chunk, Len(t)))]

\* Mutant: nothing of a chunk is kept for the next one.
RestNone(data, old) == <<>>
\* The end of the data that a match may begin in
Rest(data, old) == SubSeq(data, Len(data) - Min2(Len(old) - 1, Len(data)) + 1, Len(data))
Safe(data, old) == SubSeq(data, 1, Len(data) - Len(Rest(data, old)))

\* _count_streaming_matches
Count(t, old) ==
    LET Step(acc, chunk) ==
            LET data == acc.rest \o chunk IN
            [count |-> acc.count + Cardinality({i \in At(data, old) : i <= Len(Safe(data, old))}), rest |-> Rest(data, old)]
        all == FoldLeft(Step, [count |-> 0, rest |-> <<>>], Chunks(t))
    IN  all.count + Cardinality(At(all.rest, old))

\* _stream_replace_file
Streamed(t, old, new) ==
    LET Step(acc, chunk) ==
            LET data == acc.rest \o chunk
                here == At(data, old)
            IN  IF ~acc.done /\ here # {} THEN [out |-> acc.out \o Replace(data, First(here), old, new), rest |-> <<>>, done |-> TRUE]
                ELSE [out |-> acc.out \o Safe(data, old), rest |-> Rest(data, old), done |-> acc.done]
        all == FoldLeft(Step, [out |-> <<>>, rest |-> <<>>, done |-> FALSE], Chunks(t))
        left == At(all.rest, old)
    IN  all.out \o (IF ~all.done /\ left # {} THEN Replace(all.rest, First(left), old, new) ELSE all.rest)

\* _try_streaming_edit, for one edit in which no CR occurs
Stream(t, e) ==
    IF Count(t, e.old) = 0 THEN Fails("not found")
    ELSE IF Count(t, e.old) > 1 THEN Fails("duplicate")
    ELSE IF e.old = e.new THEN Fails("no change")
    ELSE Makes(Streamed(t, e.old, e.new))

Edits == [old : Olds, new : News]

\* One edit, by both paths: which one is taken is a matter of the size alone.
EditOne(e) ==
    /\ edited.edits = <<>> /\ shown = NoTail /\ at = 1
    /\ edited' = [edits |-> <<e>>, plain |-> Plain(file, <<e>>), stream |-> Stream(file, e)]
    /\ UNCHANGED <<file, at, seen, large, shown>>

EditTwo(e, f) ==
    /\ e.old # f.old /\ edited.edits = <<>> /\ shown = NoTail /\ at = 1
    /\ edited' = [edits |-> <<e, f>>, plain |-> Plain(file, <<e, f>>), stream |-> Nothing]
    /\ UNCHANGED <<file, at, seen, large, shown>>

Next ==
    \/ \E limit \in 0..2 : Read(limit)
    \/ Output
    \/ \E e \in Edits : EditOne(e) \/ \E f \in Edits : EditTwo(e, f)

Spec == Init /\ [][Next]_vars

-----------------------------------------------------------------------------
(* Properties *)

TypeOK ==
    /\ file \in Texts
    /\ at \in Nat /\ large \subseteq Nat
    /\ shown.lines \in Seq(Texts) /\ shown.by \in {"none", "lines", "bytes"} /\ shown.partial \in BOOLEAN
    /\ edited.edits \in Seq(Edits)

\* A reader who follows the offsets that read offers sees every line of the file once, in order, but for
\* those it was told are too large.
ReadsEverything ==
    LET lines == Split(Normalized(file))
        upTo == IF at = 0 THEN Len(lines) ELSE at - 1
    IN  /\ [k \in DOMAIN seen |-> seen[k][1]] = SelectSeq([n \in 1..upTo |-> n], LAMBDA n : n \notin large)
        /\ \A k \in DOMAIN seen : seen[k][2] = lines[seen[k][1]]

\* What is shown of an output that is too long is its end, within both limits, and one line more would
\* break one of them: the one that is named.
ShowsTheEnd ==
    shown # NoTail =>
        LET n == Len(shown.lines)
            all == Counted(file)
            more == Join(SubSeq(all, Len(all) - n, Len(all)))
        IN  /\ n <= MaxLines /\ Len(Join(shown.lines)) <= MaxBytes
            /\ IsSuffix(Join(shown.lines), Join(all))
            /\ shown.by = "lines" => n = MaxLines /\ n < Len(all)
            /\ shown.by = "bytes" /\ ~shown.partial /\ n < Len(all) => Len(more) > MaxBytes

\* made is t with every old text, which stands there once, replaced by its new one and nothing else.
Replaces(t, e, made) ==
    \E order \in {p \in [DOMAIN e -> DOMAIN e] : IsInjective(p)} :
    \E places \in [DOMAIN e -> 1..Len(t)] :
        LET start(k) == places[order[k]]
            stop(k) == start(k) + Len(e[order[k]].old)
            before(k) == SubSeq(t, IF k = 1 THEN 1 ELSE stop(k - 1), start(k) - 1)
        IN  /\ \A k \in DOMAIN e : At(t, e[k].old) = {places[k]}
            /\ \A k \in 2..Len(e) : stop(k - 1) <= start(k)
            /\ made = FoldLeft(LAMBDA u, k : u \o before(k) \o e[order[k]].new, <<>>, [k \in DOMAIN e |-> k])
                      \o SubSeq(t, stop(Len(e)), Len(t))

\* An edit that succeeds has replaced the one place where each old text stood in the original file, and has
\* kept everything between the places, whatever the order in which the edits are given.  In chunks that holds
\* byte for byte; in memory up to the ends of lines: every end of the file, also one far from the edits, is LF
\* afterwards (see EndingsSurvive), and what is compared is the file with its ends so replaced.
EditsAreExact ==
    LET e == edited.edits IN
    /\ e # <<>> /\ edited.plain.error = "none" => Replaces(Normalized(file), e, edited.plain.text)
    /\ Len(e) = 1 /\ edited.stream.error = "none" => Replaces(file, e, edited.stream.text)

\* In a file without CR the stream and the path in memory fail alike and make the same file, wherever the
\* chunks are cut.
StreamAgrees ==
    Len(edited.edits) = 1 /\ (\A i \in DOMAIN file : file[i] # CR) => edited.stream = edited.plain

\* tools.py:338-340 and dev-notes/design/03-tools.md:232: after an edit the original file's dominant line ending
\* is restored.  The code has lost it before it looks for it.
EndingsSurvive ==
    edited.edits # <<>> /\ edited.plain.error = "none" /\ Crlf(file) =>
        LET made == edited.plain.text IN Crlf(made) \/ \A i \in DOMAIN made : made[i] # NL
=============================================================================
