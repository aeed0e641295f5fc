------------------------------ MODULE TuiEditor ------------------------------
(***************************************************************************)
(* The prompt of the Textual application: what is typed, pasted, recalled  *)
(* and completed until it is submitted (PromptInput of tui/app.py), and    *)
(* the window on the completions (tui/autocomplete.py).  A text is a       *)
(* sequence of chunks: a keystroke, a large paste, the placeholder that is *)
(* shown instead of one.  The change of a text is noticed a step later.    *)
(***************************************************************************)
EXTENDS Integers, Sequences, FiniteSets, SequencesExt

CONSTANTS None, Key, Mark, Pastes,
          Items,          \* completions for a text that asks for some: [category, extra]
          Limit,          \* lines that the completions may take
          MaxLength       \* bound: chunks of a text

VARIABLES
    text,      \* text of the TextArea
    meant,     \* observed: what the user entered
    pending,   \* _pending_full_content
    last,      \* _last_text_length
    changed,   \* a Changed event waits
    items,     \* completions
    selected,  \* selected_index, from 1
    sent,      \* the last of _prompt_history, and observed: what was meant by it
    stained    \* observed: a placeholder was edited, cleared by the key, or pasted over

vars == <<text, meant, pending, last, changed, items, selected, sent, stained>>

Init ==
    /\ text = <<>> /\ meant = <<>> /\ pending = None /\ last = 0 /\ changed = FALSE
    /\ items = <<>> /\ selected = 1 /\ sent = <<>> /\ stained = FALSE

Length(t) == FoldLeft(LAMBDA n, c : n + (IF c = Key THEN 1 ELSE IF c = Mark THEN 20 ELSE 100), 0, t)
Threshold == 50

-----------------------------------------------------------------------------
(* Completions *)

Heads(list) == {i \in DOMAIN list : i = 1 \/ list[i].category # list[i - 1].category}
Titled(list) == {i \in Heads(list) : list[i].category # None}
Wrapped(list) == FoldLeft(LAMBDA n, item : n + 1 + item.extra, 0, list)

\* _completion_render_line_count: the items, the titles of categories, and a line before each other
\* category
Lines(list) == Wrapped(list) + Cardinality(Titled(list)) + Cardinality(Heads(list) \ {1})

\* _completion_selected_render_line, which does not count the lines between categories
SelectedLine(list, at) == Wrapped(SubSeq(list, 1, at - 1)) + Cardinality(Titled(list) \cap 1..at)

\* Mutant: the selection is not kept in sight.
WindowFirst(list, at, limit) ==
    LET fits == {to \in 1..Len(list) : Lines(SubSeq(list, 1, to)) <= limit \/ to = 1} IN
    <<1, CHOOSE to \in fits : \A other \in fits : other <= to>>

\* _visible_completion_state: from the first item for which the selected one is above the last
\* line, as many as fit, then fewer at the front.
Window(list, at, limit) ==
    LET lines == IF limit - 1 > 1 THEN limit - 1 ELSE 1
        starts == {from \in 1..at : from = at \/ SelectedLine(SubSeq(list, from, Len(list)), at - from + 1) < lines}
        start == CHOOSE from \in starts : \A other \in starts : from <= other
        ends == {to \in at..Len(list) : to = at \/ Lines(SubSeq(list, start, to)) <= limit}
        end == CHOOSE to \in ends : \A other \in ends : other <= to
        fronts == {from \in start..at : from = at \/ Lines(SubSeq(list, from, end)) <= limit}
    IN  <<CHOOSE from \in fronts : \A other \in fronts : from <= other, end>>

\* build_completion_state: some texts have completions.
Completes(t) ==
    /\ items' \in IF Len(t) = 1 /\ t[1] = Key THEN Items ELSE {<<>>}
    /\ selected' = 1

\* Mutant: the selection does not wrap around.
SelectBeyond(step) ==
    /\ items # <<>> /\ selected' = selected + step
    /\ UNCHANGED <<text, meant, pending, last, changed, items, sent, stained>>

Select(step) ==
    /\ items # <<>>
    /\ selected' = ((selected - 1 + step) % Len(items)) + 1
    /\ UNCHANGED <<text, meant, pending, last, changed, items, sent, stained>>

\* Tab: the replacement, and the completions of the new text
Accept ==
    /\ items # <<>> /\ Len(text) < MaxLength
    /\ text' = Append(text, Key) /\ meant' = Append(meant, Key) /\ changed' = TRUE
    /\ Completes(text')
    /\ UNCHANGED <<pending, last, sent, stained>>

-----------------------------------------------------------------------------
(* Editing *)

Edits(t, m) ==
    /\ text' = t /\ meant' = m /\ changed' = TRUE
    /\ UNCHANGED <<last, items, selected, sent>>

Type ==
    /\ Len(text) < MaxLength
    /\ Edits(Append(text, Key), Append(meant, Key))
    /\ UNCHANGED <<pending, stained>>

Paste(p) ==
    /\ Len(text) < MaxLength
    /\ Edits(Append(text, p), Append(meant, p))
    /\ stained' = (stained \/ pending # None)
    /\ UNCHANGED pending

\* A keystroke is deleted; or a part of the placeholder, which leaves the rest of it.
Backspace ==
    /\ text # <<>>
    /\ IF text[Len(text)] = Mark THEN stained' = TRUE /\ Edits([text EXCEPT ![Len(text)] = Key], <<>>)
       ELSE Edits(Front(text), IF meant = <<>> THEN meant ELSE Front(meant)) /\ UNCHANGED stained
    /\ UNCHANGED pending

\* action_clear_prompt
Clear ==
    /\ text # <<>>
    /\ text' = <<>> /\ meant' = <<>> /\ changed' = TRUE
    /\ pending' = None /\ last' = 0
    /\ UNCHANGED <<items, selected, sent, stained>>

\* The key that copies, without a selection; it leaves the content of a placeholder behind.
ClearKey ==
    /\ text # <<>>
    /\ Edits(<<>>, <<>>)
    /\ stained' = (stained \/ pending # None)
    /\ UNCHANGED pending

\* action_recall_previous_prompt, into an empty prompt
Recall ==
    /\ text = <<>> /\ sent # <<>> /\ items = <<>>
    /\ text' = sent[1] /\ meant' = text' /\ changed' = TRUE
    /\ Completes(text')
    /\ stained' = (stained \/ pending # None)
    /\ UNCHANGED <<pending, last, sent>>

\* on_text_area_changed and _detect_paste
Notice ==
    /\ changed
    /\ IF Length(text) - last > Threshold /\ Length(text) > Threshold
       THEN /\ pending' = text /\ text' = <<Mark>> /\ changed' = TRUE
            /\ items' = <<>> /\ selected' = 1
       ELSE /\ changed' = FALSE /\ Completes(text)
            /\ UNCHANGED <<text, pending>>
    /\ last' = Length(text')
    /\ UNCHANGED <<meant, sent, stained>>

\* Mutant: what was typed behind the placeholder is dropped.
WholePasted(t, content) == IF content = None THEN t ELSE content

\* The content, then what stands behind its placeholder
Whole(t, content) ==
    IF content = None THEN t
    ELSE content \o (IF t # <<>> /\ t[1] = Mark THEN Tail(t) ELSE t)

\* _submit_prompt_from_editor: a completion is applied first, then the prompt is taken; or it
\* stays while the session is compacted.
Submit(compacting) ==
    LET raw == Whole(text, pending) IN
    /\ Len(raw) <= 2 * MaxLength
    /\ pending' = None /\ changed' = TRUE
    /\ IF items # <<>> /\ Len(raw) < MaxLength
       THEN /\ text' = Append(raw, Key) /\ meant' = Append(meant, Key)
            /\ Completes(text')
            /\ UNCHANGED sent
       ELSE /\ items' = <<>> /\ selected' = 1
            /\ IF compacting /\ raw # <<>>
               THEN text' = raw /\ UNCHANGED <<meant, sent>>
               ELSE /\ text' = <<>> /\ meant' = <<>>
                    /\ sent' = IF raw = <<>> THEN sent ELSE <<raw, meant>>
    /\ UNCHANGED <<last, stained>>

-----------------------------------------------------------------------------
\* Nothing is said of what follows a stain.
Next == ~stained /\
    \/ Type \/ Backspace \/ Clear \/ ClearKey \/ Recall \/ Notice \/ Accept
    \/ \E p \in Pastes : Paste(p)
    \/ \E step \in {1, -1} : Select(step)
    \/ \E compacting \in BOOLEAN : Submit(compacting)

Spec == Init /\ [][Next]_vars

-----------------------------------------------------------------------------
\* The types of the variables.
TypeOK ==
    /\ Len(text) <= 3 * MaxLength /\ last \in Nat /\ changed \in BOOLEAN /\ stained \in BOOLEAN
    /\ items # <<>> => selected \in DOMAIN items

\* What is submitted is what was entered, whatever was pasted, shown as a placeholder, recalled,
\* or kept back by a compaction: unless a placeholder was edited, pasted over, or cleared by key.
SentIsMeant == sent # <<>> /\ ~stained => sent[1] = sent[2]

\* The selected completion is in sight, and the window fits or shows nothing else.
SelectionInSight ==
    items # <<>> =>
        LET window == Window(items, selected, Limit) IN
        /\ selected \in window[1]..window[2]
        /\ Lines(SubSeq(items, window[1], window[2])) <= Limit \/ window[1] = window[2]
=============================================================================
