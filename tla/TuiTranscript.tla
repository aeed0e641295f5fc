---------------------------- MODULE TuiTranscript ----------------------------
(***************************************************************************)
(* From the events of an agent (loop.py) to the transcript on the screen:  *)
(* the display state that the adapter keeps (tui/adapter.py, tui/state.py) *)
(* and the widgets that are mounted one by one beside it (tui/widgets.py). *)
(* A text is the number of its fragments.                                  *)
(***************************************************************************)
EXTENDS Naturals, Sequences, FiniteSets, SequencesExt

CONSTANTS None,
          MaxText,      \* bound: fragments of a message
          MaxMessages,  \* bound: messages
          MaxCalls,     \* bound: tool calls of a message
          MaxThoughts   \* bound: messages before the last answer that has thoughts

VARIABLES
    messages,  \* of the session: [role, text, calls], [role, id]
    phase,     \* what the loop does: "idle", "turn", "text", "done", "tools", "call"
    calls,     \* calls of the last message that are not executed
    items,     \* state.items: [role, text, id, result]
    buffer,    \* state.assistant_buffer
    using,     \* _using_message_update
    suppress,  \* _suppress_next_assistant_end
    mounted,   \* the widgets
    active,    \* those that receive fragments (0: none), and _hidden_thinking_placeholder_visible
    shows,     \* state.show_thinking
    cut        \* observed: "redrawn" inside a message, "split" by a thought, "interrupted", "failed"

vars == <<messages, phase, calls, items, buffer, using, suppress, mounted, active, shows, cut>>

Item(role, text, id) == [role |-> role, text |-> text, id |-> id, result |-> FALSE]
Text(n) == Item("assistant", n, None)
User == Item("user", 1, None)
Thinking == Item("thinking", 1, None)
IsThinking(item) == item.role = "thinking"
Nowhere == [text |-> 0, thought |-> 0, placeholder |-> FALSE]

Init ==
    /\ messages = <<>> /\ phase = "idle" /\ calls = <<>>
    /\ items = <<>> /\ buffer = 0 /\ using = FALSE /\ suppress = FALSE
    /\ mounted = <<>> /\ active = Nowhere /\ shows = FALSE /\ cut = {}

\* _flush_assistant_buffer
Flushed(list, n) == IF n = 0 THEN list ELSE Append(list, Text(n))

\* _visible_transcript_items: thoughts that are hidden have one placeholder, at the first of them.
Visible(list, n, show) ==
    LET seen(shown, item) ==
            IF ~show /\ IsThinking(item) /\ \E i \in DOMAIN shown : IsThinking(shown[i])
            THEN shown ELSE Append(shown, item)
    IN  Flushed(FoldLeft(seen, <<>>, list), n)

\* record_tool_result: to the last item with its id, or an item of its own
Recorded(list, id) ==
    LET same == {i \in DOMAIN list : list[i].role = "tool" /\ list[i].id = id} IN
    IF same = {} THEN Append(list, [Item("tool", 0, id) EXCEPT !.result = TRUE])
    ELSE [list EXCEPT ![CHOOSE i \in same : \A j \in same : i >= j].result = TRUE]

\* load_messages
Restored(list) ==
    FoldLeft(LAMBDA shown, m :
        IF m.role = "user" THEN Append(shown, User)
        ELSE IF m.role = "tool" THEN Recorded(shown, m.calls[1])
        ELSE Flushed(shown, m.text) \o [i \in DOMAIN m.calls |-> Item("tool", 1, m.calls[i])],
        <<>>, list)

Message(role, text, ids) == [role |-> role, text |-> text, calls |-> ids]

\* _redraw
Redraws(list, n, show) ==
    /\ mounted' = Visible(list, n, show)
    /\ active' = [Nowhere EXCEPT !.placeholder = ~show /\ \E i \in DOMAIN list : IsThinking(list[i])]

\* finish_assistant_message without a text, then append_item
Appends(item) == mounted' = Append(mounted, item) /\ active' = Nowhere

-----------------------------------------------------------------------------
(* Events of the loop, each applied to the state and to the widgets *)

Adapter == <<using, suppress, shows>>

\* A message of the user: the prompt, or one that was queued.
UserEnd ==
    /\ phase \in {"idle", "turn"} /\ Len(messages) < MaxMessages
    /\ messages' = Append(messages, Message("user", 1, <<>>))
    /\ phase' = "turn"
    /\ items' = Append(items, User)
    /\ Redraws(items', buffer, shows)
    /\ UNCHANGED <<calls, buffer, Adapter, cut>>

\* MessageStartEvent
MessageStart ==
    /\ phase = "turn" /\ Len(messages) < MaxMessages
    /\ phase' = "text" /\ buffer' = 0
    /\ UNCHANGED <<messages, calls, items, Adapter, mounted, active, cut>>

\* A fragment, as MessageUpdateEvent and as MessageDeltaEvent
Delta ==
    /\ phase = "text" /\ buffer < MaxText
    /\ using' = TRUE /\ buffer' = buffer + 1
    /\ mounted' = IF active.text # 0 THEN [mounted EXCEPT ![active.text].text = @ + 1]
                                     ELSE Append(mounted, Text(1))
    /\ active' = [Nowhere EXCEPT !.text = IF active.text # 0 THEN active.text ELSE Len(mounted')]
    /\ UNCHANGED <<messages, phase, calls, items, suppress, shows, cut>>

\* add_thinking_delta of the state: the last block grows, or a new one begins.
Thought(list) == IF list # <<>> /\ IsThinking(Last(list)) THEN list ELSE Append(list, Thinking)

\* append_thinking_delta: a hidden thought gets a placeholder, after which a text begins a new widget.
ThoughtDelta ==
    /\ phase = "text" /\ Len(messages) <= MaxThoughts
    /\ using' = TRUE /\ items' = Thought(items)
    /\ CASE shows /\ active.thought = 0 ->
              /\ mounted' = Append(mounted, Thinking)
              /\ active' = [active EXCEPT !.thought = Len(mounted'), !.placeholder = FALSE]
         [] shows /\ active.thought # 0 -> UNCHANGED <<mounted, active>>
         [] ~shows /\ ~active.placeholder ->
              /\ mounted' = Append(mounted, Thinking)
              /\ active' = [Nowhere EXCEPT !.placeholder = TRUE]
         [] OTHER -> UNCHANGED <<mounted, active>>
    /\ cut' = IF active.text # 0 /\ active'.text = 0 THEN cut \cup {"split"} ELSE cut
    /\ UNCHANGED <<messages, phase, calls, buffer, suppress, shows>>

\* Mutant: the buffer is not emptied.
DoneKeeps == buffer

Emptied == 0

\* AssistantDoneEvent: the message is an item now.
Done ==
    /\ phase = "text"
    /\ \E n \in 0..MaxCalls :
           /\ buffer + n > 0
           /\ calls' = [i \in 1..n |-> i]
           /\ messages' = Append(messages, Message("assistant", buffer, calls'))
    /\ phase' = "done"
    /\ items' = Flushed(items, buffer)
    /\ buffer' = Emptied
    /\ using' = FALSE /\ suppress' = TRUE
    /\ UNCHANGED <<mounted, active, shows, cut>>

\* Mutant: a message that is an item already is added again.
EndedAgain(list, text) == IF using THEN list ELSE Flushed(list, text)

\* _suppress_next_assistant_end: the item of AssistantDoneEvent stands.
Ended(list, text) == IF suppress \/ using THEN list ELSE Flushed(list, text)

\* finish_assistant_message with the whole text: for the widget that receives fragments, or in one of its own
Finished(text) ==
    IF active.text # 0
    THEN mounted' = [mounted EXCEPT ![active.text].text = text] /\ active' = [active EXCEPT !.text = 0]
    ELSE IF text = 0 THEN UNCHANGED <<mounted, active>> ELSE Appends(Text(text))

\* MessageEndEvent of the assistant
MessageEnd ==
    LET text == messages[Len(messages)].text IN
    /\ phase = "done"
    /\ phase' = IF calls = <<>> THEN "turn" ELSE "tools"
    /\ suppress' = FALSE
    /\ items' = Ended(items, text)
    /\ Finished(text)
    /\ UNCHANGED <<messages, calls, buffer, using, shows, cut>>

ToolStart ==
    /\ phase = "tools" /\ calls # <<>>
    /\ phase' = "call"
    /\ items' = Append(Flushed(items, buffer), Item("tool", 1, Head(calls))) /\ buffer' = 0
    /\ Appends(items'[Len(items')])
    /\ UNCHANGED <<messages, calls, Adapter, cut>>

ToolEnd ==
    /\ phase = "call"
    /\ calls' = Tail(calls) /\ phase' = IF calls' = <<>> THEN "turn" ELSE "tools"
    /\ messages' = Append(messages, Message("tool", 0, <<Head(calls)>>))
    /\ items' = Recorded(items, Head(calls))
    /\ Redraws(items', buffer, shows)
    /\ UNCHANGED <<buffer, Adapter, cut>>

\* The provider fails, with what it had sent shown as an item.
Fails ==
    /\ phase \in {"turn", "text"} /\ cut = {}
    /\ phase' = "turn" /\ cut' = cut \cup {"failed"}
    /\ items' = Append(Flushed(items, buffer), Item("error", 1, None)) /\ buffer' = 0
    /\ Appends(items'[Len(items')])
    /\ UNCHANGED <<messages, calls, Adapter>>

AgentEnd ==
    /\ phase = "turn" /\ messages # <<>>
    /\ phase' = "idle"
    /\ items' = Flushed(items, buffer) /\ buffer' = 0
    /\ active' = [active EXCEPT !.text = 0]
    /\ UNCHANGED <<messages, calls, Adapter, mounted, cut>>

\* _cancel_active_prompt: no event of this run comes any more.
Cancel ==
    /\ phase # "idle" /\ cut = {}
    /\ phase' = "idle" /\ cut' = cut \cup {"interrupted"}
    /\ calls' = <<>> /\ buffer' = 0
    /\ Redraws(items, 0, shows)
    /\ UNCHANGED <<messages, items, Adapter>>

Midway == phase = "done" \/ (phase = "text" /\ buffer > 0)

\* The terminal is resized, a message is queued, or a key shows or hides results.
Redraw ==
    /\ cut' = IF Midway THEN cut \cup {"redrawn"} ELSE cut
    /\ Redraws(items, buffer, shows)
    /\ UNCHANGED <<messages, phase, calls, items, buffer, Adapter>>

\* action_toggle_thinking
ToggleThinking ==
    /\ shows' = ~shows
    /\ Redraws(items, buffer, shows')
    /\ cut' = IF Midway THEN cut \cup {"redrawn"} ELSE cut
    /\ UNCHANGED <<messages, phase, calls, items, buffer, using, suppress>>

-----------------------------------------------------------------------------
Next ==
    \/ UserEnd \/ MessageStart \/ Delta \/ Done \/ MessageEnd \/ ToolStart \/ ToolEnd \/ Fails
    \/ AgentEnd \/ Cancel \/ Redraw \/ ThoughtDelta \/ ToggleThinking

Spec == Init /\ [][Next]_vars

-----------------------------------------------------------------------------
\* The types of the variables.
TypeOK ==
    /\ buffer \in 0..MaxText /\ using \in BOOLEAN /\ suppress \in BOOLEAN /\ shows \in BOOLEAN
    /\ active.text \in 0..Len(mounted) /\ active.thought \in 0..Len(mounted)
    /\ active.text # 0 => mounted[active.text].role = "assistant"

\* Thoughts are shown while they come and are not restored.
Spoken(list) == SelectSeq(list, LAMBDA item : ~IsThinking(item))

\* After a turn that was neither interrupted nor failed the transcript is the one that a load of
\* the session would show (state.py, "for live and restored transcript blocks"), but for thoughts.
LiveIsRestored == phase = "idle" /\ cut \subseteq {"redrawn", "split"} => Spoken(items) = Restored(messages)

\* And every item is mounted once, unless the transcript was drawn anew, or a hidden thought came,
\* in the middle of a message.
MountedOnce ==
    phase \in {"idle", "turn", "tools"} /\ cut \cap {"redrawn", "split"} = {} =>
        Spoken(mounted) = Flushed(Spoken(items), buffer)
=============================================================================
