--------------------------- MODULE ProviderStream ---------------------------
(***************************************************************************)
(* One response of a model, streamed by the adapters of tau_ai: requests,  *)
(* retries, the events of the stream, and the tool calls put together from *)
(* fragments.  The adapters are kinds: "codex" (openai_codex.py), "chat"   *)
(* and "responses" (openai_compatible.py), "anthropic" (anthropic.py).     *)
(* The provider says texts, thoughts and calls, fails, or breaks off.      *)
(***************************************************************************)
EXTENDS Integers, Sequences, FiniteSets, SequencesExt

CONSTANTS None,
          Kinds, Calls,    \* calls are numbers: their output_index
          MaxRetries,
          MaxTexts         \* bound: texts of a response

VARIABLES
    kind,      \* the adapter
    attempt,   \* from 0
    phase,     \* "request", "stream", "waiting" for a retry, "over"
    signal,    \* the run's cancellation
    said,      \* what the provider has said in this attempt: texts, and of a call its progress
    shown,     \* emitted_content, emitted_thinking
    parts,     \* content_parts
    builders,  \* of a call, the tool call builder made for it
    routes,    \* codex: builders by item and by output index, and active_tools
    handed,    \* observed: texts and calls handed to the agent, over all attempts
    message,   \* the response_end event
    last,      \* how the stream ended for the agent
    cut        \* observed: the provider broke off within a call or before its end

vars == <<kind, attempt, phase, signal, said, shown, parts, builders, routes, handed, message, last, cut>>
parsing == <<said, shown, parts, builders, routes>>
ending == <<message, last, cut>>

Whole == 3    \* progress of a call: 1 announced, 2 and 3 its fragments, 4 done
Silence == [texts |-> 0, calls |-> [c \in Calls |-> 0]]
Empty == [name |-> None, args |-> <<>>]
NoRoutes == [item |-> [c \in Calls |-> None], index |-> [c \in Calls |-> None], active |-> {}]

Init ==
    /\ kind \in Kinds
    /\ attempt = 0 /\ phase = "request" /\ signal = FALSE
    /\ said = Silence /\ shown = FALSE /\ parts = <<>>
    /\ builders = [c \in Calls |-> Empty] /\ routes = NoRoutes
    /\ handed = [texts |-> <<>>, calls |-> <<>>] /\ message = None /\ last = "none" /\ cut = FALSE

-----------------------------------------------------------------------------
(* Requests and retries *)

Error == phase' = "over" /\ last' = "error" /\ UNCHANGED <<attempt, message, cut>>

\* Mutants: one retry too many; a response that has been seen in part is asked for again.
RetriesBeyond(transient) == transient /\ ~shown /\ attempt <= MaxRetries
RetriesSeen(transient) == transient /\ attempt < MaxRetries
\* _should_retry, for a failure in the stream
Retries(transient) == transient /\ ~shown /\ attempt < MaxRetries

FailsOr(retries) ==
    IF retries THEN attempt' = attempt + 1 /\ phase' = "waiting" /\ UNCHANGED ending ELSE Error

Refused(transient) ==
    /\ phase = "request"
    /\ FailsOr(transient /\ attempt < MaxRetries)
    /\ UNCHANGED <<kind, signal, parsing, handed>>

\* A network error, before the answer or within it
Drop ==
    /\ phase \in {"request", "stream"}
    /\ FailsOr(Retries(TRUE))
    /\ UNCHANGED <<kind, signal, parsing, handed>>

\* wait_for_retry
Waited ==
    /\ phase = "waiting"
    /\ phase' = IF signal THEN "over" ELSE "request"
    /\ last' = IF signal THEN "cancelled" ELSE last
    /\ UNCHANGED <<kind, attempt, signal, parsing, handed, message, cut>>

\* What an adapter keeps of one answer
Fresh ==
    /\ shown' = FALSE /\ parts' = <<>>
    /\ builders' = [c \in Calls |-> Empty] /\ routes' = NoRoutes

\* The answer begins: a fresh parser
Respond ==
    /\ phase = "request" /\ phase' = "stream"
    /\ said' = Silence /\ Fresh
    /\ UNCHANGED <<kind, attempt, signal, handed, ending>>

-----------------------------------------------------------------------------
(* Events of the stream.  The signal is looked at before each of them.     *)

Reading == phase = "stream" /\ ~signal

Stopped ==
    /\ phase = "stream" /\ signal
    /\ phase' = "over" /\ last' = "cancelled"
    /\ UNCHANGED <<kind, attempt, signal, parsing, handed, message, cut>>

Text ==
    /\ Reading /\ said.texts < MaxTexts
    /\ said' = [said EXCEPT !.texts = @ + 1]
    /\ parts' = Append(parts, said'.texts) /\ handed' = [handed EXCEPT !.texts = Append(@, said'.texts)]
    /\ shown' = TRUE
    /\ UNCHANGED <<kind, attempt, phase, signal, builders, routes, ending>>

Thought ==
    /\ Reading /\ shown' = TRUE
    /\ UNCHANGED <<kind, attempt, phase, signal, said, parts, builders, routes, handed, ending>>

\* _track_tool_builder
Track(c) == [routes EXCEPT !.item[c] = c, !.index[c] = c, !.active = @ \cup {c}]

\* output_item.added, content_block_start, the first delta of a call
Announce(c) ==
    /\ Reading /\ said.calls[c] = 0
    /\ said' = [said EXCEPT !.calls[c] = 1]
    /\ builders' = [builders EXCEPT ![c].name = c]
    /\ routes' = IF kind = "codex" THEN Track(c) ELSE routes
    /\ shown' = (shown \/ kind \in {"chat", "anthropic"})
    /\ UNCHANGED <<kind, attempt, phase, signal, parts, handed, ending>>

\* Mutant: without a key the first call of all is taken.
OnlyActiveFirst == IF said.calls = [c \in Calls |-> 0] THEN None ELSE CHOOSE b \in Calls : said.calls[b] # 0 /\ \A d \in Calls : said.calls[d] # 0 => b <= d
OnlyActive == IF Cardinality(routes.active) = 1 THEN CHOOSE b \in routes.active : TRUE ELSE None

\* _tool_builder_for_event: by the item's id, the output index, or the only call that is active
Found(c, keys) ==
    IF "item" \in keys /\ routes.item[c] # None THEN routes.item[c]
    ELSE IF "index" \in keys /\ routes.index[c] # None THEN routes.index[c]
    ELSE OnlyActive

\* Codex events may lack an id, as long as one call is active.
Builder(c, keys) == IF kind = "codex" THEN Found(c, keys) ELSE c
Keys(c) == {{"item"}, {"index"}} \cup (IF Cardinality({d \in Calls : said.calls[d] \in 1..Whole}) = 1 THEN {{}} ELSE {})

Fragment(c) ==
    /\ Reading /\ said.calls[c] \in 1..(Whole - 1)
    /\ said' = [said EXCEPT !.calls[c] = @ + 1]
    /\ \E keys \in Keys(c) :
        LET b == Builder(c, keys) IN
        builders' = IF b = None THEN builders ELSE [builders EXCEPT ![b].args = Append(@, <<c, said'.calls[c]>>)]
    /\ shown' = (shown \/ kind # "codex")
    /\ UNCHANGED <<kind, attempt, phase, signal, parts, routes, handed, ending>>

Arguments(c) == <<<<c, 2>>, <<c, 3>>>>
Call(b) == [name |-> b.name, args |-> b.args]

\* _untrack_tool_builder: under the id that the builder has by now
Untrack(now, b, c) ==
    [item |-> [now.item EXCEPT ![c] = IF @ = b THEN None ELSE @],
     index |-> [d \in Calls |-> IF now.index[d] = b THEN None ELSE now.index[d]],
     active |-> now.active \ {b}]

\* output_item.done: its arguments, when it carries them, replace the fragments.  An item that was not
\* announced carries all, while no other is active.  Codex hands the call over at once.
Done(c) ==
    /\ Reading /\ kind \in {"codex", "responses"} /\ said.calls[c] \in {0, Whole}
    /\ said.calls[c] = 0 => \A d \in Calls : said.calls[d] \in {0, 4}
    /\ said' = [said EXCEPT !.calls[c] = 4]
    /\ \E carries \in {TRUE} \cup {said.calls[c] = 0} :
       LET found == Builder(c, {"item", "index"})
           b == IF found = None THEN c ELSE found
           now == IF found = None THEN Track(c) ELSE routes
       IN  /\ builders' = [builders EXCEPT ![b] = [name |-> c, args |-> IF carries THEN Arguments(c) ELSE @.args]]
           /\ routes' = IF kind = "codex" THEN Untrack(now, b, c) ELSE routes
           /\ handed' = IF kind = "codex" THEN [handed EXCEPT !.calls = Append(@, Call(builders'[b]))] ELSE handed
    /\ shown' = (shown \/ kind = "codex")
    /\ UNCHANGED <<kind, attempt, phase, signal, parts, ending>>

\* An error in the stream: chat completions know no such event and skip it.
Fails(transient) ==
    /\ Reading
    /\ CASE kind \in {"codex", "anthropic"} -> FailsOr(Retries(transient))
         [] kind = "responses" -> Error
         [] kind = "chat" -> UNCHANGED <<attempt, phase, ending>>
    /\ UNCHANGED <<kind, signal, parsing, handed>>

\* A chunk that is no JSON
Invalid ==
    /\ Reading /\ kind \in {"chat", "anthropic"} /\ Error
    /\ UNCHANGED <<kind, signal, parsing, handed>>

Named(c) == builders[c].name # None

\* The calls with a name, in the order of their indexes
InOrder ==
    LET named == SetToSortSeq({c \in Calls : Named(c)}, <)
    IN  [k \in DOMAIN named |-> Call(builders[named[k]])]

\* The end of the response, or of its stream: finalize
Ends ==
    LET calls == IF kind = "codex" THEN handed.calls ELSE InOrder
    IN  /\ message' = [content |-> parts, calls |-> calls]
        /\ handed' = [handed EXCEPT !.calls = calls]
        /\ phase' = "over" /\ last' = "end"
        /\ UNCHANGED <<kind, attempt, signal, parsing>>

Complete == \A c \in Calls : said.calls[c] \in (IF kind \in {"codex", "responses"} THEN {0, 4} ELSE {0, Whole})

\* The provider ends its response when all of it is said, or at a limit on its length.
Finish == Reading /\ Ends /\ cut' = ~Complete

\* The connection is closed without an error: every adapter takes that for the end.
Eof == phase = "stream" /\ Ends /\ cut' = TRUE

Signal ==
    /\ ~signal /\ phase # "over" /\ signal' = TRUE
    /\ UNCHANGED <<kind, attempt, phase, parsing, handed, ending>>

Next ==
    \/ Respond \/ Drop \/ Waited \/ Stopped \/ Text \/ Thought \/ Invalid \/ Finish \/ Eof \/ Signal
    \/ \E transient \in BOOLEAN : Refused(transient) \/ Fails(transient)
    \/ \E c \in Calls : Announce(c) \/ Fragment(c) \/ Done(c)

Spec == Init /\ [][Next]_vars

-----------------------------------------------------------------------------
(* Properties *)

TypeOK ==
    /\ kind \in Kinds /\ attempt \in 0..MaxRetries /\ signal \in BOOLEAN /\ shown \in BOOLEAN /\ cut \in BOOLEAN
    /\ phase \in {"request", "stream", "waiting", "over"}
    /\ last \in {"none", "end", "error", "cancelled"} /\ (phase = "over" <=> last # "none")
    /\ said.texts \in 0..MaxTexts /\ parts \in Seq(Nat)
    /\ \A c \in Calls : builders[c].name \in Calls \cup {None} /\ routes.item[c] \in Calls \cup {None}

\* The agent is given every text once, however often the request was repeated: what was streamed is what
\* the message says, and the calls are those of the message.
StreamIsMessage ==
    /\ last = "end" => message.content = handed.texts /\ message.calls = handed.calls
    /\ phase = "stream" => handed.texts = parts
    /\ phase \in {"request", "waiting"} => handed.texts = <<>> /\ handed.calls = <<>>

\* Each call of a response that was not broken off is handed over once, under its own name and with its
\* own arguments, in whatever order the fragments of several calls arrive.
CallsAreTheirs ==
    last = "end" /\ ~cut =>
        /\ ToSet(message.calls) = {[name |-> c, args |-> Arguments(c)] : c \in {d \in Calls : said.calls[d] # 0}}
        /\ Len(message.calls) = Cardinality(ToSet(message.calls))

\* Codex hands over no call before its item is done, even when the response breaks off.
CodexCallsAreWhole ==
    kind = "codex" => \A k \in DOMAIN handed.calls : handed.calls[k].args = Arguments(handed.calls[k].name)
=============================================================================
