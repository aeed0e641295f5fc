------------------------------ MODULE Timeline ------------------------------
(***************************************************************************)
(* What a run leaves behind for its readers: EventProjector                *)
(* (tau_web/events.py) stores the messages in timeline_messages and their  *)
(* usage, then tells its observers, one of them the dashboard; the         *)
(* timeline route and the agent's own "messages" tool page through the     *)
(* rows while others are appended and deleted.  Nothing in the program     *)
(* calls UsageRepository.purge_before.                                     *)
(***************************************************************************)
EXTENDS Integers, Sequences, SequencesExt, FiniteSets, FiniteSetsExt

CONSTANTS Sessions,
          Working,    \* the sessions whose runs are followed; of the others only the rows are
          Limit,      \* rows of a page
          MaxRows,    \* bound: messages
          MaxRuns     \* bound: runs of all sessions

TimelineAssumption == Working \subseteq Sessions /\ Limit \in Nat \ {0} /\ MaxRows \in Nat /\ MaxRuns \in Nat

VARIABLES
    rows,      \* timeline_messages by message_id: [session, role, deleted], and whether the answer came with its usage
    usage,     \* the rows whose usage was recorded
    run,       \* run[s]: how far its run is, by the events its driver has taken; "none" if there is no driver
    step,      \* step[s]: what the projector does with the current event of s: "event", "insert", "usage", "tell"
    event,     \* event[s]: that event
    runs,      \* runs so far
    cut,       \* observed: the sessions whose last run ended without its last event
    failed,    \* observed: the rows whose usage was lost because the projector raised
    preview,   \* preview[s]: what SessionDashboard shows of a session that works
    reader     \* one who pages: [session, back, cursor, got]; the route with after=, the tool with before_row=

vars == <<rows, usage, run, step, event, runs, cut, failed, preview, reader>>

Blank == [draft |-> FALSE, tool |-> FALSE]

Init ==
    /\ rows = <<>> /\ usage = {} /\ runs = 0 /\ cut = {} /\ failed = {}
    /\ run = [s \in Sessions |-> "none"]
    /\ step = [s \in Sessions |-> "event"] /\ event = [s \in Sessions |-> "none"]
    /\ preview = [s \in Sessions |-> Blank]
    /\ reader \in [session : Working, back : BOOLEAN, cursor : {0}, got : {<<>>}]

-----------------------------------------------------------------------------
(* The driver of a run *)

Begin(s) ==
    /\ run[s] = "none" /\ runs < MaxRuns /\ runs' = runs + 1
    /\ run' = [run EXCEPT ![s] = "turn"]
    /\ cut' = cut \ {s}
    /\ UNCHANGED <<rows, usage, step, event, failed, preview, reader>>

\* The order of a run's events: prompts, answers in pieces, the tools they call, an error perhaps, the end.
Follows(phase) ==
    CASE phase = "turn" -> {"user_end", "message_start", "error", "agent_end"}
      [] phase = "answer" -> {"delta", "assistant_end", "error"}
      [] phase = "tools" -> {"tool_start", "message_start", "agent_end"}
      [] phase = "tool" -> {"tool_update", "tool_end"}
      [] phase = "result" -> {"tool_message_end"}
      [] phase = "error" -> {"agent_end"}
      [] OTHER -> {}
After(e) ==
    CASE e = "user_end" -> "turn" [] e \in {"message_start", "delta"} -> "answer"
      [] e \in {"assistant_end", "tool_message_end"} -> "tools"
      [] e \in {"tool_start", "tool_update"} -> "tool" [] e = "tool_end" -> "result"
      [] e = "error" -> "error" [] e = "agent_end" -> "over"

Stored == {"user_end", "assistant_end", "tool_message_end"}
Role(e) == CASE e = "user_end" -> "user" [] e = "assistant_end" -> "assistant" [] OTHER -> "tool"

Emit(s) ==
    /\ step[s] = "event"
    /\ \E e \in Follows(run[s]) :
        /\ e \in Stored => Len(rows) < MaxRows
        /\ event' = [event EXCEPT ![s] = e]
        /\ run' = [run EXCEPT ![s] = After(e)]
        /\ step' = [step EXCEPT ![s] = IF e \in Stored THEN "insert" ELSE "tell"]
    /\ UNCHANGED <<rows, usage, runs, cut, failed, preview, reader>>

\* project_message_end: the id is given inside the transaction.  A provider may report no usage with its answer.
Insert(s) ==
    /\ step[s] = "insert" /\ Len(rows) < MaxRows
    /\ \E metered \in IF event[s] = "assistant_end" THEN BOOLEAN ELSE {FALSE} :
        /\ rows' = Append(rows, [session |-> s, role |-> Role(event[s]), deleted |-> FALSE, metered |-> metered])
        /\ step' = [step EXCEPT ![s] = IF metered THEN "usage" ELSE "tell"]
    /\ UNCHANGED <<usage, run, event, runs, cut, failed, preview, reader>>

Newest(s) == Max({i \in DOMAIN rows : rows[i].session = s})

\* The same for a session that is not followed: its rows share the ids.
InsertElsewhere(s) ==
    /\ s \notin Working /\ Len(rows) < MaxRows
    /\ rows' = Append(rows, [session |-> s, role |-> "user", deleted |-> FALSE, metered |-> FALSE])
    /\ UNCHANGED <<usage, run, step, event, runs, cut, failed, preview, reader>>

\* UsageRepository.record, after a read of the session
Record(s) ==
    /\ step[s] = "usage"
    /\ usage' = usage \cup {Newest(s)}
    /\ step' = [step EXCEPT ![s] = "tell"]
    /\ UNCHANGED <<rows, run, event, runs, cut, failed, preview, reader>>

\* Mutant: only the end of a message clears the preview.
ClearsAtMessage == {"user_end", "assistant_end", "tool_message_end"}
Clears == {"user_end", "assistant_end", "tool_message_end", "agent_end", "error"}

\* SessionDashboard.observe
Observed(p, e) ==
    IF e \in Clears \cup {"message_start"} THEN Blank
    ELSE [draft |-> p.draft \/ e = "delta",
          tool |-> e \in {"tool_start", "tool_update"} \/ (p.tool /\ e # "tool_end")]

Tell(s) ==
    /\ step[s] = "tell"
    /\ preview' = [preview EXCEPT ![s] = Observed(@, event[s])]
    /\ step' = [step EXCEPT ![s] = "event"] /\ event' = [event EXCEPT ![s] = "none"]
    /\ UNCHANGED <<rows, usage, run, runs, cut, failed, reader>>

\* The driver ends: after the last event, or early, when the run is killed or the projector raises.
End(s) ==
    /\ run[s] # "none"
    /\ run' = [run EXCEPT ![s] = "none"]
    /\ step' = [step EXCEPT ![s] = "event"] /\ event' = [event EXCEPT ![s] = "none"]
    /\ cut' = IF run[s] = "over" /\ step[s] = "event" THEN cut ELSE cut \cup {s}
    /\ failed' = IF step[s] = "usage" THEN failed \cup {Newest(s)} ELSE failed
    /\ UNCHANGED <<rows, usage, runs, preview, reader>>

\* The process starts again: previews are in memory, and so is every reader's place.
Restart ==
    /\ run' = [s \in Sessions |-> "none"]
    /\ step' = [s \in Sessions |-> "event"] /\ event' = [s \in Sessions |-> "none"]
    /\ failed' = failed \cup {Newest(s) : s \in {t \in Sessions : step[t] = "usage"}}
    /\ preview' = [s \in Sessions |-> Blank] /\ cut' = {}
    /\ UNCHANGED <<rows, usage, runs, reader>>

-----------------------------------------------------------------------------
(* Readers *)

Visible(s) == {i \in DOMAIN rows : rows[i].session = s /\ ~rows[i].deleted}
Ascending(ids) == SetToSortSeq(ids, <)
Descending(ids) == SetToSortSeq(ids, >)

\* Mutant: the newest rows come first and the limit cuts the older ones off.
PageNewest(s, after) == LET all == Ascending({i \in Visible(s) : i > after}) IN SubSeq(all, Max({1, Len(all) - Limit + 1}), Len(all))
\* list(after=, limit=)
Page(s, after) == LET all == Ascending({i \in Visible(s) : i > after}) IN SubSeq(all, 1, Min({Limit, Len(all)}))

\* list(before=, limit=, descending=True)
PageBefore(s, before) == LET all == Descending({i \in Visible(s) : i < before}) IN SubSeq(all, 1, Min({Limit, Len(all)}))

\* GET .../timeline?after=, and the tool, which starts from the newest row
Turn ==
    LET from == IF reader.back /\ reader.got = <<>> THEN Len(rows) + 1 ELSE reader.cursor
        page == IF reader.back THEN PageBefore(reader.session, from) ELSE Page(reader.session, from)
    IN  /\ page # <<>>
        /\ reader' = [reader EXCEPT !.cursor = Last(page), !.got = @ \o page]
        /\ UNCHANGED <<rows, usage, run, step, event, runs, cut, failed, preview>>

\* DELETE .../timeline/{id}: no row of the program has replies
SoftDelete(s, i) ==
    /\ i \in Visible(s) /\ rows' = [rows EXCEPT ![i].deleted = TRUE]
    /\ UNCHANGED <<usage, run, step, event, runs, cut, failed, preview, reader>>

\* get_with_context: rows around the chosen ones, counted over what is visible
Around(s, chosen, before, after) ==
    LET all == Ascending(Visible(s))
    IN  {all[n] : n \in {m \in DOMAIN all : \E c \in DOMAIN all : all[c] \in chosen /\ m \in (c - before)..(c + after)}}

Next ==
    \/ \E s \in Working : Begin(s) \/ Emit(s) \/ Insert(s) \/ Record(s) \/ Tell(s) \/ End(s)
    \/ \E s \in Sessions, i \in DOMAIN rows : SoftDelete(s, i)
    \/ \E s \in Sessions : InsertElsewhere(s)
    \/ Restart \/ Turn

Spec == Init /\ [][Next]_vars

-----------------------------------------------------------------------------
(* Properties *)

TypeOK ==
    /\ rows \in Seq([session : Sessions, role : {"user", "assistant", "tool"}, deleted : BOOLEAN, metered : BOOLEAN])
    /\ usage \subseteq DOMAIN rows /\ failed \subseteq DOMAIN rows /\ cut \subseteq Sessions
    /\ step \in [Sessions -> {"event", "insert", "usage", "tell"}]
    /\ preview \in [Sessions -> [draft : BOOLEAN, tool : BOOLEAN]]

\* Whoever pages through a session while it works and while rows are deleted gets every row that is not
\* deleted once, in order: forwards with after=, and backwards with before_row=.
PagesAreComplete ==
    LET got == reader.got IN
    /\ \A m, n \in DOMAIN got : m < n => IF reader.back THEN got[m] > got[n] ELSE got[m] < got[n]
    /\ got # <<>> => \A i \in Visible(reader.session) :
        i \in (IF reader.back THEN reader.cursor..Head(got) ELSE 1..reader.cursor) => i \in ToSet(got)

\* Usage is stored of answers alone, and every stored answer that came with its usage has it, is about to get it, or
\* lost it when its run was stopped in between.
UsageIsKept ==
    /\ \A i \in usage : rows[i].role = "assistant"
    /\ \A i \in DOMAIN rows : rows[i].metered =>
        i \in usage \cup failed \/ (step[rows[i].session] = "usage" /\ i = Newest(rows[i].session))

\* The dashboard shows a draft or a tool only of a session that works; a run that is killed leaves its last one behind.
PreviewIsLive == \A s \in Sessions : preview[s] # Blank => run[s] # "none" \/ s \in cut

\* The context of a row is the rows that are near it among those that can be seen, and nothing of another session.
ContextIsNear ==
    \A s \in Sessions : \A c \in Visible(s), i \in DOMAIN rows, before, after \in 0..1 :
        i \in Around(s, {c}, before, after) <=>
            /\ i \in Visible(s)
            /\ Cardinality({j \in Visible(s) : i < j /\ j <= c}) <= before
            /\ Cardinality({j \in Visible(s) : c <= j /\ j < i}) <= after
=============================================================================
