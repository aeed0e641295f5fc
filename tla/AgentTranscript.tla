--------------------------- MODULE AgentTranscript ---------------------------
(***************************************************************************)
(* One coding session: the loop of tau_agent (loop.py), the harness that   *)
(* owns the transcript (harness.py), and CodingSession, which persists it  *)
(* as a tree of entries (session/*.py), compacts it, moves in its branches *)
(* and repairs it when it is loaded.  A message is its role and the tool   *)
(* calls it makes or answers; a step is what happens between two awaits.   *)
(***************************************************************************)
EXTENDS Naturals, Sequences, FiniteSets, SequencesExt

CONSTANTS None,
          MaxEntries, MaxCalls,  \* bounds: entries of the storage, ids of calls
          MaxEvents              \* bound: cancels, kills, restarts, compactions, branches, queued messages

VARIABLES
    mem,     \* messages of the harness
    log,     \* entries, but for the leaves
    leaf,    \* what the last leaf entry points to, 0 for before the first entry
    rows,    \* the context of _state: entries and their messages
    last,    \* _last_parent_id
    at,      \* where the turn is
    next,    \* where it goes when everything is persisted
    count,   \* persisted_count
    calls,   \* tool calls of the last answer that are not executed yet
    signal,  \* the cancellation token
    queue,   \* how many steering and follow-up messages wait
    retry,   \* the context overflowed: "no", "seen", "done"
    used,    \* ids of calls given out
    killed,  \* observed: a turn was killed "since" the session was loaded, "before" that (or a
             \* summary was put behind a tool call), or not: "no"
    left     \* how many such events may still come

vars == <<mem, log, leaf, rows, last, at, next, count, calls, signal, queue, retry, used, killed, left>>

User == [role |-> "user", calls |-> <<>>]
Answer(ids) == [role |-> "assistant", calls |-> ids]
Result(id) == [role |-> "tool", calls |-> <<id>>]

Init ==
    /\ mem = <<>> /\ log = <<>> /\ leaf = None /\ rows = <<>> /\ last = 0
    /\ at = "idle" /\ next = "idle" /\ count = 0 /\ calls = <<>> /\ signal = FALSE
    /\ queue = [steer |-> 0, follow |-> 0] /\ retry = "no" /\ used = 0 /\ killed = "no"
    /\ left = MaxEvents

-----------------------------------------------------------------------------
(* Transcripts *)

Returned(messages) == {messages[i].calls[1] : i \in {j \in DOMAIN messages : messages[j].role = "tool"}}

Made(message) == IF message.role = "assistant" THEN message.calls ELSE <<>>

Missing(message, messages) == SelectSeq(Made(message), LAMBDA id : id \notin Returned(messages))

Results(ids) == [i \in DOMAIN ids |-> Result(ids[i])]

\* Mutant: only the last message is looked at.
InterruptedLast(messages) ==
    IF messages = <<>> THEN <<>> ELSE Results(Missing(messages[Len(messages)], messages))

\* _append_interrupted_tool_results: at the end, wherever the call was
Interrupted(messages) ==
    FlattenSeq([i \in DOMAIN messages |-> Results(Missing(messages[i], messages))])

\* _interrupted_tool_repair_plan: behind the call
Repaired(messages) ==
    FlattenSeq([i \in DOMAIN messages |-> <<messages[i]>> \o Results(Missing(messages[i], messages))])

-----------------------------------------------------------------------------
(* Entries *)

Entry(parent, kind, message, replaces) ==
    [parent |-> parent, kind |-> kind, message |-> message, replaces |-> replaces]

\* path_to_entry
Path(entries, id) ==
    LET path[i \in 0..Len(entries)] == IF i = 0 THEN <<>> ELSE Append(path[entries[i].parent], i)
    IN  path[id]

\* _apply_compaction: the summary takes the place of the first message that it replaces.
Compacted(context, id, replaces) ==
    LET gone == {i \in DOMAIN context : context[i].id \in replaces}
        first == IF gone = {} THEN Len(context) + 1
                 ELSE CHOOSE i \in gone : \A j \in gone : i <= j
        kept(from, to) == SelectSeq(SubSeq(context, from, to), LAMBDA row : row.id \notin replaces)
    IN  kept(1, first - 1) \o <<[id |-> id, message |-> User]>> \o kept(first, Len(context))

\* SessionState.from_entries
Replayed(entries, path) ==
    FoldLeft(LAMBDA context, id :
                 IF entries[id].kind = "compaction"
                 THEN Compacted(context, id, entries[id].replaces)
                 ELSE Append(context, [id |-> id, message |-> entries[id].message]),
             <<>>, path)

Rows(entries, id) == Replayed(entries, Path(entries, id))

Messages(context) == [i \in DOMAIN context |-> context[i].message]
Ids(context) == {context[i].id : i \in DOMAIN context}

-----------------------------------------------------------------------------
(* Persistence *)

Turn == <<calls, signal, queue, retry, used>>

\* Mutant: only the newest message is persisted.
SavesNewest(messages, since, to) ==
    /\ mem' = messages /\ count' = IF since < Len(messages) THEN Len(messages) - 1 ELSE since
    /\ IF since < Len(messages) THEN at' = "save" /\ next' = to ELSE at' = to /\ UNCHANGED next

\* _persist_messages_since, then the turn goes on
Saves(messages, since, to) ==
    /\ mem' = messages /\ count' = since
    /\ IF since < Len(messages) THEN at' = "save" /\ next' = to ELSE at' = to /\ UNCHANGED next

SaveEntry ==
    /\ at = "save" /\ Len(log) < MaxEntries
    /\ log' = Append(log, Entry(last, "message", mem[count + 1], {}))
    /\ last' = Len(log')
    /\ at' = "leaf"
    /\ UNCHANGED <<mem, leaf, rows, next, count, Turn, killed, left>>

SaveLeaf ==
    /\ at = "leaf"
    /\ leaf' = last /\ count' = count + 1
    /\ IF count + 1 < Len(mem) THEN at' = "save" /\ UNCHANGED rows
       ELSE at' = next /\ rows' = Rows(log, last)
    /\ UNCHANGED <<mem, log, last, next, Turn, killed, left>>

Store == <<log, leaf, rows, last>>

\* The steps of _append_compaction behind its first entry
Compacting == {"compacted", "refresh"}

-----------------------------------------------------------------------------
(* A turn *)

Prompt ==
    /\ at = "idle" /\ Len(log) + 4 < MaxEntries
    /\ Saves(mem \o Interrupted(mem) \o <<User>>, Len(mem), "stream")
    /\ signal' = FALSE /\ retry' = "no" /\ calls' = <<>>
    /\ UNCHANGED <<Store, queue, used, killed, left>>

\* run_terminal_command, its output added to the context
Terminal ==
    /\ at = "idle" /\ left > 0 /\ Len(log) < MaxEntries
    /\ Saves(Append(mem, User), Len(mem), "idle")
    /\ left' = left - 1
    /\ UNCHANGED <<Store, Turn, killed>>

\* The provider answers, fails, or finds the context too long; a cancelled run ends.
Stream ==
    /\ at = "stream"
    /\ \/ ~signal /\ Len(log) < MaxEntries
          /\ \E n \in 0..MaxCalls - used :
                 LET ids == [i \in 1..n |-> used + i] IN
                 /\ Saves(Append(mem, Answer(ids)), count, IF n = 0 THEN "drain" ELSE "tools")
                 /\ calls' = ids /\ used' = used + n
          /\ UNCHANGED retry
       \/ /\ at' = "finish"
          /\ retry' \in IF retry = "no" /\ ~signal THEN {"no", "seen"} ELSE {retry}
          /\ UNCHANGED <<mem, count, next, calls, used>>
    /\ UNCHANGED <<Store, signal, queue, killed, left>>

\* _execute_tool_calls: one call, or the results of all that are left when cancelled
Tool ==
    /\ at = "tools" /\ calls # <<>>
    /\ LET done == IF signal THEN calls ELSE <<Head(calls)>> IN
       /\ mem' = mem \o Results(done)
       /\ calls' = SubSeq(calls, Len(done) + 1, Len(calls))
    /\ UNCHANGED <<Store, at, next, count, signal, queue, retry, used, killed, left>>

\* One steering message after the tools, and one of either queue where the run would stop.
Drain ==
    /\ at = "drain" \/ (at = "tools" /\ calls = <<>>)
    /\ \/ /\ queue.steer > 0
          /\ Saves(Append(mem, User), count, "stream")
          /\ queue' = [queue EXCEPT !.steer = @ - 1]
       \/ /\ queue.steer = 0 /\ queue.follow > 0 /\ at = "drain"
          /\ Saves(Append(mem, User), count, "stream")
          /\ queue' = [queue EXCEPT !.follow = @ - 1]
       \/ /\ queue.steer = 0 /\ (queue.follow = 0 \/ at = "tools")
          /\ at' = IF at = "drain" THEN "finish" ELSE "stream"
          /\ UNCHANGED <<mem, count, next, queue>>
    /\ UNCHANGED <<Store, calls, signal, retry, used, killed, left>>

\* The harness ends the run and repairs a cancelled one, then what is new is persisted.
Finish ==
    /\ at = "finish"
    /\ Saves(mem \o (IF signal THEN Interrupted(mem) ELSE <<>>), count,
             IF retry = "seen" THEN "overflow" ELSE "idle")
    /\ UNCHANGED <<Store, Turn, killed, left>>

Cancel ==
    /\ at \in {"stream", "tools", "drain", "save", "leaf"} /\ ~signal /\ left > 0
    /\ signal' = TRUE
    /\ left' = left - 1
    /\ UNCHANGED <<mem, Store, at, next, count, calls, queue, retry, used, killed>>

Queue(kind) ==
    /\ at \in {"stream", "tools", "drain", "save", "leaf"} /\ left > 0
    /\ queue' = [queue EXCEPT ![kind] = @ + 1]
    /\ left' = left - 1
    /\ UNCHANGED <<mem, Store, at, next, count, calls, signal, retry, used, killed>>

\* The task is cancelled or the generator closed: what is not persisted yet stays in memory
\* only.  An entry that is being written, or a leaf, is written all the same, and what was read is kept.
Kill ==
    /\ at \notin {"idle", "down"} /\ left > 0
    /\ at' = "idle" /\ killed' = "since"
    /\ mem' = mem \o (IF signal /\ at \notin Compacting THEN Interrupted(mem) ELSE <<>>)
    /\ \/ UNCHANGED <<log, leaf, rows>>
       \/ /\ at = "save" /\ Len(log) < MaxEntries /\ log' = Append(log, Entry(last, "message", mem[count + 1], {}))
          /\ UNCHANGED <<leaf, rows>>
       \/ at = "leaf" /\ leaf' = last /\ UNCHANGED <<log, rows>>
       \/ at = "compacted" /\ leaf' = Len(log) /\ UNCHANGED <<log, rows>>
       \/ at = "refresh" /\ rows' = Rows(log, last) /\ UNCHANGED <<log, leaf>>
    /\ left' = left - 1
    /\ UNCHANGED <<last, next, count, Turn>>

-----------------------------------------------------------------------------
(* Compaction *)

NextUser(context, from) ==
    {i \in from..Len(context) : /\ context[i].message.role = "user"
                                /\ \A j \in from..i - 1 : context[j].message.role # "user"}

\* Mutant: the cut is where the budget ends.
CutAnywhere(context, candidate) == candidate

\* _first_recent_context_index, where the budget ends at candidate: what is kept begins with a
\* message of the user, or else with one that is not the result of a tool.
Cut(context, candidate) ==
    LET after == NextUser(context, candidate + 1)
        plain == {i \in candidate..Len(context) : context[i].message.role # "tool"} IN
    IF context[candidate].message.role = "user" /\ candidate > 1 THEN candidate
    ELSE IF after # {} THEN CHOOSE i \in after : TRUE
    ELSE IF context[candidate].message.role = "user" THEN 1
    ELSE IF plain # {} THEN CHOOSE i \in plain : \A j \in plain : i <= j
    ELSE Len(context) + 1

\* _append_compaction: the entry, its leaf, and what is then read and given to the harness
Compacts(kept, to) ==
    /\ left > 0 /\ kept > 1 /\ Len(log) < MaxEntries
    /\ left' = left - 1
    /\ log' = Append(log, Entry(last, "compaction", User, {rows[i].id : i \in 1..kept - 1}))
    /\ at' = "compacted" /\ next' = to
    /\ UNCHANGED <<mem, leaf, rows, last, count>>

CompactLeaf ==
    /\ at = "compacted" /\ at' = "refresh"
    /\ leaf' = Len(log) /\ last' = Len(log)
    /\ UNCHANGED <<mem, log, rows, next, count, Turn, killed, left>>

\* The run that is continued after an overflow repairs what it begins with.
Refresh ==
    /\ at = "refresh"
    /\ rows' = Rows(log, last)
    /\ Saves(Messages(rows') \o (IF next = "stream" THEN Interrupted(Messages(rows')) ELSE <<>>), Len(rows'), next)
    /\ UNCHANGED <<log, leaf, last, Turn, killed, left>>

Cuts == {Cut(rows, i) : i \in DOMAIN rows}

\* compact(), or the automatic compaction before or after a prompt
Compact ==
    /\ at = "idle" /\ rows # <<>>
    /\ \E kept \in {Len(rows) + 1} \cup (IF Len(rows) > 1 THEN Cuts ELSE {}) : Compacts(kept, "idle")
    /\ UNCHANGED <<calls, signal, queue, retry, used, killed>>

\* The context overflowed: one compaction, then the run is continued.
Overflow ==
    /\ at = "overflow" /\ retry' = "done"
    /\ \/ \E kept \in IF Len(rows) > 1 THEN Cuts ELSE {} : Compacts(kept, "stream")
       \/ at' = "idle" /\ UNCHANGED <<mem, Store, next, count, left>>
    /\ UNCHANGED <<calls, signal, queue, used, killed>>

-----------------------------------------------------------------------------
(* Branches and loading *)

\* branch_to_entry: before a message of the user, at another one, or behind a summary of what
\* was abandoned
Branch ==
    /\ at = "idle" /\ left > 0 /\ Len(log) < MaxEntries
    /\ \E id \in DOMAIN log :
           /\ log[id].message.role # "tool"
           /\ \/ /\ log' = Append(log, Entry(id, "summary", User, {}))
                 /\ leaf' = Len(log')
                 /\ killed' = IF Made(log[id].message) # <<>> /\ killed = "no" THEN "before" ELSE killed
              \/ /\ leaf' = IF log[id].kind = "message" /\ log[id].message = User
                            THEN log[id].parent ELSE id
                 /\ UNCHANGED <<log, killed>>
    /\ last' = leaf' /\ rows' = Rows(log', leaf') /\ mem' = Messages(rows')
    /\ left' = left - 1
    /\ UNCHANGED <<at, next, count, Turn>>

Stains(linear) == IF linear THEN "since" ELSE IF killed = "no" THEN "no" ELSE "before"

Crash ==
    /\ at # "down" /\ left > 0
    /\ at' = "down"
    /\ left' = left - 1
    /\ UNCHANGED <<mem, Store, next, count, Turn, killed>>

\* _persist_loaded_interrupted_tool_repairs: the entries of a branch behind the last message before the
\* first call that was interrupted
Repairs(context, new) ==
    LET same == {i \in 0..Len(context) : \A j \in 1..i : context[j].message = new[j]}
        prefix == CHOOSE i \in same : \A j \in same : j <= i
    IN  [i \in 1..Len(new) - prefix |->
            Entry(IF i = 1 THEN context[prefix].id ELSE Len(log) + i - 1, "message", new[prefix + i], {})]

\* load(): without a leaf everything is replayed.
Load ==
    LET context == IF leaf = None THEN Replayed(log, [i \in DOMAIN log |-> i]) ELSE Rows(log, leaf)
        old == Messages(context)
        new == Repaired(old)
        entries == Repairs(context, new)
    IN
    /\ at = "down" /\ at' = "idle" /\ killed' = Stains(leaf = None /\ Len(log) > 1)
    /\ IF new = old
       THEN /\ last' = IF leaf = None THEN Len(log) ELSE leaf
            /\ rows' = context /\ mem' = old
            /\ UNCHANGED <<log, leaf>>
       ELSE /\ Len(log) + Len(entries) <= MaxEntries
            /\ log' = log \o entries
            /\ leaf' = Len(log') /\ last' = Len(log')
            /\ rows' = Rows(log', leaf') /\ mem' = Messages(rows')
    /\ queue' = [steer |-> 0, follow |-> 0]
    /\ UNCHANGED <<next, count, calls, signal, retry, used, left>>

-----------------------------------------------------------------------------
Next ==
    \/ SaveEntry \/ SaveLeaf \/ Prompt \/ Terminal \/ Stream \/ Tool \/ Drain \/ Finish \/ Cancel \/ Kill
    \/ \E kind \in {"steer", "follow"} : Queue(kind)
    \/ Compact \/ Overflow \/ CompactLeaf \/ Refresh \/ Branch \/ Crash \/ Load

Spec == Init /\ [][Next]_vars

-----------------------------------------------------------------------------
\* The types of the variables.
TypeOK ==
    /\ Len(log) <= MaxEntries /\ leaf \in 0..Len(log) \cup {None} /\ last \in 0..Len(log)
    /\ \A i \in DOMAIN log : log[i].parent < i
    /\ at \in {"idle", "save", "leaf", "stream", "tools", "drain", "finish", "overflow", "down"} \cup Compacting
    /\ queue.steer + queue.follow <= MaxEvents /\ used <= MaxCalls

\* What the provider is sent answers every tool call that it contains, after a cancelled or
\* killed turn, a compaction, a branch or a crash: harness.py:287, "providers reject a transcript
\* where an assistant tool call has no matching tool result".
CallsAnswered == at = "stream" => \A i \in DOMAIN mem : Missing(mem[i], mem) = <<>>

\* No result of a tool is sent without its call, or twice, whatever was cancelled or compacted and wherever
\* the session branched.  Not so once a turn was killed, whose answer may stay in memory only while the repair of
\* its calls is stored with the next prompt, nor behind a summary that was put between a call and its result.
ResultsHaveCalls ==
    at = "stream" /\ killed = "no" => \A i \in DOMAIN mem : mem[i].role = "tool" =>
        /\ \E j \in 1..i - 1 : mem[i].calls[1] \in ToSet(Made(mem[j]))
        /\ \A j \in DOMAIN mem : mem[j] = mem[i] => j = i

\* What a load would restore is what the session goes on with, unless a turn was killed since it was loaded.
DurableIsLive ==
    at = "idle" /\ killed # "since" =>
        /\ leaf # None => Rows(log, leaf) = rows /\ last = leaf
        /\ Messages(rows) = mem
=============================================================================
