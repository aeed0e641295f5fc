----------------------------- MODULE Compaction -----------------------------
(***************************************************************************)
(* Compaction of a session's context (tau_coding/session.py), local and by *)
(* the provider.  A native compaction leaves one sentinel row, while what  *)
(* it stands for is an opaque state that the provider object replays: the  *)
(* state belongs to one provider and model, the log to the session, and    *)
(* the user switches models, branches, resumes and changes the settings.   *)
(***************************************************************************)
EXTENDS Integers, Sequences, FiniteSets, SequencesExt

CONSTANTS None,
          Providers, Models,
          Native,        \* providers with a compaction endpoint
          Setters,       \* providers whose adapter has set_remote_compaction_state
          Chat,          \* pairs of provider and model served by messages, not by Responses items
          MaxEntries     \* bound: entries of the log

\* The adapters of Responses have the setter.
CompactionAssumption ==
    /\ Native \subseteq Setters /\ Setters \subseteq Providers /\ Chat \subseteq Providers \X Models
    /\ (Providers \ Setters) \X Models \subseteq Chat
    /\ MaxEntries \in Nat

VARIABLES
    log,       \* the entries: turns and compactions
    leaf,      \* the entry the session stands at; 0 before the first
    provider,  \* the provider object: its name and the state it replays
    model,
    enabled,   \* provider_compaction_enabled
    phase,     \* "idle", "asked", "answered"
    sent,      \* observed: what the last request of the session held
    strayed    \* observed: by a switch or a failed refresh, the object does not replay what the branch depends on

vars == <<log, leaf, provider, model, enabled, phase, sent, strayed>>

\* What replaying the log up to an entry gives: the context rows, the native state it ends in, and all its turns
Root == [parent |-> 0, rows |-> <<>>, state |-> None, turns |-> {}]
At(n) == IF n = 0 THEN Root ELSE log[n]
Rows == At(leaf).rows
State == At(leaf).state

Row(turns) == [turns |-> turns, opaque |-> FALSE]
Sentinel == [turns |-> {}, opaque |-> TRUE]
Said(rows) == UNION {rows[i].turns : i \in DOMAIN rows}
Opaque(rows) == \E i \in DOMAIN rows : rows[i].opaque
Responses(p, m) == <<p, m>> \notin Chat

Init ==
    /\ log = <<>> /\ leaf = 0
    /\ \E p \in Providers : provider = [name |-> p, state |-> None]
    /\ model \in Models /\ enabled \in BOOLEAN
    /\ phase = "idle" /\ sent = None /\ strayed = FALSE

-----------------------------------------------------------------------------
(* Entries of the log *)

Appended(entry) == log' = Append(log, entry) /\ leaf' = Len(log) + 1

\* _apply_compaction: the rows it replaces, here always the first ones, become one row
Replaced(rows, count, row) == <<row>> \o SubSeq(rows, count + 1, Len(rows))

\* _append_compaction; _latest_remote_compaction_state is that of the last compaction of the branch
Compacted(count, row, state) ==
    Appended([parent |-> leaf, rows |-> Replaced(Rows, count, row), state |-> state, turns |-> At(leaf).turns])

\* Mutant: an opaque row is summarized like any other.
SummarizesAll(rows) == TRUE
\* _generate_compaction_summary raises when the sentinel is among the messages.
Summarizes(rows) == ~Opaque(rows)

Local(count) ==
    /\ Summarizes(SubSeq(Rows, 1, count))
    /\ Compacted(count, Row(Said(SubSeq(Rows, 1, count))), None)

\* Automatic compaction, and that after an overflow, keep the last rows; what they raise is only logged.
Auto ==
    \/ UNCHANGED <<log, leaf>>
    \/ \E count \in 1..(Len(Rows) - 1) : Len(log) < MaxEntries - 1 /\ Local(count)

-----------------------------------------------------------------------------
(* Turns *)

\* The input of a request.  A Responses adapter refuses a state of another provider or model; it prepends
\* its own and drops the sentinel.  Others send every row as it is.
Request ==
    IF Responses(provider.name, model)
    THEN LET s == provider.state IN
         IF s = None THEN [turns |-> Said(Rows), prose |-> FALSE]
         ELSE IF s.provider # provider.name \/ s.model # model THEN None
         ELSE [turns |-> s.turns \cup Said(Rows), prose |-> FALSE]
    ELSE [turns |-> Said(Rows), prose |-> Opaque(Rows)]

\* prompt: compaction before the turn
Prompt ==
    /\ phase = "idle" /\ Len(log) < MaxEntries
    /\ Auto
    /\ phase' = "asked"
    /\ UNCHANGED <<provider, model, enabled, sent, strayed>>

\* The agent loop sends the request; the turn is persisted whether it is answered or refused.
Ask ==
    LET turn == Len(log) + 1 IN
    /\ phase = "asked"
    /\ sent' = IF Request = None THEN None ELSE [got |-> Request.turns, prose |-> Request.prose, wanted |-> At(leaf).turns]
    /\ Appended([parent |-> leaf, rows |-> Append(Rows, Row({turn})), state |-> State, turns |-> At(leaf).turns \cup {turn}])
    /\ phase' = "answered"
    /\ UNCHANGED <<provider, model, enabled, strayed>>

\* Compaction after the turn, or after its overflow and then the turn again
After ==
    /\ phase = "answered" /\ Auto /\ phase' = "idle"
    /\ UNCHANGED <<provider, model, enabled, sent, strayed>>

-----------------------------------------------------------------------------
(* The user, between turns *)

Idle == phase = "idle" /\ UNCHANGED <<phase, sent>>

\* Mutant: the state before it is forgotten.
OverNothing == None
Previous == State

Own(state) == state.provider = provider.name /\ state.model = model

\* compact_context of an adapter: whether it asks its endpoint, and for the Responses items of whose state
Served(previous) ==
    /\ provider.name \in Native /\ Responses(provider.name, model)
    /\ previous = None \/ Own(previous)

\* The output of the previous state is put before the messages of the context.
Reply(previous) ==
    [provider |-> provider.name, model |-> model,
     turns |-> Said(Rows) \cup (IF previous = None THEN {} ELSE previous.turns)]

\* RemoteCompactionState.from_details: an answer without a compaction is none.
Replies(previous) == {None} \cup (IF Served(previous) THEN {Reply(previous)} ELSE {})

\* _try_remote_compaction
Attempts ==
    IF enabled /\ (State = None \/ Own(State)) THEN Replies(Previous) ELSE {None}

\* compact(): by the provider, else locally
Compact ==
    /\ Idle /\ Rows # <<>> /\ Len(log) < MaxEntries
    /\ \E state \in Attempts :
        IF state # None
        THEN /\ Compacted(Len(Rows), Sentinel, state)
             /\ provider' = [provider EXCEPT !.state = state]
             /\ strayed' = FALSE
        ELSE Local(Len(Rows)) /\ UNCHANGED <<provider, strayed>>
    /\ UNCHANGED <<model, enabled>>

\* Mutant: the new object is left as it was made.
ReplaysNothing(p, state) == None
\* The setter of the new object, if it has one
Replays(p, state) == IF p \in Setters THEN state ELSE None

\* _refresh_runtime_provider: a new object for the same provider.  Without a setter it raises, but stays.
Remade(m, at) ==
    /\ provider' = [provider EXCEPT !.state = Replays(provider.name, At(at).state)]
    /\ strayed' = (At(at).state # None /\ ~Responses(provider.name, m))

\* It returns early without a configuration, and raises when the object cannot be made: the old one, with the
\* state it has, serves a session that has already moved.
Kept(m, at) ==
    /\ provider' = provider
    /\ strayed' = IF Responses(provider.name, m) THEN provider.state # At(at).state ELSE At(at).state # None

Refreshed(m, at) == Remade(m, at) \/ Kept(m, at)

\* set_model; with the same model, set_thinking_level and reload_provider_settings
SetModel(m) ==
    /\ Idle
    /\ model' = m /\ Refreshed(m, leaf)
    /\ UNCHANGED <<log, leaf, enabled>>

\* _set_provider_model: another object, which is told nothing
SetProvider(p, m) ==
    /\ Idle /\ p # provider.name
    /\ provider' = [name |-> p, state |-> None] /\ model' = m
    /\ strayed' = (State # None)
    /\ UNCHANGED <<log, leaf, enabled>>

\* branch_to_entry: to an entry, or to before a user's message.  The leaf is written and the messages are
\* replaced before the object is refreshed.
Branch(n) ==
    /\ Idle /\ n # leaf
    /\ leaf' = n /\ Refreshed(model, n)
    /\ UNCHANGED <<log, model, enabled>>

\* configure_compaction
Configure ==
    /\ Idle
    /\ enabled => State = None
    /\ enabled' = ~enabled
    /\ provider' = [provider EXCEPT !.state = Replays(provider.name, IF enabled' THEN State ELSE None)]
    /\ strayed' = (strayed /\ (provider.name \notin Setters \/ ~Responses(provider.name, model)))
    /\ UNCHANGED <<log, leaf, model>>

\* A process that ends, and the session resumed from its log with the pair it had; settings may have changed.
Resume ==
    /\ phase' = "idle"
    /\ provider' = [provider EXCEPT !.state = Replays(provider.name, State)]
    /\ strayed' = (State # None /\ (provider.name \notin Setters \/ ~Responses(provider.name, model)))
    /\ enabled' \in BOOLEAN
    /\ UNCHANGED <<log, leaf, model, sent>>

Next ==
    \/ Prompt \/ Ask \/ After \/ Compact \/ Configure \/ Resume
    \/ \E m \in Models : SetModel(m)
    \/ \E p \in Providers, m \in Models : SetProvider(p, m)
    \/ \E n \in 0..Len(log) : Branch(n)

Spec == Init /\ [][Next]_vars

-----------------------------------------------------------------------------
(* Properties *)

TypeOK ==
    /\ Len(log) \in 0..MaxEntries /\ leaf \in 0..Len(log)
    /\ provider.name \in Providers /\ model \in Models /\ enabled \in BOOLEAN /\ strayed \in BOOLEAN
    /\ phase \in {"idle", "asked", "answered"}

Whole(e) ==
    LET native == IF e.state = None THEN {} ELSE e.state.turns
    IN  /\ native \cup Said(e.rows) = e.turns
        /\ native \cap Said(e.rows) = {}
        /\ \A i, j \in DOMAIN e.rows : i # j => e.rows[i].turns \cap e.rows[j].turns = {}
        /\ Opaque(e.rows) <=> e.state # None

\* Nothing is lost in the log: at every entry, its rows and its native state stand for exactly the turns
\* of its branch, no two rows for the same turn, and the sentinel is there just when a state is.
NothingForgotten == \A n \in DOMAIN log : Whole(log[n])

\* Unless the user switched away from native state, or the object could not be refreshed for the entry or the
\* model the session has moved to, a request either is refused or holds every turn of the branch, and no other,
\* and never the sentinel.
RequestsAreWhole == phase = "answered" /\ ~strayed /\ sent # None => ~sent.prose /\ sent.got = sent.wanted

\* docs/compaction.md, of native state: a mismatch "fails closed instead of exposing the sentinel or silently
\* treating encrypted state as prose".
FailsClosed == sent # None => ~sent.prose

-----------------------------------------------------------------------------
(* The inductive invariant behind them *)

Lines == [turns : SUBSET Nat, opaque : BOOLEAN]
States == [provider : Providers, model : Models, turns : SUBSET Nat]
Entries == [parent : Nat, rows : Seq(Lines), state : States \cup {None}, turns : SUBSET Nat]

Shapes == log \in Seq(Entries) /\ provider \in [name : Providers, state : States \cup {None}]

\* Nothing stands before a sentinel: a summary of rows that hold it is refused.
SentinelFirst == \A n \in DOMAIN log : \A i \in DOMAIN log[n].rows : log[n].rows[i].opaque => i = 1

\* The turn that is asked next is new on every branch.
TurnsArePast == \A n \in DOMAIN log : log[n].turns \subseteq 1..n

\* A provider of Responses replays the state of the branch, and a branch with a state has such a provider.
FollowsBranch == ~strayed => IF Responses(provider.name, model) THEN provider.state = State ELSE State = None

RoomToAsk == phase = "asked" => Len(log) < MaxEntries

IInv ==
    /\ TypeOK /\ Shapes /\ NothingForgotten /\ SentinelFirst /\ TurnsArePast /\ FollowsBranch /\ RoomToAsk
    /\ RequestsAreWhole
=============================================================================
