--------------------------- MODULE ProviderHistory ---------------------------
(***************************************************************************)
(* The transcript as a provider is sent it.  A session keeps the messages  *)
(* of every provider it has talked to, with the identifiers each of them   *)
(* gave its tool calls; before a request the adapter in use translates the *)
(* whole transcript (anthropic.py, openai_compatible.py: "chat" and        *)
(* "responses", openai_codex.py).  A provider refuses a history in which a *)
(* result does not follow its call or a call has no result, and then every *)
(* later turn of the session fails.                                        *)
(***************************************************************************)
EXTENDS Integers, Sequences, FiniteSets, SequencesExt

CONSTANTS None,
          Kinds,
          Texts, Plain,      \* texts of identifiers; those of [A-Za-z0-9_-]{1,64}
          Fallback(_),       \* of the index of a call, the text tool-call-<index>
          Cleaned(_),        \* of a text, what is left when codex has cleaned it
          Images, Accepted,  \* attachments; those that are hydrated and of a supported type
          MaxMessages        \* bound: messages of a transcript

VARIABLES
    kind,     \* the adapter in use
    log,      \* the transcript
    due       \* calls of the last assistant message that have no result yet

vars == <<kind, log, due>>

Raw(text, item) == [text |-> text, item |-> item]
User(sentinel, images) == [role |-> "user", sentinel |-> sentinel, images |-> images]
Assistant(text, calls) == [role |-> "assistant", text |-> text, calls |-> calls]
Result(id) == [role |-> "result", id |-> id]

\* A session of an older version: its stream parser kept a call without a name.
Old == LET ids == [i \in 1..2 |-> Raw(Fallback(i), None)]
       IN <<User(FALSE, {}), Assistant(FALSE, <<[id |-> ids[1], named |-> FALSE], [id |-> ids[2], named |-> TRUE]>>),
            Result(ids[1]), Result(ids[2])>>

Init ==
    /\ kind \in Kinds /\ due = <<>>
    /\ log \in {<<>>, <<User(TRUE, {})>>, Old}   \* the second starts at a native compaction

-----------------------------------------------------------------------------
(* Identifiers *)

Hashed(id) == "hash" \in DOMAIN id

\* Mutant: an identifier is cleaned and not hashed.
PortableCleaned(id) == IF Hashed(id) THEN id ELSE [hash |-> Cleaned(id.text)]
\* portable_tool_call_id
Portable(id) == IF Hashed(id) \/ (id.item = None /\ id.text \in Plain) THEN id ELSE [hash |-> id]

\* _codex_call_id of the part before the bar, for a call and for its result
CallId(k, id) == IF k = "codex" THEN [call |-> Cleaned(id.text)] ELSE Portable(id)
ResultId(k, id) == CallId(k, id)

CallsOf(m) == IF m.role = "assistant" THEN m.calls ELSE <<>>

\* Mutant: all calls of a message go with the one that has no name.
InvalidMessages(messages) ==
    {c.id : c \in UNION {ToSet(CallsOf(m)) : m \in {a \in ToSet(messages) : \E d \in ToSet(CallsOf(a)) : ~d.named}}}
\* _invalid_tool_call_ids
Invalid(messages) == {c.id : c \in {d \in UNION {ToSet(CallsOf(m)) : m \in ToSet(messages)} : ~d.named}}

\* build: the call as the parser hands it to the session; codex joins two identifiers
Built(k, text, i) ==
    CASE k = "codex" -> Raw(text, "fc")
      [] text = None -> Raw(Fallback(i), None)
      [] OTHER       -> Raw(text, None)

-----------------------------------------------------------------------------
(* Payloads *)

FromUser(k, m) ==
    IF k \in {"codex", "responses"} /\ m.sentinel THEN <<>>
    ELSE <<[type |-> "user", images |-> m.images \cap Accepted]>>

\* Chat completions and messages: one item with its calls, none if nothing is left
Grouped(k, text, calls) ==
    IF ~text /\ calls = <<>> THEN <<>>
    ELSE <<[type |-> "assistant", text |-> text, calls |-> [i \in DOMAIN calls |-> CallId(k, calls[i].id)]]>>

\* Responses: the text and each call are items of their own
Listed(k, text, calls) ==
    (IF text THEN <<[type |-> "assistant", text |-> TRUE, calls |-> <<>>]>> ELSE <<>>)
        \o [i \in DOMAIN calls |-> [type |-> "assistant", text |-> FALSE, calls |-> <<CallId(k, calls[i].id)>>]]

FromAssistant(k, m, invalid) ==
    LET valid == SelectSeq(m.calls, LAMBDA c : c.id \notin invalid)
    IN IF k \in {"chat", "anthropic"} THEN Grouped(k, m.text, valid) ELSE Listed(k, m.text, valid)

\* Mutant: the result of a call without a name is sent.
FromResultAlways(k, m, invalid) == <<[type |-> "result", id |-> ResultId(k, m.id)]>>
FromResult(k, m, invalid) ==
    IF m.id \in invalid THEN <<>> ELSE <<[type |-> "result", id |-> ResultId(k, m.id)]>>

Items(k, m, invalid) ==
    CASE m.role = "user"      -> FromUser(k, m)
      [] m.role = "assistant" -> FromAssistant(k, m, invalid)
      [] m.role = "result"    -> FromResult(k, m, invalid)

\* _sanitize_anthropic_payload_tool_ids
Sanitized(items) ==
    [i \in DOMAIN items |->
        CASE items[i].type = "user"      -> items[i]
          [] items[i].type = "assistant" ->
                 [items[i] EXCEPT !.calls = [j \in DOMAIN items[i].calls |-> Portable(items[i].calls[j])]]
          [] items[i].type = "result"    -> [items[i] EXCEPT !.id = Portable(items[i].id)]]

Payload(k, messages) ==
    LET invalid == Invalid(messages)
        items == FlattenSeq([i \in DOMAIN messages |-> Items(k, messages[i], invalid)])
    IN IF k = "anthropic" THEN Sanitized(items) ELSE items

-----------------------------------------------------------------------------
(* The session *)

Room == Len(log) < MaxMessages

Prompt(images) ==
    /\ Room /\ due = <<>>
    /\ log' = Append(log, User(FALSE, images)) /\ UNCHANGED <<kind, due>>

\* A response: the server names a call anew or leaves it without an identifier.
Answer(text, names) ==
    LET calls == [i \in DOMAIN names |-> [id |-> Built(kind, names[i], i), named |-> TRUE]]
        used == {c.id.text : c \in UNION {ToSet(CallsOf(m)) : m \in ToSet(log)}}
    IN /\ Room /\ due = <<>> /\ log # <<>> /\ Last(log).role # "assistant"
       /\ text \/ names # <<>>
       /\ ToSet(names) \cap used = {}
       /\ \A i, j \in DOMAIN names : i # j /\ names[i] = names[j] => names[i] = None
       /\ kind = "codex" => None \notin ToSet(names)
       /\ log' = Append(log, Assistant(text, calls))
       /\ due' = calls
       /\ UNCHANGED kind

Answered ==
    /\ due # <<>>
    /\ log' = Append(log, Result(Head(due).id)) /\ due' = Tail(due) /\ UNCHANGED kind

\* The user chooses a model of another provider between two turns.
Switch(k) == due = <<>> /\ k # kind /\ kind' = k /\ UNCHANGED <<log, due>>

Names == UNION {[1..n -> Texts \cup {None}] : n \in 0..2}

Next ==
    \/ \E images \in SUBSET Images : Prompt(images)
    \/ \E text \in BOOLEAN, names \in Names : Answer(text, names)
    \/ Answered
    \/ \E k \in Kinds : Switch(k)

Spec == Init /\ [][Next]_vars

-----------------------------------------------------------------------------
TypeOK ==
    /\ kind \in Kinds
    /\ \A i \in DOMAIN log : log[i].role \in {"user", "assistant", "result"}
    /\ \A i \in DOMAIN due : due[i].named

\* Reading a payload as a provider does: the calls that are open, and whether the order is broken
Checked(items) ==
    LET Step(seen, item) ==
            IF item.type = "result"
            THEN [good |-> seen.good /\ seen.open # <<>> /\ (seen.open # <<>> => Head(seen.open) = item.id),
                  open |-> IF seen.open = <<>> THEN <<>> ELSE Tail(seen.open)]
            ELSE [good |-> seen.good /\ ((item.type = "assistant" /\ ~item.text) \/ seen.open = <<>>),
                  open |-> IF item.type = "assistant" THEN seen.open \o item.calls ELSE seen.open]
    IN FoldLeft(Step, [good |-> TRUE, open |-> <<>>], items)

\* Whatever adapter the user turns to, every result in the history follows its call with no
\* user message or text in between, and at a request no call is without its result.
PairsAreWhole ==
    \A k \in Kinds :
        LET read == Checked(Payload(k, log)) IN read.good /\ (due = <<>> => read.open = <<>>)

\* The identifiers of the calls that a provider is sent
Sent(k) ==
    LET items == SelectSeq(Payload(k, log), LAMBDA item : item.type = "assistant")
    IN  FlattenSeq([i \in DOMAIN items |-> items[i].calls])

\* Every call with a name reaches every provider, once and in its place, unless a call without a name bears
\* its identifier.
NoCallIsLost ==
    LET calls == FlattenSeq([i \in DOMAIN log |-> CallsOf(log[i])])
        nameless == {c.id : c \in {d \in ToSet(calls) : ~d.named}}
        sound == SelectSeq(calls, LAMBDA c : c.id \notin nameless)
    IN  \A k \in Kinds : Sent(k) = [i \in DOMAIN sound |-> CallId(k, sound[i].id)]

\* What the adapters but codex send tells apart the identifiers that the transcript tells apart, those of codex
\* among them.  Codex itself does not: it cleans an identifier and does not hash it, so that two of them may be
\* sent as one (Cleaned), and there a call has its result only because results follow in order (PairsAreWhole).
IdsStayApart ==
    LET ids == {c.id : c \in UNION {ToSet(CallsOf(m)) : m \in ToSet(log)}} \ Invalid(log)
    IN  \A k \in Kinds \ {"codex"} : Cardinality(ToSet(Sent(k))) = Cardinality(ids)
=============================================================================
