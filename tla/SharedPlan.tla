----------------------------- MODULE SharedPlan -----------------------------
(***************************************************************************)
(* The plan that the agents of a session and its browsers share: the plan  *)
(* tool (tau_coding/plan.py), its store (tau_web/plan.py, PlanRepository)  *)
(* and the plan routes (tau_web/routes/metadata.py).  Each caller reads,   *)
(* computes, saves against the revision it read, and tells the broker,     *)
(* with the others between these steps.                                    *)
(* Text is a sequence of words, ends of lines and markers; a marker, the   *)
(* "- [x] " of an item, is written as the status it stands for.            *)
(***************************************************************************)
EXTENDS Integers, Sequences, FiniteSets, SequencesExt, FiniteSetsExt

CONSTANTS None, NL,
          Tools, Browsers,   \* plan calls of agents, and clients of the routes
          MaxItems,          \* MAX_PLAN_ITEMS
          MaxStep,           \* MAX_PLAN_STEP_CHARS, in words
          MaxRevisions,      \* bound: saves
          Plans,             \* what callers write: sequences of items
          Patches, Edits,    \* lists of patches and of edits that agents make
          ContextItems, Budget, Notice  \* of plan_turn_context: items, words, and those of its notice

Callers == Tools \cup Browsers
SharedPlanAssumption == None \notin Callers /\ Tools \cap Browsers = {} /\ Budget > 0

VARIABLES
    row,      \* the stored plan: [items, revision], or None
    pc,       \* of a caller: "idle", "read", "saved"
    view,     \* of a caller: the snapshot it has
    built,    \* observed: of each revision, its items and what its author had seen
    told,     \* revisions announced by the broker
    silent,   \* observed: a call was aborted before its event, or its event failed
    context   \* what the last turn was told: [shown, omitted, of, size]

vars == <<row, pc, view, built, told, silent, context>>

Statuses == {"pending", "in_progress", "completed"}

Nothing == [items |-> <<>>, revision |-> 0]
Snapshot == IF row = None THEN Nothing ELSE row

Init ==
    /\ row = None /\ pc = [c \in Callers |-> "idle"] /\ view = [c \in Callers |-> Nothing]
    /\ built = <<>> /\ told = {} /\ silent = FALSE /\ context = None

-----------------------------------------------------------------------------
(* Items.  What gives items gives None when it raises. *)

\* PlanItem.__post_init__: what is around a step is stripped, what is within it is kept, ends of lines too.
IsStep(step) == step # <<>> /\ Len(step) <= MaxStep /\ Head(step) # NL /\ Last(step) # NL

\* PlanSnapshot.__post_init__
Valid(items) ==
    /\ items # None /\ Len(items) <= MaxItems
    /\ Cardinality({i \in DOMAIN items : items[i].status = "in_progress"}) <= 1

Occurrences(text, words) ==
    {i \in 1..(Len(text) - Len(words) + 1) : SubSeq(text, i, i + Len(words) - 1) = words}

-----------------------------------------------------------------------------
(* Patches: [op, index, match, step, status], where there is an index or a match, and may be a step or a status *)

\* _resolve_target: the item of that number, or the only one that has those words
Targets(items, patch) ==
    IF patch.match = None THEN {patch.index} \cap DOMAIN items
    ELSE {i \in DOMAIN items : Occurrences(items[i].step, patch.match) # {}}

Default(value, other) == IF value = None THEN other ELSE value
NewItem(patch) == [step |-> patch.step, status |-> Default(patch.status, "pending")]

PatchedAt(items, i, patch) ==
    CASE patch.op = "before" -> InsertAt(items, i, NewItem(patch))
      [] patch.op = "after" -> InsertAt(items, i + 1, NewItem(patch))
      [] patch.op = "remove" -> RemoveAt(items, i)
      [] patch.op = "update" -> [items EXCEPT ![i] = [step |-> Default(patch.step, items[i].step),
                                                      status |-> Default(patch.status, items[i].status)]]

Patched(items, patch) ==
    LET targets == Targets(items, patch)
    IN  CASE patch.op = "start" -> <<NewItem(patch)>> \o items
          [] patch.op = "end" -> Append(items, NewItem(patch))
          [] OTHER -> IF Cardinality(targets) = 1 THEN PatchedAt(items, Max(targets), patch) ELSE None

\* _apply_patches: what a plan must be is asked of the outcome, not of each patch.
PatchedBy(items, patches) ==
    FoldLeft(LAMBDA found, patch : IF found = None THEN None ELSE Patched(found, patch), items, patches)

-----------------------------------------------------------------------------
(* Edits of the plan as text: [op, old, new] *)

\* render_plan_markdown
Rendered(items) ==
    FoldLeft(LAMBDA text, item : text \o (IF text = <<>> THEN <<>> ELSE <<NL>>) \o <<item.status>> \o item.step, <<>>, items)

LinesOf(text) ==
    FoldLeft(LAMBDA lines, word : IF word = NL THEN Append(lines, <<>>) ELSE Front(lines) \o <<Append(Last(lines), word)>>,
             <<<<>>>>, text)

\* parse_plan_markdown: a line is empty, or a marker and a step.
Parsed(text) ==
    LET lines == SelectSeq(LinesOf(text), LAMBDA line : line # <<>>)
    IN  IF \A line \in Range(lines) : Head(line) \in Statuses /\ IsStep(Tail(line))
        THEN [i \in DOMAIN lines |-> [step |-> Tail(lines[i]), status |-> Head(lines[i])]]
        ELSE None

\* _replace_unique, _insert_relative
EditedAt(text, i, edit) ==
    LET middle == CASE edit.op = "replace" -> edit.new
                    [] edit.op = "delete" -> <<>>
                    [] edit.op = "insert_before" -> edit.new \o edit.old
                    [] edit.op = "insert_after" -> edit.old \o edit.new
    IN  SubSeq(text, 1, i - 1) \o middle \o SubSeq(text, i + Len(edit.old), Len(text))

\* A text that does not occur exactly once is refused.
Edited(text, edit) ==
    LET found == Occurrences(text, edit.old)
    IN  CASE edit.op = "append" -> text \o edit.new
          [] edit.op = "prepend" -> edit.new \o text
          [] OTHER -> IF Cardinality(found) = 1 THEN EditedAt(text, Max(found), edit) ELSE None

\* _apply_markdown_edits: the text need not be a plan between two edits.
EditedBy(items, edits) ==
    LET text == FoldLeft(LAMBDA found, edit : IF found = None THEN None ELSE Edited(found, edit), Rendered(items), edits)
    IN  IF text = None THEN None ELSE Parsed(text)

-----------------------------------------------------------------------------
(* Callers *)

\* The tool's store.get, or GET .../plan
Read(c) ==
    /\ pc[c] = "idle" /\ pc' = [pc EXCEPT ![c] = "read"]
    /\ view' = [view EXCEPT ![c] = Snapshot]
    /\ UNCHANGED <<row, built, told, silent, context>>

\* PlanRepository.save, in one transaction: no plan accepts None or zero, a plan only its own revision.
Current(expected) == IF row = None THEN expected \in {None, 0} ELSE expected = row.revision

Stores(c, items) ==
    /\ row' = [items |-> items, revision |-> Snapshot.revision + 1]
    /\ built' = Append(built, [items |-> items, seen |-> view[c].items])
    /\ view' = [view EXCEPT ![c] = row']
    /\ pc' = [pc EXCEPT ![c] = "saved"]

\* A conflict: the tool raises; a PUT reads the current plan then, for its answer.
Conflicts(c) == pc' = [pc EXCEPT ![c] = "idle"] /\ UNCHANGED <<row, view, built>>

\* A browser sends a plan of its own, or the one it has with changes.
Proposed(c) ==
    Plans \cup {items \in {PatchedBy(view[c].items, p) : p \in Patches}
                             \cup {EditedBy(view[c].items, e) : e \in Edits} : Valid(items)}

Save(c) ==
    /\ pc[c] = "read" /\ Len(built) < MaxRevisions
    /\ \E items \in Proposed(c), expected \in {view[c].revision} \cup (IF c \in Browsers /\ view[c].revision = 0 THEN {None} ELSE {}) :
        /\ Valid(items)
        /\ IF Current(expected) THEN Stores(c, items) ELSE Conflicts(c)
    /\ UNCHANGED <<told, silent, context>>

\* Action "read", a revision that is not the one that was read, items that are not valid, a browser that closes:
\* nothing is stored.
Leave(c) ==
    /\ pc[c] = "read" /\ pc' = [pc EXCEPT ![c] = "idle"]
    /\ UNCHANGED <<row, view, built, told, silent, context>>

\* on_change, and the end of put_session_plan
Tell(c) ==
    /\ pc[c] = "saved" /\ pc' = [pc EXCEPT ![c] = "idle"]
    /\ told' = told \cup {view[c].revision}
    /\ UNCHANGED <<row, view, built, silent, context>>

\* The run of a tool call is aborted while it saves or tells, or the broker raises, as one that is closed does.
Abort(c) ==
    /\ pc[c] = "saved" /\ pc' = [pc EXCEPT ![c] = "idle"]
    /\ silent' = TRUE
    /\ UNCHANGED <<row, view, built, told, context>>

-----------------------------------------------------------------------------
(* plan_turn_context *)

\* The first n lines, with an end of line between two
Size(items, n) == FoldLeft(LAMBDA sum, item : sum + 2 + Len(item.step), -1, SubSeq(items, 1, n))
Fits(items, n) == n = 0 \/ Size(items, n) <= Budget
\* The notice needs a line too.
SizeWith(items, n) == Notice + (IF n = 0 THEN 0 ELSE Size(items, n) + 1)

\* Lines that were taken are dropped again until the notice fits; without any it may still be too long.
Popped(items, n) == Max({0} \cup {k \in 1..n : SizeWith(items, k) <= Budget})

Context(items) ==
    LET taken == Max({n \in 0..Len(items) : n <= ContextItems /\ Fits(items, n)})
        omitted == Len(items) - taken
        shown == IF omitted = 0 THEN taken ELSE Popped(items, taken)
        noticed == omitted > 0 /\ SizeWith(items, shown) <= Budget
    IN  [shown |-> shown, omitted |-> omitted, of |-> Len(items),
         size |-> IF noticed THEN SizeWith(items, shown) ELSE IF shown = 0 THEN 0 ELSE Size(items, shown)]

Turn ==
    /\ context' = Context(Snapshot.items)
    /\ UNCHANGED <<row, pc, view, built, told, silent>>

Next ==
    \/ Turn
    \/ \E c \in Callers : Read(c) \/ Save(c) \/ Leave(c) \/ Tell(c) \/ Abort(c)

Spec == Init /\ [][Next]_vars

-----------------------------------------------------------------------------
(* Properties *)

TypeOK ==
    /\ row # None => row.revision = Len(built) /\ \A item \in Range(row.items) : IsStep(item.step) /\ item.status \in Statuses
    /\ pc \in [Callers -> {"idle", "read", "saved"}]
    /\ told \subseteq 1..MaxRevisions /\ silent \in BOOLEAN

\* No change is lost: every revision was made by a caller who had seen all of the one before, whoever else
\* was reading and saving.
NoPlanIsLost == \A r \in DOMAIN built : built[r].seen = (IF r = 1 THEN <<>> ELSE built[r - 1].items)

\* One step is in progress at most, in what is stored and in what is shown.
OneInProgress == \A i, j \in DOMAIN Snapshot.items : Snapshot.items[i].status = "in_progress" /\ Snapshot.items[j].status = "in_progress" => i = j

\* What is edited as text is the plan: unless a step has an end of line in it, its text gives the plan back.
TextIsPlan == (\A item \in Range(Snapshot.items) : NL \notin Range(item.step)) => Parsed(Rendered(Snapshot.items)) = Snapshot.items

\* When no caller is at work, the clients have been told of the plan that is stored; only a call that
\* was aborted, or a broker that is closed, leaves them behind.
ClientsAreTold == (\A c \in Callers : pc[c] # "saved") /\ row # None /\ ~silent => row.revision \in told

\* What a turn is told of the plan is within its budget.
ContextFits == context # None => context.size <= Budget

\* tests/test_plan_tool.py: the context says how many items it leaves out.
ContextCounts == context # None => context.shown + context.omitted = context.of
=============================================================================
