-------------------------- MODULE SessionSettings --------------------------
(***************************************************************************)
(* The settings of a web session against the agent that works with them:   *)
(* DurableAgentRuntime.change_session_metadata and compact, the routes     *)
(* that change the model or select a branch, the loader of the services,   *)
(* and the projector, which names and prices usage by the row's model.     *)
(* One session; an entry of its tree carries the model of its path and the *)
(* changes on that path.  Row 0 of the tree is the empty root.             *)
(***************************************************************************)
EXTENDS Naturals, Sequences, FiniteSets

CONSTANTS None,
          Models, Original,  \* the model that the session was created with
          MaxEntries,        \* bound: entries
          MaxChanges         \* bound: changes of model, of thinking level and of branch

SettingsAssumption ==
    /\ Original \in Models /\ {MaxEntries, MaxChanges} \subseteq Nat
    /\ None \notin Models /\ None \notin [what : {"model", "thinking", "branch"}, done : BOOLEAN]

VARIABLES
    row,        \* the model in the row of the session
    tree, leaf, \* its entries: [model, changes]; the active leaf
    agent,      \* the agent in the pool: [model, leaf, running, takes]; takes: it accepts work; or None
    lock,       \* what holds _session_load_lock: None, or the change under way: [what, done]
    compaction, \* None, or the agent's leaf as a compaction has it: the pool does not count it as a run
    buffer,     \* answers that the driver has not projected: the model, or None if it is known to differ from the row's
    changes,    \* changes so far
    overtaken,  \* observed: a change was made, or a run begun, while the agent compacted
    wandered,   \* observed: a branch was selected whose model is not the row's
    late,       \* observed: the model was changed while answers wait to be projected
    misnamed    \* observed: usage was recorded under another model than the one that answered, for no reason above

vars == <<row, tree, leaf, agent, lock, compaction, buffer, changes, overtaken, wandered, late, misnamed>>

\* What the path to an entry says: the model of its last change, for one who reads the context as well
EntryAt(i) == IF i = 0 THEN [model |-> Original, changes |-> {}] ELSE tree[i]

Init ==
    /\ row = Original /\ tree = <<>> /\ leaf = 0 /\ agent = None /\ lock = None /\ compaction = None
    /\ buffer = <<>> /\ changes = 0
    /\ overtaken = FALSE /\ wandered = FALSE /\ late = FALSE /\ misnamed = FALSE

\* An entry and the leaf entry that selects it: the new entry extends the path that its author knows.
Appends(parent, entry) == tree' = Append(tree, entry) /\ leaf' = Len(tree) + 1

Room == Len(tree) < MaxEntries

-----------------------------------------------------------------------------
(* The agent *)

\* CodingSession.load: the model of the path comes before the one of the row.
Loaded == [model |-> EntryAt(leaf).model, leaf |-> leaf, running |-> FALSE, takes |-> TRUE]

\* What the pool refuses: a run of an agent at work, and all work of one whose removal failed
Ready == agent # None => ~agent.running /\ agent.takes

\* _submit: a session that is not in the pool is loaded, under the lock
Submit ==
    /\ lock = None /\ Ready
    /\ agent' = [(IF agent = None THEN Loaded ELSE agent) EXCEPT !.running = TRUE]
    /\ overtaken' = (overtaken \/ compaction # None)
    /\ UNCHANGED <<row, tree, leaf, lock, compaction, buffer, changes, wandered, late, misnamed>>

\* An answer: an entry, and an event for the driver.
Answer ==
    /\ agent # None /\ agent.running /\ Room
    /\ Appends(agent.leaf, EntryAt(agent.leaf))
    /\ agent' = [agent EXCEPT !.leaf = Len(tree) + 1]
    /\ buffer' = Append(buffer, IF wandered \/ overtaken THEN None ELSE agent.model)
    /\ UNCHANGED <<row, lock, compaction, changes, overtaken, wandered, late, misnamed>>

\* The run is over for the pool, whatever the driver still has to do.
EndRun ==
    /\ agent # None /\ agent.running
    /\ agent' = [agent EXCEPT !.running = FALSE]
    /\ UNCHANGED <<row, tree, leaf, lock, compaction, buffer, changes, overtaken, wandered, late, misnamed>>

\* EventProjector.project: the session is read when the event is projected.
Project ==
    /\ buffer # <<>> /\ buffer' = Tail(buffer)
    /\ misnamed' = (misnamed \/ (Head(buffer) \notin {row, None} /\ ~late))
    /\ late' = (late /\ Len(buffer) > 1)
    /\ UNCHANGED <<row, tree, leaf, agent, lock, compaction, changes, overtaken, wandered>>

\* compact: the lock is given back before the compaction begins
Compact ==
    /\ lock = None /\ compaction = None /\ Ready
    /\ agent' = IF agent = None THEN Loaded ELSE agent
    /\ compaction' = agent'.leaf
    /\ UNCHANGED <<row, tree, leaf, lock, buffer, changes, overtaken, wandered, late, misnamed>>

\* Its entry goes where its session object thinks the path ends, also when the pool has another one by now.
Compacted ==
    /\ compaction # None /\ compaction' = None
    /\ \/ UNCHANGED <<tree, leaf, agent>> \* it fails, or there is nothing to compact
       \/ /\ Room /\ Appends(compaction, EntryAt(compaction))
          /\ agent' = IF agent # None /\ agent.leaf = compaction THEN [agent EXCEPT !.leaf = Len(tree) + 1] ELSE agent
    /\ UNCHANGED <<row, lock, buffer, changes, overtaken, wandered, late, misnamed>>

-----------------------------------------------------------------------------
(* change_session_metadata *)

\* Mutant: whatever the agent does.
IdleAlways == TRUE
\* The pool's snapshot has no run and no queue.
Idle == agent # None => ~agent.running

Begin(what) ==
    /\ lock = None /\ Idle /\ changes < MaxChanges
    /\ lock' = [what |-> what, done |-> FALSE] /\ changes' = changes + 1
    /\ UNCHANGED <<row, tree, leaf, agent, compaction, buffer, overtaken, wandered, late, misnamed>>

\* patch_session_model: the row, the change and the leaf in one transaction
ChangeModel(m) ==
    /\ lock # None /\ lock.what = "model" /\ ~lock.done /\ Room
    /\ row' = m
    /\ Appends(leaf, [model |-> m, changes |-> EntryAt(leaf).changes \cup {changes}])
    /\ late' = (late \/ buffer # <<>>)
    /\ wandered' = FALSE
    /\ lock' = [lock EXCEPT !.done = TRUE]
    /\ overtaken' = (overtaken \/ compaction # None)
    /\ UNCHANGED <<agent, compaction, buffer, changes, misnamed>>

\* patch_session_thinking: an entry and its leaf, which leave the model as it was
ChangeThinking ==
    /\ lock # None /\ lock.what = "thinking" /\ ~lock.done /\ Room
    /\ Appends(leaf, [EntryAt(leaf) EXCEPT !.changes = @ \cup {changes}])
    /\ lock' = [lock EXCEPT !.done = TRUE]
    /\ overtaken' = (overtaken \/ compaction # None)
    /\ UNCHANGED <<row, agent, compaction, buffer, changes, wandered, late, misnamed>>

\* select_branch: any entry, and only the leaf; the row keeps its model
SelectBranch(i) ==
    /\ lock # None /\ lock.what = "branch" /\ ~lock.done
    /\ leaf' = i
    /\ wandered' = (EntryAt(i).model # row)
    /\ lock' = [lock EXCEPT !.done = TRUE]
    /\ overtaken' = (overtaken \/ compaction # None)
    /\ UNCHANGED <<row, tree, agent, compaction, buffer, changes, late, misnamed>>

\* The write raises: a stale expected_updated_at, an unknown entry. The lock is given back, the agent stays.
ChangeFails ==
    /\ lock # None /\ ~lock.done /\ lock' = None
    /\ UNCHANGED <<row, tree, leaf, agent, compaction, buffer, changes, overtaken, wandered, late, misnamed>>

\* Mutant: the agent stays in the pool.
RemainingKept == agent
\* remove_idle_session: the next submission loads the session again
Remaining == None

Discard ==
    /\ lock # None /\ lock.done
    /\ agent' = Remaining /\ lock' = None
    /\ UNCHANGED <<row, tree, leaf, compaction, buffer, changes, overtaken, wandered, late, misnamed>>

\* aclose() raises, after the change was made: the agent stays in the pool as it is, and takes no work.
DiscardFails ==
    /\ lock # None /\ lock.done /\ agent # None
    /\ agent' = [agent EXCEPT !.takes = FALSE] /\ lock' = None
    /\ UNCHANGED <<row, tree, leaf, compaction, buffer, changes, overtaken, wandered, late, misnamed>>

Next ==
    \/ Submit \/ Answer \/ EndRun \/ Project \/ Compact \/ Compacted
    \/ \E what \in {"model", "thinking", "branch"} : Begin(what)
    \/ \E m \in Models : ChangeModel(m)
    \/ \E i \in 0..Len(tree) : SelectBranch(i)
    \/ ChangeThinking \/ ChangeFails \/ Discard \/ DiscardFails

Spec == Init /\ [][Next]_vars

-----------------------------------------------------------------------------
(* Properties *)

TypeOK ==
    /\ row \in Models /\ leaf \in 0..Len(tree) /\ Len(tree) <= MaxEntries
    /\ \A i \in DOMAIN tree : tree[i].model \in Models /\ tree[i].changes \subseteq 1..MaxChanges
    /\ agent # None => agent.model \in Models /\ agent.leaf \in 0..Len(tree) /\ {agent.running, agent.takes} \subseteq BOOLEAN

\* Between changes an agent of the pool that takes work stands where the stored session stands, with the model
\* of that path, a change never meets an agent at work on a run, and an agent that could not be removed runs no more.
AgentIsCurrent ==
    /\ ~overtaken /\ agent # None /\ agent.takes /\ (lock # None => ~lock.done) => agent.leaf = leaf /\ agent.model = EntryAt(leaf).model
    /\ lock # None /\ agent # None => ~agent.running
    /\ agent # None /\ agent.running => agent.takes

\* The row names the model of the active path: a change of model is never left on a branch that nobody
\* selected, whatever runs and answers come after it. Only a branch that the user selects may have another.
RowIsThePath == ~overtaken /\ ~wandered => row = EntryAt(leaf).model

\* Usage is recorded under the model that answered, unless a branch with another model was selected, or the
\* model was changed between the answer and its projection.
UsageIsOfItsModel == ~misnamed

\* "Apply a durable change only while idle, then discard the stale agent."
ChangedWhileIdle == lock # None /\ lock.done => compaction = None

-----------------------------------------------------------------------------
(* The inductive invariant behind them *)

Places == 0..Len(tree)
Entries == [model : Models, changes : SUBSET (1..MaxChanges)]

Shapes ==
    /\ tree \in Seq(Entries) /\ buffer \in Seq(Models \cup {None})
    /\ changes \in 0..MaxChanges /\ compaction \in Places \cup {None}
    /\ agent \in [model : Models, leaf : Places, running : BOOLEAN, takes : BOOLEAN] \cup {None}
    /\ lock \in [what : {"model", "thinking", "branch"}, done : BOOLEAN] \cup {None} /\ (lock # None => changes > 0)
    /\ {overtaken, wandered, late, misnamed} \subseteq BOOLEAN

\* A compaction that nothing overtook extends the active path, and no run and no change goes on beside it.
CompactionIsCurrent ==
    compaction # None /\ ~overtaken =>
        compaction = leaf /\ (agent # None => ~agent.running /\ agent.takes) /\ (lock # None => ~lock.done)

\* An answer that waits to be projected was given by the model of the row.
BufferIsNamed == ~late => \A i \in 1..Len(buffer) : buffer[i] \in {row, None}

IInv ==
    /\ TypeOK /\ Shapes /\ AgentIsCurrent /\ RowIsThePath /\ CompactionIsCurrent /\ BufferIsNamed
    /\ UsageIsOfItsModel
=============================================================================
