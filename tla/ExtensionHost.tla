---------------------------- MODULE ExtensionHost ----------------------------
(***************************************************************************)
(* ExtensionHost and ContributionRegistry of tau_extensions/runtime.py:    *)
(* extensions are activated in the order of a plan, contribute values      *)
(* under keys, listen to events, are deactivated and reloaded.  An         *)
(* extension keeps its registrar and the handles it was given, and may use *)
(* them at any time.                                                       *)
(***************************************************************************)
EXTENDS Integers, Sequences, FiniteSets, SequencesExt, FiniteSetsExt

CONSTANTS None,
          Plan,        \* the enabled extensions in the order of the plan
          Blocked,     \* decided against
          Keys,        \* contribution keys of one point
          Development, \* development_mode
          MaxIndex     \* bound: registrations

Extensions == Range(Plan) \cup Blocked
Contributions == [by : Extensions, n : 0..MaxIndex]
ExtensionHostAssumption ==
    /\ IsInjective(Plan) /\ Range(Plan) \cap Blocked = {} /\ Development \in BOOLEAN
    /\ MaxIndex \in Nat /\ None \notin Extensions \cup Contributions

VARIABLES
    status,     \* of each extension
    turn,       \* the extension whose setup or activate is running, or None
    entries,    \* the registry: key |-> [by, n], or None
    keysOf,     \* extension |-> the keys the registry holds for it
    listeners,  \* [by, n] of one event
    handles,    \* handles of contributions that are not disposed: [by, key, n]
    owned,      \* those the host disposes with their extension
    index,      \* registrations so far
    emitting,   \* the listeners an emit still has to call
    called,     \* observed: the listeners that emit has called
    late,       \* observed: extensions that registered while they were not active
    intruded    \* observed: keys whose entry was removed by a handle of an earlier registration

vars == <<status, turn, entries, keysOf, listeners, handles, owned, index, emitting, called, late, intruded>>

Rank(e) == CHOOSE i \in DOMAIN Plan : Plan[i] = e
Statuses == {"pending", "blocked", "failed", "inactive", "active"}
Live(e) == status[e] = "active"

Init ==
    /\ status = [e \in Extensions |-> IF e \in Blocked THEN "blocked" ELSE "pending"] /\ turn = None
    /\ entries = [k \in Keys |-> None] /\ keysOf = [e \in Extensions |-> {}] /\ listeners = {}
    /\ handles = {} /\ owned = {} /\ index = 0 /\ emitting = <<>> /\ called = <<>> /\ late = {} /\ intruded = {}

-----------------------------------------------------------------------------
(* Registration: in setup, in activate, or whenever an extension that was set up once likes *)

Registers(e) ==
    /\ index < MaxIndex /\ index' = index + 1
    /\ e = turn \/ (turn = None /\ e \in Range(Plan) /\ status[e] # "pending")
    /\ late' = IF e = turn \/ Live(e) THEN late ELSE late \cup {e}
    /\ UNCHANGED <<status, turn, owned, emitting, called, intruded>>

\* A key that is taken is refused.
Contribute(e) ==
    /\ Registers(e)
    /\ \E k \in Keys :
        /\ entries[k] = None
        /\ entries' = [entries EXCEPT ![k] = [by |-> e, n |-> index]]
        /\ keysOf' = [keysOf EXCEPT ![e] = @ \cup {k}]
        /\ handles' = handles \cup {[by |-> e, key |-> k, n |-> index]}
    /\ UNCHANGED listeners

Listen(e) ==
    /\ Registers(e) /\ listeners' = listeners \cup {[by |-> e, n |-> index]}
    /\ UNCHANGED <<entries, keysOf, handles>>

Foreign(h) == entries[h.key] # None /\ entries[h.key].n # h.n

\* _remove pops whatever is under the key.
Dispose(h) ==
    /\ handles' = handles \ {h} /\ owned' = owned \ {h}
    /\ entries' = [entries EXCEPT ![h.key] = None]
    /\ keysOf' = [keysOf EXCEPT ![h.by] = @ \ {h.key}]
    /\ intruded' = IF Foreign(h) THEN intruded \cup {h.key} ELSE intruded
    /\ UNCHANGED <<status, turn, listeners, index, emitting, called, late>>

Unlisten(l) ==
    /\ listeners' = listeners \ {l}
    /\ UNCHANGED <<status, turn, entries, keysOf, handles, owned, index, emitting, called, late, intruded>>

-----------------------------------------------------------------------------
(* _dispose_extension: the handles of setup, the listeners, and what the registry still holds *)

\* Mutant: the registry forgets only what the handles removed.
ClearedByHandles(e, hs) == {h.key : h \in hs}
Cleared(e, hs) == {h.key : h \in hs} \cup keysOf[e]

Disposes(e) ==
    LET hs == {h \in owned : h.by = e} IN
    /\ entries' = [k \in Keys |-> IF k \in Cleared(e, hs) THEN None ELSE entries[k]]
    /\ keysOf' = [keysOf EXCEPT ![e] = {}]
    /\ intruded' = intruded \cup {h.key : h \in {g \in hs : Foreign(g)}}
                   \cup {k \in keysOf[e] : entries[k] # None /\ entries[k].by # e}
    /\ handles' = handles \ hs /\ owned' = owned \ hs
    /\ listeners' = {l \in listeners : l.by # e}
    /\ late' = late \ {e}

-----------------------------------------------------------------------------
(* _activate_candidate *)

\* The next of activate_all: what is not active, in the order of the plan
Activatable(e) == ~Live(e) /\ \A f \in Range(Plan) : Rank(f) < Rank(e) => status[f] # "pending"

\* The loader gives a definition, or fails and leaves everything else as it is.
Activate(e) ==
    /\ turn = None /\ emitting = <<>> /\ Activatable(e)
    /\ \/ turn' = e /\ status' = [status EXCEPT ![e] = "pending"]
       \/ status' = [status EXCEPT ![e] = "failed"] /\ UNCHANGED turn
    /\ UNCHANGED <<entries, keysOf, listeners, handles, owned, index, emitting, called, late, intruded>>

\* setup or activate raises: what it registered is disposed of, and with it any handles that were returned.
SetupRaises ==
    /\ turn # None /\ turn' = None /\ Disposes(turn) /\ status' = [status EXCEPT ![turn] = "failed"]
    /\ UNCHANGED <<index, emitting, called>>

\* setup returned some of its handles.
SetupEnds ==
    /\ turn # None /\ turn' = None /\ status' = [status EXCEPT ![turn] = "active"]
    /\ \E hs \in SUBSET {h \in handles : h.by = turn /\ h \notin owned} : owned' = owned \cup hs
    /\ UNCHANGED <<entries, keysOf, listeners, handles, index, emitting, called, late, intruded>>

\* deactivate_all: the active extensions, the last of the plan first
Deactivate(e) ==
    /\ turn = None /\ emitting = <<>> /\ Live(e) /\ \A f \in Range(Plan) : Live(f) => Rank(f) <= Rank(e)
    /\ Disposes(e) /\ status' = [status EXCEPT ![e] = "inactive"]
    /\ UNCHANGED <<turn, index, emitting, called>>

\* reload: dispose and load again. Only what is active has a state to dispose of.
Reload(e) ==
    /\ turn = None /\ emitting = <<>> /\ Development
    /\ \/ turn' = e /\ status' = [status EXCEPT ![e] = "pending"]
       \/ status' = [status EXCEPT ![e] = "failed"] /\ UNCHANGED turn
    /\ IF Live(e) THEN Disposes(e) ELSE UNCHANGED <<entries, keysOf, listeners, handles, owned, late, intruded>>
    /\ UNCHANGED <<index, emitting, called>>

-----------------------------------------------------------------------------
(* emit *)

\* Mutant: in the order of registration.
OrderedByIndex == SetToSortSeq(listeners, LAMBDA l, m : l.n < m.n)
\* By rank, then by registration
Ordered == SetToSortSeq(listeners, LAMBDA l, m : Rank(l.by) < Rank(m.by) \/ (l.by = m.by /\ l.n < m.n))

Emit ==
    /\ turn = None /\ emitting = <<>> /\ listeners # {}
    /\ emitting' = Ordered /\ called' = <<>>
    /\ UNCHANGED <<status, turn, entries, keysOf, listeners, handles, owned, index, late, intruded>>

\* A listener that fails is reported; one that was removed since the emit is called all the same.
Call ==
    /\ turn = None /\ emitting # <<>> /\ emitting' = Tail(emitting) /\ called' = Append(called, Head(emitting))
    /\ UNCHANGED <<status, turn, entries, keysOf, listeners, handles, owned, index, late, intruded>>

Next ==
    \/ Emit \/ Call \/ SetupRaises \/ SetupEnds
    \/ \E h \in handles : Dispose(h)
    \/ \E l \in listeners : Unlisten(l)
    \/ \E e \in Range(Plan) : Contribute(e) \/ Listen(e) \/ Activate(e) \/ Deactivate(e) \/ Reload(e)

Spec == Init /\ [][Next]_vars

-----------------------------------------------------------------------------
(* Properties *)

TypeOK ==
    /\ status \in [Extensions -> Statuses] /\ index \in 0..MaxIndex
    /\ keysOf \in [Extensions -> SUBSET Keys] /\ owned \subseteq [by : Extensions, key : Keys, n : 0..MaxIndex]

\* What an extension contributed or listens to is gone when it is not active, whatever its setup did before it
\* failed, unless it registered again afterwards; a blocked extension has nothing.
NothingIsLeft ==
    \A e \in Extensions : status[e] # "active" /\ e \notin late \cup {turn} =>
        (\A k \in Keys : entries[k] # None => entries[k].by # e) /\ (\A l \in listeners : l.by # e)

\* The registry's two tables agree, except for keys that a stale handle removed from their later owner.
TablesAgree ==
    \A k \in Keys \ intruded : \A e \in Extensions : k \in keysOf[e] <=> entries[k] # None /\ entries[k].by = e

\* Within one emit, listeners are called by rank and then in the order in which they were registered.
CalledInOrder ==
    \A i, j \in DOMAIN called : i < j =>
        Rank(called[i].by) < Rank(called[j].by) \/ (called[i].by = called[j].by /\ called[i].n < called[j].n)

-----------------------------------------------------------------------------
(* The inductive invariant behind the first two *)

Shapes ==
    /\ turn \in Extensions \cup {None} /\ entries \in [Keys -> Contributions \cup {None}]
    /\ handles \subseteq [by : Extensions, key : Keys, n : 0..MaxIndex] /\ owned \subseteq handles

\* The registry knows each entry as a key of its extension.
EntriesAreKnown == \A k \in Keys : entries[k] # None => k \in keysOf[entries[k].by]

\* A number is given to one registration.
NumbersAreOwn ==
    /\ \A k \in Keys : entries[k] # None => entries[k].n < index
    /\ \A h \in handles : h.n < index /\ (entries[h.key] # None /\ entries[h.key].n = h.n => entries[h.key].by = h.by)

IInv == TypeOK /\ Shapes /\ EntriesAreKnown /\ NumbersAreOwn /\ NothingIsLeft /\ TablesAgree
=============================================================================
