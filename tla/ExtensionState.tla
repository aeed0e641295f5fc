--------------------------- MODULE ExtensionState ---------------------------
(***************************************************************************)
(* What extensions store: ScopedStorage (tau_extensions/services.py), its  *)
(* adapter (tau_web/extensions.py) and ExtensionStateRepository.  A client *)
(* reads, computes, and saves or deletes against the revision it knows;    *)
(* every call is one transaction, and the others run between them.         *)
(***************************************************************************)
EXTENDS Naturals, FiniteSets

CONSTANTS None,
          Clients,      \* tasks and handlers of extensions
          Extensions,
          Of(_),        \* Of(c): the extension of c
          Permitted,    \* the extensions with the permission "storage"
          Places,       \* scopes with their ids: global, a workspace, a session, a connection
          Connections,  \* the places whose scope is "connection"
          Persistent,   \* allow_persisted_connection_scope
          Keys, Values,
          MaxWrites     \* bound: accepted saves

ExtensionStateAssumption ==
    /\ None \notin Values \cup Nat \cup [value : Values, revision : Nat, write : Nat]
    /\ Permitted \subseteq Extensions /\ Connections \subseteq Places
    /\ \A c \in Clients : Of(c) \in Extensions
    /\ Persistent \in BOOLEAN /\ MaxWrites \in Nat

VARIABLES
    rows,   \* rows[x][p][k]: [value, revision, write], or None; write, observed, tells its writes apart
    known,  \* known[c]: what c has read or been given last: [p, k, row], or None
    writes, \* observed: saves that were accepted
    reborn, \* observed: the rows that were deleted and created again
    lost    \* observed: the rows of which a call replaced or deleted a value that its author had not seen

vars == <<rows, known, writes, reborn, lost>>

Slots == Extensions \X Places \X Keys
At(x, p, k) == rows[x][p][k]
Put(x, p, k, row) == rows' = [rows EXCEPT ![x][p][k] = row]

Init ==
    /\ rows = [x \in Extensions |-> [p \in Places |-> [k \in Keys |-> None]]]
    /\ known = [c \in Clients |-> None]
    /\ writes = 0 /\ reborn = {} /\ lost = {}

-----------------------------------------------------------------------------
\* require_permission, and _validate_scope of the repository
Allowed(c, p) == Of(c) \in Permitted /\ (p \in Connections => Persistent)

\* get, list
Get(c, p, k) ==
    /\ Allowed(c, p)
    /\ known' = [known EXCEPT ![c] = [p |-> p, k |-> k, row |-> At(Of(c), p, k)]]
    /\ UNCHANGED <<rows, writes, reborn, lost>>

\* Mutant: a save without a revision replaces what is there.
MatchesLoose(row, expected) == expected = None \/ (row # None /\ expected = row.revision)
\* save: None and zero stand for a row that does not exist.
Matches(row, expected) == IF row = None THEN expected \in {None, 0} ELSE expected = row.revision

\* Mutant: the revision is kept.
Later(row) == IF row = None \/ row.revision = 1 THEN 1 ELSE row.revision + 1
Revision(row) == IF row = None THEN 1 ELSE row.revision + 1

\* What c expects: the revision that it knows, or nothing at all.
Expected(c) == {None} \cup (IF known[c].row = None THEN {0} ELSE {known[c].row.revision})

\* Whoever writes over a row it has not seen has lost an update.
Loses(c, slot) ==
    LET row == At(slot[1], slot[2], slot[3])
    IN  lost' = IF row # None /\ known[c].row # row THEN lost \cup {slot} ELSE lost

\* A refused call raises, and its caller still has the old copy.
Save(c, v, expected) ==
    LET p == known[c].p  k == known[c].k  row == At(Of(c), p, k)
        new == [value |-> v, revision |-> Revision(row), write |-> writes + 1]
    IN  /\ Matches(row, expected)
        /\ writes < MaxWrites /\ writes' = writes + 1
        /\ Put(Of(c), p, k, new) /\ Loses(c, <<Of(c), p, k>>)
        /\ known' = [known EXCEPT ![c].row = new]
        /\ UNCHANGED reborn

\* delete: a row that is gone already is no error.
Delete(c) ==
    LET p == known[c].p  k == known[c].k  row == At(Of(c), p, k)
    IN  /\ known[c].row # None
        /\ (row # None => row.revision = known[c].row.revision)
        /\ Put(Of(c), p, k, None) /\ Loses(c, <<Of(c), p, k>>)
        /\ known' = [known EXCEPT ![c].row = None]
        /\ reborn' = IF row = None THEN reborn ELSE reborn \cup {<<Of(c), p, k>>}
        /\ UNCHANGED writes

\* clear_scope, for one extension or all of them
ClearedOf(x, only) == only = None \/ x = only

Clears(x, p, chosen, only) == p = chosen /\ ClearedOf(x, only)

Clear(chosen, only) ==
    /\ chosen \in Connections => Persistent
    /\ rows' = [x \in Extensions |-> [p \in Places |->
                  IF Clears(x, p, chosen, only) THEN [k \in Keys |-> None] ELSE rows[x][p]]]
    /\ reborn' = reborn \cup {slot \in Slots : Clears(slot[1], slot[2], chosen, only) /\ At(slot[1], slot[2], slot[3]) # None}
    /\ UNCHANGED <<known, writes, lost>>

Next ==
    \/ \E c \in Clients, p \in Places, k \in Keys : Get(c, p, k)
    \/ \E c \in {d \in Clients : known[d] # None} : Delete(c) \/ \E v \in Values, e \in Expected(c) : Save(c, v, e)
    \/ \E p \in Places, only \in Extensions \cup {None} : Clear(p, only)

Spec == Init /\ [][Next]_vars

-----------------------------------------------------------------------------
(* Properties *)

TypeOK ==
    /\ \A slot \in Slots : LET row == At(slot[1], slot[2], slot[3]) IN row = None \/ (row.value \in Values /\ row.revision \in 1..MaxWrites)
    /\ writes \in 0..MaxWrites /\ reborn \subseteq Slots /\ lost \subseteq Slots

\* "Create or replace one stored value using optimistic revisions": no save and no deletion destroys a value that
\* its author has not seen. Only a row that was deleted and created again starts over at revision 1 and can
\* be taken for the old one.
NoUpdateIsLost == lost \subseteq reborn

\* row is old, or was saved after it.
Follows(row, old) == row # None /\ row.revision >= old.revision /\ (row.revision = old.revision => row = old)

\* A revision stands for one value: who knows the revision of a row that was never deleted knows its value.
RevisionsTell ==
    \A c \in Clients : known[c] # None /\ known[c].row # None /\ <<Of(c), known[c].p, known[c].k>> \notin reborn =>
        Follows(At(Of(c), known[c].p, known[c].k), known[c].row)

\* Nothing is stored for an extension that may not store, nor for a connection where that is disabled.
OnlyPermitted == \A slot \in Slots : At(slot[1], slot[2], slot[3]) # None => slot[1] \in Permitted /\ (slot[2] \in Connections => Persistent)

-----------------------------------------------------------------------------
(* The inductive invariant behind them *)

Rows == [value : Values, revision : Nat, write : Nat]
Copies == [p : Places, k : Keys, row : Rows \cup {None}]

Shapes ==
    /\ rows \in [Extensions -> [Places -> [Keys -> Rows \cup {None}]]]
    /\ known \in [Clients -> Copies \cup {None}]

\* A revision is the number of saves since the row was made.
RevisionsCount ==
    \A x \in Extensions, p \in Places, k \in Keys : At(x, p, k) # None => At(x, p, k).revision \in 1..writes

\* Who has a copy was allowed to read, and so may write.
ReadersAreAllowed == \A c \in Clients : known[c] # None => Allowed(c, known[c].p)

IInv ==
    /\ TypeOK /\ Shapes /\ RevisionsCount /\ ReadersAreAllowed /\ NoUpdateIsLost /\ RevisionsTell /\ OnlyPermitted
=============================================================================
