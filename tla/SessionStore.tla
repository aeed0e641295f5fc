---------------------------- MODULE SessionStore ----------------------------
(***************************************************************************)
(* SessionRepository and SqliteSessionStorage (src/tau_web/sqlite): the    *)
(* rows of the sessions, their aliases and their trees of entries.  Every  *)
(* operation is one transaction of SqliteWriter; the time it writes into   *)
(* updated_at was read before it entered the queue of the writer.          *)
(***************************************************************************)
EXTENDS Naturals, Sequences, FiniteSets, FiniteSetsExt

CONSTANTS Sessions, Clients,
          Existing,   \* the session that is there from the start
          Bases,      \* aliases that are asked for, compared without case; "default" among them
          Default,
          Entries,    \* ids of entries
          MaxClock,   \* bound: times that are read
          None

StoreAssumption ==
    /\ None \notin Sessions \cup Entries \cup Bases /\ Default \in Bases
    /\ IsFiniteSet(Sessions) /\ MaxClock \in Nat

VARIABLES
    row,   \* row[s]: the row of sessions
    tree,  \* tree[s]: its entries in the order of their ordinals
    clock, \* now()
    call,  \* call[c]: the call of a client that is in the queue of the writer, or how the last one ended
    seen   \* seen[c]: the row that c has read last

vars == <<row, tree, clock, call, seen>>

\* An alias: what was asked for, and the suffixes that were appended to it (base-2, base-2-2).
Asked == {<<base>> : base \in Bases}

NoRow == [state |-> "none", name |-> None, leaf |-> None, updated |-> 0, writes |-> 0]
NoCall == [op |-> "none", outcome |-> "ok"]

Init ==
    /\ row = [s \in Sessions |-> IF s # Existing THEN NoRow
                                ELSE [NoRow EXCEPT !.state = "active", !.name = <<Default>>]]
    /\ tree = [s \in Sessions |-> <<>>]
    /\ clock = 1
    /\ call = [c \in Clients |-> NoCall]
    /\ seen = [c \in Clients |-> [s |-> None, updated |-> 0, writes |-> 0]]

-----------------------------------------------------------------------------
Active(s) == row[s].state = "active"

\* Mutant: the owner of the alias is looked up among the archived sessions.
OwnersAny(name) == {s \in Sessions : row[s].state = "archived" /\ row[s].name = name}

Owners(name) == {s \in Sessions : Active(s) /\ row[s].name = name}

\* _allocate_agent_name: the name itself, then name-2, name-3 and so on
Allocated(name) ==
    IF Owners(name) = {} THEN name
    ELSE LET free == {i \in 2..Cardinality(Sessions) + 1 : Owners(Append(name, i)) = {}}
         IN  Append(name, Min(free))

Ids(s) == {tree[s][i].id : i \in DOMAIN tree[s]}

\* The writer runs the transaction of c; the unique index on active aliases is the last word.
Writes(c, s, new) ==
    IF new.state = "active" /\ \E t \in Sessions \ {s} : Active(t) /\ row[t].name = new.name
    THEN call' = [call EXCEPT ![c] = [NoCall EXCEPT !.outcome = "integrity"]] /\ UNCHANGED row
    ELSE /\ row' = [row EXCEPT ![s] = [new EXCEPT !.updated = call[c].stamp,
                                                  !.writes = row[s].writes + 1]]
         /\ call' = [call EXCEPT ![c] = [NoCall EXCEPT !.outcome =
                        IF /\ call[c].expected # None
                           /\ seen[c].writes # row[s].writes
                        THEN "overwrote" ELSE "ok"]]

\* What else is told is not kept.
Raises(c, error) == call' = [call EXCEPT ![c] = [NoCall EXCEPT !.outcome = "ok"]] /\ UNCHANGED row

-----------------------------------------------------------------------------
(* Clients *)

\* get() or list(): a read of the last committed row
Get(c, s) ==
    /\ row[s].state # "none" /\ call[c].outcome # "queued"
    /\ seen' = [seen EXCEPT ![c] = [s |-> s, updated |-> row[s].updated, writes |-> row[s].writes]]
    /\ UNCHANGED <<row, tree, clock, call>>

\* resolve(): the session that an active alias leads to
Resolve(c, name) == \E s \in Owners(name) : Get(c, s)

\* The clock is read, then the call waits for the writer.
Calls(c, op, s, name, expected) ==
    /\ call[c].outcome # "queued" /\ clock <= MaxClock
    /\ call' = [call EXCEPT ![c] = [op |-> op, s |-> s, name |-> name, stamp |-> clock,
                                    expected |-> expected, outcome |-> "queued"]]
    /\ clock' = clock + 1
    /\ UNCHANGED <<row, tree, seen>>

\* What a request may ask for: an alias, or none
Names == Asked \cup {None}

CallCreate(c, s) == \E name \in Names : Calls(c, "create", s, name, None)
CallImport(c, s) == \E name \in Names : Calls(c, "import", s, name, None)
CallArchive(c, s) == Calls(c, "archive", s, None, None)
CallRestore(c, s) == \E name \in Names : Calls(c, "restore", s, name, None)

\* The client may name the version it has read.
Versions(c, s) == {None} \cup (IF seen[c].s = s THEN {seen[c].updated} ELSE {})
CallPatch(c, s) == \E name \in Names, expected \in Versions(c, s) : Calls(c, "patch", s, name, expected)

\* update_metadata() changes no alias; rename() changes nothing else, whatever the version.
CallUpdate(c, s) == \E expected \in Versions(c, s) : Calls(c, "update", s, None, expected)
CallRename(c, s) == \E name \in Asked : Calls(c, "rename", s, name, None)

Call(c) ==
    \E s \in Sessions :
        \/ CallCreate(c, s) \/ CallImport(c, s) \/ CallArchive(c, s) \/ CallRestore(c, s)
        \/ CallPatch(c, s) \/ CallUpdate(c, s) \/ CallRename(c, s)

-----------------------------------------------------------------------------
(* Transactions *)

Runs(c, op) == call[c].op = op /\ call[c].outcome = "queued"

Create(c) ==
    /\ Runs(c, "create")
    /\ LET s == call[c].s
           name == call[c].name
           new == [NoRow EXCEPT !.state = "active"] IN
       IF row[s].state # "none" THEN Raises(c, "exists")
       ELSE IF name = None
            THEN Writes(c, s, [new EXCEPT !.name = Allocated(<<Default>>)])
            ELSE IF Owners(name) # {} THEN Raises(c, "conflict")
                 ELSE Writes(c, s, [new EXCEPT !.name = name])
    /\ UNCHANGED <<tree, clock, seen>>

\* Mutant: the expected time is not compared.
FreshAlways(c, s) == TRUE

Fresh(c, s) == call[c].expected \in {None, row[s].updated}

\* name is None when the alias is to stay.
Patch(c) ==
    /\ Runs(c, "patch")
    /\ LET s == call[c].s
           name == call[c].name IN
       IF ~Active(s) \/ ~Fresh(c, s) THEN Raises(c, "error")
       ELSE IF name # None /\ Owners(name) \ {s} # {} THEN Raises(c, "conflict")
       ELSE Writes(c, s, [row[s] EXCEPT !.name = IF name = None THEN @ ELSE name])
    /\ UNCHANGED <<tree, clock, seen>>

\* _update_metadata_in_transaction: its statement names the version that it has read itself.
Update(c) ==
    /\ Runs(c, "update")
    /\ LET s == call[c].s IN
       IF ~Active(s) \/ ~Fresh(c, s) THEN Raises(c, "error") ELSE Writes(c, s, row[s])
    /\ UNCHANGED <<tree, clock, seen>>

Rename(c) ==
    /\ Runs(c, "rename")
    /\ LET s == call[c].s
           name == call[c].name IN
       IF ~Active(s) THEN Raises(c, "error")
       ELSE IF Owners(name) \ {s} # {} THEN Raises(c, "conflict")
       ELSE Writes(c, s, [row[s] EXCEPT !.name = name])
    /\ UNCHANGED <<tree, clock, seen>>

Archive(c) ==
    /\ Runs(c, "archive")
    /\ LET s == call[c].s IN
       IF row[s].state = "none" THEN Raises(c, "unknown")
       ELSE IF row[s].state = "archived" THEN Raises(c, "ok")
       ELSE Writes(c, s, [row[s] EXCEPT !.state = "archived"])
    /\ UNCHANGED <<tree, clock, seen>>

\* Mutant: a session comes back under its old alias, whoever has it now.
RestoredOld(s, name) == row[s].name

\* The alias of a restored session: its old one gets a suffix when it is taken.
Restored(s, name) ==
    IF name # None THEN name
    ELSE IF Active(s) THEN row[s].name ELSE Allocated(row[s].name)

Restore(c) ==
    /\ Runs(c, "restore")
    /\ LET s == call[c].s
           name == call[c].name IN
       IF row[s].state = "none" THEN Raises(c, "unknown")
       ELSE IF Active(s) /\ name \in {None, row[s].name} THEN Raises(c, "ok")
       ELSE IF name # None /\ Owners(name) \ {s} # {} THEN Raises(c, "conflict")
       ELSE Writes(c, s, [row[s] EXCEPT !.state = "active", !.name = Restored(s, name)])
    /\ UNCHANGED <<tree, clock, seen>>

-----------------------------------------------------------------------------
(* Entries *)

\* Batches of at most two entries; a leaf entry names the entry that becomes the active leaf.
Batches ==
    LET entry == [id : Entries, parent : Entries \cup {None},
                  leaf : {{}} \cup {{l} : l \in Entries \cup {None}}]
    IN  {<<x>> : x \in entry} \cup {<<x, y>> : x, y \in entry}

\* Mutant: a reference to an entry of another session passes.
KnownAnywhere(s, e) == e = None \/ \E t \in Sessions : e \in Ids(t)

\* _validate_entry_reference
Known(s, e) == e = None \/ e \in Ids(s)

\* Ids are new in the whole database, and what an entry refers to is an earlier one.
Valid(s, batch) ==
    \A i \in DOMAIN batch :
        LET before == {batch[j].id : j \in 1..i - 1} IN
        /\ batch[i].id \notin before /\ \A t \in Sessions : batch[i].id \notin Ids(t)
        /\ \A e \in {batch[i].parent} \cup batch[i].leaf : e \in before \/ Known(s, e)

\* append_many_in_transaction: the entries, and the last leaf that was named
Appended(s, batch) ==
    tree' = [tree EXCEPT ![s] = @ \o [i \in DOMAIN batch |-> [id |-> batch[i].id,
                                                               parent |-> batch[i].parent]]]

LeafAfter(leaf, batch) ==
    LET moves == {i \in DOMAIN batch : batch[i].leaf # {}}
    IN  IF moves = {} THEN leaf ELSE CHOOSE l \in batch[Max(moves)].leaf : TRUE

\* append_many() of the harness of s; a batch that is not valid is rolled back.
AppendMany(s, batch) ==
    /\ row[s].state # "none" /\ clock <= MaxClock /\ Valid(s, batch)
    /\ Appended(s, batch)
    /\ row' = [row EXCEPT ![s].updated = clock, ![s].writes = @ + 1,
                          ![s].leaf = LeafAfter(@, batch)]
    /\ clock' = clock + 1
    /\ UNCHANGED <<call, seen>>

\* import_jsonl: a new session and all its entries in one transaction
Import(c) ==
    /\ Runs(c, "import")
    /\ LET s == call[c].s
           name == call[c].name IN
       IF row[s].state # "none" THEN Raises(c, "exists") /\ UNCHANGED tree
       ELSE IF name # None /\ Owners(name) # {} THEN Raises(c, "conflict") /\ UNCHANGED tree
       ELSE \E batch \in Batches :
                /\ Valid(s, batch)
                /\ Appended(s, batch)
                /\ Writes(c, s, [NoRow EXCEPT !.state = "active", !.leaf = LeafAfter(None, batch),
                                     !.name = IF name = None THEN Allocated(<<Default>>) ELSE name])
    /\ UNCHANGED <<clock, seen>>

-----------------------------------------------------------------------------
Next ==
    \/ \E c \in Clients :
           \/ \E s \in Sessions : Get(c, s)
           \/ \E name \in Asked : Resolve(c, name)
           \/ Call(c) \/ Create(c) \/ Patch(c) \/ Update(c) \/ Rename(c) \/ Archive(c) \/ Restore(c) \/ Import(c)
    \/ \E s \in Sessions, batch \in Batches : AppendMany(s, batch)

Spec == Init /\ [][Next]_vars

-----------------------------------------------------------------------------
\* The types of the variables.
TypeOK ==
    /\ row \in [Sessions -> [state : {"none", "active", "archived"}, name : Seq(Bases \cup Nat) \cup {None},
                             leaf : Entries \cup {None}, updated : 0..MaxClock, writes : Nat]]
    /\ tree \in [Sessions -> Seq([id : Entries, parent : Entries \cup {None}])]
    /\ clock \in 1..MaxClock + 1
    /\ seen \in [Clients -> [s : Sessions \cup {None}, updated : 0..MaxClock, writes : Nat]]

\* A client that asks for an alias that is taken is told so: no operation runs into the unique
\* index of the active aliases, which answers with an internal error.
AliasConflictsCaught == \A c \in Clients : call[c].outcome # "integrity"

\* A patch that names the version it was made from overwrites that version and no other,
\* although its own time was read before it waited in the queue.
NoLostUpdate == \A c \in Clients : call[c].outcome # "overwrote"

\* The path from the active leaf to the root exists: the leaf and every parent are earlier
\* entries of the same session.
PathsExist ==
    \A s \in Sessions :
        /\ row[s].leaf \in Ids(s) \cup {None}
        /\ \A i \in DOMAIN tree[s] :
               tree[s][i].parent \in {tree[s][j].id : j \in 1..i - 1} \cup {None}
=============================================================================
