---------------------------- MODULE SessionIndex ----------------------------
(***************************************************************************)
(* How a coding session comes into being and is found again: the managers  *)
(* of sessions (tau_coding/session_manager.py, whose index is a file that  *)
(* every change rewrites, and sqlite_session_manager.py, whose index is    *)
(* the table of sessions), the helpers that hide which one it is           *)
(* (live_session_manager.py), the ways the command line and the terminal   *)
(* open a session (cli.py, tui/app.py), and the initial entries that wait  *)
(* for the first prompt (session.py).  Clients are processes; they crash.  *)
(***************************************************************************)
EXTENDS Integers, Sequences, FiniteSets, SequencesExt

CONSTANTS None,
          Sqlite,       \* TRUE: SqliteCodingSessionManager, FALSE: SessionManager
          Clients,      \* bound: processes
          Ids,          \* bound: session ids
          Legacy,       \* ids in the global index of an older version, at time 0
          Initials,     \* the initial entries: 1 the session info, 2 the model, ...
          MaxClock      \* bound: writes of the index

SessionIndexAssumption == Sqlite \in BOOLEAN /\ Legacy \subseteq Ids /\ (Sqlite => Legacy = {}) /\ Initials \in Nat \ {0}

VARIABLES
    index,      \* id |-> updated_at, or None: the rows, or the lines of the project's index file
    entries,    \* id |-> the entries of its transcript, or None without a file
    held,       \* client |-> its session: [id, pending, defer], or None
    work,       \* client |-> a change of the index file under way: [op, id, time, seen, step], or None
    clock,
    filed,      \* observed: id |-> time of the last change that its caller saw succeed
    torn,       \* observed: two changes of the file overlapped, or one was cut short
    cut,        \* observed: ids with an append whose caller was cancelled
    printed,    \* observed: id |-> how many exclusive creations of it succeeded
    kept        \* observed: ids with an entry

vars == <<index, entries, held, work, clock, filed, torn, cut, printed, kept>>

OfLegacy(id) == IF id \in Legacy THEN 0 ELSE None

Init ==
    /\ index = [id \in Ids |-> None]
    /\ entries = [id \in Ids |-> IF id \in Legacy THEN <<[nth |-> 1, by |-> None]>> ELSE None]
    /\ held = [c \in Clients |-> None] /\ work = [c \in Clients |-> None] /\ clock = 0
    /\ filed = [id \in Ids |-> OfLegacy(id)] /\ torn = FALSE /\ cut = {}
    /\ printed = [id \in Ids |-> 0] /\ kept = Legacy

\* _deduplicate_records: the newest of the lines of an id, in whichever index
Lookup(id) == IF index[id] # None THEN index[id] ELSE OfLegacy(id)
Known(id) == Lookup(id) # None

Idle(c) == work[c] = None
Tick == clock < MaxClock /\ clock' = clock + 1
Unused(id) == ~Known(id) /\ entries[id] = None /\ filed[id] = None /\ \A c \in Clients : held[c] # None => held[c].id # id

Pending(c) == [n \in 1..Initials |-> [nth |-> n, by |-> c]]
Holds(c, id, defer) ==
    [id |-> id, defer |-> defer, pending |-> IF entries[id] \in {None, <<>>} THEN Pending(c) ELSE <<>>]

-----------------------------------------------------------------------------
(* A change of the index.  A row is written at once; a file is read, emptied *)
(* and written again, and another process may do so in between.             *)

Store(id) == /\ index' = [index EXCEPT ![id] = clock + 1] /\ filed' = [filed EXCEPT ![id] = clock + 1]

Reads(c, op, id) ==
    /\ work' = [work EXCEPT ![c] = [op |-> op, id |-> id, time |-> clock + 1, seen |-> index, step |-> "read"]]
    /\ torn' = (torn \/ \E d \in Clients \ {c} : ~Idle(d))

Truncate(c) ==
    /\ ~Idle(c) /\ work[c].step = "read"
    /\ index' = [id \in Ids |-> None] /\ work' = [work EXCEPT ![c].step = "torn"]
    /\ UNCHANGED <<entries, held, clock, filed, torn, cut, printed, kept>>

\* Mutant: the line of the id is not put back.
RewrittenWithout(w) == [w.seen EXCEPT ![w.id] = None]
Rewritten(w) == [w.seen EXCEPT ![w.id] = IF w.op = "remove" THEN None ELSE w.time]

Write(c) ==
    /\ ~Idle(c) /\ work[c].step = "torn"
    /\ index' = Rewritten(work[c]) /\ work' = [work EXCEPT ![c] = None]
    /\ IF work[c].op = "remove"
       THEN entries' = [entries EXCEPT ![work[c].id] = None] /\ UNCHANGED <<held, filed, printed>>
       ELSE /\ filed' = [filed EXCEPT ![work[c].id] = work[c].time]
            /\ held' = IF work[c].op = "create" THEN [held EXCEPT ![c] = Holds(c, work[c].id, FALSE)] ELSE held
            /\ printed' = IF work[c].op = "create" THEN [printed EXCEPT ![work[c].id] = @ + 1] ELSE printed
            /\ UNCHANGED entries
    /\ UNCHANGED <<clock, torn, cut, kept>>

\* The write of the index fails.  A creation takes its line and its transcript back.
WriteFails(c) ==
    /\ ~Idle(c) /\ work[c].step = "torn" /\ torn' = TRUE
    /\ work' = [work EXCEPT ![c] = IF work[c].op = "create"
                                   THEN [op |-> "remove", id |-> work[c].id, time |-> 0, seen |-> index, step |-> "read"]
                                   ELSE None]
    /\ UNCHANGED <<index, entries, held, clock, filed, cut, printed, kept>>

-----------------------------------------------------------------------------
(* Opening a session *)

\* The terminal starts: a row must exist before its first entry, a line need not.
Start(c, id) ==
    /\ held[c] = None /\ Idle(c) /\ Unused(id) /\ Tick
    /\ held' = [held EXCEPT ![c] = Holds(c, id, ~Sqlite)]
    /\ IF Sqlite THEN Store(id) ELSE UNCHANGED <<index, filed>>
    /\ UNCHANGED <<entries, work, torn, cut, printed, kept>>

\* /new: the session is prepared, and nothing of it is stored.
NewSession(c, id) ==
    /\ held[c] # None /\ Idle(c) /\ Unused(id)
    /\ held' = [held EXCEPT ![c] = Holds(c, id, TRUE)]
    /\ UNCHANGED <<index, entries, work, clock, filed, torn, cut, printed, kept>>

\* /resume and tau --resume
Resume(c, id) ==
    /\ Idle(c) /\ Known(id)
    /\ held' = [held EXCEPT ![c] = Holds(c, id, FALSE)]
    /\ UNCHANGED <<index, entries, work, clock, filed, torn, cut, printed, kept>>

\* Ids of prepared sessions are made by uuid4: nobody names one.
Named(id) == \A c \in Clients : held[c] # None /\ held[c].id = id => entries[id] # None

\* tau -p --session-id: a row of the id must not exist.
PrintRow(c, id) ==
    /\ Sqlite /\ held[c] = None /\ ~Known(id) /\ Named(id) /\ Tick
    /\ Store(id) /\ held' = [held EXCEPT ![c] = Holds(c, id, FALSE)]
    /\ printed' = [printed EXCEPT ![id] = @ + 1]
    /\ UNCHANGED <<entries, work, torn, cut, kept>>

\* Mutant: a file that is there already is removed like one of its own.
TakenRemoves(id) == entries' = [entries EXCEPT ![id] = None]
\* FileExistsError: the transcript is somebody else's.
Taken(id) == UNCHANGED entries

\* ... and neither a line of it nor its file.
PrintFile(c, id) ==
    /\ ~Sqlite /\ held[c] = None /\ Idle(c) /\ ~Known(id) /\ Named(id) /\ Tick
    /\ IF entries[id] # None
       THEN Taken(id) /\ UNCHANGED <<work, torn>>
       ELSE entries' = [entries EXCEPT ![id] = <<>>] /\ Reads(c, "create", id)
    /\ UNCHANGED <<index, held, filed, cut, printed, kept>>

-----------------------------------------------------------------------------
(* _ensure_session_initialized *)

\* The row of a prepared session comes before its entries,
IndexFirst(c) ==
    /\ Sqlite /\ held[c] # None /\ held[c].defer /\ held[c].pending # <<>> /\ ~Known(held[c].id) /\ Tick
    /\ Store(held[c].id)
    /\ UNCHANGED <<entries, held, work, torn, cut, printed, kept>>

\* ... its line in the file after them, and only once.
IndexLast(c) ==
    /\ ~Sqlite /\ held[c] # None /\ held[c].defer /\ held[c].pending = <<>> /\ Idle(c) /\ Tick
    /\ held' = [held EXCEPT ![c].defer = FALSE]
    /\ IF Known(held[c].id) THEN UNCHANGED <<work, torn>> ELSE Reads(c, "index", held[c].id)
    /\ UNCHANGED <<index, entries, filed, cut, printed, kept>>

OfId(id) == IF entries[id] = None THEN <<>> ELSE entries[id]

\* Mutant: an entry is taken from the pending ones before it is stored.
RemainingFirst(c, outcome) == Tail(held[c].pending)
Remaining(c, outcome) == IF outcome = "ok" THEN Tail(held[c].pending) ELSE held[c].pending

\* A table refuses an entry it has; a file takes it again.
Appended(id, e) == IF Sqlite /\ e \in ToSet(OfId(id)) THEN OfId(id) ELSE Append(OfId(id), e)

\* An append succeeds, fails, or is stored although its caller was cancelled.
AppendInitial(c, outcome) ==
    /\ held[c] # None /\ held[c].pending # <<>> /\ Idle(c)
    /\ Sqlite => Known(held[c].id)
    /\ LET id == held[c].id
           e == Head(held[c].pending)
           refused == Sqlite /\ e \in ToSet(OfId(id))
       IN /\ refused => outcome = "failed"
          /\ outcome = "cut" => id \notin cut     \* bound: one cancellation each
          /\ held' = [held EXCEPT ![c].pending = Remaining(c, outcome)]
          /\ entries' = IF outcome = "failed" THEN entries ELSE [entries EXCEPT ![id] = Appended(id, e)]
          /\ kept' = IF outcome = "failed" THEN kept ELSE kept \cup {id}
          /\ cut' = IF outcome = "cut" THEN cut \cup {id} ELSE cut
    /\ UNCHANGED <<index, work, clock, filed, torn, printed>>

\* touch_session after every stored message: nothing if the session is not listed
Touches(c) == held[c] # None /\ held[c].pending = <<>> /\ Idle(c) /\ Known(held[c].id) /\ Tick

TouchRow(c) ==
    /\ Sqlite /\ Touches(c) /\ Store(held[c].id)
    /\ UNCHANGED <<entries, held, work, torn, cut, printed, kept>>

TouchFile(c) ==
    /\ ~Sqlite /\ Touches(c) /\ ~held[c].defer /\ Reads(c, "touch", held[c].id)
    /\ UNCHANGED <<index, entries, held, filed, cut, printed, kept>>

Crash(c) ==
    /\ held[c] # None \/ ~Idle(c)
    /\ held' = [held EXCEPT ![c] = None] /\ work' = [work EXCEPT ![c] = None]
    /\ torn' = (torn \/ ~Idle(c))
    /\ UNCHANGED <<index, entries, clock, filed, cut, printed, kept>>

Outcomes == {"ok", "failed", "cut"}

Next ==
    \/ \E c \in Clients : Truncate(c) \/ Write(c) \/ WriteFails(c) \/ IndexFirst(c) \/ IndexLast(c) \/ TouchRow(c) \/ TouchFile(c) \/ Crash(c)
    \/ \E c \in Clients, id \in Ids : Start(c, id) \/ NewSession(c, id) \/ Resume(c, id) \/ PrintRow(c, id) \/ PrintFile(c, id)
    \/ \E c \in Clients, outcome \in Outcomes : AppendInitial(c, outcome)

Spec == Init /\ [][Next]_vars

-----------------------------------------------------------------------------
(* Properties *)

TypeOK ==
    /\ index \in [Ids -> 1..MaxClock \cup {None}] /\ clock \in 0..MaxClock
    /\ \A id \in Ids : entries[id] # None => \A i \in 1..Len(entries[id]) : entries[id][i].nth \in 1..Initials
    /\ \A c \in Clients : held[c] # None => held[c].id \in Ids
    /\ torn \in BOOLEAN /\ cut \subseteq Ids /\ kept \subseteq Ids /\ (Sqlite => ~torn /\ \A c \in Clients : Idle(c))

\* Every session that was listed is found again, with its latest change, as
\* long as no two processes rewrote the index file at once and no rewriting
\* was cut short; in the database always.
ListedIsFound ==
    ~torn => \A id \in Ids :
        \/ Lookup(id) = filed[id]
        \/ \E c \in Clients : ~Idle(c) /\ (work[c].step = "torn" \/ work[c].id = id)

\* However the processes overlap, crash and fail, a transcript with an entry
\* stays, and an exclusive creation of an id succeeds once.
TranscriptsStay ==
    \A id \in Ids : (id \in kept => entries[id] \notin {None, <<>>}) /\ printed[id] <= 1

\* A transcript begins with its session info, and without a cancelled append
\* no initial entry is in it twice; in the database never.
BeginsWithInfo ==
    \A id \in Ids : entries[id] \notin {None, <<>>} =>
        /\ entries[id][1].nth = 1
        /\ id \notin cut \/ Sqlite => IsInjective(entries[id])
=============================================================================
