------------------------------ MODULE FileTools ------------------------------
(***************************************************************************)
(* Concurrent calls of write, edit and read on one file                    *)
(* (tau_coding/tools.py).  Writes and edits take a lock of the path; the   *)
(* file itself is read and written by threads, which a cancelled call      *)
(* leaves behind.  Which replacement an edit makes is TextTools: here an   *)
(* edit leaves its mark, and finds its text in every file but the empty    *)
(* one that a write in progress, or a failed one, leaves.                  *)
(***************************************************************************)
EXTENDS Integers, Sequences, FiniteSets, SequencesExt

CONSTANTS None, Writes, Edits, Streams   \* calls: write, edit in memory, edit of a large file

FileToolsAssumption ==
    /\ None \notin Writes \cup Edits \cup Streams /\ "base" \notin Writes \cup Edits \cup Streams
    /\ Writes \cap (Edits \cup Streams) = {} /\ Edits \cap Streams = {}

VARIABLES
    file,      \* marks of the calls that made the content, {} while it is empty
    temp,      \* calls with a temporary file
    pc,        \* of a call
    lock,      \* the call that holds _file_locks[path]
    queue,     \* calls that wait for it
    got,       \* what the call, or its thread, has read
    thread,    \* step of the thread of a call, "none" when there is none
    whole,     \* observed: the content that the calls which succeeded have made
    odd        \* observed: a call was cancelled during a thread, or a write failed

vars == <<file, temp, pc, lock, queue, got, thread, whole, odd>>

Calls == Writes \cup Edits \cup Streams
Base == "base"
Ended == {"ok", "failed", "cancelled"}

Init ==
    /\ file = {Base} /\ whole = {Base} /\ temp = {} /\ odd = FALSE
    /\ pc = [c \in Calls |-> "idle"] /\ lock = None /\ queue = <<>>
    /\ got = [c \in Calls |-> {}] /\ thread = [c \in Calls |-> "none"]

-----------------------------------------------------------------------------
(* The lock: asyncio.Lock, first come, first served *)

Begin(c) ==
    /\ pc[c] = "idle"
    /\ IF lock = None /\ queue = <<>>
       THEN lock' = c /\ pc' = [pc EXCEPT ![c] = "locked"] /\ UNCHANGED queue
       ELSE queue' = Append(queue, c) /\ pc' = [pc EXCEPT ![c] = "waiting"] /\ UNCHANGED lock
    /\ UNCHANGED <<file, temp, got, thread, whole, odd>>

\* Mutant: a call goes on beside the one that holds the lock.
FreeAlways == TRUE
Free == lock = None

Acquire(c) ==
    /\ Free /\ queue # <<>> /\ Head(queue) = c
    /\ lock' = c /\ queue' = Tail(queue) /\ pc' = [pc EXCEPT ![c] = "locked"]
    /\ UNCHANGED <<file, temp, got, thread, whole, odd>>

\* The call ends and leaves the lock.
End(c, how) == pc' = [pc EXCEPT ![c] = how] /\ lock' = IF lock = c THEN None ELSE lock

-----------------------------------------------------------------------------
(* The calls *)

\* write: the thread opens the file, which empties it, and fills it.
Write(c) ==
    /\ c \in Writes /\ pc[c] = "locked"
    /\ got' = [got EXCEPT ![c] = {c}] /\ thread' = [thread EXCEPT ![c] = "opening"]
    /\ pc' = [pc EXCEPT ![c] = "writing"]
    /\ UNCHANGED <<file, temp, lock, queue, whole, odd>>

\* edit: read in a thread
Read(c) ==
    /\ c \in Edits \cup Streams /\ pc[c] = "locked"
    /\ thread' = [thread EXCEPT ![c] = IF c \in Streams THEN "counting" ELSE "reading"]
    /\ pc' = [pc EXCEPT ![c] = "reading"]
    /\ UNCHANGED <<file, temp, lock, queue, got, whole, odd>>

\* What was read is matched; without a match the edit fails and nothing is written.
Match(c) ==
    /\ pc[c] = "reading" /\ thread[c] = "none"
    /\ IF got[c] = {} THEN End(c, "failed") /\ UNCHANGED <<got, thread>>
       ELSE /\ pc' = [pc EXCEPT ![c] = "writing"]
            /\ got' = [got EXCEPT ![c] = @ \cup {c}]
            /\ thread' = [thread EXCEPT ![c] = IF c \in Streams THEN "copying" ELSE "opening"]
            /\ UNCHANGED lock
    /\ UNCHANGED <<file, temp, queue, whole, odd>>

\* The thread has ended well: the call answers.
Succeed(c) ==
    /\ pc[c] = "writing" /\ thread[c] = "none"
    /\ End(c, "ok")
    /\ whole' = IF c \in Writes THEN {c} ELSE whole \cup {c}
    /\ UNCHANGED <<file, temp, queue, got, thread, odd>>

\* asyncio.Lock takes the waiter that was cancelled out of its line.
Without(q, c) ==
    IF \E i \in DOMAIN q : q[i] = c THEN RemoveAt(q, CHOOSE i \in DOMAIN q : q[i] = c) ELSE q

\* The caller is cancelled: the lock is left, a thread is not stopped.
Cancel(c) ==
    /\ pc[c] \in {"waiting", "locked", "reading", "writing"}
    /\ End(c, "cancelled")
    /\ queue' = Without(queue, c)
    /\ odd' = (odd \/ pc[c] = "writing")
    /\ UNCHANGED <<file, temp, got, thread, whole>>

-----------------------------------------------------------------------------
(* The threads *)

Reads(c) ==
    /\ thread[c] \in {"reading", "counting"}
    /\ got' = [got EXCEPT ![c] = file] /\ thread' = [thread EXCEPT ![c] = "none"]
    /\ UNCHANGED <<file, temp, pc, lock, queue, whole, odd>>

\* _write_text: open() has emptied the file
Opens(c) ==
    /\ thread[c] = "opening"
    /\ file' = {} /\ thread' = [thread EXCEPT ![c] = "filling"]
    /\ UNCHANGED <<temp, pc, lock, queue, got, whole, odd>>

Fills(c) ==
    /\ thread[c] = "filling"
    /\ file' = got[c] /\ thread' = [thread EXCEPT ![c] = "none"]
    /\ UNCHANGED <<temp, pc, lock, queue, got, whole, odd>>

\* The disk is full: the call fails, the file stays empty.
FailsToFill(c) ==
    /\ thread[c] = "filling" /\ pc[c] = "writing"
    /\ thread' = [thread EXCEPT ![c] = "none"] /\ End(c, "failed") /\ odd' = TRUE
    /\ UNCHANGED <<file, temp, queue, got, whole>>

\* _stream_replace_file: the file is read a second time, into a temporary one.
Copies(c) ==
    /\ thread[c] = "copying"
    /\ got' = [got EXCEPT ![c] = IF file = {} THEN {} ELSE file \cup {c}]
    /\ temp' = temp \cup {c} /\ thread' = [thread EXCEPT ![c] = "replacing"]
    /\ UNCHANGED <<file, pc, lock, queue, whole, odd>>

Replaces(c) ==
    /\ thread[c] = "replacing"
    /\ file' = got[c] /\ temp' = temp \ {c} /\ thread' = [thread EXCEPT ![c] = "none"]
    /\ UNCHANGED <<pc, lock, queue, got, whole, odd>>

\* Mutant: the temporary file of a failed copy is left.
UnlinkedNot(c) == temp
Unlinked(c) == temp \ {c}

\* The disk is full: the temporary file is removed, the original is not touched.
FailsToCopy(c) ==
    /\ thread[c] = "replacing"
    /\ temp' = Unlinked(c) /\ thread' = [thread EXCEPT ![c] = "none"]
    /\ IF pc[c] = "writing" THEN End(c, "failed") ELSE UNCHANGED <<pc, lock>>
    /\ UNCHANGED <<file, queue, got, whole, odd>>

-----------------------------------------------------------------------------
Next ==
    \E c \in Calls :
        \/ Begin(c) \/ Acquire(c) \/ Write(c) \/ Read(c) \/ Match(c) \/ Succeed(c) \/ Cancel(c)
        \/ Reads(c) \/ Opens(c) \/ Fills(c) \/ FailsToFill(c) \/ Copies(c) \/ Replaces(c) \/ FailsToCopy(c)

Spec == Init /\ [][Next]_vars

-----------------------------------------------------------------------------
(* Properties *)

TypeOK ==
    /\ file \subseteq Calls \cup {Base} /\ whole \subseteq Calls \cup {Base}
    /\ temp \subseteq Calls /\ lock \in Calls \cup {None} /\ odd \in BOOLEAN
    /\ ToSet(queue) \subseteq Calls
    /\ pc \in [Calls -> {"idle", "waiting", "locked", "reading", "writing"} \cup Ended]
    /\ got \in [Calls -> SUBSET (Calls \cup {Base})]
    /\ thread \in [Calls -> {"none", "reading", "counting", "opening", "filling", "copying", "replacing"}]

\* Writes and edits of a file are serialized: the file is what the calls that succeeded have made of it, one
\* after the other, once no thread works on it; unless a call was cancelled during its write or a write
\* has failed on the way.
EditsAreSerial == ~odd /\ (\A c \in Calls : thread[c] = "none" /\ pc[c] # "writing") => file = whole

\* At most one call that was not cancelled has a thread at work on the file, and it holds the lock.
OneAtWork == \A c \in Calls : pc[c] \notin Ended /\ thread[c] # "none" => lock = c

\* A large file is replaced as a whole: its temporary copy exists only while a thread works on it.
NoCopyIsLeft == \A c \in temp : thread[c] = "replacing"

-----------------------------------------------------------------------------
(* The inductive invariant behind them *)

\* Who holds the lock is at work, and nobody else is.
LockIsHeld ==
    /\ lock # None => pc[lock] \in {"locked", "reading", "writing"}
    /\ \A c \in Calls : pc[c] \in {"locked", "reading", "writing"} => lock = c

\* The calls that wait stand in the line, each of them once.
LineWaits ==
    /\ queue \in Seq(Calls) /\ ToSet(queue) = {c \in Calls : pc[c] = "waiting"}
    /\ \A i, j \in 1..Len(queue) : queue[i] = queue[j] => i = j

\* The threads that a call has at a step of its own
ThreadsMatch ==
    \A c \in Calls :
        /\ pc[c] \in {"idle", "waiting", "locked", "ok", "failed"} => thread[c] = "none"
        /\ pc[c] = "reading" => thread[c] \in {"none", "reading", "counting"} /\ c \notin Writes
        /\ pc[c] = "writing" => thread[c] \notin {"reading", "counting"}
        /\ thread[c] \in {"copying", "replacing"} => c \in Streams

CopiesMatch == \A c \in Calls : c \in temp <=> thread[c] = "replacing"

\* What a call makes of the file
Made(c) == IF c \in Writes THEN {c} ELSE whole \cup {c}

\* The step of a call that writes tells what is in the file.
AtWork(c) ==
    /\ thread[c] \in {"opening", "copying", "replacing"} => file = whole
    /\ thread[c] \in {"opening", "filling", "replacing"} => got[c] = Made(c)
    /\ thread[c] = "filling" => file = {}
    /\ thread[c] = "none" => file = Made(c)

\* Unless a call was cancelled during its write, only the call at work differs from the observed content.
ContentIsMade ==
    ~odd =>
        /\ whole # {}
        /\ \A c \in Calls : pc[c] = "cancelled" => thread[c] \in {"none", "reading", "counting"}
        /\ (\A c \in Calls : pc[c] # "writing") => file = whole
        /\ \A c \in Calls : pc[c] = "reading" /\ thread[c] = "none" => got[c] = whole
        /\ \A c \in Calls : pc[c] = "writing" => AtWork(c)

IInv == TypeOK /\ LockIsHeld /\ LineWaits /\ ThreadsMatch /\ CopiesMatch /\ ContentIsMade
=============================================================================
