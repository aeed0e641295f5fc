---------------------------- MODULE ProcessTools ----------------------------
(***************************************************************************)
(* Calls of the tools that start processes (tau_coding/tools.py): sh, and  *)
(* python and pytest behind a limit on their number.  A process has        *)
(* children in its group and outside of it, which keep its output open;    *)
(* a call ends when the output is closed, at its timeout, on the signal of *)
(* the run, or because its task is cancelled.                              *)
(***************************************************************************)
EXTENDS Integers, Sequences, FiniteSets, SequencesExt

CONSTANTS Shells, Pythons, Tests,   \* calls of sh, of python and of pytest
          Timed,                    \* calls with a timeout
          Limit                     \* _max_python_processes()

ProcessToolsAssumption ==
    /\ Limit \in Nat /\ IsFiniteSet(Pythons \cup Tests)
    /\ Shells \cap (Pythons \cup Tests) = {} /\ Pythons \cap Tests = {}

VARIABLES
    pc,       \* of a call
    value,    \* _value of the semaphore
    queue,    \* calls that wait for it
    signal,   \* the run's cancellation
    leader,   \* of a call: "none", "alive", the exit "zero", "other" or "killed"
    family,   \* live descendants: "child" in the group, "stray" in a session of its own
    result,   \* [ok, status] of a call that has answered
    fired     \* observed: what made a call kill its process

vars == <<pc, value, queue, signal, leader, family, result, fired>>

Limited == Pythons \cup Tests
Calls == Shells \cup Limited
NoResult == [ok |-> FALSE, status |-> "none"]
Over == {"answered", "refused", "raised", "dropped"}

Init ==
    /\ pc = [c \in Calls |-> "idle"] /\ value = Limit /\ queue = <<>> /\ signal = FALSE
    /\ leader = [c \in Calls |-> "none"] /\ family = [c \in Calls |-> {}]
    /\ result = [c \in Calls |-> NoResult] /\ fired = [c \in Calls |-> "none"]

-----------------------------------------------------------------------------
(* asyncio.Semaphore: release() hands the slot to the first of the waiters *)

Handed == IF queue = <<>> THEN value' = value + 1 /\ UNCHANGED queue
          ELSE queue' = Tail(queue) /\ UNCHANGED value
Slotless(c) == c \in Shells

\* Mutant: the slot is kept when the task of the call is cancelled.
LeavesKept(c) == UNCHANGED <<value, queue>>
Leaves(c) == IF Slotless(c) THEN UNCHANGED <<value, queue>> ELSE Handed

\* A waiter that was cancelled leaves the line.
Without(q, c) ==
    IF \E i \in DOMAIN q : q[i] = c THEN RemoveAt(q, CHOOSE i \in DOMAIN q : q[i] = c) ELSE q

\* Who waits no longer starts its process.
Woken(ends) == [c \in Calls |-> IF pc[c] = "waiting" /\ queue # <<>> /\ c = Head(queue) /\ value' = value /\ queue' = Tail(queue)
                                 THEN "starting" ELSE ends[c]]

-----------------------------------------------------------------------------
(* The calls *)

\* A run that is over starts nothing.
Refuse(c) ==
    /\ pc[c] = "idle" /\ signal
    /\ pc' = [pc EXCEPT ![c] = "refused"]
    /\ UNCHANGED <<value, queue, signal, leader, family, result, fired>>

\* async with the limiter
Enter(c) ==
    /\ pc[c] = "idle" /\ ~signal
    /\ IF value > 0 /\ queue = <<>>
       THEN pc' = [pc EXCEPT ![c] = "starting"] /\ value' = value - 1 /\ UNCHANGED queue
       ELSE pc' = [pc EXCEPT ![c] = "waiting"] /\ queue' = Append(queue, c) /\ UNCHANGED value
    /\ UNCHANGED <<signal, leader, family, result, fired>>

BeginPython(c) == c \in Pythons /\ Enter(c)
BeginPytest(c) == c \in Tests /\ Enter(c)

BeginShell(c) ==
    /\ c \in Shells /\ pc[c] = "idle" /\ ~signal
    /\ pc' = [pc EXCEPT ![c] = "starting"]
    /\ UNCHANGED <<value, queue, signal, leader, family, result, fired>>

\* The process is started whatever the signal says by now, or cannot be: there is no such
\* directory, or no room for one more.
Start(c) ==
    /\ pc[c] = "starting"
    /\ \/ /\ pc' = [pc EXCEPT ![c] = "spawning"] /\ leader' = [leader EXCEPT ![c] = "alive"]
          /\ UNCHANGED <<value, queue>>
       \/ Leaves(c) /\ pc' = Woken([pc EXCEPT ![c] = "raised"]) /\ UNCHANGED leader
    /\ UNCHANGED <<signal, family, result, fired>>

\* create_subprocess_exec returns when the pipes of the process are connected: it runs by now.
Started(c) ==
    /\ pc[c] = "spawning"
    /\ pc' = [pc EXCEPT ![c] = "running"]
    /\ UNCHANGED <<value, queue, signal, leader, family, result, fired>>

\* Mutant: only the process is killed.
KilledAlone(c) == family' = family
\* _kill_process_tree: the group, whether or not its leader still lives
Killed(c) == family' = [family EXCEPT ![c] = @ \ {"child"}]

KillLeader(c) == leader' = [leader EXCEPT ![c] = IF @ = "alive" THEN "killed" ELSE @]

Kill(c) ==
    /\ Killed(c)
    /\ KillLeader(c)

\* communicate() ends when the process has exited and nobody holds its output.
Drained(c) == leader[c] \notin {"none", "alive"} /\ family[c] = {}

\* _communicate_with_cancellation wakes up before the output is closed.
Interrupt(c) ==
    /\ pc[c] = "running" /\ ~Drained(c)
    /\ \E why \in {"timeout", "signal"} :
        /\ IF why = "timeout" THEN c \in Timed ELSE signal
        /\ fired' = [fired EXCEPT ![c] = why]
    /\ Kill(c)
    /\ pc' = [pc EXCEPT ![c] = "killed"]
    /\ UNCHANGED <<value, queue, signal, result>>

\* The status that a call tells: a kill of its own comes before the exit.
Status(c) ==
    IF fired[c] # "none" THEN fired[c] ELSE IF leader[c] # "zero" THEN "exit" ELSE "none"

Answers(c) ==
    /\ result' = [result EXCEPT ![c] = [ok |-> Status(c) = "none", status |-> Status(c)]]
    /\ pc' = Woken([pc EXCEPT ![c] = "answered"])
    /\ UNCHANGED <<signal, leader, family, fired>>

\* The slot is given back before the output is read.
AnswersPython(c) == c \in Pythons /\ Handed /\ Answers(c)
AnswersPytest(c) == c \in Tests /\ Handed /\ Answers(c)
AnswersShell(c) == c \in Shells /\ UNCHANGED <<value, queue>> /\ Answers(c)

AnswersAny(c) == AnswersPython(c) \/ AnswersPytest(c) \/ AnswersShell(c)

Answer(c) == pc[c] \in {"running", "killed"} /\ Drained(c) /\ AnswersAny(c)

\* The task of the call is cancelled.  While its process is created asyncio kills that process, and
\* not its group.  A call that has killed its process takes the cancellation for the end of
\* communicate(): it answers, without the output, and its caller goes on.
TaskCancel(c) ==
    \/ /\ pc[c] = "waiting"
       /\ queue' = Without(queue, c) /\ pc' = [pc EXCEPT ![c] = "raised"]
       /\ UNCHANGED <<value, signal, leader, family, result, fired>>
    \/ /\ pc[c] = "starting"
       /\ Leaves(c) /\ pc' = Woken([pc EXCEPT ![c] = "raised"])
       /\ UNCHANGED <<signal, leader, family, result, fired>>
    \/ /\ pc[c] = "spawning"
       /\ Leaves(c) /\ KillLeader(c) /\ pc' = Woken([pc EXCEPT ![c] = "dropped"])
       /\ UNCHANGED <<signal, family, result, fired>>
    \/ /\ pc[c] = "running"
       /\ Leaves(c) /\ Kill(c) /\ pc' = Woken([pc EXCEPT ![c] = "raised"])
       /\ UNCHANGED <<signal, result, fired>>
    \/ pc[c] = "killed" /\ AnswersAny(c)

-----------------------------------------------------------------------------
(* The processes, and the user *)

Exit(c) ==
    /\ leader[c] = "alive"
    /\ \E code \in {"zero", "other"} : leader' = [leader EXCEPT ![c] = code]
    /\ UNCHANGED <<pc, value, queue, signal, family, result, fired>>

Fork(c) ==
    /\ leader[c] = "alive"
    /\ \E d \in {"child", "stray"} : family' = [family EXCEPT ![c] = @ \cup {d}]
    /\ UNCHANGED <<pc, value, queue, signal, leader, result, fired>>

Ends(c) ==
    /\ \E d \in family[c] : family' = [family EXCEPT ![c] = @ \ {d}]
    /\ UNCHANGED <<pc, value, queue, signal, leader, result, fired>>

Signal == ~signal /\ signal' = TRUE /\ UNCHANGED <<pc, value, queue, leader, family, result, fired>>

Next ==
    \/ Signal
    \/ \E c \in Calls :
        \/ Refuse(c) \/ BeginPython(c) \/ BeginPytest(c) \/ BeginShell(c) \/ Start(c) \/ Started(c)
        \/ Interrupt(c) \/ Answer(c) \/ TaskCancel(c)
        \/ Exit(c) \/ Fork(c) \/ Ends(c)

Spec == Init /\ [][Next]_vars

-----------------------------------------------------------------------------
(* Properties *)

TypeOK ==
    /\ pc \in [Calls -> {"idle", "waiting", "starting", "spawning", "running", "killed"} \cup Over]
    /\ value \in 0..Limit /\ ToSet(queue) \subseteq Limited /\ signal \in BOOLEAN
    /\ leader \in [Calls -> {"none", "alive", "zero", "other", "killed"}]
    /\ family \in [Calls -> SUBSET {"child", "stray"}]
    /\ fired \in [Calls -> {"none", "timeout", "signal"}]
    /\ result \in [Calls -> [ok : BOOLEAN, status : {"none", "timeout", "signal", "exit"}]]

Holders == {c \in Limited : pc[c] \in {"starting", "spawning", "running", "killed"}}

\* The limit: never more than Limit processes of python and pytest at a time, no slot is lost however
\* their calls end, and nobody waits beside a free one.
LimitIsKept ==
    /\ Cardinality({c \in Limited : leader[c] = "alive"}) <= Limit
    /\ value + Cardinality(Holders) = Limit
    /\ queue # <<>> => value = 0

\* After a timeout, the signal or the cancellation of its task a call leaves no process of its group
\* behind, those of a leader that has exited before included.  A call that is cancelled while its
\* process is still being created leaves the process itself dead, but what that has started lives on.
GroupIsGone ==
    \A c \in Calls :
        /\ pc[c] \in {"killed", "raised", "dropped"} => leader[c] # "alive"
        /\ pc[c] \in {"killed", "raised"} => "child" \notin family[c]

\* An answer is true: ok means that the process ended by itself with no error, and a process that was killed
\* is said to be.
AnswersAreTrue ==
    \A c \in Calls : pc[c] = "answered" =>
        /\ result[c].ok <=> leader[c] = "zero" /\ result[c].status = "none"
        /\ leader[c] = "killed" => result[c].status \in {"timeout", "signal"}

-----------------------------------------------------------------------------
(* The inductive invariant behind them *)

\* The calls that wait stand in the line, each of them once.
LineWaits ==
    /\ queue \in Seq(Limited) /\ ToSet(queue) = {c \in Calls : pc[c] = "waiting"}
    /\ \A i, j \in 1..Len(queue) : queue[i] = queue[j] => i = j

\* What a call knows of its process
LeadersMatch ==
    \A c \in Calls :
        /\ pc[c] \in {"idle", "waiting", "starting", "refused"} => leader[c] = "none"
        /\ pc[c] \in {"spawning", "running", "killed", "answered", "dropped"} => leader[c] # "none"
        /\ leader[c] = "alive" => pc[c] \in {"spawning", "running"}
        /\ leader[c] = "killed" => pc[c] \in {"killed", "answered", "raised", "dropped"}
        /\ leader[c] = "none" => family[c] = {}

FiredMatch ==
    \A c \in Calls :
        /\ pc[c] \in {"idle", "waiting", "starting", "spawning", "running", "refused", "raised", "dropped"} => fired[c] = "none"
        /\ pc[c] = "killed" => fired[c] # "none"

IInv ==
    /\ TypeOK /\ LimitIsKept /\ GroupIsGone /\ AnswersAreTrue
    /\ LineWaits /\ LeadersMatch /\ FiredMatch
=============================================================================
