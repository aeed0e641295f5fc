--------------------------- MODULE TurnScheduler ---------------------------
(***************************************************************************)
(* What AsyncAgentPool promises its callers, without locks, semaphores,    *)
(* streams or tasks: the runs submitted to one session are executed one at *)
(* a time and in the order of their submission, at most MaxConcurrency     *)
(* runs are executed at any time, and a run that still waits may be        *)
(* dropped.  AgentPool implements this specification.                      *)
(***************************************************************************)
EXTENDS Naturals, Sequences, FiniteSets, SequencesExt

CONSTANTS Sessions,        \* session ids
          Runs,            \* submitted runs
          SessionOf,       \* the session a run is submitted to
          MaxConcurrency   \* bound on runs that execute together

VARIABLES phase,   \* phase[r]: what has become of run r
          line     \* line[s]: the runs of s that wait, oldest first

turnVars == <<phase, line>>

Phases == {"new", "waiting", "active", "over"}

Executing == {r \in Runs : phase[r] = "active"}

Idle(s) == \A r \in Executing : SessionOf[r] # s

TurnInit ==
    /\ phase = [r \in Runs |-> "new"]
    /\ line = [s \in Sessions |-> <<>>]

Enqueue(r) ==
    /\ phase[r] = "new"
    /\ phase' = [phase EXCEPT ![r] = "waiting"]
    /\ line' = [line EXCEPT ![SessionOf[r]] = Append(@, r)]

Start(r) ==
    /\ line[SessionOf[r]] # <<>>
    /\ Head(line[SessionOf[r]]) = r
    /\ Idle(SessionOf[r])
    /\ Cardinality(Executing) < MaxConcurrency
    /\ phase' = [phase EXCEPT ![r] = "active"]
    /\ line' = [line EXCEPT ![SessionOf[r]] = Tail(@)]

Drop(r) ==
    LET s == SessionOf[r] IN
    /\ phase[r] = "waiting"
    /\ phase' = [phase EXCEPT ![r] = "over"]
    /\ \E i \in DOMAIN line[s] :
           line[s][i] = r /\ line' = [line EXCEPT ![s] = RemoveAt(@, i)]

End(r) ==
    /\ phase[r] = "active"
    /\ phase' = [phase EXCEPT ![r] = "over"]
    /\ UNCHANGED line

TurnNext == \E r \in Runs : Enqueue(r) \/ Start(r) \/ Drop(r) \/ End(r)

TurnSpec == TurnInit /\ [][TurnNext]_turnVars
=============================================================================
