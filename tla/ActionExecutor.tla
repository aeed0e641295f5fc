--------------------------- MODULE ActionExecutor ---------------------------
(***************************************************************************)
(* ActionExecutor of tau_extensions/web/actions.py: calls of an            *)
(* extension's actions with approval, two limits of concurrency, a         *)
(* timeout, cancellation, and deduplication by an idempotency key, for     *)
(* which the calls of one key share a future and a cache of results.       *)
(* A call's work is a task of its own: it may be cancelled before its      *)
(* first step.  Definitions come and go in an ActionRegistry while calls   *)
(* of theirs are under way.                                                *)
(***************************************************************************)
EXTENDS Integers, Sequences, FiniteSets, SequencesExt

CONSTANTS None,
          MaxCalls,              \* bound: invocations of execute, each with a request id of its own
          Actions, Idempotent, NeedApproval,
          Keys, Payloads,
          MaxConcurrency,        \* of the executor
          Capacity,              \* completed_idempotency_capacity
          Definitions            \* a sequence, and so a bound: what an extension registers, one time after another,
                                 \* an action |-> its concurrency

Calls == 1..MaxCalls             \* in the order of their arrival
Codes == {"conflict", "denied", "failed", "CancelledError", "cancelled"}
Error(code) == [kind |-> "error", of |-> code]
Result(c) == [kind |-> "result", of |-> c]

\* The executor refuses a concurrency and a capacity below 1, the registry a concurrency of an action below 1.
\* None is no action, no number and no outcome.
ActionExecutorAssumption ==
    /\ MaxCalls \in Nat /\ MaxConcurrency \in Nat \ {0} /\ Capacity \in Nat \ {0}
    /\ Idempotent \subseteq Actions /\ NeedApproval \subseteq Actions
    /\ Definitions # <<>> /\ Definitions \in Seq([Actions -> Nat \ {0}])
    /\ None \notin Actions /\ None \notin Calls /\ \A i \in DOMAIN Definitions : \A a \in Actions : Definitions[i][a] # None
    /\ \A c \in Calls : Result(c) # None
    /\ \A code \in Codes : Error(code) # None

VARIABLES
    listed,     \* the registry holds the extension's definitions
    version,    \* the place in Definitions of those it registered last
    semaphore,  \* action |-> the size of its semaphore, None before its first use
    line,       \* the waiters of the executor's semaphore (None) and of those of the actions
    call,       \* what each call asks for: [scope, payload, joins, width]
    phase,      \* where it is
    out,        \* what its task ended with
    inflight,   \* scope |-> the call whose future is shared, or None
    future,     \* that call's future: None while it is pending, or an outcome
    completed,  \* the cache, the oldest first: [scope, payload, of]
    succeeded,  \* observed: scope |-> calls whose handler succeeded
    evicted,    \* observed: scopes that fell out of the cache
    stopped,    \* observed: calls that were cancelled themselves
    unborn      \* observed: calls that were cancelled before the first step of their task

vars == <<listed, version, semaphore, line, call, phase, out, inflight, future, completed, succeeded, evicted,
          stopped, unborn>>
sharing == <<inflight, future, completed, succeeded, evicted>>
registry == <<listed, version>>
seen == <<stopped, unborn>>

NoKey == [a \in Actions |-> <<a, None>>]
Scopes == {NoKey[a] : a \in Actions \ Idempotent} \cup (Idempotent \X Keys)
Action(c) == call[c].scope[1]
Shares(scope) == scope[1] \in Idempotent
\* Payloads are compared where a key is shared, and nowhere else.
PayloadsOf(scope) == IF Shares(scope) THEN Payloads ELSE {None}
Working == {"started", "approval", "global", "slot", "handler"}


Init ==
    /\ listed = TRUE /\ version = 1 /\ semaphore = [a \in Actions |-> None]
    /\ line = [a \in Actions \cup {None} |-> <<>>]
    /\ call = [c \in Calls |-> None] /\ phase = [c \in Calls |-> "new"] /\ out = [c \in Calls |-> None]
    /\ inflight = [s \in Scopes |-> None] /\ future = [c \in Calls |-> None]
    /\ completed = <<>> /\ succeeded = [s \in Scopes |-> {}] /\ evicted = {} /\ stopped = {} /\ unborn = {}

-----------------------------------------------------------------------------
(* ActionRegistry *)

Unaffected == UNCHANGED <<semaphore, line, call, phase, out>> /\ UNCHANGED <<sharing, seen>>

\* Nothing is awaited between the actions of one extension, or between those it disposes of.  An action that is
\* registered already is refused.
Register == ~listed /\ version < Len(Definitions) /\ listed' = TRUE /\ version' = version + 1 /\ Unaffected

\* dispose_extension, or the handles of register: calls under way keep their definition, and semaphores stay.
Dispose == listed /\ listed' = FALSE /\ UNCHANGED version /\ Unaffected

-----------------------------------------------------------------------------
(* execute, up to the creation of its task *)

Cached(scope) == {i \in DOMAIN completed : Shares(scope) /\ completed[i].scope = scope}

\* Mutant: a key is enough to share a result.
SameKey(scope, payload, other) == TRUE
SameRequest(scope, payload, other) == other = payload

Ends(c, outcome) ==
    /\ phase' = [phase EXCEPT ![c] = "ended"] /\ out' = [out EXCEPT ![c] = outcome]

\* The cached result, which becomes the newest
Answers(c, scope, payload) ==
    \E i \in Cached(scope) :
        /\ IF SameRequest(scope, payload, completed[i].payload)
           THEN /\ Ends(c, Result(completed[i].of))
                /\ completed' = Append(RemoveAt(completed, i), completed[i])
           ELSE Ends(c, Error("conflict")) /\ UNCHANGED completed
        /\ UNCHANGED <<inflight>>

\* _await_shared
Joins(c, scope, payload) ==
    /\ Cached(scope) = {} /\ Shares(scope) /\ inflight[scope] # None
    /\ IF SameRequest(scope, payload, call[inflight[scope]].payload)
       THEN phase' = [phase EXCEPT ![c] = "awaits"] /\ UNCHANGED out
       ELSE Ends(c, Error("conflict"))
    /\ UNCHANGED <<inflight, completed>>

Starts(c, scope) ==
    /\ Cached(scope) = {} /\ inflight[scope] = None
    /\ phase' = [phase EXCEPT ![c] = "started"]
    /\ inflight' = [inflight EXCEPT ![scope] = IF Shares(scope) THEN c ELSE None]
    /\ UNCHANGED <<out, completed>>

\* A request id that is active, and an action that is not registered, are refused, which changes nothing.
Execute(c) ==
    /\ phase[c] = "new" /\ \A d \in 1..(c - 1) : phase[d] # "new"
    /\ listed
    /\ \E scope \in Scopes : \E payload \in PayloadsOf(scope) :
        /\ call' = [call EXCEPT ![c] = [scope |-> scope, payload |-> payload, width |-> Definitions[version][scope[1]],
                                        joins |-> IF Cached(scope) = {} THEN inflight[scope] ELSE None]]
        /\ Answers(c, scope, payload) \/ Joins(c, scope, payload) \/ Starts(c, scope)
    /\ UNCHANGED <<semaphore, line, future, succeeded, evicted>> /\ UNCHANGED <<registry, seen>>

-----------------------------------------------------------------------------
(* _run_request: approval, and the two semaphores, whose waiters are served in order *)

\* The calls that hold the executor's semaphore, and those that hold the one of action a
Holders(a) == {c \in Calls : IF a = None THEN phase[c] \in {"slot", "handler"}
                             ELSE phase[c] = "handler" /\ Action(c) = a}
\* _action_semaphore: made when the first call asks for it
Size(c) == IF semaphore[Action(c)] = None THEN call[c].width ELSE semaphore[Action(c)]

\* A newcomer takes what is left when nobody waits; who waits is served in order.
IsNext(a, c) == line[a] = <<>> \/ Head(line[a]) = c

Room(a, c) ==
    /\ IsNext(a, c)
    /\ Cardinality(Holders(a)) < IF a = None THEN MaxConcurrency ELSE Size(c)

Without(q, c) ==
    IF \E i \in DOMAIN q : q[i] = c THEN RemoveAt(q, CHOOSE i \in DOMAIN q : q[i] = c) ELSE q
Left(c) == [a \in DOMAIN line |-> Without(line[a], c)]

\* async with self._global_semaphore, action_semaphore: a call holds the first while it waits for the second.
Acquires(c) ==
    LET a == Action(c)
        to == IF ~Room(None, c) THEN "global" ELSE IF ~Room(a, c) THEN "slot" ELSE "handler"
    IN  /\ phase' = [phase EXCEPT ![c] = to]
        /\ semaphore' = [semaphore EXCEPT ![a] = Size(c)]
        /\ line' = CASE to = "global" -> [line EXCEPT ![None] = Append(@, c)]
                     [] to = "slot" -> [Left(c) EXCEPT ![a] = Append(@, c)]
                     [] to = "handler" -> Left(c)

Waits == UNCHANGED <<call, out>> /\ UNCHANGED <<registry, sharing, seen>>

Begin(c) ==
    /\ phase[c] = "started"
    /\ IF Action(c) \in NeedApproval
       THEN phase' = [phase EXCEPT ![c] = "approval"] /\ UNCHANGED <<semaphore, line>>
       ELSE Acquires(c)
    /\ Waits
Approve(c) == phase[c] = "approval" /\ Acquires(c) /\ Waits

\* The executor's semaphore is granted to the call that waits longest.
EnterGlobal(c) == phase[c] = "global" /\ Room(None, c) /\ Acquires(c) /\ Waits
EnterSlot(c) ==
    /\ phase[c] = "slot" /\ Room(Action(c), c)
    /\ phase' = [phase EXCEPT ![c] = "handler"] /\ line' = Left(c)
    /\ UNCHANGED semaphore /\ Waits

-----------------------------------------------------------------------------
(* _run_request: its endings *)

\* Mutant: the key is released when the handler succeeded.
ReleasedOnSuccess(c, outcome) == outcome.kind = "result" /\ inflight[call[c].scope] = c
\* finally
Released(c, outcome) == inflight[call[c].scope] = c

\* The shared future is set unless it is done, the key is released, the semaphores are given back.
Settles(c, outcome) ==
    /\ phase' = [phase EXCEPT ![c] = "ended"] /\ out' = [out EXCEPT ![c] = outcome]
    /\ line' = Left(c)
    /\ future' = [future EXCEPT ![c] = IF Shares(call[c].scope) /\ @ = None THEN outcome ELSE @]
    /\ inflight' = [inflight EXCEPT ![call[c].scope] = IF Released(c, outcome) THEN None ELSE @]
    /\ UNCHANGED <<semaphore, call>> /\ UNCHANGED registry

\* _store_completed
Stores(c) ==
    LET entry == [scope |-> call[c].scope, payload |-> call[c].payload, of |-> c]
        others == IF Cached(entry.scope) = {} THEN completed
                  ELSE RemoveAt(completed, CHOOSE i \in Cached(entry.scope) : TRUE)
        all == Append(others, entry)
    IN  completed' = IF Len(all) > Capacity THEN Tail(all) ELSE all

\* _require_approval: there is nobody to ask, the answer is no, or the callback raises.  The codes are one.
Deny(c) ==
    /\ phase[c] = "approval" /\ Settles(c, Error("denied"))
    /\ UNCHANGED <<completed, succeeded, evicted, stopped, unborn>>

Succeed(c) ==
    LET scope == call[c].scope IN
    /\ phase[c] = "handler" /\ Settles(c, Result(c))
    /\ IF Shares(scope)
       THEN /\ Stores(c) /\ succeeded' = [succeeded EXCEPT ![scope] = @ \cup {c}]
            /\ evicted' = evicted \cup {completed[i].scope : i \in {j \in DOMAIN completed : \A e \in Range(completed') : e.scope # completed[j].scope}}
       ELSE UNCHANGED <<completed, succeeded, evicted>>
    /\ UNCHANGED seen

\* The handler raises, gives something that is no valid result, or runs out of time: the codes are one.
Fail(c) ==
    /\ phase[c] = "handler" /\ Settles(c, Error("failed"))
    /\ UNCHANGED <<completed, succeeded, evicted, stopped, unborn>>

-----------------------------------------------------------------------------
(* cancel, also of the caller of execute *)

\* A task that has not begun never runs its handlers of exceptions: its caller sees CancelledError, no ActionError.
CancelUnborn(c) ==
    /\ phase[c] \in {"started", "awaits"}
    /\ Ends(c, Error("CancelledError"))
    /\ stopped' = stopped \cup {c} /\ unborn' = unborn \cup {c}
    /\ UNCHANGED <<semaphore, line, call>> /\ UNCHANGED <<registry, sharing>>

CancelRun(c) ==
    /\ phase[c] \in {"approval", "global", "slot", "handler"} /\ Settles(c, Error("cancelled"))
    /\ stopped' = stopped \cup {c}
    /\ UNCHANGED <<completed, succeeded, evicted, unborn>>

-----------------------------------------------------------------------------
(* _await_shared_future, a task of its own *)

\* Its first step awaits the future.
Await(c) ==
    /\ phase[c] = "awaits" /\ phase' = [phase EXCEPT ![c] = "waiting"]
    /\ UNCHANGED <<semaphore, line>> /\ Waits

\* Cancelling the task that waits cancels the future itself.
CancelWait(c) ==
    /\ phase[c] = "waiting" /\ Ends(c, Error("cancelled"))
    /\ future' = [future EXCEPT ![call[c].joins] = IF @ = None THEN Error("cancelled") ELSE @]
    /\ stopped' = stopped \cup {c}
    /\ UNCHANGED <<semaphore, line, call, inflight, completed, succeeded, evicted, unborn>> /\ UNCHANGED registry

Wake(c) ==
    /\ phase[c] = "waiting" /\ future[call[c].joins] # None
    /\ Ends(c, future[call[c].joins])
    /\ UNCHANGED <<semaphore, line, call>> /\ UNCHANGED <<registry, sharing, seen>>

Next ==
    \/ \E c \in Calls :
        \/ Execute(c) \/ Begin(c) \/ Approve(c) \/ Deny(c) \/ EnterGlobal(c) \/ EnterSlot(c)
        \/ Succeed(c) \/ Fail(c) \/ CancelUnborn(c) \/ CancelRun(c)
        \/ Await(c) \/ CancelWait(c) \/ Wake(c)
    \/ Register \/ Dispose

Spec == Init /\ [][Next]_vars

-----------------------------------------------------------------------------
(* Properties *)

TypeOK ==
    /\ phase \in [Calls -> Working \cup {"new", "awaits", "waiting", "ended"}]
    /\ \A s \in Scopes : inflight[s] \in Calls \cup {None}
    /\ Len(completed) <= Capacity
    /\ version \in DOMAIN Definitions
    /\ \A a \in Actions : semaphore[a] \in {d[a] : d \in Range(Definitions)} \cup {None}

\* A caller gets its own result, or that of a call with the same action, key and payload.
ResultIsOwn ==
    \A c \in Calls : out[c] # None /\ out[c].kind = "result" =>
        \/ out[c].of = c
        \/ Shares(call[c].scope) /\ call[out[c].of].scope = call[c].scope /\ call[out[c].of].payload = call[c].payload

\* The work of a key is not done twice: its handler succeeds again only if its result fell out of the cache.
KeyWorksOnce == \A s \in Scopes : Cardinality(succeeded[s]) > 1 => s \in evicted

\* Nobody waits for a task that is gone, and no key is held by one, except where the task was cancelled before
\* its first step.
WaitersAreServed ==
    /\ \A s \in Scopes : inflight[s] # None => phase[inflight[s]] \in Working \/ inflight[s] \in unborn
    /\ \A c \in Calls : phase[c] = "waiting" /\ future[call[c].joins] = None =>
           phase[call[c].joins] \in Working \/ call[c].joins \in unborn

\* No handler runs beyond the limits of the executor and of its action's semaphore, whatever is registered meanwhile,
\* and a call that was cancelled or ended leaves no place in a line behind: who stands in one waits for it, once.
LimitsAreKept ==
    /\ Cardinality(Holders(None)) <= MaxConcurrency
    /\ \A a \in Actions : semaphore[a] # None => Cardinality(Holders(a)) <= semaphore[a]
WaitersStandInLine ==
    \A a \in DOMAIN line :
        /\ IsInjective(line[a])
        /\ Range(line[a]) = {c \in Calls : IF a = None THEN phase[c] = "global"
                                           ELSE phase[c] = "slot" /\ Action(c) = a}
LinesAreServed == LimitsAreKept /\ WaitersStandInLine

\* cancel: "Cancel one active request by id" (actions.py:609): a call that nobody cancelled does not end as cancelled
\* unless the call whose work it shares was.
CancelsOne ==
    \A c \in Calls : out[c] = Error("cancelled") => c \in stopped \/ call[c].joins \in stopped
-----------------------------------------------------------------------------
(* What the steps rely on *)

Requests == [scope : Scopes, payload : Payloads \cup {None}, width : Nat, joins : Calls \cup {None}]
Stored == [scope : Scopes, payload : Payloads \cup {None}, of : Calls]
Widths(a) == {d[a] : d \in Range(Definitions)}
Begun(c) == phase[c] # "new"

\* A call that began is a request, of a width that its action had.
RequestsAreKept ==
    /\ DOMAIN call = Calls
    /\ \A c \in Calls : Begun(c) => call[c] \in Requests /\ call[c].width \in Widths(Action(c))
    /\ semaphore \in [Actions -> Nat \cup {None}]

\* Two calls of one action, key and payload
Alike(c, d) == Shares(call[c].scope) /\ call[d].scope = call[c].scope /\ call[d].payload = call[c].payload

\* What is shared comes from a call of that action, key and payload.
OutcomesAreOwn ==
    /\ DOMAIN out = Calls /\ DOMAIN future = Calls
    /\ \A c \in Calls :
        /\ ~Begun(c) => out[c] = None /\ future[c] = None
        /\ future[c] # None /\ future[c].kind = "result" => future[c].of = c
        /\ out[c] # None /\ out[c].kind = "result" =>
               out[c].of = c \/ (out[c].of \in Calls /\ Begun(out[c].of) /\ Alike(c, out[c].of))
        /\ phase[c] \in {"awaits", "waiting"} => call[c].joins \in Calls /\ Begun(call[c].joins) /\ Alike(c, call[c].joins)

CacheMatches ==
    /\ completed \in Seq(Stored)
    /\ \A e \in Range(completed) :
           Begun(e.of) /\ Shares(e.scope) /\ call[e.of].scope = e.scope /\ call[e.of].payload = e.payload

\* The call at work for a key is the one whose future is shared, and nothing of that key is in the cache.
KeysAreHeld ==
    /\ inflight \in [Scopes -> Calls \cup {None}]
    /\ \A s \in Scopes : inflight[s] # None =>
        /\ Begun(inflight[s]) /\ Shares(s) /\ call[inflight[s]].scope = s
        /\ \A e \in Range(completed) : e.scope # s
    /\ \A c \in Calls : phase[c] \in Working /\ Shares(call[c].scope) => inflight[call[c].scope] = c

\* What succeeded is in the cache, or fell out of it.
SuccessIsKept ==
    /\ succeeded \in [Scopes -> SUBSET Calls]
    /\ \A s \in Scopes \ evicted :
        /\ succeeded[s] # {} => \E e \in Range(completed) : e.scope = s
        /\ \A c, d \in succeeded[s] : c = d

WaitersHaveWork ==
    /\ \A s \in Scopes : inflight[s] # None => phase[inflight[s]] \in Working \/ inflight[s] \in unborn
    /\ \A c \in Calls : phase[c] \in {"awaits", "waiting"} /\ future[call[c].joins] = None =>
           phase[call[c].joins] \in Working \/ call[c].joins \in unborn

\* A semaphore is made before anybody holds it or waits for it.
SemaphoresAreMade ==
    /\ line \in [Actions \cup {None} -> Seq(Calls)]
    /\ \A c \in Calls : phase[c] \in {"global", "slot", "handler"} => semaphore[Action(c)] # None

IInv ==
    /\ TypeOK /\ RequestsAreKept /\ OutcomesAreOwn /\ CacheMatches /\ KeysAreHeld /\ SuccessIsKept /\ WaitersHaveWork
    /\ SemaphoresAreMade /\ LinesAreServed
=============================================================================
