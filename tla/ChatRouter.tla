----------------------------- MODULE ChatRouter -----------------------------
(***************************************************************************)
(* ChatRouter (src/tau_web/chat_routing.py) and DeliveryRepository: a call *)
(* of send() reserves an attempt, creates a delivery, resolves its target, *)
(* hands the content over and records what became of it.  Each step is one *)
(* await; a call may be cancelled between any two, and the process may     *)
(* stop.  A delivery has the name of the call that creates it.             *)
(***************************************************************************)
EXTENDS Naturals, Sequences, FiniteSets, SequencesExt

CONSTANTS Calls, Sessions, None,
          Requests,      \* [source, target, mode, key, parent]; None for no key and for no parent
          MaxHops, MaxAttempts, Window,
          MaxClock,      \* bound: the clock
          MaxRestarts    \* bound: restarts of the process

VARIABLES
    call,      \* call[c]: where send() is, and its arguments
    row,       \* row[c]: row of chat_deliveries
    holder,    \* the call that holds the lock of the one key
    attempts,  \* attempts[s]: times in the window of a source
    sent,      \* sent[c]: the content reached its target
    run,       \* run[c]: the run of an "auto" delivery
    receipts,  \* deliveries with a receipt task
    clock, restarts

vars == <<call, row, holder, attempts, sent, run, receipts, clock, restarts>>

NoRow == [status |-> "none", target |-> None, chain |-> <<>>]

Init ==
    /\ call = [c \in Calls |-> [at |-> "new"]]
    /\ row = [c \in Calls |-> NoRow]
    /\ holder = None
    /\ attempts = [s \in Sessions |-> <<>>]
    /\ sent = [c \in Calls |-> FALSE]
    /\ run = [c \in Calls |-> "none"]
    /\ receipts = {} /\ clock = 0 /\ restarts = 0

-----------------------------------------------------------------------------
Goes(c, at) == call' = [call EXCEPT ![c].at = at]

Status(c, status) == row' = [row EXCEPT ![c].status = status]

\* Leaving _idempotency_lock
Leaves(c, at) ==
    /\ Goes(c, at)
    /\ holder' = IF holder = c THEN None ELSE holder

\* send() with its arguments; a delivery to reply to is one the caller has seen.
Send(c, arguments) ==
    /\ call[c].at = "new"
    /\ arguments.parent \in {None} \cup {d \in Calls : row[d].status # "none"}
    /\ call' = [call EXCEPT ![c] = arguments @@
                   [at |-> IF arguments.key = None THEN "reserve" ELSE "lock", stamp |-> 0]]
    /\ UNCHANGED <<row, holder, attempts, sent, run, receipts, clock, restarts>>

Keyed(c, key) == call[c].at # "new" /\ call[c].key = key /\ row[c].status # "none"

\* Mutant: a delivery that is still pending may be tried again.
TakenSettled(key) ==
    key # None /\ \E d \in Calls : Keyed(d, key) /\ row[d].status # "pending"

\* find_by_idempotency, and the same query in the transaction of create()
Taken(key) == key # None /\ \E d \in Calls : Keyed(d, key)

Lock(c) ==
    /\ call[c].at = "lock" /\ holder = None
    /\ IF Taken(call[c].key) THEN Goes(c, "deduped") /\ UNCHANGED holder
       ELSE Goes(c, "reserve") /\ holder' = c
    /\ UNCHANGED <<row, attempts, sent, run, receipts, clock, restarts>>

\* Mutant: an attempt stays in the window one tick less.
RecentShort(s) == SelectSeq(attempts[s], LAMBDA t : t + Window > clock + 1)

Recent(s) == SelectSeq(attempts[s], LAMBDA t : t + Window > clock)

\* _reserve_dispatch_attempt
Reserve(c) ==
    LET s == call[c].source
        late == Len(Recent(s)) >= MaxAttempts IN
    /\ call[c].at = "reserve"
    /\ attempts' = [attempts EXCEPT ![s] = IF late THEN Recent(s) ELSE Append(Recent(s), clock)]
    /\ call' = [call EXCEPT ![c].at = "create", ![c].stamp = IF late THEN 0 ELSE clock + 1]
    /\ UNCHANGED <<row, holder, sent, run, receipts, clock, restarts>>

\* _resolve_reply_context: the parent was delivered to the session that replies.
Replies(c) ==
    call[c].parent = None \/ row[call[c].parent].target = call[c].source

Chain(c) ==
    IF call[c].parent = None THEN <<>> ELSE Append(row[call[c].parent].chain, call[c].parent)

Create(c) ==
    /\ call[c].at = "create"
    /\ IF ~Replies(c) THEN Leaves(c, "error") /\ UNCHANGED row
       ELSE IF Taken(call[c].key) THEN Leaves(c, "deduped") /\ UNCHANGED row
       ELSE /\ row' = [row EXCEPT ![c] = [NoRow EXCEPT !.status = "pending", !.chain = Chain(c)]]
            /\ Goes(c, IF call[c].stamp = 0 \/ Len(Chain(c)) > MaxHops THEN "reject" ELSE "resolve")
            /\ UNCHANGED holder
    /\ UNCHANGED <<attempts, sent, run, receipts, clock, restarts>>

Reject(c) ==
    /\ call[c].at \in {"reject", "fail"}
    /\ Status(c, IF call[c].at = "reject" THEN "rejected" ELSE "failed")
    /\ Leaves(c, "error")
    /\ UNCHANGED <<attempts, sent, run, receipts, clock, restarts>>

\* Mutant: only the parent is looked at.
RevisitsParent(c, target) == Chain(c) # <<>> /\ row[call[c].parent].target = target

\* _reject_if_delivery_cycle
Revisits(c, target) == \E d \in ToSet(Chain(c)) : row[d].target = target

\* The target may be remote or archived, or its session not in the pool.
Resolve(c) ==
    LET target == call[c].target IN
    /\ call[c].at = "resolve"
    /\ \/ /\ row' = [row EXCEPT ![c].target = target]
          /\ \/ Goes(c, IF Revisits(c, target) THEN "reject" ELSE "dispatch")
             \/ Goes(c, "reject")
       \/ Goes(c, "reject") /\ UNCHANGED row
    /\ UNCHANGED <<holder, attempts, sent, run, receipts, clock, restarts>>

\* submit_prompt, enqueue or steer.  A queued message may be stored although the call raises.
Dispatch(c) ==
    LET mode == call[c].mode IN
    /\ call[c].at = "dispatch"
    /\ \/ /\ sent' = [sent EXCEPT ![c] = TRUE]
          /\ run' = IF mode = "auto" THEN [run EXCEPT ![c] = "running"] ELSE run
          /\ Goes(c, "record")
       \/ sent' = [sent EXCEPT ![c] = mode # "auto"] /\ Goes(c, "fail") /\ UNCHANGED run
       \/ mode = "steer" /\ Goes(c, "reject") /\ UNCHANGED <<sent, run>>
       \/ Goes(c, "fail") /\ UNCHANGED <<sent, run>>
    /\ UNCHANGED <<row, holder, attempts, receipts, clock, restarts>>

\* The status of a delivery that was handed over; "steer" may find it consumed already.
Record(c) ==
    LET mode == call[c].mode IN
    /\ call[c].at = "record"
    /\ \/ mode = "auto" /\ Status(c, "dispatched") /\ receipts' = receipts \cup {c}
       \/ mode # "auto" /\ Status(c, "accepted") /\ UNCHANGED receipts
       \/ mode = "steer" /\ Status(c, "completed") /\ UNCHANGED receipts
    /\ Leaves(c, "sent")
    /\ UNCHANGED <<attempts, sent, run, clock, restarts>>

\* The caller is cancelled, in the turn of an agent or in a request.
Cancel(c) ==
    /\ call[c].at \notin {"new", "deduped", "error", "sent", "cancelled"}
    /\ Leaves(c, "cancelled")
    /\ UNCHANGED <<row, attempts, sent, run, receipts, clock, restarts>>

-----------------------------------------------------------------------------
RunEnds(c) ==
    /\ run[c] = "running"
    /\ \E status \in {"completed", "failed", "cancelled"} : run' = [run EXCEPT ![c] = status]
    /\ UNCHANGED <<call, row, holder, attempts, sent, receipts, clock, restarts>>

\* Mutant: a cancelled run counts as completed.
OutcomeLoose(status) == IF status = "failed" THEN "failed" ELSE "completed"

Outcome(status) == IF status = "completed" THEN "completed" ELSE "failed"

\* _await_auto_receipt
Receipt(c) ==
    /\ c \in receipts /\ run[c] # "running"
    /\ receipts' = receipts \ {c}
    /\ Status(c, Outcome(run[c]))
    /\ UNCHANGED <<call, holder, attempts, sent, run, clock, restarts>>

Tick ==
    /\ clock < MaxClock /\ clock' = clock + 1
    /\ UNCHANGED <<call, row, holder, attempts, sent, run, receipts, restarts>>

\* Rows stay, calls, windows and receipt tasks do not; runs are interrupted.
Restart ==
    /\ restarts < MaxRestarts /\ restarts' = restarts + 1
    /\ call' = [c \in Calls |-> IF call[c].at \in {"new", "deduped", "error", "sent"} THEN call[c]
                                ELSE [call[c] EXCEPT !.at = "cancelled"]]
    /\ holder' = None /\ receipts' = {}
    /\ attempts' = [s \in Sessions |-> <<>>]
    /\ run' = [c \in Calls |-> IF run[c] = "running" THEN "interrupted" ELSE run[c]]
    /\ UNCHANGED <<row, sent, clock>>

Next ==
    \/ \E c \in Calls :
           \/ \E arguments \in Requests : Send(c, arguments)
           \/ Lock(c) \/ Reserve(c) \/ Create(c) \/ Reject(c) \/ Resolve(c) \/ Dispatch(c)
           \/ Record(c) \/ Cancel(c) \/ RunEnds(c) \/ Receipt(c)
    \/ Tick \/ Restart

Spec == Init /\ [][Next]_vars

-----------------------------------------------------------------------------
\* The types of the variables.
TypeOK ==
    /\ row \in [Calls -> [status : {"none", "pending", "rejected", "failed", "dispatched",
                                    "accepted", "completed"},
                          target : Sessions \cup {None}, chain : Seq(Calls)]]
    /\ holder \in Calls \cup {None} /\ receipts \subseteq Calls
    /\ attempts \in [Sessions -> Seq(0..MaxClock)] /\ sent \in [Calls -> BOOLEAN]
    /\ run \in [Calls -> {"none", "running", "completed", "failed", "cancelled", "interrupted"}]

\* Of the calls with one idempotency key, one hands its content over: not a retry that runs at
\* the same time, nor one after a cancelled call or a restart.
HandedOnce ==
    \A c, d \in Calls : c # d /\ sent[c] /\ sent[d] => call[c].key = None \/ call[c].key # call[d].key

\* A chain of replies is bounded, and no two deliveries of it that were handed over went to the
\* same session, although a reply may be sent before its parent is dispatched.
NoCycles ==
    \A c \in Calls : sent[c] =>
        /\ Len(row[c].chain) <= MaxHops
        /\ \A d \in ToSet(row[c].chain) : sent[d] => row[d].target # row[c].target

\* The row tells the truth: what was rejected never reached its target, and a delivery that
\* started a run is completed only if that run was.
ReceiptsTrue ==
    \A c \in Calls :
        /\ row[c].status = "rejected" => ~sent[c]
        /\ row[c].status = "completed" /\ run[c] # "none" => run[c] = "completed"

\* No window holds more attempts than allowed, unless the process was started again in it.
RateKept ==
    restarts > 0 \/ \A s \in Sessions, t \in 1..MaxClock :
        Cardinality({c \in Calls : call[c].at # "new" /\ call[c].source = s
                                     /\ call[c].stamp \in t..t + Window - 1}) <= MaxAttempts
=============================================================================
