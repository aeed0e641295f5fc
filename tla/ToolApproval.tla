---------------------------- MODULE ToolApproval ----------------------------
(***************************************************************************)
(* ToolApprovalManager (src/tau_web/approvals.py): a tool call waits for   *)
(* the decision of a browser, a timeout, a cancellation, the abort of its  *)
(* run, or the shutdown of the host.  Every decision is written to the     *)
(* audit log before it takes effect, and each write suspends.              *)
(***************************************************************************)
EXTENDS Naturals, Sequences, FiniteSets, SequencesExt

CONSTANTS Requests,    \* tool calls that ask for approval
          MaxFailures, \* bound: writes to the audit log that fail
          None

ASSUME ApprovalAssumption ==
    None \notin Requests \cup {"allow", "deny"}
    /\ MaxFailures \in Nat

Decisions == {"allow", "deny"}

VARIABLES
    request,   \* request[a]: where the task in request() is
    outcome,   \* outcome[a]: what the agent loop makes of it
    future,    \* future[a]: the decision the task waits for
    resolvers, \* resolvers[a]: the resolve() calls that write their record; resolving is set
               \* while there is one
    audit,     \* audit[a]: the resolved records in the audit log, oldest first
    host,      \* _closed, and the shutdown() call
    failures   \* bounded counter

vars == <<request, outcome, future, resolvers, audit, host, failures>>

Resolvers == [by : {"browser", "self", "abort", "shutdown"}, decision : Decisions]

Init ==
    /\ request = [a \in Requests |-> "new"]
    /\ outcome = [a \in Requests |-> "none"]
    /\ future = [a \in Requests |-> None]
    /\ resolvers = [a \in Requests |-> {}]
    /\ audit = [a \in Requests |-> <<>>]
    /\ host = [closed |-> FALSE, shutdown |-> "no", todo |-> {}]
    /\ failures = 0

-----------------------------------------------------------------------------
\* Mutant: a request is only registered when it has been published.
PendingPublished == {a \in Requests : request[a] \in {"wait", "cancel", "shield", "abort"}}

\* The requests in _pending
Pending == {a \in Requests : request[a] \in {"audit", "wait", "cancel", "shield", "abort"}}

\* Mutant: a second resolver is not turned away.
ResolvableTwice(a) == a \in Pending /\ future[a] = None

\* resolve() does not return None.
Resolvable(a) == a \in Pending /\ future[a] = None /\ resolvers[a] = {}

\* resolve() sets resolving and begins to write its record.
Resolves(a, who, decision) ==
    resolvers' = [resolvers EXCEPT ![a] = @ \cup {[by |-> who, decision |-> decision]}]

\* The task leaves request(): its entry is popped from _pending.
Leaves(a, result) ==
    /\ request' = [request EXCEPT ![a] = "left"]
    /\ outcome' = [outcome EXCEPT ![a] = result]

\* The value of future.result(): an undecided future raises, and the agent loop denies.
Result(a) ==
    CASE future[a] = "allow" -> "allowed"
      [] future[a] = "deny" -> "denied"
      [] OTHER -> "raised"

Fails == failures < MaxFailures /\ failures' = failures + 1

-----------------------------------------------------------------------------
(* request() *)

Ask(a) ==
    /\ request[a] = "new"
    /\ IF host.closed
       THEN Leaves(a, "denied")
       ELSE request' = [request EXCEPT ![a] = "audit"] /\ UNCHANGED outcome
    /\ UNCHANGED <<future, resolvers, audit, host, failures>>

\* The request is recorded and published, or the audit log fails.
Asked(a) ==
    /\ request[a] = "audit"
    /\ request' = [request EXCEPT ![a] = "wait"]
    /\ UNCHANGED <<outcome, future, resolvers, audit, host, failures>>
AskFails(a) ==
    /\ request[a] = "audit" /\ Fails
    /\ Leaves(a, "raised")
    /\ UNCHANGED <<future, resolvers, audit, host>>

\* The loop finds a decision.
Decided(a) ==
    /\ request[a] = "wait" /\ future[a] # None
    /\ Leaves(a, Result(a))
    /\ UNCHANGED <<future, resolvers, audit, host, failures>>

\* Mutant: the loop goes on waiting when somebody else is resolving, and checks its
\* deadline no more.
ExpiresNever(a) == FALSE

\* The loop finds its signal cancelled or its deadline passed.  When a resolve() is under
\* way already, cancel() returns None at once and the loop is left without a decision.
Expires(a) ==
    /\ request[a] = "wait" /\ future[a] = None
    /\ IF Resolvable(a)
       THEN /\ Resolves(a, "self", "deny")
            /\ request' = [request EXCEPT ![a] = "cancel"]
            /\ UNCHANGED outcome
       ELSE Leaves(a, Result(a)) /\ UNCHANGED resolvers
    /\ UNCHANGED <<future, audit, host, failures>>

\* The run is aborted: CancelledError reaches the task.  A resolve() it is in itself gives
\* up, although the writer may commit its record (written).  An undecided request is to be
\* denied behind a shield, in a task that starts later; a second CancelledError leaves
\* that task behind.
Abort(a, written) ==
    /\ a \in Pending
    /\ written => request[a] = "cancel"
    /\ audit' = IF written THEN [audit EXCEPT ![a] = Append(@, "deny")] ELSE audit
    /\ resolvers' = [resolvers EXCEPT ![a] = {r \in @ : r.by # "self"}]
    /\ IF request[a] \in {"audit", "wait", "cancel"} /\ future[a] = None
       THEN request' = [request EXCEPT ![a] = "shield"] /\ UNCHANGED outcome
       ELSE Leaves(a, "aborted")
    /\ UNCHANGED <<future, host, failures>>

\* The task behind the shield starts.
AbortDenies(a) ==
    /\ request[a] = "shield"
    /\ IF Resolvable(a)
       THEN /\ Resolves(a, "abort", "deny")
            /\ request' = [request EXCEPT ![a] = "abort"]
            /\ UNCHANGED outcome
       ELSE Leaves(a, "aborted") /\ UNCHANGED resolvers
    /\ UNCHANGED <<future, audit, host, failures>>

-----------------------------------------------------------------------------
(* resolve() *)

\* POST /api/approvals/{approval_id}
Browser(a, decision) ==
    /\ Resolvable(a)
    /\ Resolves(a, "browser", decision)
    /\ UNCHANGED <<request, outcome, future, audit, host, failures>>

\* Mutant: a decision takes effect although it was not recorded.
EffectUnrecorded(a, decision) ==
    /\ future' = [future EXCEPT ![a] = decision]
    /\ UNCHANGED audit

\* The record is written, then the decision takes effect.
Effect(a, decision) ==
    /\ audit' = [audit EXCEPT ![a] = Append(@, decision)]
    /\ future' = [future EXCEPT ![a] = decision]

\* The task in request() waits for this resolve(), which returns to it without suspension.
InsideRequest(a, r) ==
    <<request[a], r.by>> \in {<<"cancel", "self">>, <<"abort", "abort">>}

Resolved(a, r) ==
    /\ r \in resolvers[a]
    /\ Effect(a, r.decision)
    /\ resolvers' = [resolvers EXCEPT ![a] = @ \ {r}]
    /\ IF InsideRequest(a, r)
       THEN Leaves(a, IF r.by = "self" THEN Result(a)' ELSE "aborted")
       ELSE UNCHANGED <<request, outcome>>
    /\ UNCHANGED <<host, failures>>

\* The audit log fails: resolving is reset and the error goes to the caller.  shutdown()
\* ends with it and leaves the other requests alone.
ResolveFails(a, r) ==
    /\ r \in resolvers[a] /\ Fails
    /\ resolvers' = [resolvers EXCEPT ![a] = @ \ {r}]
    /\ IF InsideRequest(a, r)
       THEN Leaves(a, "raised") ELSE UNCHANGED <<request, outcome>>
    /\ host' = IF r.by = "shutdown"
               THEN [host EXCEPT !.shutdown = "failed", !.todo = {}] ELSE host
    /\ UNCHANGED <<future, audit>>

-----------------------------------------------------------------------------
(* shutdown() *)

\* A later call finds _closed set and returns.
ShutdownBegins ==
    /\ host.shutdown \in {"no", "failed"}
    /\ host' = IF host.closed THEN [host EXCEPT !.shutdown = "done"]
               ELSE [closed |-> TRUE, shutdown |-> "loop", todo |-> Pending]
    /\ UNCHANGED <<request, outcome, future, resolvers, audit, failures>>

Closing == \E a \in Requests : \E r \in resolvers[a] : r.by = "shutdown"

\* The loop goes on to a when the cancel() before has returned.
ShutdownNext(a) ==
    /\ host.shutdown = "loop" /\ a \in host.todo
    /\ ~Closing
    /\ host' = [host EXCEPT !.todo = @ \ {a}]
    /\ IF Resolvable(a) THEN Resolves(a, "shutdown", "deny") ELSE UNCHANGED resolvers
    /\ UNCHANGED <<request, outcome, future, audit, failures>>

ShutdownEnds ==
    /\ host.shutdown = "loop" /\ host.todo = {}
    /\ ~Closing
    /\ host' = [host EXCEPT !.shutdown = "done"]
    /\ UNCHANGED <<request, outcome, future, resolvers, audit, failures>>

-----------------------------------------------------------------------------
RequestStep(a) == Asked(a) \/ AskFails(a) \/ Decided(a) \/ Expires(a) \/ AbortDenies(a)
ResolveStep(a) == \E r \in resolvers[a] : Resolved(a, r) \/ ResolveFails(a, r)

Next ==
    \/ \E a \in Requests :
           \/ Ask(a) \/ RequestStep(a) \/ ResolveStep(a)
           \/ \E d \in Decisions : Browser(a, d)
           \/ \E written \in BOOLEAN : Abort(a, written)
           \/ ShutdownNext(a)
    \/ ShutdownBegins \/ ShutdownEnds

Spec == Init /\ [][Next]_vars

\* The loop wakes up every 0.2 seconds and looks at its deadline; writes to the log end.
FairSpec ==
    Spec /\ \A a \in Requests : WF_vars(RequestStep(a)) /\ WF_vars(ResolveStep(a))

-----------------------------------------------------------------------------
\* The types of the variables; one resolve() at a time has set resolving.
TypeOK ==
    /\ request \in [Requests -> {"new", "audit", "wait", "cancel", "shield", "abort", "left"}]
    /\ outcome \in [Requests -> {"none", "allowed", "denied", "raised", "aborted"}]
    /\ future \in [Requests -> Decisions \cup {None}]
    /\ resolvers \in [Requests -> SUBSET Resolvers]
    /\ \A a \in Requests : \A r, s \in resolvers[a] : r = s
    /\ audit \in [Requests -> Seq(Decisions)]
    /\ host \in [closed : BOOLEAN, shutdown : {"no", "loop", "failed", "done"},
                 todo : SUBSET Requests]
    /\ failures \in 0..MaxFailures

\* A tool is only executed when the decision to allow it is in the audit log, and no
\* other: request() returns what resolve() has recorded, whoever raced.
AllowedIsAudited ==
    \A a \in Requests :
        outcome[a] = "allowed" => Contains(audit[a], "allow") /\ ~Contains(audit[a], "deny")

\* The audit log holds both decisions about one tool call only when its run was aborted in
\* the middle of a denial whose record was committed all the same.
NoContradiction ==
    \A a \in Requests :
        Contains(audit[a], "allow") /\ Contains(audit[a], "deny") =>
            request[a] = "shield" \/ outcome[a] = "aborted"

\* Decisions are on record, once: what runs was allowed, and nobody is told two things.
DecisionsAreRecorded == TypeOK /\ AllowedIsAudited /\ NoContradiction

\* Every tool call is decided in the end, although no browser answers.
RequestsEnd == \A a \in Requests : request[a] = "audit" ~> request[a] = "left"

\* A recorded decision is the one the agent loop acts on, unless its run is aborted.
DecisionStands ==
    \A a \in Requests :
        request[a] = "left" /\ Contains(audit[a], "allow") =>
            outcome[a] \in {"allowed", "aborted"}

\* When shutdown() has returned, no request waits for a decision that nobody makes.
ShutdownDenies ==
    host.shutdown = "done" =>
        \A a \in Requests :
            request[a] \in {"audit", "wait"} => future[a] # None \/ resolvers[a] # {}

\* shutdown() keeps that promise while no write to the audit log fails.
HealthyShutdownDenies == failures = 0 => ShutdownDenies

-----------------------------------------------------------------------------
(* The inductive invariant, one conjunct for each thing a request relies on *)

\* A task that waits for its own resolve() is the one that resolves, and denies.
OwnDenial(a) ==
    \A me \in {"self", "abort"} :
        InsideRequest(a, [by |-> me, decision |-> "deny"]) =>
            resolvers[a] = {[by |-> me, decision |-> "deny"]}

\* A future has a result only once, and nobody resolves it any more.
DecidedOnce(a) == future[a] # None => resolvers[a] = {}

\* "allow" is in the log exactly when it is what the future holds.
AllowTakesEffect(a) == Contains(audit[a], "allow") <=> future[a] = "allow"

\* A denial in the log took effect, or it was interrupted: then the task denies again, or it
\* has left and can be decided no more.
DenialExplained(a) ==
    Contains(audit[a], "deny") =>
        \/ future[a] = "deny"
        \/ request[a] \in {"shield", "abort"}
        \/ outcome[a] = "aborted"
        \/ request[a] = "left" /\ resolvers[a] = {} /\ future[a] = None

\* Only a task that has left has an outcome, and "allowed" comes from the future.
OutcomeExplained(a) ==
    /\ outcome[a] # "none" => request[a] = "left"
    /\ outcome[a] = "allowed" => future[a] = "allow" /\ ~Contains(audit[a], "deny")

\* While no write fails, shutdown() passes over no request.
Covered(a) ==
    /\ host.shutdown = "no" <=> ~host.closed
    /\ \A r \in resolvers[a] : r.by = "shutdown" => host.closed
    /\ host.shutdown # "loop" => host.todo = {}
    /\ failures = 0 =>
        /\ host.shutdown # "failed"
        /\ host.closed /\ request[a] \in {"audit", "wait"} =>
            a \in host.todo \/ future[a] # None \/ resolvers[a] # {}

Explained(a) ==
    /\ OwnDenial(a) /\ DecidedOnce(a) /\ AllowTakesEffect(a)
    /\ DenialExplained(a) /\ OutcomeExplained(a)

IInv == TypeOK /\ \A a \in Requests : Explained(a) /\ Covered(a)
=============================================================================
