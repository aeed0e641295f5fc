----------------------------- MODULE HostProofs -----------------------------
(***************************************************************************)
(* Theorems about the services of the web host: what the approvals keep    *)
(* for every set of tool calls and every number of failures, the order in  *)
(* which the services are opened and closed, the database for every set of *)
(* processes and readers, every pool size and every number of failures and *)
(* crashes, and what each of them keeps inside the host, from the theorems *)
(* about it alone.                                                         *)
(***************************************************************************)
EXTENDS MCHost, FiniteSets, FiniteSetTheorems, SequenceTheorems, TLAPS

-----------------------------------------------------------------------------
(* Approvals *)

\* What the audit log contains after one more record
LEMMA ContainsAppend ==
    ASSUME NEW q \in Seq(Decisions), NEW d \in Decisions, NEW e
    PROVE  Contains(Append(q, d), e) <=> Contains(q, e) \/ d = e
<1>1. Len(Append(q, d)) = Len(q) + 1 /\ Len(q) \in Nat
  OBVIOUS
<1>2. \A i \in 1..Len(q) : Append(q, d)[i] = q[i]
  OBVIOUS
<1>3. Append(q, d)[Len(q) + 1] = d
  OBVIOUS
<1>. QED BY <1>1, <1>2, <1>3 DEF Contains

\* The two ways a task waits for its own resolve()
LEMMA OwnDenialMeans ==
    ASSUME NEW a
    PROVE  OwnDenial(a) <=>
               /\ request[a] = "cancel" => resolvers[a] = {[by |-> "self", decision |-> "deny"]}
               /\ request[a] = "abort" => resolvers[a] = {[by |-> "abort", decision |-> "deny"]}
  BY DEF OwnDenial, InsideRequest

\* A step leaves everything a request is judged by as it was.
Untouched(b) ==
    /\ request'[b] = request[b] /\ outcome'[b] = outcome[b] /\ future'[b] = future[b]
    /\ resolvers'[b] = resolvers[b] /\ audit'[b] = audit[b]

LEMMA UntouchedKeeps ==
    ASSUME NEW b \in Requests, Explained(b), Untouched(b)
    PROVE  Explained(b)'
  BY DEF Untouched, Explained, OwnDenial, InsideRequest, DecidedOnce, AllowTakesEffect,
         DenialExplained, OutcomeExplained

\* What is known of the value of one request
LEMMA Typed ==
    ASSUME IInv, NEW a \in Requests
    PROVE  /\ request[a] \in {"new", "audit", "wait", "cancel", "shield", "abort", "left"}
           /\ outcome[a] \in {"none", "allowed", "denied", "raised", "aborted"}
           /\ future[a] \in {"allow", "deny", None}
           /\ None \notin {"allow", "deny"}
           /\ resolvers[a] \subseteq Resolvers /\ audit[a] \in Seq(Decisions)
           /\ Explained(a) /\ Covered(a)
  BY ApprovalAssumption DEF IInv, TypeOK, Decisions

LEMMA ResultMeans ==
    ASSUME NEW a
    PROVE  /\ Result(a) \in {"allowed", "denied", "raised"}
           /\ Result(a) = "allowed" => future[a] = "allow"
           /\ Result(a) = "denied" => future[a] = "deny"
           /\ future[a] = "allow" => Result(a) = "allowed"
           /\ future[a] = "deny" => Result(a) = "denied"
           /\ future[a] = None /\ None \notin Decisions => Result(a) = "raised"
  BY DEF Result, Decisions

\* A step about one request keeps the invariant when it keeps what is said of that request.
LEMMA StepKeeps ==
    ASSUME IInv, NEW a \in Requests, TypeOK', Explained(a)',
           \A b \in Requests \ {a} : Untouched(b),
           \A b \in Requests : Covered(b)'
    PROVE  IInv'
<1>1. \A b \in Requests \ {a} : Explained(b)'
  BY UntouchedKeeps DEF IInv
<1>. QED BY <1>1 DEF IInv

\* The resolvers after a resolve() set resolving
LEMMA Resolving ==
    ASSUME IInv, NEW a \in Requests, NEW by \in {"browser", "self", "abort", "shutdown"},
           NEW d \in Decisions, Resolvable(a), Resolves(a, by, d)
    PROVE  /\ resolvers' \in [Requests -> SUBSET Resolvers]
           /\ resolvers'[a] = {[by |-> by, decision |-> d]}
           /\ \A b \in Requests \ {a} : resolvers'[b] = resolvers[b]
           /\ \A b \in Requests : \A r, q \in resolvers'[b] : r = q
<1>. DEFINE new == [by |-> by, decision |-> d]
<1>1. new \in Resolvers
  BY DEF Resolvers
<1>2. resolvers' = [resolvers EXCEPT ![a] = resolvers[a] \cup {new}] /\ resolvers[a] = {}
  BY DEF Resolvable, Resolves
<1>. HIDE DEF new
<1>3. resolvers \in [Requests -> SUBSET Resolvers]
  BY DEF IInv, TypeOK
<1>4. /\ resolvers'[a] = {new} /\ resolvers' \in [Requests -> SUBSET Resolvers]
      /\ \A b \in Requests \ {a} : resolvers'[b] = resolvers[b]
  <2>1. resolvers[a] \cup {new} = {new} /\ {new} \in SUBSET Resolvers
    BY <1>1, <1>2
  <2>2. resolvers' = [resolvers EXCEPT ![a] = {new}]
    BY <1>2, <2>1
  <2>. QED BY <1>3, <2>1, <2>2
<1>5. \A b \in Requests : \A r, q \in resolvers'[b] : r = q
  <2>1. \A b \in Requests : \A r, q \in resolvers[b] : r = q
    BY DEF IInv, TypeOK
  <2>. QED BY <1>4, <2>1
<1>. QED BY <1>4, <1>5 DEF new

\* The resolvers when a resolve() returns or gives up
LEMMA Releasing ==
    ASSUME IInv, NEW a \in Requests, NEW kept \in SUBSET resolvers[a],
           resolvers' = [resolvers EXCEPT ![a] = kept]
    PROVE  /\ resolvers' \in [Requests -> SUBSET Resolvers]
           /\ resolvers'[a] = kept
           /\ \A b \in Requests \ {a} : resolvers'[b] = resolvers[b]
           /\ \A b \in Requests : \A r, q \in resolvers'[b] : r = q
  BY DEF IInv, TypeOK

\* The task goes on in request().
LEMMA Moving ==
    ASSUME IInv, NEW a \in Requests, NEW step \in {"audit", "wait", "cancel", "shield", "abort"},
           request' = [request EXCEPT ![a] = step]
    PROVE  /\ request' \in [Requests -> {"new", "audit", "wait", "cancel", "shield", "abort", "left"}]
           /\ request'[a] = step
           /\ \A b \in Requests \ {a} : request'[b] = request[b]
  BY DEF IInv, TypeOK

\* The task leaves request() with an outcome.
LEMMA Leaving ==
    ASSUME IInv, NEW a \in Requests, NEW result \in {"allowed", "denied", "raised", "aborted"},
           Leaves(a, result)
    PROVE  /\ request' \in [Requests -> {"new", "audit", "wait", "cancel", "shield", "abort", "left"}]
           /\ outcome' \in [Requests -> {"none", "allowed", "denied", "raised", "aborted"}]
           /\ request'[a] = "left" /\ outcome'[a] = result
           /\ \A b \in Requests \ {a} : request'[b] = request[b] /\ outcome'[b] = outcome[b]
<1>1. /\ request \in [Requests -> {"new", "audit", "wait", "cancel", "shield", "abort", "left"}]
      /\ outcome \in [Requests -> {"none", "allowed", "denied", "raised", "aborted"}]
  BY DEF IInv, TypeOK
<1>. QED BY <1>1 DEF Leaves

\* At most MaxFailures writes fail.
LEMMA Failing ==
    ASSUME IInv, Fails
    PROVE  failures' \in 0..MaxFailures /\ failures' # 0
  BY ApprovalAssumption DEF IInv, TypeOK, Fails

\* request() denies when the host is closed.
LEMMA AskKeeps ==
    ASSUME IInv, NEW a \in Requests, Ask(a)
    PROVE  IInv'
<1>1. request[a] = "new" /\ UNCHANGED <<future, resolvers, audit, host, failures>>
  BY DEF Ask
<1>2. /\ request' \in [Requests -> {"new", "audit", "wait", "cancel", "shield", "abort", "left"}]
      /\ outcome' \in [Requests -> {"none", "allowed", "denied", "raised", "aborted"}]
      /\ \A b \in Requests \ {a} : request'[b] = request[b] /\ outcome'[b] = outcome[b]
      /\ \/ request'[a] = "left" /\ outcome'[a] = "denied"
         \/ request'[a] = "audit" /\ outcome'[a] = outcome[a] /\ ~host.closed
  <2>1. CASE host.closed
    BY <2>1, Leaving DEF Ask
  <2>2. CASE ~host.closed
    BY <2>2, Moving DEF Ask, IInv, TypeOK
  <2>. QED BY <2>1, <2>2
<1>3. TypeOK'
  BY <1>1, <1>2 DEF IInv, TypeOK
<1>4. Explained(a)'
  <2>1. Explained(a)
    BY DEF IInv
  <2>. QED BY <1>1, <1>2, <2>1, Typed
       DEF Explained, OwnDenial, InsideRequest, DecidedOnce, AllowTakesEffect, DenialExplained,
           OutcomeExplained
<1>5. \A b \in Requests \ {a} : Untouched(b)
  BY <1>1, <1>2 DEF Untouched
<1>6. \A b \in Requests : Covered(b)'
  BY <1>1, <1>2 DEF Covered, IInv
<1>. QED BY <1>3, <1>4, <1>5, <1>6, StepKeeps

\* The request is recorded.
LEMMA AskedKeeps ==
    ASSUME IInv, NEW a \in Requests, Asked(a)
    PROVE  IInv'
<1>1. request[a] = "audit" /\ UNCHANGED <<outcome, future, resolvers, audit, host, failures>>
  BY DEF Asked
<1>2. /\ request' \in [Requests -> {"new", "audit", "wait", "cancel", "shield", "abort", "left"}]
      /\ request'[a] = "wait"
      /\ \A b \in Requests \ {a} : request'[b] = request[b]
  BY Moving DEF Asked
<1>3. TypeOK'
  BY <1>1, <1>2 DEF IInv, TypeOK
<1>4. Explained(a)'
  <2>1. Explained(a)
    BY DEF IInv
  <2>. QED BY <1>1, <1>2, <2>1, Typed
       DEF Explained, OwnDenial, InsideRequest, DecidedOnce, AllowTakesEffect, DenialExplained,
           OutcomeExplained
<1>5. \A b \in Requests \ {a} : Untouched(b)
  BY <1>1, <1>2 DEF Untouched
<1>6. \A b \in Requests : Covered(b)'
  BY <1>1, <1>2 DEF Covered, IInv
<1>. QED BY <1>3, <1>4, <1>5, <1>6, StepKeeps

\* The audit log fails when it is asked to record the request.
LEMMA AskFailsKeeps ==
    ASSUME IInv, NEW a \in Requests, AskFails(a)
    PROVE  IInv'
<1>1. TypeOK'
  BY Failing DEF AskFails, Leaves, IInv, TypeOK
<1>2. Explained(a)'
  BY Typed
  DEF AskFails, Leaves, IInv, TypeOK, Explained, OwnDenial, InsideRequest, DecidedOnce,
      AllowTakesEffect, DenialExplained, OutcomeExplained
<1>3. \A b \in Requests \ {a} : Untouched(b)
  BY DEF AskFails, Leaves, Untouched, IInv, TypeOK
<1>4. \A b \in Requests : Covered(b)'
  BY Typed, Failing DEF AskFails, Leaves, Covered, IInv, TypeOK
<1>. QED BY <1>1, <1>2, <1>3, <1>4, StepKeeps

\* The loop returns what the future holds.
LEMMA DecidedKeeps ==
    ASSUME IInv, NEW a \in Requests, Decided(a)
    PROVE  IInv'
<1>0. future[a] \in Decisions \cup {None}
  BY Typed DEF Decisions
<1>1. /\ request[a] = "wait" /\ future[a] \in Decisions /\ Leaves(a, Result(a))
      /\ UNCHANGED <<future, resolvers, audit, host, failures>>
  BY <1>0 DEF Decided
<1>2. /\ Result(a) \in {"allowed", "denied"}
      /\ Result(a) = "allowed" => future[a] = "allow"
      /\ Result(a) = "denied" => future[a] = "deny"
  BY <1>1, ResultMeans DEF Decisions
<1>3. /\ request' \in [Requests -> {"new", "audit", "wait", "cancel", "shield", "abort", "left"}]
      /\ outcome' \in [Requests -> {"none", "allowed", "denied", "raised", "aborted"}]
      /\ request'[a] = "left" /\ outcome'[a] = Result(a)
      /\ \A b \in Requests \ {a} : request'[b] = request[b] /\ outcome'[b] = outcome[b]
  BY <1>1, <1>2, Leaving
<1>4. TypeOK'
  BY <1>1, <1>3 DEF IInv, TypeOK
<1>5. Explained(a)'
  <2>1. Explained(a)
    BY DEF IInv
  <2>. QED BY <1>1, <1>2, <1>3, <2>1
       DEF Decisions, Explained, OwnDenial, InsideRequest, DecidedOnce, AllowTakesEffect,
           DenialExplained, OutcomeExplained
<1>6. \A b \in Requests \ {a} : Untouched(b)
  BY <1>1, <1>3 DEF Untouched
<1>7. \A b \in Requests : Covered(b)'
  BY <1>1, <1>3 DEF Covered, IInv
<1>. QED BY <1>4, <1>5, <1>6, <1>7, StepKeeps

\* The deadline passes, or the signal of the run is cancelled.
LEMMA ExpiresKeeps ==
    ASSUME IInv, NEW a \in Requests, Expires(a)
    PROVE  IInv'
<1>1. CASE Resolvable(a)
  <2>1. /\ Resolves(a, "self", "deny") /\ request[a] = "wait" /\ future[a] = None
        /\ request' = [request EXCEPT ![a] = "cancel"]
        /\ UNCHANGED <<outcome, future, audit, host, failures>>
    BY <1>1 DEF Expires
  <2>2. /\ resolvers' \in [Requests -> SUBSET Resolvers]
        /\ resolvers'[a] = {[by |-> "self", decision |-> "deny"]}
        /\ \A b \in Requests \ {a} : resolvers'[b] = resolvers[b]
        /\ \A b \in Requests : \A r, q \in resolvers'[b] : r = q
    BY <1>1, <2>1, Resolving DEF Decisions
  <2>3. TypeOK'
    BY <2>1, <2>2 DEF IInv, TypeOK
  <2>4. request'[a] = "cancel" /\ \A b \in Requests \ {a} : request'[b] = request[b]
    BY <2>1, Moving
  <2>5. Explained(a)'
    <3>1. Explained(a)
      BY DEF IInv
    <3>. QED BY <2>1, <2>2, <2>4, <3>1
         DEF Explained, OwnDenial, InsideRequest, DecidedOnce, AllowTakesEffect, DenialExplained,
             OutcomeExplained
  <2>6. \A b \in Requests \ {a} : Untouched(b)
    BY <2>1, <2>2, <2>4 DEF Untouched
  <2>7. \A b \in Requests : Covered(b)'
    BY <2>1, <2>2, Typed DEF Covered, IInv, TypeOK
  <2>. QED BY <2>3, <2>5, <2>6, <2>7, StepKeeps
<1>2. CASE ~Resolvable(a)
  <2>1. /\ Leaves(a, Result(a)) /\ request[a] = "wait" /\ future[a] = None
        /\ UNCHANGED <<resolvers, future, audit, host, failures>>
    BY <1>2 DEF Expires
  <2>2. Result(a) = "raised"
    BY <2>1, Typed, ResultMeans DEF Decisions
  <2>3. TypeOK'
    BY <2>1, <2>2 DEF Leaves, IInv, TypeOK
  <2>4. Explained(a)'
    BY <2>1, <2>2, Typed
    DEF Leaves, IInv, TypeOK, Explained, OwnDenial, InsideRequest, DecidedOnce,
        AllowTakesEffect, DenialExplained, OutcomeExplained
  <2>5. \A b \in Requests \ {a} : Untouched(b)
    BY <2>1 DEF Leaves, Untouched, IInv, TypeOK
  <2>6. \A b \in Requests : Covered(b)'
    BY <2>1, Typed DEF Leaves, Covered, IInv, TypeOK
  <2>. QED BY <2>3, <2>4, <2>5, <2>6, StepKeeps
<1>. QED BY <1>1, <1>2

\* The task of an aborted run denies, or finds that it need not.
LEMMA AbortDeniesKeeps ==
    ASSUME IInv, NEW a \in Requests, AbortDenies(a)
    PROVE  IInv'
<1>1. CASE Resolvable(a)
  <2>1. /\ Resolves(a, "abort", "deny") /\ request[a] = "shield" /\ future[a] = None
        /\ request' = [request EXCEPT ![a] = "abort"]
        /\ UNCHANGED <<outcome, future, audit, host, failures>>
    BY <1>1 DEF AbortDenies, Resolvable
  <2>2. /\ resolvers' \in [Requests -> SUBSET Resolvers]
        /\ resolvers'[a] = {[by |-> "abort", decision |-> "deny"]}
        /\ \A b \in Requests \ {a} : resolvers'[b] = resolvers[b]
        /\ \A b \in Requests : \A r, q \in resolvers'[b] : r = q
    BY <1>1, <2>1, Resolving DEF Decisions
  <2>3. TypeOK'
    BY <2>1, <2>2 DEF IInv, TypeOK
  <2>4. Explained(a)'
    BY <2>1, <2>2, Typed
    DEF IInv, TypeOK, Explained, OwnDenial, InsideRequest, DecidedOnce, AllowTakesEffect,
        DenialExplained, OutcomeExplained
  <2>5. \A b \in Requests \ {a} : Untouched(b)
    BY <2>1, <2>2 DEF Untouched, IInv, TypeOK
  <2>6. \A b \in Requests : Covered(b)'
    BY <2>1, <2>2, Typed DEF Covered, IInv, TypeOK
  <2>. QED BY <2>3, <2>4, <2>5, <2>6, StepKeeps
<1>2. CASE ~Resolvable(a)
  <2>1. /\ Leaves(a, "aborted") /\ request[a] = "shield"
        /\ UNCHANGED <<resolvers, future, audit, host, failures>>
    BY <1>2 DEF AbortDenies
  <2>3. TypeOK'
    BY <2>1 DEF Leaves, IInv, TypeOK
  <2>4. Explained(a)'
    BY <2>1, Typed
    DEF Leaves, IInv, TypeOK, Explained, OwnDenial, InsideRequest, DecidedOnce,
        AllowTakesEffect, DenialExplained, OutcomeExplained
  <2>5. \A b \in Requests \ {a} : Untouched(b)
    BY <2>1 DEF Leaves, Untouched, IInv, TypeOK
  <2>6. \A b \in Requests : Covered(b)'
    BY <2>1, Typed DEF Leaves, Covered, IInv, TypeOK
  <2>. QED BY <2>3, <2>4, <2>5, <2>6, StepKeeps
<1>. QED BY <1>1, <1>2

\* A browser begins to resolve the request.
LEMMA BrowserKeeps ==
    ASSUME IInv, NEW a \in Requests, NEW d \in Decisions, Browser(a, d)
    PROVE  IInv'
<1>1. /\ Resolves(a, "browser", d) /\ Resolvable(a) /\ future[a] = None
      /\ resolvers[a] = {} /\ UNCHANGED <<request, outcome, future, audit, host, failures>>
  BY DEF Browser, Resolvable
<1>2. /\ resolvers' \in [Requests -> SUBSET Resolvers]
      /\ resolvers'[a] = {[by |-> "browser", decision |-> d]}
      /\ \A b \in Requests \ {a} : resolvers'[b] = resolvers[b]
      /\ \A b \in Requests : \A r, q \in resolvers'[b] : r = q
  BY <1>1, Resolving
<1>3. TypeOK'
  BY <1>1, <1>2 DEF IInv, TypeOK
<1>4. request[a] \notin {"cancel", "abort", "left"}
  BY <1>1, Typed, OwnDenialMeans DEF Explained, Resolvable, Pending
<1>5. Explained(a)'
  BY <1>1, <1>2, <1>4, Typed
  DEF Explained, OwnDenial, InsideRequest, DecidedOnce, AllowTakesEffect, DenialExplained,
      OutcomeExplained
<1>6. \A b \in Requests \ {a} : Untouched(b)
  BY <1>1, <1>2 DEF Untouched
<1>7. \A b \in Requests : Covered(b)'
  BY <1>1, <1>2, Typed DEF Covered
<1>. QED BY <1>3, <1>5, <1>6, <1>7, StepKeeps

\* shutdown() goes on to a request, and begins to resolve it where it can.
LEMMA ShutdownNextKeeps ==
    ASSUME IInv, NEW a \in Requests, ShutdownNext(a)
    PROVE  IInv'
<1>1. CASE Resolvable(a)
  <2>1. /\ Resolves(a, "shutdown", "deny") /\ future[a] = None /\ resolvers[a] = {}
        /\ host' = [host EXCEPT !.todo = @ \ {a}] /\ host.shutdown = "loop"
        /\ request[a] \notin {"cancel", "abort", "left"}
        /\ UNCHANGED <<request, outcome, future, audit, failures>>
    BY <1>1, Typed, OwnDenialMeans DEF ShutdownNext, Resolvable, Pending, Explained
  <2>2. /\ resolvers' \in [Requests -> SUBSET Resolvers]
        /\ resolvers'[a] = {[by |-> "shutdown", decision |-> "deny"]}
        /\ \A b \in Requests \ {a} : resolvers'[b] = resolvers[b]
        /\ \A b \in Requests : \A r, q \in resolvers'[b] : r = q
    BY <1>1, <2>1, Resolving DEF Decisions
  <2>3. TypeOK'
    BY <2>1, <2>2 DEF IInv, TypeOK
  <2>4. Explained(a)'
    BY <2>1, <2>2, Typed
    DEF IInv, TypeOK, Explained, OwnDenial, InsideRequest, DecidedOnce, AllowTakesEffect,
        DenialExplained, OutcomeExplained
  <2>5. \A b \in Requests \ {a} : Untouched(b)
    BY <2>1, <2>2 DEF Untouched, IInv, TypeOK
  <2>6. \A b \in Requests : Covered(b)'
    BY <2>1, <2>2, Typed DEF Covered, IInv, TypeOK
  <2>. QED BY <2>3, <2>4, <2>5, <2>6, StepKeeps
<1>2. CASE ~Resolvable(a)
  <2>1. /\ request[a] \in {"audit", "wait"} => future[a] # None \/ resolvers[a] # {}
        /\ host' = [host EXCEPT !.todo = @ \ {a}] /\ host.shutdown = "loop"
        /\ UNCHANGED <<request, resolvers, outcome, future, audit, failures>>
    BY <1>2, Typed DEF ShutdownNext, Resolvable, Pending
  <2>3. TypeOK'
    BY <2>1 DEF IInv, TypeOK
  <2>4. Explained(a)'
    BY <2>1, Typed
    DEF IInv, TypeOK, Explained, OwnDenial, InsideRequest, DecidedOnce, AllowTakesEffect,
        DenialExplained, OutcomeExplained
  <2>5. \A b \in Requests \ {a} : Untouched(b)
    BY <2>1 DEF Untouched, IInv, TypeOK
  <2>6. \A b \in Requests : Covered(b)'
    BY <2>1, Typed DEF Covered, IInv, TypeOK
  <2>. QED BY <2>3, <2>4, <2>5, <2>6, StepKeeps
<1>. QED BY <1>1, <1>2

\* shutdown() begins and ends.
LEMMA ShutdownKeeps ==
    ASSUME IInv, ShutdownBegins \/ ShutdownEnds
    PROVE  IInv'
<1>1. UNCHANGED <<request, outcome, future, resolvers, audit, failures>>
  BY DEF ShutdownBegins, ShutdownEnds
<1>2. /\ Pending \subseteq Requests
      /\ \A b \in Requests : request[b] \in {"audit", "wait"} => b \in Pending
  BY DEF Pending
<1>. HIDE DEF Pending
<1>3. \A b \in Requests : Explained(b)'
  BY <1>1, UntouchedKeeps DEF Untouched, IInv
<1>4. CASE ShutdownBegins /\ ~host.closed
  <2>1. host' = [closed |-> TRUE, shutdown |-> "loop", todo |-> Pending]
    BY <1>4 DEF ShutdownBegins
  <2>2. TypeOK' /\ \A b \in Requests : Covered(b)'
    BY <1>1, <1>2, <2>1, Typed DEF Covered, IInv, TypeOK
  <2>. QED BY <1>3, <2>2 DEF IInv
<1>5. CASE (ShutdownBegins /\ host.closed) \/ ShutdownEnds
  <2>1. /\ host' = [host EXCEPT !.shutdown = "done"]
        /\ host.shutdown # "loop" \/ host.todo = {}
        /\ host.shutdown = "loop" \/ host.closed
    BY <1>5 DEF ShutdownBegins, ShutdownEnds
  <2>2. TypeOK' /\ \A b \in Requests : Covered(b)'
    BY <1>1, <2>1, Typed DEF Covered, IInv, TypeOK
  <2>. QED BY <1>3, <2>2 DEF IInv
<1>. QED BY <1>4, <1>5

\* The run of the tool call is aborted.
LEMMA AbortKeeps ==
    ASSUME IInv, NEW a \in Requests, NEW written \in BOOLEAN, Abort(a, written)
    PROVE  IInv'
<1>. DEFINE kept == {r \in resolvers[a] : r.by # "self"}
<1>1. kept \in SUBSET resolvers[a] /\ resolvers' = [resolvers EXCEPT ![a] = kept]
  BY DEF Abort
<1>. HIDE DEF kept
<1>2. /\ resolvers' \in [Requests -> SUBSET Resolvers] /\ resolvers'[a] = kept
      /\ \A b \in Requests \ {a} : resolvers'[b] = resolvers[b]
      /\ \A b \in Requests : \A r, q \in resolvers'[b] : r = q
  BY <1>1, Releasing
<1>3. UNCHANGED <<future, host, failures>> /\ a \in Pending
  BY DEF Abort
<1>4. /\ audit' \in [Requests -> Seq(Decisions)]
      /\ Contains(audit'[a], "allow") <=> Contains(audit[a], "allow")
      /\ \A b \in Requests \ {a} : audit'[b] = audit[b]
  <2>1. CASE written
    <3>1. audit' = [audit EXCEPT ![a] = Append(audit[a], "deny")]
      BY <2>1 DEF Abort
    <3>2. audit[a] \in Seq(Decisions) /\ Append(audit[a], "deny") \in Seq(Decisions)
      BY Typed DEF Decisions
    <3>. QED BY <3>1, <3>2, ContainsAppend DEF IInv, TypeOK, Decisions
  <2>2. CASE ~written
    BY <2>2 DEF Abort, IInv, TypeOK
  <2>. QED BY <2>1, <2>2
<1>5. CASE request[a] \in {"audit", "wait", "cancel"} /\ future[a] = None
  <2>1. request' = [request EXCEPT ![a] = "shield"] /\ UNCHANGED outcome
    BY <1>5 DEF Abort
  <2>2. TypeOK'
    BY <1>2, <1>3, <1>4, <2>1 DEF IInv, TypeOK
  <2>3. Explained(a)'
    BY <1>2, <1>3, <1>4, <1>5, <2>1, Typed
    DEF IInv, TypeOK, Explained, OwnDenial, InsideRequest, DecidedOnce, AllowTakesEffect,
        DenialExplained, OutcomeExplained
  <2>4. \A b \in Requests \ {a} : Untouched(b)
    BY <1>2, <1>3, <1>4, <2>1 DEF Untouched, IInv, TypeOK
  <2>5. \A b \in Requests : Covered(b)'
    BY <1>1, <1>2, <1>3, <2>1, Typed DEF Covered, IInv, TypeOK
  <2>. QED BY <2>2, <2>3, <2>4, <2>5, StepKeeps
<1>6. CASE ~(request[a] \in {"audit", "wait", "cancel"} /\ future[a] = None)
  <2>1. Leaves(a, "aborted")
    BY <1>6 DEF Abort
  <2>2. ~written
    BY <1>6, Typed, OwnDenialMeans DEF Abort, Explained, DecidedOnce
  <2>3. UNCHANGED audit
    BY <2>2 DEF Abort
  <2>4. TypeOK'
    BY <1>2, <1>3, <2>1, <2>3 DEF Leaves, IInv, TypeOK
  <2>5. request[a] # "left"
    BY <1>3 DEF Pending
  <2>6. Explained(a)'
    BY <1>1, <1>2, <1>3, <2>1, <2>3, <2>5, Typed
    DEF Leaves, IInv, TypeOK, Explained, OwnDenial, InsideRequest, DecidedOnce,
        AllowTakesEffect, DenialExplained, OutcomeExplained
  <2>7. \A b \in Requests \ {a} : Untouched(b)
    BY <1>2, <1>3, <2>1, <2>3 DEF Leaves, Untouched, IInv, TypeOK
  <2>8. \A b \in Requests : Covered(b)'
    BY <1>1, <1>2, <1>3, <2>1, Typed DEF Leaves, Covered, IInv, TypeOK
  <2>. QED BY <2>4, <2>6, <2>7, <2>8, StepKeeps
<1>. QED BY <1>5, <1>6

\* The only resolve() of a request returns, or gives up.
LEMMA OnlyResolver ==
    ASSUME IInv, NEW a \in Requests, NEW r \in resolvers[a],
           resolvers' = [resolvers EXCEPT ![a] = @ \ {r}]
    PROVE  /\ resolvers[a] = {r} /\ future[a] = None /\ r \in Resolvers
           /\ resolvers' \in [Requests -> SUBSET Resolvers] /\ resolvers'[a] = {}
           /\ \A b \in Requests \ {a} : resolvers'[b] = resolvers[b]
           /\ \A b \in Requests : \A q, t \in resolvers'[b] : q = t
           /\ InsideRequest(a, r) => r.decision = "deny"
           /\ request[a] \in {"cancel", "abort"} => InsideRequest(a, r)
<1>1. resolvers[a] = {r} /\ future[a] = None /\ r \in Resolvers
  BY Typed DEF IInv, TypeOK, Explained, DecidedOnce
<1>. DEFINE none == {}
<1>2. none \in SUBSET resolvers[a] /\ resolvers' = [resolvers EXCEPT ![a] = none]
  BY <1>1
<1>3. /\ resolvers' \in [Requests -> SUBSET Resolvers] /\ resolvers'[a] = none
      /\ \A b \in Requests \ {a} : resolvers'[b] = resolvers[b]
      /\ \A b \in Requests : \A q, t \in resolvers'[b] : q = t
  BY <1>2, Releasing
<1>4. /\ InsideRequest(a, r) => r.decision = "deny"
      /\ request[a] \in {"cancel", "abort"} => InsideRequest(a, r)
  <2>1. /\ request[a] = "cancel" => r = [by |-> "self", decision |-> "deny"]
        /\ request[a] = "abort" => r = [by |-> "abort", decision |-> "deny"]
    BY <1>1, Typed, OwnDenialMeans DEF Explained
  <2>. QED BY <2>1 DEF InsideRequest
<1>. QED BY <1>1, <1>3, <1>4

\* A resolve() has written its record, and its decision takes effect.
LEMMA ResolvedKeeps ==
    ASSUME IInv, NEW a \in Requests, NEW r \in resolvers[a], Resolved(a, r)
    PROVE  IInv'
<1>1. /\ resolvers[a] = {r} /\ future[a] = None /\ r \in Resolvers
      /\ resolvers' \in [Requests -> SUBSET Resolvers] /\ resolvers'[a] = {}
      /\ \A b \in Requests \ {a} : resolvers'[b] = resolvers[b]
      /\ \A b \in Requests : \A q, t \in resolvers'[b] : q = t
      /\ InsideRequest(a, r) => r.decision = "deny"
      /\ request[a] \in {"cancel", "abort"} => InsideRequest(a, r)
  BY OnlyResolver DEF Resolved
<1>. DEFINE d == r.decision
<1>2. d \in Decisions /\ d \in {"allow", "deny"} /\ d # None
  BY <1>1, Typed DEF Resolvers, Decisions
<1>3. /\ audit' = [audit EXCEPT ![a] = Append(audit[a], d)]
      /\ future' = [future EXCEPT ![a] = d]
      /\ UNCHANGED <<host, failures>>
  BY DEF Resolved, Effect
<1>. HIDE DEF d
<1>4. /\ audit' \in [Requests -> Seq(Decisions)] /\ future' \in [Requests -> Decisions \cup {None}]
      /\ future'[a] = d /\ \A e : Contains(audit'[a], e) <=> Contains(audit[a], e) \/ d = e
      /\ \A b \in Requests \ {a} : audit'[b] = audit[b] /\ future'[b] = future[b]
  <2>1. audit[a] \in Seq(Decisions) /\ Append(audit[a], d) \in Seq(Decisions)
    BY <1>2, Typed
  <2>2. audit'[a] = Append(audit[a], d)
    BY <1>3 DEF IInv, TypeOK
  <2>3. \A e : Contains(Append(audit[a], d), e) <=> Contains(audit[a], e) \/ d = e
    BY <1>2, <2>1, ContainsAppend
  <2>4. audit' \in [Requests -> Seq(Decisions)] /\ future' \in [Requests -> Decisions \cup {None}]
    BY <1>2, <1>3, <2>1 DEF IInv, TypeOK
  <2>5. future'[a] = d /\ \A b \in Requests \ {a} : audit'[b] = audit[b] /\ future'[b] = future[b]
    BY <1>3 DEF IInv, TypeOK
  <2>. QED BY <2>2, <2>3, <2>4, <2>5
<1>5. PICK result : /\ result \in {"denied", "aborted"}
                    /\ IF InsideRequest(a, r) THEN Leaves(a, result)
                       ELSE UNCHANGED <<request, outcome>>
  <2>1. CASE InsideRequest(a, r)
    <3>1. future'[a] = "deny"
      BY <1>1, <1>4, <2>1 DEF d
    <3>2. Result(a)' = "denied"
      BY <3>1 DEF Result
    <3>. QED BY <2>1, <3>2 DEF Resolved
  <2>2. CASE ~InsideRequest(a, r)
    BY <2>2 DEF Resolved
  <2>. QED BY <2>1, <2>2
<1>6. /\ request' \in [Requests -> {"new", "audit", "wait", "cancel", "shield", "abort", "left"}]
      /\ outcome' \in [Requests -> {"none", "allowed", "denied", "raised", "aborted"}]
  <2>1. CASE InsideRequest(a, r)
    BY <1>5, <2>1, Leaving
  <2>2. CASE ~InsideRequest(a, r)
    BY <1>5, <2>2 DEF IInv, TypeOK
  <2>. QED BY <2>1, <2>2
<1>7. TypeOK'
  BY <1>1, <1>3, <1>4, <1>6 DEF IInv, TypeOK
<1>8. InsideRequest(a, r) => d = "deny"
  BY <1>1 DEF d
<1>9. Explained(a)'
  <2>1. CASE InsideRequest(a, r)
    BY <1>1, <1>2, <1>4, <1>5, <1>8, <2>1, Typed
    DEF Leaves, IInv, TypeOK, Explained, OwnDenial, InsideRequest, DecidedOnce,
        AllowTakesEffect, DenialExplained, OutcomeExplained
  <2>2. CASE ~InsideRequest(a, r)
    BY <1>1, <1>2, <1>4, <1>5, <2>2, Typed, OwnDenialMeans
    DEF Explained, OwnDenial, InsideRequest, DecidedOnce, AllowTakesEffect, DenialExplained,
        OutcomeExplained
  <2>. QED BY <2>1, <2>2
<1>10. \A b \in Requests \ {a} : Untouched(b)
  BY <1>1, <1>4, <1>5 DEF Leaves, Untouched, IInv, TypeOK
<1>11. \A b \in Requests : Covered(b)'
  BY <1>1, <1>2, <1>3, <1>4, <1>5, Typed DEF Leaves, Covered, IInv, TypeOK
<1>. QED BY <1>9, <1>10, <1>11, <1>7, StepKeeps

\* The audit log fails when it is asked to record a decision.
LEMMA ResolveFailsKeeps ==
    ASSUME IInv, NEW a \in Requests, NEW r \in resolvers[a], ResolveFails(a, r)
    PROVE  IInv'
<1>1. /\ resolvers[a] = {r} /\ future[a] = None /\ r \in Resolvers
      /\ resolvers' \in [Requests -> SUBSET Resolvers] /\ resolvers'[a] = {}
      /\ \A b \in Requests \ {a} : resolvers'[b] = resolvers[b]
      /\ \A b \in Requests : \A q, t \in resolvers'[b] : q = t
      /\ request[a] \in {"cancel", "abort"} => InsideRequest(a, r)
  BY OnlyResolver DEF ResolveFails
<1>2. /\ IF InsideRequest(a, r) THEN Leaves(a, "raised") ELSE UNCHANGED <<request, outcome>>
      /\ UNCHANGED <<future, audit>>
  BY DEF ResolveFails
<1>3. failures' \in 0..MaxFailures /\ failures' # 0
  BY Failing DEF ResolveFails
<1>4. IF r.by = "shutdown" THEN host' = [host EXCEPT !.shutdown = "failed", !.todo = {}]
      ELSE host' = host
  BY DEF ResolveFails
<1>5. /\ request' \in [Requests -> {"new", "audit", "wait", "cancel", "shield", "abort", "left"}]
      /\ outcome' \in [Requests -> {"none", "allowed", "denied", "raised", "aborted"}]
  <2>1. CASE InsideRequest(a, r)
    <3>1. Leaves(a, "raised")
      BY <1>2, <2>1
    <3>. QED BY <3>1 DEF Leaves, IInv, TypeOK
  <2>2. CASE ~InsideRequest(a, r)
    <3>1. UNCHANGED <<request, outcome>>
      BY <1>2, <2>2
    <3>. QED BY <3>1 DEF IInv, TypeOK
  <2>. QED BY <2>1, <2>2
<1>6. /\ host' \in [closed : BOOLEAN, shutdown : {"no", "loop", "failed", "done"},
                    todo : SUBSET Requests]
       /\ host'.closed = host.closed
       /\ \/ host' = host
          \/ r.by = "shutdown" /\ host'.shutdown = "failed" /\ host'.todo = {}
  <2>1. host \in [closed : BOOLEAN, shutdown : {"no", "loop", "failed", "done"},
                 todo : SUBSET Requests]
    BY DEF IInv, TypeOK
  <2>2. CASE r.by = "shutdown"
    <3>1. host' = [host EXCEPT !.shutdown = "failed", !.todo = {}]
      BY <1>4, <2>2
    <3>. QED BY <2>1, <2>2, <3>1
  <2>3. CASE r.by # "shutdown"
    BY <1>4, <2>1, <2>3
  <2>. QED BY <2>2, <2>3
<1>7. TypeOK'
  BY <1>1, <1>2, <1>3, <1>5, <1>6 DEF IInv, TypeOK
<1>8. Explained(a)'
  <2>1. CASE InsideRequest(a, r)
    BY <1>1, <1>2, <2>1, Typed
    DEF Leaves, IInv, TypeOK, Explained, OwnDenial, InsideRequest, DecidedOnce,
        AllowTakesEffect, DenialExplained, OutcomeExplained
  <2>2. CASE ~InsideRequest(a, r)
    BY <1>1, <1>2, <2>2, Typed
    DEF Explained, OwnDenial, InsideRequest, DecidedOnce, AllowTakesEffect, DenialExplained,
        OutcomeExplained
  <2>. QED BY <2>1, <2>2
<1>9. \A b \in Requests \ {a} : Untouched(b)
  BY <1>1, <1>2 DEF Leaves, Untouched, IInv, TypeOK
<1>10. \A b \in Requests : Covered(b)'
  <2>1. r.by = "shutdown" => host.closed
    BY Typed DEF Covered
  <2>. QED BY <1>1, <1>3, <1>6, <2>1, Typed DEF Covered
<1>. QED BY <1>7, <1>8, <1>9, <1>10, StepKeeps

LEMMA InitIInv == Init => IInv
<1>. SUFFICES ASSUME Init
              PROVE  IInv
  OBVIOUS
<1>1. TypeOK
  BY ApprovalAssumption DEF Init, TypeOK
<1>2. \A a \in Requests : ~Contains(audit[a], "allow") /\ ~Contains(audit[a], "deny")
  BY DEF Init, Contains
<1>3. \A a \in Requests : Explained(a) /\ Covered(a)
  BY <1>2, ApprovalAssumption
  DEF Init, Covered, Explained, OwnDenial, InsideRequest, DecidedOnce, AllowTakesEffect,
      DenialExplained, OutcomeExplained
<1>. QED BY <1>1, <1>3 DEF IInv

LEMMA NextIInv == IInv /\ [Next]_vars => IInv'
<1>. SUFFICES ASSUME IInv, [Next]_vars
              PROVE  IInv'
  OBVIOUS
<1>1. ASSUME NEW a \in Requests, Ask(a) \/ RequestStep(a)
      PROVE  IInv'
  BY <1>1, AskKeeps, AskedKeeps, AskFailsKeeps, DecidedKeeps, ExpiresKeeps, AbortDeniesKeeps
  DEF RequestStep
<1>2. ASSUME NEW a \in Requests, ResolveStep(a)
      PROVE  IInv'
  BY <1>2, ResolvedKeeps, ResolveFailsKeeps DEF ResolveStep
<1>3. ASSUME NEW a \in Requests, NEW d \in Decisions, Browser(a, d)
      PROVE  IInv'
  BY <1>3, BrowserKeeps
<1>4. ASSUME NEW a \in Requests, NEW written \in BOOLEAN, Abort(a, written)
      PROVE  IInv'
  BY <1>4, AbortKeeps
<1>5. ASSUME NEW a \in Requests, ShutdownNext(a)
      PROVE  IInv'
  BY <1>5, ShutdownNextKeeps
<1>6. CASE ShutdownBegins \/ ShutdownEnds
  BY <1>6, ShutdownKeeps
<1>7. CASE UNCHANGED vars
  BY <1>7
  DEF vars, IInv, TypeOK, Covered, Explained, OwnDenial, InsideRequest, DecidedOnce,
      AllowTakesEffect, DenialExplained, OutcomeExplained
<1>. QED BY <1>1, <1>2, <1>3, <1>4, <1>5, <1>6, <1>7 DEF Next

\* What the invariant says about decisions and their record.
LEMMA InvariantIsSafe ==
    IInv => TypeOK /\ AllowedIsAudited /\ NoContradiction /\ HealthyShutdownDenies
<1>. SUFFICES ASSUME IInv
              PROVE  TypeOK /\ AllowedIsAudited /\ NoContradiction /\ HealthyShutdownDenies
  OBVIOUS
<1>1. TypeOK
  BY DEF IInv
<1>2. AllowedIsAudited
  BY DEF IInv, Explained, AllowTakesEffect, OutcomeExplained, AllowedIsAudited
<1>3. NoContradiction
  <2>. SUFFICES ASSUME NEW a \in Requests, Contains(audit[a], "allow"), Contains(audit[a], "deny")
                PROVE  request[a] = "shield" \/ outcome[a] = "aborted"
    BY DEF NoContradiction
  <2>1. future[a] = "allow" /\ resolvers[a] = {}
    BY Typed DEF Explained, AllowTakesEffect, DecidedOnce
  <2>2. request[a] # "abort"
    BY <2>1, Typed, OwnDenialMeans DEF Explained
  <2>. QED BY <2>1, <2>2, Typed DEF Explained, DenialExplained
<1>4. HealthyShutdownDenies
  BY Typed DEF Covered, HealthyShutdownDenies, ShutdownDenies
<1>. QED BY <1>1, <1>2, <1>3, <1>4

\* The inductive invariant holds in every reachable state.
THEOREM ApprovalInvariant == Spec => []IInv
  BY InitIInv, NextIInv, PTL DEF Spec

\* The variables keep their types; two resolve() calls are never under way for one request.
THEOREM ApprovalTypes == Spec => []TypeOK
  BY ApprovalInvariant, InvariantIsSafe, PTL

\* No tool is executed without a recorded permission, or against a recorded denial,
\* whoever raced and whatever failed.
THEOREM AllowedOnRecord == Spec => []AllowedIsAudited
  BY ApprovalInvariant, InvariantIsSafe, PTL

\* The log contradicts itself only about a tool call whose run was aborted.
THEOREM LogConsistent == Spec => []NoContradiction
  BY ApprovalInvariant, InvariantIsSafe, PTL

\* shutdown() leaves no request without a decision to come, as long as the log can be
\* written.
THEOREM ShutdownLeavesNone == Spec => []HealthyShutdownDenies
  BY ApprovalInvariant, InvariantIsSafe, PTL

\* Every decision is on record, and only one, but for an aborted run.
THEOREM DecisionsOnRecord == Spec => []DecisionsAreRecorded
<1>1. IInv => DecisionsAreRecorded
  BY InvariantIsSafe DEF DecisionsAreRecorded
<1>. QED BY <1>1, ApprovalInvariant, PTL

-----------------------------------------------------------------------------
(* The services and the host *)

\* What is left of an order, from its step k on.
LEMMA RestFrom ==
    ASSUME NEW S, NEW steps \in Seq(S), NEW k \in 1..Len(steps) + 1
    PROVE  LET t == SubSeq(steps, k, Len(steps))
           IN  /\ Host!Range(t) = {steps[i] : i \in k..Len(steps)}
               /\ t = <<>> <=> k = Len(steps) + 1
               /\ t # <<>> => Head(t) = steps[k] /\ Tail(t) = SubSeq(steps, k + 1, Len(steps))
<1>. DEFINE t == SubSeq(steps, k, Len(steps))
<1>. DEFINE n == Len(steps)
<1>1. n \in Nat /\ k \in Nat /\ k >= 1 /\ k <= n + 1
  OBVIOUS
<1>2. t \in Seq(S) /\ Len(t) = n + 1 - k /\ \A i \in 1..n + 1 - k : t[i] = steps[k + i - 1]
  BY <1>1
<1>. HIDE DEF t
<1>3. Host!Range(t) = {steps[i] : i \in k..n}
  <2>1. ASSUME NEW x \in Host!Range(t) PROVE x \in {steps[i] : i \in k..n}
    <3>0. DOMAIN t = 1..n + 1 - k
      BY <1>1, <1>2
    <3>1. PICK i \in 1..n + 1 - k : x = t[i]
      BY <2>1, <3>0 DEF Host!Range
    <3>2. x = steps[k + i - 1] /\ k + i - 1 \in k..n
      BY <3>1, <1>1, <1>2
    <3>. QED BY <3>2
  <2>2. ASSUME NEW i \in k..n PROVE steps[i] \in Host!Range(t)
    <3>1. i - k + 1 \in 1..n + 1 - k /\ k + (i - k + 1) - 1 = i
      BY <1>1
    <3>2. t[i - k + 1] = steps[i]
      BY <1>2, <3>1
    <3>3. i - k + 1 \in DOMAIN t
      BY <1>2, <3>1
    <3>. QED BY <3>2, <3>3 DEF Host!Range
  <2>. QED BY <2>1, <2>2
<1>4. t = <<>> <=> k = n + 1
  <2>1. t = <<>> => k = n + 1
    BY <1>1, <1>2
  <2>2. k = n + 1 => t = <<>>
    BY <1>1, <1>2, EmptySeq
  <2>. QED BY <2>1, <2>2
<1>5. ASSUME t # <<>>
      PROVE  Head(t) = steps[k] /\ Tail(t) = SubSeq(steps, k + 1, n)
  <2>1. k <= n
    BY <1>1, <1>4, <1>5
  <2>2. Tail(t) \in Seq(S) /\ Len(Tail(t)) = n - k /\ \A i \in 1..n - k : Tail(t)[i] = t[i + 1]
    BY <1>1, <1>2, <1>5, <2>1
  <2>3. SubSeq(steps, k + 1, n) \in Seq(S) /\ Len(SubSeq(steps, k + 1, n)) = n - k
        /\ \A i \in 1..n - k : SubSeq(steps, k + 1, n)[i] = steps[k + i]
    BY <1>1, <2>1
  <2>4. \A i \in 1..n - k : t[i + 1] = steps[k + i]
    BY <1>1, <1>2, <2>1
  <2>5. Tail(t) = SubSeq(steps, k + 1, n)
    BY <2>2, <2>3, <2>4, SeqEqual
  <2>6. Head(t) = t[1] /\ t[1] = steps[k]
    BY <1>1, <1>2, <2>1
  <2>. QED BY <2>5, <2>6
<1>. QED BY <1>2, <1>3, <1>4, <1>5 DEF t

\* What taking its first step does to what is left of an order.
LEMMA RestStep ==
    ASSUME NEW S, NEW steps \in Seq(S), NEW t \in Host!Rest(steps), t # <<>>
    PROVE  /\ Tail(t) \in Host!Rest(steps)
           /\ Host!Range(t) = {Head(t)} \cup Host!Range(Tail(t))
           /\ \E k \in 1..Len(steps) :
                /\ Head(t) = steps[k]
                /\ Tail(t) = <<>> <=> k = Len(steps)
                /\ Host!Range(t) = {steps[i] : i \in k..Len(steps)}
                /\ Host!Range(Tail(t)) = {steps[i] : i \in k + 1..Len(steps)}
<1>1. PICK k \in 1..Len(steps) + 1 : t = SubSeq(steps, k, Len(steps))
  BY DEF Host!Rest
<1>2. /\ Host!Range(t) = {steps[i] : i \in k..Len(steps)}
      /\ k # Len(steps) + 1
      /\ Head(t) = steps[k] /\ Tail(t) = SubSeq(steps, k + 1, Len(steps))
  <2>1. /\ Host!Range(t) = {steps[i] : i \in k..Len(steps)}
        /\ t = <<>> <=> k = Len(steps) + 1
        /\ t # <<>> => Head(t) = steps[k] /\ Tail(t) = SubSeq(steps, k + 1, Len(steps))
    BY <1>1, RestFrom
  <2>. QED BY <2>1
<1>3. Len(steps) \in Nat /\ k \in 1..Len(steps) /\ k + 1 \in 1..Len(steps) + 1
  BY <1>2
<1>4. /\ Host!Range(Tail(t)) = {steps[i] : i \in k + 1..Len(steps)}
      /\ Tail(t) = <<>> <=> k + 1 = Len(steps) + 1
  BY <1>2, <1>3, RestFrom
<1>5. Tail(t) \in Host!Rest(steps)
  BY <1>2, <1>3 DEF Host!Rest
<1>6. Host!Range(t) = {Head(t)} \cup Host!Range(Tail(t))
  <2>1. k..Len(steps) = {k} \cup (k + 1..Len(steps))
    BY <1>3
  <2>. QED BY <1>2, <1>4, <2>1
<1>7. Tail(t) = <<>> <=> k = Len(steps)
  BY <1>3, <1>4
<1>. QED BY <1>2, <1>3, <1>4, <1>5, <1>6, <1>7

\* Nothing of an order is done at its start.
LEMMA RestAll ==
    ASSUME NEW S, NEW steps \in Seq(S)
    PROVE  steps \in Host!Rest(steps)
<1>. DEFINE all == SubSeq(steps, 1, Len(steps))
<1>1. Len(steps) \in Nat /\ \A i \in 1..Len(steps) : steps[i] \in S
  OBVIOUS
<1>2. all \in Seq(S) /\ Len(all) = Len(steps) /\ \A i \in 1..Len(steps) : all[i] = steps[i]
  BY <1>1
<1>3. all = steps
  BY <1>2, SeqEqual
<1>4. 1 \in 1..Len(steps) + 1
  BY <1>1
<1>. QED BY <1>3, <1>4 DEF Host!Rest

\* The order of open(): what it builds without awaiting comes last.
LEMMA OpenOrder ==
    ASSUME NEW t \in Host!Rest(Host!OpenSteps), t # <<>>
    PROVE  /\ Tail(t) \in Host!Rest(Host!OpenSteps)
           /\ Host!Range(t) = {Head(t)} \cup Host!Range(Tail(t))
           /\ Head(t) \in {"database", "purge", "meters", "wire"}
           /\ Head(t) = "wire" <=> Tail(t) = <<>>
           /\ Head(t) = "wire" => Host!Range(t) = {"wire"}
<1>. DEFINE steps == Host!OpenSteps
<1>1. /\ steps \in Seq({"database", "purge", "meters", "wire"}) /\ Len(steps) = 4
      /\ steps[1] = "database" /\ steps[2] = "purge" /\ steps[3] = "meters" /\ steps[4] = "wire"
  BY DEF Host!OpenSteps
<1>2. t \in Host!Rest(steps)
  OBVIOUS
<1>. HIDE DEF steps
<1>3. /\ Tail(t) \in Host!Rest(steps) /\ Host!Range(t) = {Head(t)} \cup Host!Range(Tail(t))
      /\ \E k \in 1..Len(steps) :
            /\ Head(t) = steps[k]
            /\ Tail(t) = <<>> <=> k = Len(steps)
            /\ Host!Range(t) = {steps[i] : i \in k..Len(steps)}
  BY <1>1, <1>2, RestStep
<1>4. PICK k \in 1..4 : /\ Head(t) = steps[k]
                        /\ Tail(t) = <<>> <=> k = 4
                        /\ Host!Range(t) = {steps[i] : i \in k..4}
  BY <1>1, <1>3
<1>5. Head(t) = "wire" <=> k = 4
  BY <1>1, <1>4
<1>6. k = 4 => Host!Range(t) = {"wire"}
  BY <1>1, <1>4
<1>7. Head(t) \in {"database", "purge", "meters", "wire"}
  BY <1>1, <1>4
<1>. QED BY <1>3, <1>4, <1>5, <1>6, <1>7 DEF steps

\* The order in which an open() that failed unwinds.
LEMMA UnwindOrder ==
    ASSUME NEW t \in Host!Rest(Host!UnwindSteps), t # <<>>
    PROVE  /\ Tail(t) \in Host!Rest(Host!UnwindSteps)
           /\ Host!Range(t) = {Head(t)} \cup Host!Range(Tail(t))
           /\ Head(t) \in {"runtime", "subscription", "meters", "broker", "database"}
<1>. DEFINE steps == Host!UnwindSteps
            S == {"runtime", "subscription", "meters", "broker", "database"}
<1>1. steps \in Seq(S)
  BY DEF Host!UnwindSteps
<1>2. t \in Host!Rest(steps)
  OBVIOUS
<1>. HIDE DEF steps, S
<1>3. /\ Tail(t) \in Host!Rest(steps) /\ Host!Range(t) = {Head(t)} \cup Host!Range(Tail(t))
      /\ \E k \in 1..Len(steps) : Head(t) = steps[k]
  BY <1>1, <1>2, RestStep
<1>4. Head(t) \in S
  BY <1>1, <1>3
<1>. QED BY <1>3, <1>4 DEF steps, S

\* The order of close(): what a part relies on is closed after it.
LEMMA CloseOrder ==
    ASSUME NEW t \in Host!Rest(Host!CloseSteps), t # <<>>
    PROVE  /\ Tail(t) \in Host!Rest(Host!CloseSteps)
           /\ Host!Range(t) = {Head(t)} \cup Host!Range(Tail(t))
           /\ Head(t) \notin Host!Range(Tail(t))
           /\ "receipts" \in Host!Range(t) => "database" \in Host!Range(t)
           /\ "runtime" \in Host!Range(t) =>
               {"receipts", "database", "broker", "subscription"} \subseteq Host!Range(t)
           /\ Head(t) = "approvals" => "runtime" \in Host!Range(t)
           /\ Host!Range(t) \subseteq Host!Range(Host!CloseSteps)
<1>. DEFINE steps == Host!CloseSteps
            S == {"meters", "approvals", "runtime", "receipts", "extensions", "subscription",
                  "broker", "database"}
<1>1. /\ steps \in Seq(S) /\ Len(steps) = 8
      /\ steps[1] = "meters" /\ steps[2] = "approvals" /\ steps[3] = "runtime"
      /\ steps[4] = "receipts" /\ steps[5] = "extensions" /\ steps[6] = "subscription"
      /\ steps[7] = "broker" /\ steps[8] = "database"
  BY DEF Host!CloseSteps
<1>2. t \in Host!Rest(steps)
  OBVIOUS
<1>. HIDE DEF steps, S
<1>3. /\ Tail(t) \in Host!Rest(steps) /\ Host!Range(t) = {Head(t)} \cup Host!Range(Tail(t))
      /\ \E k \in 1..Len(steps) :
            /\ Head(t) = steps[k]
            /\ Host!Range(t) = {steps[i] : i \in k..Len(steps)}
            /\ Host!Range(Tail(t)) = {steps[i] : i \in k + 1..Len(steps)}
  BY <1>1, <1>2, RestStep
<1>4. PICK k \in 1..8 : /\ Head(t) = steps[k]
                        /\ Host!Range(t) = {steps[i] : i \in k..8}
                        /\ Host!Range(Tail(t)) = {steps[i] : i \in k + 1..8}
  BY <1>1, <1>3
<1>5. \A i, j \in 1..8 : steps[i] = steps[j] => i = j
  BY <1>1
<1>6. \A i \in 1..8 : steps[i] \in Host!Range(t) <=> k <= i
  BY <1>4, <1>5
<1>7. Head(t) \notin Host!Range(Tail(t))
  <2>1. \A i \in k + 1..8 : i \in 1..8 /\ i # k
    BY <1>4
  <2>. QED BY <1>4, <1>5, <2>1
<1>8. /\ "receipts" \in Host!Range(t) <=> k <= 4
      /\ "runtime" \in Host!Range(t) <=> k <= 3
      /\ "database" \in Host!Range(t) <=> k <= 8
      /\ "broker" \in Host!Range(t) <=> k <= 7
      /\ "subscription" \in Host!Range(t) <=> k <= 6
  BY <1>1, <1>6
<1>9. Head(t) = "approvals" => k = 2
  BY <1>1, <1>4, <1>5
<1>10. "receipts" \in Host!Range(t) => "database" \in Host!Range(t)
  BY <1>8
<1>11. "runtime" \in Host!Range(t) =>
           {"receipts", "database", "broker", "subscription"} \subseteq Host!Range(t)
  BY <1>8
<1>12. Head(t) = "approvals" => "runtime" \in Host!Range(t)
  BY <1>8, <1>9
<1>13. Host!Range(t) \subseteq Host!Range(steps)
  BY <1>1, <1>4 DEF Host!Range
<1>. QED BY <1>3, <1>7, <1>10, <1>11, <1>12, <1>13 DEF steps

\* The bound on what fails
LEMMA MaxCrashesNat == MaxCrashes \in Nat
  BY HostAssumption DEF Database!DatabaseAssumption

LEMMA ServicesInit == Host!Init => Host!IInv
<1>. SUFFICES ASSUME Host!Init PROVE Host!IInv
  OBVIOUS
<1>1. /\ stage = "opening" /\ todo = Host!OpenSteps /\ up = {} /\ work = "none"
      /\ receipt = "none" /\ lost = FALSE /\ stuck = {} /\ hostFailures = 0
  BY DEF Host!Init
<1>2. /\ Host!OpenSteps = <<"database", "purge", "meters", "wire">>
      /\ Host!Range(Host!OpenSteps) = {"database", "purge", "meters", "wire"}
      /\ Len(Host!OpenSteps) = 4 /\ Host!OpenSteps # <<>>
  BY DEF Host!OpenSteps, Host!Range
<1>3. Host!OpenSteps \in Seq(Host!Range(Host!CloseSteps) \cup Host!Range(Host!OpenSteps))
  BY <1>2
<1>4. Host!OpenSteps \in Host!Rest(Host!OpenSteps)
  BY <1>3, RestAll
<1>5. hostFailures \in 0..MaxCrashes
  BY <1>1, MaxCrashesNat
<1>6. lost \in BOOLEAN
  BY <1>1, Zenon
<1>7. Host!TypeOK
  BY <1>1, <1>3, <1>5, <1>6 DEF Host!TypeOK
<1>. QED BY <1>1, <1>2, <1>4, <1>7
    DEF Host!IInv, Host!OpeningExact, Host!ServingExact, Host!HealthyExact, Host!ClosingExact

\* Each order has the sequences of parts that the type of todo allows.
LEMMA OrdersTyped ==
    ASSUME NEW t \in Host!Rest(Host!OpenSteps) \cup Host!Rest(Host!UnwindSteps)
                     \cup Host!Rest(Host!CloseSteps)
    PROVE  t \in Seq(Host!Range(Host!CloseSteps) \cup Host!Range(Host!OpenSteps))
<1>. DEFINE S == Host!Range(Host!CloseSteps) \cup Host!Range(Host!OpenSteps)
<1>1. S = {"meters", "approvals", "runtime", "receipts", "extensions", "subscription",
           "broker", "database", "purge", "wire"}
  BY DEF Host!CloseSteps, Host!OpenSteps, Host!Range
<1>2. /\ Host!OpenSteps \in Seq(S) /\ Host!UnwindSteps \in Seq(S) /\ Host!CloseSteps \in Seq(S)
  BY <1>1 DEF Host!CloseSteps, Host!OpenSteps, Host!UnwindSteps
<1>. HIDE DEF S
<1>3. ASSUME NEW steps \in Seq(S), NEW k \in 1..Len(steps) + 1
      PROVE  SubSeq(steps, k, Len(steps)) \in Seq(S)
  BY <1>3
<1>4. PICK steps \in Seq(S) : \E k \in 1..Len(steps) + 1 : t = SubSeq(steps, k, Len(steps))
  BY <1>2 DEF Host!Rest
<1>5. t \in Seq(S)
  BY <1>3, <1>4
<1>. QED BY <1>5 DEF S

\* The last of an order is reached with nothing left, and every order starts with all of it.
LEMMA OrdersStart ==
    /\ Host!UnwindSteps \in Host!Rest(Host!UnwindSteps) /\ Host!UnwindSteps # <<>>
    /\ Host!Range(Host!UnwindSteps) = {"runtime", "subscription", "meters", "broker", "database"}
    /\ Host!CloseSteps \in Host!Rest(Host!CloseSteps) /\ Host!CloseSteps # <<>>
    /\ Host!Range(Host!CloseSteps) = Host!Wired \cup {"database", "meters"}
    /\ Host!Range(<<>>) = {}
<1>. DEFINE S == {"meters", "approvals", "runtime", "receipts", "extensions", "subscription",
                  "broker", "database"}
<1>1. /\ Host!UnwindSteps \in Seq(S) /\ Len(Host!UnwindSteps) = 5
      /\ Host!CloseSteps \in Seq(S) /\ Len(Host!CloseSteps) = 8
  BY DEF Host!UnwindSteps, Host!CloseSteps
<1>2. /\ Host!UnwindSteps \in Host!Rest(Host!UnwindSteps)
      /\ Host!CloseSteps \in Host!Rest(Host!CloseSteps)
  BY <1>1, RestAll
<1>3. Host!Range(Host!UnwindSteps) = {"runtime", "subscription", "meters", "broker", "database"}
  BY DEF Host!UnwindSteps, Host!Range
<1>4. Host!Range(Host!CloseSteps) = Host!Wired \cup {"database", "meters"}
  BY DEF Host!CloseSteps, Host!Range, Host!Wired
<1>5. Host!Range(<<>>) = {}
  BY DEF Host!Range
<1>6. Host!UnwindSteps # <<>> /\ Host!CloseSteps # <<>>
  BY DEF Host!UnwindSteps, Host!CloseSteps
<1>. QED BY <1>2, <1>3, <1>4, <1>5, <1>6

\* The types of what no step of an order is about.
LEMMA ServicesTyped ==
    ASSUME Host!IInv
    PROVE  /\ stage \in {"opening", "unwinding", "serving", "closing", "closed", "failed"}
           /\ up \subseteq Host!Wired \cup {"database", "meters", "undisposed"}
           /\ work \in {"none", "running", "asking", "ended"}
           /\ receipt \in {"none", "waiting", "ended", "error", "cancelled", "told"}
           /\ lost \in BOOLEAN /\ stuck \subseteq Host!Range(Host!CloseSteps)
           /\ hostFailures \in 0..MaxCrashes
  BY DEF Host!IInv, Host!TypeOK

LEMMA ServicesFail ==
    ASSUME Host!IInv, Host!Fails
    PROVE  hostFailures' \in 0..MaxCrashes /\ hostFailures' > 0
<1>1. hostFailures \in 0..MaxCrashes /\ hostFailures < MaxCrashes /\ hostFailures' = hostFailures + 1
  BY ServicesTyped DEF Host!Fails
<1>. QED BY <1>1, MaxCrashesNat

LEMMA OpenKeeps == ASSUME Host!IInv, Host!Open PROVE Host!IInv'
<1>1. /\ stage = "opening" /\ todo \in Host!Rest(Host!OpenSteps) /\ todo # <<>>
      /\ work = "none" /\ receipt = "none"
      /\ up \subseteq {"database", "meters"}
      /\ {"database", "meters"} \ Host!Range(todo) \subseteq up
  BY DEF Host!Open, Host!IInv, Host!OpeningExact
<1>2. UNCHANGED <<work, receipt, lost, stuck>>
  BY DEF Host!Open
<1>3. CASE /\ up' = up \cup (IF Head(todo) = "wire" THEN Host!Wired ELSE {Head(todo)} \ {"purge"})
           /\ todo' = Tail(todo)
           /\ stage' = IF Head(todo) = "wire" THEN "serving" ELSE stage
           /\ UNCHANGED hostFailures
  <2>1. /\ Tail(todo) \in Host!Rest(Host!OpenSteps)
        /\ Host!Range(todo) = {Head(todo)} \cup Host!Range(Tail(todo))
        /\ Head(todo) \in {"database", "purge", "meters", "wire"}
        /\ Head(todo) = "wire" <=> Tail(todo) = <<>>
        /\ Head(todo) = "wire" => Host!Range(todo) = {"wire"}
    BY <1>1, OpenOrder
  <2>2. Host!TypeOK'
    <3>1. todo' \in Seq(Host!Range(Host!CloseSteps) \cup Host!Range(Host!OpenSteps))
      BY <1>3, <2>1, OrdersTyped
    <3>2. up' \subseteq Host!Wired \cup {"database", "meters", "undisposed"}
      BY <1>1, <1>3, <2>1
    <3>3. stage' \in {"serving", "opening"}
      BY <1>1, <1>3
    <3>. QED BY <1>2, <1>3, <3>1, <3>2, <3>3, ServicesTyped DEF Host!TypeOK
  <2>3. CASE Head(todo) = "wire"
    <3>1. up' = Host!Wired \cup {"database", "meters"} /\ stage' = "serving"
      BY <1>1, <1>3, <2>1, <2>3
    <3>. QED BY <1>1, <1>2, <1>3, <2>2, <3>1
        DEF Host!IInv, Host!OpeningExact, Host!ServingExact, Host!HealthyExact, Host!ClosingExact
  <2>4. CASE Head(todo) # "wire"
    <3>1. /\ up' = up \cup ({Head(todo)} \ {"purge"}) /\ stage' = "opening" /\ todo' = Tail(todo)
      BY <1>1, <1>3, <2>4
    <3>2. Tail(todo) # <<>> /\ Head(todo) \in {"database", "purge", "meters"}
      BY <2>1, <2>4
    <3>3. up' \subseteq {"database", "meters"}
      BY <1>1, <3>1, <3>2
    <3>4. {"database", "meters"} \ Host!Range(Tail(todo)) \subseteq up'
      BY <1>1, <2>1, <3>1
    <3>5. Host!OpeningExact'
      BY <1>1, <1>2, <2>1, <3>1, <3>2, <3>3, <3>4 DEF Host!OpeningExact
    <3>6. Host!ServingExact' /\ Host!HealthyExact' /\ Host!ClosingExact'
      BY <1>2, <1>3, <3>1 DEF Host!IInv, Host!ServingExact, Host!HealthyExact, Host!ClosingExact
    <3>. QED BY <2>2, <3>5, <3>6 DEF Host!IInv
  <2>. QED BY <2>3, <2>4
<1>4. CASE /\ stage' = "unwinding" /\ todo' = Host!UnwindSteps
           /\ Host!Fails /\ UNCHANGED up
  <2>1. Host!TypeOK'
    <3>1. todo' \in Seq(Host!Range(Host!CloseSteps) \cup Host!Range(Host!OpenSteps))
      BY <1>4, OrdersStart, OrdersTyped
    <3>2. hostFailures' \in 0..MaxCrashes
      BY <1>4, ServicesFail
    <3>. QED BY <1>2, <1>4, <3>1, <3>2, ServicesTyped DEF Host!TypeOK
  <2>2. hostFailures' > 0 /\ hostFailures' \in Nat
    BY <1>4, ServicesFail, MaxCrashesNat
  <2>. QED BY <1>1, <1>2, <1>4, <2>1, <2>2, OrdersStart
      DEF Host!OpeningExact, Host!ServingExact, Host!HealthyExact, Host!ClosingExact, Host!IInv
<1>. QED BY <1>3, <1>4 DEF Host!Open

LEMMA UnwindKeeps == ASSUME Host!IInv, Host!Unwind PROVE Host!IInv'
<1>1. /\ stage = "unwinding" /\ todo \in Host!Rest(Host!UnwindSteps) /\ todo # <<>>
      /\ work = "none" /\ receipt = "none"
      /\ up \subseteq Host!Range(todo) \cup stuck /\ up \subseteq {"database", "meters"}
  BY DEF Host!Unwind, Host!IInv, Host!OpeningExact
<1>2. /\ todo' = Tail(todo) /\ stage' = IF Tail(todo) = <<>> THEN "failed" ELSE stage
      /\ UNCHANGED <<work, receipt, lost>>
      /\ \/ up' = up \ {Head(todo)} /\ UNCHANGED <<stuck, hostFailures>>
         \/ Host!Fails /\ stuck' = stuck \cup {Head(todo)} /\ UNCHANGED up
  BY DEF Host!Unwind
<1>3. /\ Tail(todo) \in Host!Rest(Host!UnwindSteps)
      /\ Host!Range(todo) = {Head(todo)} \cup Host!Range(Tail(todo))
      /\ Head(todo) \in {"runtime", "subscription", "meters", "broker", "database"}
  BY <1>1, UnwindOrder
<1>4. up' \subseteq Host!Range(todo') \cup stuck' /\ up' \subseteq {"database", "meters"}
  BY <1>1, <1>2, <1>3
<1>5. /\ stuck' \subseteq Host!Range(Host!CloseSteps) /\ hostFailures' \in 0..MaxCrashes
      /\ hostFailures' = 0 => hostFailures = 0 /\ stuck' = stuck
  <2>1. stuck \subseteq Host!Range(Host!CloseSteps) /\ hostFailures \in 0..MaxCrashes
    BY ServicesTyped
  <2>2. Head(todo) \in Host!Range(Host!CloseSteps)
    BY <1>3, OrdersStart DEF Host!Wired
  <2>3. Host!Fails => hostFailures' \in 0..MaxCrashes /\ hostFailures' > 0
    BY ServicesFail
  <2>. QED BY <1>2, <2>1, <2>2, <2>3, MaxCrashesNat
<1>6. Host!TypeOK'
  <2>1. todo' \in Seq(Host!Range(Host!CloseSteps) \cup Host!Range(Host!OpenSteps))
    BY <1>2, <1>3, OrdersTyped
  <2>2. stage' \in {"failed", "unwinding"}
    BY <1>1, <1>2
  <2>. QED BY <1>2, <1>4, <1>5, <2>1, <2>2, ServicesTyped DEF Host!TypeOK
<1>7. Host!OpeningExact'
  BY <1>1, <1>2, <1>3, <1>4 DEF Host!OpeningExact
<1>8. Host!ServingExact' /\ Host!HealthyExact' /\ Host!ClosingExact'
  BY <1>1, <1>2, <1>5 DEF Host!IInv, Host!ServingExact, Host!HealthyExact, Host!ClosingExact
<1>. QED BY <1>6, <1>7, <1>8 DEF Host!IInv

\* What a run or its receipt uses while nothing has raised is open.
LEMMA UsedIsUp ==
    ASSUME Host!IInv, hostFailures = 0, work # "none"
    PROVE  /\ work \in {"running", "asking"} => {"database", "broker", "subscription"} \subseteq up
           /\ receipt = "waiting" => "database" \in up
<1>1. stage \in {"serving", "closing", "closed"}
  BY ServicesTyped DEF Host!IInv, Host!OpeningExact
<1>2. CASE stage = "serving"
  BY <1>2 DEF Host!IInv, Host!ServingExact, Host!Wired
<1>3. CASE stage \in {"closing", "closed"}
  <2>1. /\ todo \in Host!Rest(Host!CloseSteps) /\ stuck = {} /\ Host!Range(todo) \subseteq up
        /\ "runtime" \in Host!Range(todo) \/ work \in {"none", "ended"}
        /\ "receipts" \in Host!Range(todo) \/ receipt # "waiting"
    BY <1>3 DEF Host!IInv, Host!HealthyExact, Host!ClosingExact
  <2>2. CASE todo = <<>>
    BY <2>1, <2>2, OrdersStart
  <2>3. CASE todo # <<>>
    BY <2>1, <2>3, CloseOrder
  <2>. QED BY <2>2, <2>3
<1>. QED BY <1>1, <1>2, <1>3

\* A step of the run or of its receipt: it writes into what is open, and starts nothing.
LEMMA RunStepKeeps ==
    ASSUME Host!IInv, work # "none", work' # "none",
           UNCHANGED <<stage, todo, up, stuck>>,
           hostFailures' = hostFailures \/ Host!Fails,
           work' \in {"running", "asking", "ended"},
           work = "ended" => work' = "ended",
           receipt' = receipt \/ receipt' = "ended" \/ (receipt = "waiting" /\ receipt' = "error"),
           lost' \in BOOLEAN, hostFailures = 0 => lost' = lost
    PROVE  Host!IInv'
<1>1. stage \in {"serving", "closing", "closed"}
  BY ServicesTyped DEF Host!IInv, Host!OpeningExact
<1>2. hostFailures' \in 0..MaxCrashes /\ (hostFailures' = 0 => hostFailures = 0)
      /\ (hostFailures > 0 => hostFailures' > 0)
  BY ServicesTyped, ServicesFail, MaxCrashesNat
<1>3. Host!TypeOK'
  <2>1. receipt' \in {"none", "waiting", "ended", "error", "cancelled", "told"}
    BY ServicesTyped
  <2>. QED BY <1>2, <2>1 DEF Host!IInv, Host!TypeOK
<1>4. Host!OpeningExact'
  BY <1>1 DEF Host!OpeningExact
<1>5. Host!ServingExact' /\ Host!HealthyExact'
  BY <1>2 DEF Host!IInv, Host!ServingExact, Host!HealthyExact
<1>6. Host!ClosingExact'
  BY <1>2 DEF Host!IInv, Host!ClosingExact
<1>. QED BY <1>3, <1>4, <1>5, <1>6 DEF Host!IInv

LEMMA RunKeeps ==
    ASSUME Host!IInv,
           Host!Submit \/ Host!RunEmits \/ Host!RunAsks \/ Host!Answered \/ Host!RunEnds
               \/ Host!ReceiptEnds
    PROVE  Host!IInv'
<1>1. CASE Host!Submit
  <2>1. /\ stage = "serving" /\ work' = "running" /\ receipt' \in {"none", "waiting", "error"}
        /\ UNCHANGED <<stage, todo, up, lost, stuck, hostFailures>>
    BY <1>1 DEF Host!Submit
  <2>2. Host!TypeOK' /\ Host!OpeningExact'
    BY <2>1 DEF Host!IInv, Host!TypeOK, Host!OpeningExact
  <2>3. Host!ServingExact' /\ Host!HealthyExact' /\ Host!ClosingExact'
    BY <2>1 DEF Host!IInv, Host!ServingExact, Host!HealthyExact, Host!ClosingExact
  <2>. QED BY <2>2, <2>3 DEF Host!IInv
<1>2. CASE Host!RunEmits \/ Host!RunAsks \/ Host!Answered
  <2>1. /\ work \in {"running", "asking"} /\ work' \in {"running", "asking"} /\ receipt' = receipt
        /\ UNCHANGED <<stage, todo, up, stuck, hostFailures>>
    BY <1>2 DEF Host!RunEmits, Host!RunAsks, Host!Answered
  <2>2. lost' = lost \/ \E p \in {"database", "broker", "subscription"} : lost' = (lost \/ p \notin up)
    BY <1>2 DEF Host!RunEmits, Host!RunAsks, Host!Answered, Host!Uses
  <2>3. lost' \in BOOLEAN
    BY <2>2, ServicesTyped
  <2>4. ASSUME hostFailures = 0 PROVE lost' = lost
    <3>1. {"database", "broker", "subscription"} \subseteq up
      BY <2>1, <2>4, UsedIsUp
    <3>. QED BY <2>2, <3>1, ServicesTyped
  <2>. QED BY <2>1, <2>3, <2>4, RunStepKeeps
<1>3. CASE Host!ReceiptEnds /\ Host!Fails
  <2>1. /\ work = "ended" /\ work' = "ended" /\ receipt = "waiting"
        /\ receipt' \in {"ended", "error"} /\ UNCHANGED <<stage, todo, up, stuck>>
    BY <1>3 DEF Host!ReceiptEnds
  <2>2. lost' = lost \/ lost' = (lost \/ "database" \notin up)
    BY <1>3 DEF Host!ReceiptEnds, Host!Uses
  <2>3. lost' \in BOOLEAN
    BY <2>2, ServicesTyped
  <2>4. ASSUME hostFailures = 0 PROVE lost' = lost
    <3>1. "database" \in up
      BY <2>1, <2>4, UsedIsUp
    <3>. QED BY <2>2, <3>1, ServicesTyped
  <2>. QED BY <1>3, <2>1, <2>3, <2>4, RunStepKeeps
<1>4. CASE Host!RunEnds \/ (Host!ReceiptEnds /\ ~Host!Fails)
  <2>1. /\ work \in {"running", "ended"} /\ work' = "ended"
        /\ receipt' = receipt \/ (receipt = "waiting" /\ receipt' = "ended")
        /\ work = "running" \/ receipt = "waiting"
        /\ UNCHANGED <<stage, todo, up, stuck, hostFailures>>
    BY <1>4 DEF Host!RunEnds, Host!ReceiptEnds
  <2>2. lost' = (lost \/ "database" \notin up)
    BY <1>4 DEF Host!RunEnds, Host!ReceiptEnds, Host!Uses
  <2>3. lost' \in BOOLEAN
    BY <2>2, ServicesTyped
  <2>4. ASSUME hostFailures = 0 PROVE lost' = lost
    <3>1. "database" \in up
      BY <2>1, <2>4, UsedIsUp
    <3>. QED BY <2>2, <3>1, ServicesTyped
  <2>. QED BY <2>1, <2>3, <2>4, RunStepKeeps
<1>. QED BY <1>1, <1>2, <1>3, <1>4

LEMMA CloseKeeps == ASSUME Host!IInv, Host!Close PROVE Host!IInv'
<1>1. /\ stage \in {"serving", "closing"} /\ stage' = "closing"
      /\ todo' = Host!CloseSteps /\ stuck' = {}
      /\ stage = "closing" => stuck # {}
      /\ UNCHANGED <<up, work, receipt, lost, hostFailures>>
  BY DEF Host!Close
<1>2. /\ Host!Range(Host!CloseSteps) = Host!Wired \cup {"database", "meters"}
      /\ Host!CloseSteps \in Host!Rest(Host!CloseSteps)
  BY OrdersStart
<1>3. /\ up \subseteq Host!Range(Host!CloseSteps) \cup {"undisposed"}
      /\ "undisposed" \in up => hostFailures > 0
      /\ hostFailures = 0 => Host!Range(Host!CloseSteps) \subseteq up
  <2>1. CASE stage = "serving"
    BY <1>2, <2>1 DEF Host!IInv, Host!ServingExact, Host!Wired
  <2>2. CASE stage = "closing"
    BY <1>1, <1>2, <2>2, ServicesTyped DEF Host!IInv, Host!HealthyExact, Host!ClosingExact
  <2>. QED BY <1>1, <2>1, <2>2
<1>4. "runtime" \in Host!Range(Host!CloseSteps) /\ "receipts" \in Host!Range(Host!CloseSteps)
  BY <1>2 DEF Host!Wired
<1>5. Host!TypeOK'
  <2>1. todo' \in Seq(Host!Range(Host!CloseSteps) \cup Host!Range(Host!OpenSteps))
    BY <1>1, <1>2, OrdersTyped
  <2>. QED BY <1>1, <2>1, ServicesTyped DEF Host!TypeOK
<1>6. Host!OpeningExact' /\ Host!ServingExact'
  BY <1>1 DEF Host!OpeningExact, Host!ServingExact
<1>7. Host!HealthyExact'
  BY <1>1 DEF Host!IInv, Host!HealthyExact
<1>8. Host!ClosingExact'
  BY <1>1, <1>2, <1>3, <1>4 DEF Host!ClosingExact
<1>. QED BY <1>5, <1>6, <1>7, <1>8 DEF Host!IInv

LEMMA CloseStepKeeps == ASSUME Host!IInv, Host!CloseStep PROVE Host!IInv'
<1>1. /\ stage = "closing" /\ todo # <<>> /\ todo \in Host!Rest(Host!CloseSteps)
      /\ todo' = Tail(todo) /\ UNCHANGED <<stage, lost>>
  BY DEF Host!CloseStep, Host!IInv, Host!ClosingExact
<1>2. /\ Tail(todo) \in Host!Rest(Host!CloseSteps)
      /\ Host!Range(todo) = {Head(todo)} \cup Host!Range(Tail(todo))
      /\ Head(todo) \notin Host!Range(Tail(todo))
      /\ Head(todo) = "approvals" => "runtime" \in Host!Range(todo)
  BY <1>1, CloseOrder
<1>3. todo' \in Seq(Host!Range(Host!CloseSteps) \cup Host!Range(Host!OpenSteps))
  BY <1>1, <1>2, OrdersTyped
<1>4. Host!OpeningExact' /\ Host!ServingExact'
  BY <1>1 DEF Host!OpeningExact, Host!ServingExact
<1>5. Host!Range(todo) \subseteq Host!Range(Host!CloseSteps)
  BY <1>1, CloseOrder
<1>6. /\ Host!Cancelled # "waiting" /\ Host!Settled \notin {"waiting", "error"}
      /\ Host!Cancelled \in {"none", "ended", "error", "cancelled", "told"}
      /\ Host!Settled \in {"none", "ended", "cancelled", "told"}
      /\ receipt \notin {"waiting", "error"} => Host!Cancelled = receipt /\ Host!Settled = receipt
  BY ServicesTyped DEF Host!Cancelled, Host!Settled
<1>7. /\ hostFailures = 0 => Host!Range(todo) \subseteq up
      /\ "undisposed" \in up => hostFailures > 0
      /\ up \subseteq Host!Range(todo) \cup stuck \cup {"undisposed"}
      /\ "runtime" \in Host!Range(todo) \cup stuck \/ work \in {"none", "ended"}
      /\ "receipts" \in Host!Range(todo) \cup stuck \/ receipt \notin {"waiting", "error"}
  BY <1>1 DEF Host!IInv, Host!ClosingExact
<1>8. CASE /\ Head(todo) = "runtime" => work \in {"none", "ended"}
           /\ up' = up \ {Head(todo)}
           /\ work' = IF Head(todo) = "approvals" /\ work = "asking" THEN "running" ELSE work
           /\ receipt' = IF Head(todo) = "receipts" THEN Host!Settled ELSE receipt
           /\ UNCHANGED <<stuck, hostFailures>>
  <2>1. Host!TypeOK'
    BY <1>1, <1>3, <1>6, <1>8, ServicesTyped DEF Host!TypeOK
  <2>2. Host!HealthyExact'
    BY <1>1, <1>8 DEF Host!IInv, Host!HealthyExact
  <2>3. "runtime" \in Host!Range(Tail(todo)) \cup stuck \/ work' \in {"none", "ended"}
    <3>1. work \in {"none", "ended"} => work' = work
      BY <1>8
    <3>. QED BY <1>2, <1>7, <1>8, <3>1
  <2>4. "receipts" \in Host!Range(Tail(todo)) \cup stuck \/ receipt' \notin {"waiting", "error"}
    BY <1>2, <1>6, <1>7, <1>8
  <2>5. /\ hostFailures = 0 => Host!Range(Tail(todo)) \subseteq up'
        /\ "undisposed" \in up' => hostFailures > 0
        /\ up' \subseteq Host!Range(Tail(todo)) \cup stuck \cup {"undisposed"}
    BY <1>2, <1>7, <1>8
  <2>6. Host!ClosingExact'
    BY <1>1, <1>2, <1>8, <2>3, <2>4, <2>5 DEF Host!ClosingExact
  <2>. QED BY <1>4, <2>1, <2>2, <2>6 DEF Host!IInv
<1>9. CASE /\ Host!Fails /\ stuck' = stuck \cup {Head(todo)}
           /\ up' = IF Head(todo) = "extensions" /\ Head(todo) \in up
                    THEN (up \ {Head(todo)}) \cup {"undisposed"} ELSE up
           /\ receipt' = IF Head(todo) = "receipts" THEN Host!Cancelled ELSE receipt
           /\ UNCHANGED work
  <2>1. hostFailures' \in 0..MaxCrashes /\ hostFailures' > 0
    BY <1>9, ServicesFail
  <2>2. Host!TypeOK'
    <3>1. up' \subseteq Host!Wired \cup {"database", "meters", "undisposed"}
      BY <1>9, ServicesTyped
    <3>2. receipt' \in {"none", "waiting", "ended", "error", "cancelled", "told"}
      BY <1>6, <1>9, ServicesTyped
    <3>3. stuck' \subseteq Host!Range(Host!CloseSteps)
      <4>1. Head(todo) \in Host!Range(Host!CloseSteps)
        BY <1>2, <1>5
      <4>. QED BY <1>9, <4>1, ServicesTyped
    <3>. QED BY <1>1, <1>3, <1>9, <2>1, <3>1, <3>2, <3>3, ServicesTyped DEF Host!TypeOK
  <2>3. Host!HealthyExact'
    BY <2>1, MaxCrashesNat DEF Host!HealthyExact
  <2>4. "runtime" \in Host!Range(Tail(todo)) \cup stuck' \/ work' \in {"none", "ended"}
    BY <1>2, <1>7, <1>9
  <2>5. "receipts" \in Host!Range(Tail(todo)) \cup stuck' \/ receipt' \notin {"waiting", "error"}
    BY <1>2, <1>7, <1>9
  <2>6. up' \subseteq Host!Range(Tail(todo)) \cup stuck' \cup {"undisposed"}
    BY <1>2, <1>7, <1>9
  <2>7. hostFailures' # 0
    BY <2>1, MaxCrashesNat
  <2>8. Host!ClosingExact'
    BY <1>1, <1>2, <2>1, <2>4, <2>5, <2>6, <2>7 DEF Host!ClosingExact
  <2>. QED BY <1>4, <2>2, <2>3, <2>8 DEF Host!IInv
<1>. QED BY <1>8, <1>9 DEF Host!CloseStep

LEMMA CloseReturnsKeeps == ASSUME Host!IInv, Host!CloseReturns PROVE Host!IInv'
<1>1. /\ stage = "closing" /\ todo = <<>> /\ stuck = {} /\ stage' = "closed"
      /\ UNCHANGED <<todo, up, work, receipt, lost, stuck, hostFailures>>
  BY DEF Host!CloseReturns
<1>2. Host!TypeOK' /\ Host!OpeningExact'
  BY <1>1 DEF Host!IInv, Host!TypeOK, Host!OpeningExact
<1>3. Host!ServingExact' /\ Host!HealthyExact' /\ Host!ClosingExact'
  BY <1>1 DEF Host!IInv, Host!ServingExact, Host!HealthyExact, Host!ClosingExact
<1>. QED BY <1>2, <1>3 DEF Host!IInv

\* A step of the web host keeps what its order of opening and closing rests on.
LEMMA ServicesStep == ASSUME Host!IInv, [Host!Next]_(Host!vars) PROVE Host!IInv'
<1>1. CASE Host!Next
  BY <1>1, OpenKeeps, UnwindKeeps, RunKeeps, CloseKeeps, CloseStepKeeps, CloseReturnsKeeps
     DEF Host!Next
<1>2. CASE UNCHANGED Host!vars
  BY <1>2 DEF Host!vars, Host!IInv, Host!TypeOK, Host!OpeningExact, Host!ServingExact,
     Host!HealthyExact, Host!ClosingExact
<1>. QED BY <1>1, <1>2

\* Nothing is lost into a part that is closed while nothing raises, and nothing is left behind.
LEMMA ServicesSafety == ASSUME Host!IInv PROVE Host!NothingUsesClosed /\ Host!NothingLeaks
<1>1. Host!NothingUsesClosed
  BY ServicesTyped DEF Host!IInv, Host!HealthyExact, Host!NothingUsesClosed
<1>2. stage = "failed" => up \subseteq stuck
  BY OrdersStart DEF Host!IInv, Host!OpeningExact
<1>3. stage \in {"closing", "closed"} /\ todo = <<>> =>
        /\ up \subseteq stuck \cup {"undisposed"} /\ ("undisposed" \in up => hostFailures > 0)
        /\ "runtime" \in stuck \/ work \notin {"running", "asking"}
        /\ "receipts" \in stuck \/ receipt \notin {"waiting", "error"}
  BY OrdersStart DEF Host!IInv, Host!ClosingExact
<1>4. stage = "closed" => stuck = {}
  BY DEF Host!IInv, Host!ClosingExact
<1>. QED BY <1>1, <1>2, <1>3, <1>4 DEF Host!NothingLeaks

-----
(* The database and the processes that compete for it *)

\* The module counts with the operators of FiniteSets.
LEMMA DatabaseCounts ==
    ASSUME NEW A
    PROVE  Database!Cardinality(A) = Cardinality(A) /\ Database!IsFiniteSet(A) = IsFiniteSet(A)
BY DEF Database!Cardinality, Cardinality, Database!IsFiniteSet, IsFiniteSet

\* What the assumption says of the constants
LEMMA DatabaseGiven ==
    ASSUME Database!DatabaseAssumption
    PROVE  /\ None \notin Hosts /\ IsFiniteSet(Readers) /\ HostOf \in [Readers -> Hosts]
           /\ PoolSize \in Nat \ {0} /\ Latest \in Nat /\ MaxCrashes \in Nat
           /\ Known \in [Hosts -> 0..Latest]
BY DatabaseCounts DEF Database!DatabaseAssumption

LEMMA DatabaseReadingCounts ==
    ASSUME Database!DatabaseAssumption, NEW h
    PROVE  IsFiniteSet(Database!Reading(h)) /\ Cardinality(Database!Reading(h)) \in Nat
BY DatabaseGiven, FS_Subset, FS_CardinalityType DEF Database!Reading

\* The pool and the readers share what is open and not lost.
LEMMA DatabasePoolBounds ==
    ASSUME Database!DatabaseAssumption, Database!IInv, NEW h \in Hosts
    PROVE  /\ conns[h] \in 0..PoolSize /\ astray[h] \in 0..PoolSize /\ pool[h] \in 0..PoolSize
           /\ pool[h] + astray[h] <= conns[h]
           /\ conns[h] = pool[h] + Cardinality(Database!Reading(h)) + astray[h]
           /\ \A r \in Database!Reading(h) : pool[h] + 1 <= conns[h]
<1>1. /\ conns[h] \in 0..PoolSize /\ astray[h] \in 0..PoolSize /\ pool[h] \in 0..PoolSize
      /\ conns[h] = pool[h] + Cardinality(Database!Reading(h)) + astray[h]
  BY DatabaseCounts DEF Database!IInv, Database!TypeOK, Database!PoolConserved
<1>2. Cardinality(Database!Reading(h)) \in Nat /\ PoolSize \in Nat
  BY DatabaseReadingCounts, DatabaseGiven
<1>3. ASSUME NEW r \in Database!Reading(h)
      PROVE  Cardinality(Database!Reading(h)) >= 1
  <2>1. Database!Reading(h) # {}
    OBVIOUS
  <2>2. Cardinality(Database!Reading(h)) # 0
    BY <2>1, DatabaseReadingCounts, FS_EmptySet, DatabaseCounts
  <2>. QED BY <2>2, <1>2
<1>. QED BY <1>1, <1>2, <1>3

\* One failure more
LEMMA DatabaseFailsCounts ==
    ASSUME Database!DatabaseAssumption, Database!IInv,
           Database!Fails \/ databaseFailures' = databaseFailures
    PROVE  databaseFailures' \in 0..MaxCrashes
BY DatabaseGiven DEF Database!Fails, Database!IInv, Database!TypeOK

\* Only one process is past the lock.
LEMMA DatabaseOneHolds ==
    ASSUME Database!DatabaseAssumption, Database!IInv, NEW h \in Hosts, NEW g \in Hosts,
           process[h] \in Database!Holding, g # h
    PROVE  process[g] \notin Database!Holding /\ lock = h
BY DEF Database!IInv, Database!LocksExact

\* Types of the stages
Stages == Database!Holding \cup {"new", "end"}

LEMMA DatabaseMoves ==
    ASSUME Database!IInv, NEW h \in Hosts, NEW step \in Stages, Database!Goes(h, step)
    PROVE  /\ process' \in [Hosts -> Stages] /\ process'[h] = step
           /\ \A g \in Hosts \ {h} : process'[g] = process[g]
BY DEF Database!IInv, Database!TypeOK, Database!Goes, Stages, Database!Holding, Database!Connected

\* What becomes of the connections of h
DatabaseConnections(h, step) ==
    /\ conns' \in [Hosts -> 0..PoolSize] /\ astray' \in [Hosts -> 0..PoolSize] /\ pool' \in [Hosts -> 0..PoolSize]
    /\ \A g \in Hosts \ {h} : conns'[g] = conns[g] /\ astray'[g] = astray[g] /\ pool'[g] = pool[g]
    /\ conns'[h] = pool'[h] + Cardinality(Database!Reading(h)) + astray'[h]
    /\ step = "open" => conns'[h] = PoolSize /\ astray'[h] = 0
    /\ step \in {"connect", "migrate", "recover", "readers"} => astray'[h] = 0

\* A step of a process that holds the lock and keeps it
LEMMA DatabaseStageKeeps ==
    ASSUME Database!DatabaseAssumption, Database!IInv, NEW h \in Hosts,
           NEW step \in Database!Holding,
           process[h] \in Database!Holding,
           Database!Goes(h, step) \/ (process' = process /\ step = process[h]),
           UNCHANGED <<lock, reader>>, Database!Fails \/ databaseFailures' = databaseFailures,
           writing' \subseteq Hosts, \A g \in Hosts \ {h} : g \in writing' <=> g \in writing,
           h \in writing' => step \in Database!Connected \cup {"undo", "raised"},
           step \in Database!Connected => h \in writing',
           schema' \in [version : 0..Latest, applied : SUBSET (1..Latest)],
           Database!SchemaRecorded',
           run' \in [status : {"pending", "running", "done", "interrupted"}, by : Hosts \cup {None}],
           step \in {"readers", "open"} /\ run'.status = "running" => run'.by = h,
           DatabaseConnections(h, step)
    PROVE  Database!IInv'
<1>1. /\ process' \in [Hosts -> Stages] /\ process'[h] = step
      /\ \A g \in Hosts \ {h} : process'[g] = process[g]
  <2>1. step \in Stages /\ process \in [Hosts -> Stages]
    BY DEF Stages, Database!IInv, Database!TypeOK, Database!Holding, Database!Connected
  <2>. QED BY <2>1, DatabaseMoves
<1>2. Database!TypeOK'
  BY <1>1, DatabaseFailsCounts
  DEF Database!IInv, Database!TypeOK, Stages, Database!Holding, Database!Connected,
      DatabaseConnections
<1>3. Database!LocksExact'
  BY <1>1 DEF Database!IInv, Database!LocksExact
<1>4. Database!RunningIsMine'
  <2>1. \A g \in Hosts \ {h} : process'[g] \notin {"readers", "open"}
    BY <1>1, DatabaseOneHolds DEF Database!Holding, Database!Connected
  <2>. QED BY <1>1, <2>1 DEF Database!RunningIsMine
<1>5. Database!PoolConserved'
  <2>1. \A g : Database!Reading(g)' = Database!Reading(g)
    BY DEF Database!Reading
  <2>. QED BY <1>1, <2>1, DatabaseCounts
           DEF Database!IInv, Database!PoolConserved, DatabaseConnections
<1>6. Database!LossesExact'
  BY <1>1
  DEF Database!IInv, Database!LossesExact, DatabaseConnections, Database!Holding, Database!Connected
<1>. QED BY <1>2, <1>3, <1>4, <1>5, <1>6 DEF Database!IInv

\* What StageKeeps asks of the variables that a step leaves alone
LEMMA DatabaseStill ==
    ASSUME Database!DatabaseAssumption, Database!IInv
    PROVE  /\ schema \in [version : 0..Latest, applied : SUBSET (1..Latest)] /\ Database!SchemaRecorded
           /\ run \in [status : {"pending", "running", "done", "interrupted"}, by : Hosts \cup {None}]
           /\ conns \in [Hosts -> 0..PoolSize] /\ astray \in [Hosts -> 0..PoolSize] /\ pool \in [Hosts -> 0..PoolSize]
           /\ \A h \in Hosts : conns[h] = pool[h] + Cardinality(Database!Reading(h)) + astray[h]
           /\ \A h \in Hosts : process[h] \in {"readers", "open"} /\ run.status = "running" => run.by = h
           /\ \A h \in Hosts : process[h] \in {"new", "connect", "migrate", "recover", "readers"} => astray[h] = 0
           /\ \A h \in Hosts : process[h] = "open" => conns[h] = PoolSize /\ astray[h] = 0
           /\ \A h \in Hosts : h \in writing => process[h] \in Database!Connected \cup {"undo", "raised"}
           /\ \A h \in Hosts : process[h] \in Database!Connected => h \in writing
           /\ writing \subseteq Hosts
BY DatabaseCounts
DEF Database!IInv, Database!TypeOK, Database!PoolConserved, Database!RunningIsMine,
    Database!LossesExact, Database!LocksExact

LEMMA DatabaseConnectionsStay ==
    ASSUME Database!DatabaseAssumption, Database!IInv, NEW h \in Hosts, NEW step,
           UNCHANGED <<conns, astray, pool>>,
           \/ step \notin {"open", "connect", "migrate", "recover", "readers"}
           \/ step = "open" /\ conns[h] = PoolSize /\ astray[h] = 0
           \/ step \in {"connect", "migrate", "recover", "readers"} /\ astray[h] = 0
    PROVE  DatabaseConnections(h, step)
BY DatabaseStill DEF DatabaseConnections

LEMMA DatabaseOpenKeeps ==
    ASSUME Database!DatabaseAssumption, Database!IInv, NEW h \in Hosts, Database!Open(h)
    PROVE  Database!IInv'
<1>1. /\ process[h] = "new" /\ UNCHANGED <<schema, run, conns, astray, pool, writing, reader>>
      /\ Database!Fails \/ databaseFailures' = databaseFailures
  BY DEF Database!Open
<1>2. \A g : Database!Reading(g)' = Database!Reading(g)
  BY <1>1 DEF Database!Reading
<1>3. PICK step \in {"connect", "raised", "end"} :
          /\ Database!Goes(h, step)
          /\ IF step = "end" THEN lock' = lock ELSE lock = None /\ lock' = h
  BY DEF Database!Open, Database!Acquires
<1>4. /\ process' \in [Hosts -> Stages] /\ process'[h] = step
      /\ \A g \in Hosts \ {h} : process'[g] = process[g]
  <2>1. step \in Stages
    BY DEF Stages, Database!Holding, Database!Connected
  <2>. QED BY <1>3, <2>1, DatabaseMoves
<1>5. step # "end" => \A g \in Hosts : process[g] \notin Database!Holding
  BY <1>3, DatabaseGiven DEF Database!IInv, Database!LocksExact
<1>6. Database!TypeOK'
  <2>1. process' \in [Hosts -> {"new", "connect", "migrate", "recover", "readers", "open", "checkpoint",
                             "undo", "raised", "unlock", "end"}]
    BY <1>4 DEF Stages, Database!Holding, Database!Connected
  <2>2. databaseFailures' \in 0..MaxCrashes
    BY <1>1, DatabaseFailsCounts
  <2>. QED BY <1>1, <1>3, <2>1, <2>2 DEF Database!IInv, Database!TypeOK
<1>7. Database!LocksExact'
  <2>1. h \notin writing /\ "new" \notin Database!Holding /\ "end" \notin Database!Holding /\ lock # h
    BY <1>1 DEF Database!IInv, Database!LocksExact, Database!Holding, Database!Connected
  <2>2. step \notin Database!Connected /\ "end" \notin Database!Connected
    BY DEF Database!Connected
  <2>3. step \in Database!Holding <=> step # "end"
    BY DEF Database!Holding, Database!Connected
  <2>4. \A g \in Hosts : /\ lock' = g <=> process'[g] \in Database!Holding
    BY <1>3, <1>4, <1>5, <2>1, <2>3 DEF Database!IInv, Database!LocksExact
  <2>. QED BY <1>1, <1>4, <2>1, <2>2, <2>4 DEF Database!IInv, Database!LocksExact
<1>8. Database!SchemaRecorded' /\ Database!PoolConserved' /\ Database!RunningIsMine'
  BY <1>1, <1>2, <1>4, DatabaseCounts
  DEF Database!IInv, Database!SchemaRecorded, Database!PoolConserved, Database!RunningIsMine
<1>9. Database!LossesExact'
  BY <1>1, <1>4 DEF Database!IInv, Database!LossesExact
<1>. QED BY <1>6, <1>7, <1>8, <1>9 DEF Database!IInv

LEMMA DatabaseConnectKeeps ==
    ASSUME Database!DatabaseAssumption, Database!IInv, NEW h \in Hosts, Database!Connect(h)
    PROVE  Database!IInv'
<1>1. /\ process[h] = "connect" /\ UNCHANGED <<lock, schema, run, conns, astray, pool, reader>>
      /\ Database!Fails \/ databaseFailures' = databaseFailures
  BY DEF Database!Connect
<1>2. Database!SchemaRecorded'
  BY <1>1 DEF Database!IInv, Database!SchemaRecorded
<1>3. PICK step \in {"migrate", "undo"} :
          /\ Database!Goes(h, step) /\ writing' \in {writing, writing \cup {h}} /\ (step = "migrate" => h \in writing')
  BY DEF Database!Connect
<1>4. DatabaseConnections(h, step)
  BY <1>1, DatabaseConnectionsStay, DatabaseStill
<1>. QED BY <1>1, <1>2, <1>3, <1>4, DatabaseStill, DatabaseStageKeeps
         DEF Database!Holding, Database!Connected

LEMMA DatabaseMigrateKeeps ==
    ASSUME Database!DatabaseAssumption, Database!IInv, NEW h \in Hosts, Database!Migrate(h)
    PROVE  Database!IInv'
<1>1. /\ process[h] = "migrate" /\ schema.version < Known[h]
      /\ UNCHANGED <<lock, run, conns, astray, pool, writing, reader>>
  BY DEF Database!Migrate
<1>2. \A step \in {"migrate", "undo"} : DatabaseConnections(h, step)
  BY <1>1, DatabaseConnectionsStay, DatabaseStill
<1>3. CASE Database!Migrates(h) /\ UNCHANGED <<process, databaseFailures>>
  <2>1. /\ schema.version \in 0..Latest /\ schema.applied = 1..schema.version
        /\ Known[h] \in 0..Latest /\ Latest \in Nat
    BY DatabaseGiven DEF Database!IInv, Database!TypeOK, Database!SchemaRecorded
  <2>2. /\ schema.version + 1 \in 0..Latest
        /\ (1..schema.version) \cup {schema.version + 1} = 1..(schema.version + 1)
        /\ 1..(schema.version + 1) \subseteq 1..Latest
    BY <1>1, <2>1
  <2>3. schema' = [version |-> schema.version + 1, applied |-> 1..(schema.version + 1)]
    BY <1>3, <2>1, <2>2 DEF Database!Migrates
  <2>4. /\ schema' \in [version : 0..Latest, applied : SUBSET (1..Latest)]
        /\ Database!SchemaRecorded'
    BY <2>2, <2>3 DEF Database!SchemaRecorded
  <2>. QED BY <1>1, <1>2, <1>3, <2>4, DatabaseStill, DatabaseStageKeeps
           DEF Database!Holding, Database!Connected
<1>4. CASE Database!Fails /\ Database!Goes(h, "undo") /\ UNCHANGED schema
  <2>1. Database!SchemaRecorded'
    BY <1>4 DEF Database!IInv, Database!SchemaRecorded
  <2>. QED BY <1>1, <1>2, <1>4, <2>1, DatabaseStill, DatabaseStageKeeps
           DEF Database!Holding, Database!Connected
<1>. QED BY <1>3, <1>4 DEF Database!Migrate

LEMMA DatabaseValidateKeeps ==
    ASSUME Database!DatabaseAssumption, Database!IInv, NEW h \in Hosts, Database!Validate(h)
    PROVE  Database!IInv'
<1>1. /\ process[h] = "migrate" /\ UNCHANGED <<lock, schema, run, conns, astray, pool, writing, reader>>
      /\ Database!Fails \/ databaseFailures' = databaseFailures
  BY DEF Database!Validate
<1>2. Database!SchemaRecorded'
  BY <1>1 DEF Database!IInv, Database!SchemaRecorded
<1>3. PICK step \in {"recover", "undo"} : Database!Goes(h, step)
  BY DEF Database!Validate
<1>4. DatabaseConnections(h, step)
  BY <1>1, DatabaseConnectionsStay, DatabaseStill
<1>. QED BY <1>1, <1>2, <1>3, <1>4, DatabaseStill, DatabaseStageKeeps
         DEF Database!Holding, Database!Connected

LEMMA DatabaseRecoverKeeps ==
    ASSUME Database!DatabaseAssumption, Database!IInv, NEW h \in Hosts, Database!Recover(h)
    PROVE  Database!IInv'
<1>1. /\ process[h] = "recover" /\ UNCHANGED <<lock, schema, conns, astray, pool, writing, reader>>
      /\ Database!Fails \/ databaseFailures' = databaseFailures
  BY DEF Database!Recover
<1>2. Database!SchemaRecorded'
  BY <1>1 DEF Database!IInv, Database!SchemaRecorded
<1>3. PICK step \in {"readers", "undo"} :
          Database!Goes(h, step) /\ run' \in {run, Database!Recovered} /\ (step = "readers" => run' = Database!Recovered)
  BY DEF Database!Recover
<1>4. /\ run' \in [status : {"pending", "running", "done", "interrupted"}, by : Hosts \cup {None}]
      /\ step = "readers" => run'.status # "running"
  BY <1>3, DatabaseStill DEF Database!Recovered
<1>5. DatabaseConnections(h, step)
  BY <1>1, DatabaseConnectionsStay, DatabaseStill
<1>. QED BY <1>1, <1>2, <1>3, <1>4, <1>5, DatabaseStill, DatabaseStageKeeps
         DEF Database!Holding, Database!Connected

LEMMA DatabaseOpenReaderKeeps ==
    ASSUME Database!DatabaseAssumption, Database!IInv, NEW h \in Hosts, Database!OpenReader(h)
    PROVE  Database!IInv'
<1>1. /\ process[h] = "readers" /\ UNCHANGED <<lock, schema, run, writing, reader>>
      /\ Database!Fails \/ databaseFailures' = databaseFailures
  BY DEF Database!OpenReader
<1>2. Database!SchemaRecorded' /\ astray[h] = 0
  BY <1>1, DatabaseStill DEF Database!IInv, Database!SchemaRecorded
<1>3. /\ conns[h] \in 0..PoolSize /\ pool[h] \in 0..PoolSize /\ pool[h] <= conns[h]
      /\ conns[h] = pool[h] + Cardinality(Database!Reading(h))
      /\ Cardinality(Database!Reading(h)) \in Nat /\ PoolSize \in Nat \ {0}
  BY <1>2, DatabasePoolBounds, DatabaseReadingCounts, DatabaseGiven
<1>4. CASE /\ conns[h] < PoolSize
           /\ conns' = [conns EXCEPT ![h] = @ + 1] /\ pool' = [pool EXCEPT ![h] = @ + 1]
           /\ UNCHANGED <<process, astray, databaseFailures>>
  <2>1. /\ conns[h] + 1 \in 0..PoolSize /\ pool[h] + 1 \in 0..PoolSize
        /\ conns[h] + 1 = (pool[h] + 1) + Cardinality(Database!Reading(h)) + 0
    BY <1>3, <1>4
  <2>2. DatabaseConnections(h, "readers")
    BY <1>2, <1>4, <2>1, DatabaseStill DEF DatabaseConnections
  <2>. QED BY <1>1, <1>2, <1>4, <2>2, DatabaseStill, DatabaseStageKeeps
           DEF Database!Holding, Database!Connected
<1>5. CASE conns[h] = PoolSize /\ Database!Goes(h, "open") /\ UNCHANGED <<conns, astray, pool, databaseFailures>>
  <2>1. DatabaseConnections(h, "open")
    BY <1>2, <1>5, DatabaseConnectionsStay
  <2>. QED BY <1>1, <1>2, <1>5, <2>1, DatabaseStill, DatabaseStageKeeps
           DEF Database!Holding, Database!Connected
<1>6. CASE Database!Goes(h, "undo") /\ UNCHANGED <<conns, astray, pool>>
  <2>1. DatabaseConnections(h, "undo")
    BY <1>6, DatabaseConnectionsStay
  <2>. QED BY <1>1, <1>2, <1>6, <2>1, DatabaseStill, DatabaseStageKeeps
           DEF Database!Holding, Database!Connected
<1>7. CASE /\ conns[h] < PoolSize /\ Database!Goes(h, "undo") /\ UNCHANGED pool
           /\ conns' = [conns EXCEPT ![h] = @ + 1] /\ astray' = [astray EXCEPT ![h] = @ + 1]
  <2>1. /\ conns[h] + 1 \in 0..PoolSize /\ astray[h] + 1 \in 0..PoolSize
        /\ conns[h] + 1 = pool[h] + Cardinality(Database!Reading(h)) + (astray[h] + 1)
    BY <1>2, <1>3, <1>7
  <2>2. DatabaseConnections(h, "undo")
    BY <1>7, <2>1, DatabaseStill DEF DatabaseConnections
  <2>. QED BY <1>1, <1>2, <1>7, <2>2, DatabaseStill, DatabaseStageKeeps
           DEF Database!Holding, Database!Connected
<1>. QED BY <1>4, <1>5, <1>6, <1>7 DEF Database!OpenReader

LEMMA DatabaseRunsKeep ==
    ASSUME Database!DatabaseAssumption, Database!IInv, NEW h \in Hosts,
           Database!StartRun(h) \/ Database!EndRun(h)
    PROVE  Database!IInv'
<1>1. /\ process[h] = "open" /\ UNCHANGED <<lock, schema, process, conns, astray, pool, writing, reader, databaseFailures>>
      /\ run' \in {[status |-> "running", by |-> h], [status |-> "done", by |-> None]}
  BY DEF Database!StartRun, Database!EndRun
<1>2. Database!SchemaRecorded'
  BY <1>1 DEF Database!IInv, Database!SchemaRecorded
<1>3. /\ run' \in [status : {"pending", "running", "done", "interrupted"}, by : Hosts \cup {None}]
      /\ run'.status = "running" => run'.by = h
  BY <1>1
<1>4. DatabaseConnections(h, "open")
  BY <1>1, DatabaseConnectionsStay, DatabaseStill
<1>. QED BY <1>1, <1>2, <1>3, <1>4, DatabaseStill, DatabaseStageKeeps
         DEF Database!Holding, Database!Connected

LEMMA DatabaseClosingKeeps ==
    ASSUME Database!DatabaseAssumption, Database!IInv, NEW h \in Hosts,
           Database!Close(h) \/ Database!Checkpoint(h)
    PROVE  Database!IInv'
<1>1. /\ process[h] \in {"open", "raised", "checkpoint"} /\ UNCHANGED <<lock, schema, run, conns, astray, pool, writing, reader>>
      /\ Database!Fails \/ databaseFailures' = databaseFailures
  BY DEF Database!Close, Database!Checkpoint
<1>2. Database!SchemaRecorded'
  BY <1>1 DEF Database!IInv, Database!SchemaRecorded
<1>3. PICK step \in {"checkpoint", "undo", "raised", "unlock"} :
          /\ Database!Goes(h, step)
          /\ step = "checkpoint" => h \in writing
          /\ step = "unlock" => h \notin writing
  BY DEF Database!Close, Database!Checkpoint
<1>4. DatabaseConnections(h, step)
  BY <1>1, DatabaseConnectionsStay
<1>. QED BY <1>1, <1>2, <1>3, <1>4, DatabaseStill, DatabaseStageKeeps
         DEF Database!Holding, Database!Connected

LEMMA DatabaseCloseReaderKeeps ==
    ASSUME Database!DatabaseAssumption, Database!IInv, NEW h \in Hosts, Database!CloseReader(h)
    PROVE  Database!IInv'
<1>1. /\ process[h] = "undo" /\ pool[h] > 0 /\ pool' = [pool EXCEPT ![h] = @ - 1]
      /\ Database!Fails \/ databaseFailures' = databaseFailures
      /\ UNCHANGED <<lock, schema, run, writing, reader>>
  BY DEF Database!CloseReader
<1>2. Database!SchemaRecorded'
  BY <1>1 DEF Database!IInv, Database!SchemaRecorded
<1>3. /\ conns[h] \in 0..PoolSize /\ astray[h] \in 0..PoolSize /\ pool[h] \in 0..PoolSize
      /\ pool[h] + astray[h] <= conns[h]
      /\ conns[h] = pool[h] + Cardinality(Database!Reading(h)) + astray[h]
      /\ Cardinality(Database!Reading(h)) \in Nat /\ PoolSize \in Nat
  BY DatabasePoolBounds, DatabaseReadingCounts, DatabaseGiven
<1>4. CASE conns' = [conns EXCEPT ![h] = @ - 1] /\ UNCHANGED <<process, astray, databaseFailures>>
  <2>1. /\ conns[h] - 1 \in 0..PoolSize /\ pool[h] - 1 \in 0..PoolSize
        /\ conns[h] - 1 = (pool[h] - 1) + Cardinality(Database!Reading(h)) + astray[h]
    BY <1>1, <1>3
  <2>2. DatabaseConnections(h, "undo")
    BY <1>1, <1>4, <2>1, DatabaseStill DEF DatabaseConnections
  <2>. QED BY <1>1, <1>2, <1>4, <2>2, DatabaseStill, DatabaseStageKeeps
           DEF Database!Holding, Database!Connected
<1>5. CASE astray' = [astray EXCEPT ![h] = @ + 1] /\ Database!Goes(h, "raised") /\ UNCHANGED conns
  <2>1. /\ astray[h] + 1 \in 0..PoolSize /\ pool[h] - 1 \in 0..PoolSize
        /\ conns[h] = (pool[h] - 1) + Cardinality(Database!Reading(h)) + (astray[h] + 1)
    BY <1>1, <1>3
  <2>2. DatabaseConnections(h, "raised")
    BY <1>1, <1>5, <2>1, DatabaseStill DEF DatabaseConnections
  <2>. QED BY <1>1, <1>2, <1>5, <2>2, DatabaseStill, DatabaseStageKeeps
           DEF Database!Holding, Database!Connected
<1>. QED BY <1>4, <1>5 DEF Database!CloseReader

LEMMA DatabaseCloseWriterKeeps ==
    ASSUME Database!DatabaseAssumption, Database!IInv, NEW h \in Hosts, Database!CloseWriter(h)
    PROVE  Database!IInv'
<1>1. /\ process[h] = "undo" /\ UNCHANGED <<lock, schema, run, conns, astray, pool, reader>>
      /\ Database!Fails \/ databaseFailures' = databaseFailures
  BY DEF Database!CloseWriter
<1>2. Database!SchemaRecorded'
  BY <1>1 DEF Database!IInv, Database!SchemaRecorded
<1>3. PICK step \in {"unlock", "raised"} :
          /\ Database!Goes(h, step)
          /\ IF step = "unlock" THEN writing' = writing \ {h} ELSE writing' = writing
  BY DEF Database!CloseWriter
<1>4. DatabaseConnections(h, step)
  BY <1>1, DatabaseConnectionsStay
<1>. QED BY <1>1, <1>2, <1>3, <1>4, DatabaseStill, DatabaseStageKeeps
         DEF Database!Holding, Database!Connected

LEMMA DatabaseReleaseKeeps ==
    ASSUME Database!DatabaseAssumption, Database!IInv, NEW h \in Hosts, Database!Release(h)
    PROVE  Database!IInv'
<1>1. /\ process[h] = "unlock" /\ lock' = None /\ Database!Goes(h, "end")
      /\ UNCHANGED <<schema, run, conns, astray, pool, writing, reader, databaseFailures>>
  BY DEF Database!Release, Database!Releases
<1>2. /\ process' \in [Hosts -> Stages] /\ process'[h] = "end"
      /\ \A g \in Hosts \ {h} : process'[g] = process[g]
  BY <1>1, DatabaseMoves DEF Stages
<1>3. \A g : Database!Reading(g)' = Database!Reading(g)
  BY <1>1 DEF Database!Reading
<1>4. Database!TypeOK'
  BY <1>1, <1>2 DEF Database!IInv, Database!TypeOK, Stages, Database!Holding, Database!Connected
<1>5. Database!LocksExact'
  <2>1. \A g \in Hosts \ {h} : process[g] \notin Database!Holding
    BY <1>1, DatabaseOneHolds DEF Database!Holding
  <2>. QED BY <1>1, <1>2, <2>1, DatabaseGiven
           DEF Database!IInv, Database!LocksExact, Database!Holding, Database!Connected
<1>6. Database!SchemaRecorded' /\ Database!PoolConserved' /\ Database!RunningIsMine' /\ Database!LossesExact'
  BY <1>1, <1>2, <1>3, DatabaseCounts
  DEF Database!IInv, Database!SchemaRecorded, Database!PoolConserved, Database!RunningIsMine,
      Database!LossesExact
<1>. QED BY <1>4, <1>5, <1>6 DEF Database!IInv

LEMMA DatabaseCrashKeeps ==
    ASSUME Database!DatabaseAssumption, Database!IInv, NEW h \in Hosts, Database!Crash(h)
    PROVE  Database!IInv'
<1>1. /\ process[h] \notin {"new", "end"} /\ Database!Fails /\ Database!Goes(h, "new")
      /\ lock' = IF lock = h THEN None ELSE lock
      /\ conns' = [conns EXCEPT ![h] = 0] /\ astray' = [astray EXCEPT ![h] = 0] /\ pool' = [pool EXCEPT ![h] = 0]
      /\ writing' = writing \ {h}
      /\ reader' = [r \in Readers |-> IF HostOf[r] = h /\ reader[r] # "new" THEN "end" ELSE reader[r]]
      /\ UNCHANGED <<schema, run>>
  BY DEF Database!Crash, Database!Goes
<1>2. /\ process' \in [Hosts -> Stages] /\ process'[h] = "new"
      /\ \A g \in Hosts \ {h} : process'[g] = process[g]
  BY <1>1, DatabaseMoves DEF Stages
<1>3. Database!TypeOK'
  <2>1. databaseFailures' \in 0..MaxCrashes
    BY <1>1, DatabaseFailsCounts
  <2>2. lock' \in Hosts \cup {None} /\ writing' \subseteq Hosts
    BY <1>1 DEF Database!IInv, Database!TypeOK
  <2>3. conns' \in [Hosts -> 0..PoolSize] /\ astray' \in [Hosts -> 0..PoolSize] /\ pool' \in [Hosts -> 0..PoolSize]
    BY <1>1, DatabaseGiven DEF Database!IInv, Database!TypeOK
  <2>4. \A r \in Readers : reader'[r] \in {reader[r], "end"}
    BY <1>1
  <2>5. reader' \in [Readers -> {"new", "wait", "read", "refused", "end"}]
    BY <1>1, <2>4 DEF Database!IInv, Database!TypeOK
  <2>. QED BY <1>1, <1>2, <2>1, <2>2, <2>3, <2>5
           DEF Database!IInv, Database!TypeOK, Stages, Database!Holding, Database!Connected
<1>4. Database!LocksExact'
  BY <1>1, <1>2, DatabaseGiven
  DEF Database!IInv, Database!LocksExact, Database!Holding, Database!Connected
<1>5. Database!SchemaRecorded' /\ Database!RunningIsMine'
  BY <1>1, <1>2 DEF Database!IInv, Database!SchemaRecorded, Database!RunningIsMine
<1>6. \A g \in Hosts \ {h} : conns'[g] = conns[g] /\ astray'[g] = astray[g] /\ pool'[g] = pool[g]
  BY <1>1, DatabaseStill
<1>7. conns'[h] = 0 /\ astray'[h] = 0 /\ pool'[h] = 0
  BY <1>1, DatabaseStill
<1>8. Database!PoolConserved'
  <2>1. Database!Reading(h)' = {}
    BY <1>1 DEF Database!Reading
  <2>2. \A g \in Hosts \ {h} : Database!Reading(g)' = Database!Reading(g)
    BY <1>1 DEF Database!Reading
  <2>3. Cardinality(Database!Reading(h)') = 0
    BY <2>1, FS_EmptySet, DatabaseCounts
  <2>4. \A g \in Hosts \ {h} : /\ conns[g] = pool[g] + Cardinality(Database!Reading(g)) + astray[g]
                               /\ process[g] = "open" => conns[g] = PoolSize /\ astray[g] = 0
    BY DatabaseCounts DEF Database!IInv, Database!PoolConserved
  <2>. QED BY <1>2, <1>6, <1>7, <2>2, <2>3, <2>4, DatabaseCounts DEF Database!PoolConserved
<1>9. Database!LossesExact'
  BY <1>2, <1>6, <1>7 DEF Database!IInv, Database!LossesExact
<1>. QED BY <1>3, <1>4, <1>5, <1>8, <1>9 DEF Database!IInv

LEMMA DatabaseReadKeeps ==
    ASSUME Database!DatabaseAssumption, Database!IInv, NEW r \in Readers,
           Database!Read(r) \/ Database!ReadGets(r) \/ Database!ReadEnds(r)
    PROVE  Database!IInv'
<1>. DEFINE h == HostOf[r]
<1>1. h \in Hosts /\ UNCHANGED <<lock, schema, run, process, conns, astray, writing, databaseFailures>>
  BY DatabaseGiven DEF Database!Read, Database!ReadGets, Database!ReadEnds
<1>2. Database!LocksExact' /\ Database!SchemaRecorded' /\ Database!RunningIsMine' /\ Database!LossesExact'
  BY <1>1
  DEF Database!IInv, Database!LocksExact, Database!SchemaRecorded, Database!RunningIsMine,
      Database!LossesExact
<1>3. /\ conns[h] \in 0..PoolSize /\ pool[h] \in 0..PoolSize /\ astray[h] \in 0..PoolSize
      /\ pool[h] + astray[h] <= conns[h]
      /\ conns[h] = pool[h] + Cardinality(Database!Reading(h)) + astray[h]
      /\ PoolSize \in Nat /\ Cardinality(Database!Reading(h)) \in Nat /\ IsFiniteSet(Database!Reading(h))
  BY <1>1, DatabasePoolBounds, DatabaseReadingCounts, DatabaseGiven
<1>4. \A g : g # h => Database!Reading(g)' = Database!Reading(g)
  BY DEF Database!Reading, Database!Read, Database!ReadGets, Database!ReadEnds, Database!IInv,
         Database!TypeOK
<1>5. CASE Database!Read(r)
  <2>1. Database!Reading(h)' = Database!Reading(h)
    BY <1>5 DEF Database!Reading, Database!Read, Database!IInv, Database!TypeOK
  <2>2. Database!TypeOK'
    BY <1>5 DEF Database!Read, Database!IInv, Database!TypeOK
  <2>3. Database!PoolConserved'
    BY <1>1, <1>4, <1>5, <2>1, DatabaseStill, DatabaseCounts
    DEF Database!PoolConserved, Database!Read
  <2>. QED BY <1>2, <2>2, <2>3 DEF Database!IInv
<1>6. CASE Database!ReadGets(r)
  <2>1. Database!Reading(h)' = Database!Reading(h) \cup {r} /\ r \notin Database!Reading(h)
    BY <1>6 DEF Database!Reading, Database!ReadGets, Database!IInv, Database!TypeOK
  <2>2. Cardinality(Database!Reading(h) \cup {r}) = Cardinality(Database!Reading(h)) + 1
    BY <1>3, <2>1, FS_AddElement
  <2>3. pool[h] - 1 \in 0..PoolSize /\ conns[h] = (pool[h] - 1) + (Cardinality(Database!Reading(h)) + 1) + astray[h]
    BY <1>3, <1>6 DEF Database!ReadGets
  <2>4. pool' = [pool EXCEPT ![h] = pool[h] - 1] /\ reader' = [reader EXCEPT ![r] = "read"]
    BY <1>6 DEF Database!ReadGets
  <2>5. Database!TypeOK'
    BY <1>1, <2>3, <2>4 DEF Database!IInv, Database!TypeOK
  <2>6. \A g \in Hosts : /\ conns'[g] = pool'[g] + Cardinality(Database!Reading(g)') + astray'[g]
                         /\ process'[g] = "open" => conns'[g] = PoolSize /\ astray'[g] = 0
    BY <1>1, <1>4, <2>1, <2>2, <2>3, <2>4, DatabaseStill
  <2>7. Database!PoolConserved'
    BY <2>6, DatabaseCounts DEF Database!PoolConserved
  <2>. QED BY <1>2, <2>5, <2>7 DEF Database!IInv
<1>7. CASE Database!ReadEnds(r)
  <2>1. Database!Reading(h)' = Database!Reading(h) \ {r} /\ r \in Database!Reading(h)
    BY <1>7 DEF Database!Reading, Database!ReadEnds, Database!IInv, Database!TypeOK
  <2>2. Cardinality(Database!Reading(h) \ {r}) = Cardinality(Database!Reading(h)) - 1
    BY <1>3, <2>1, FS_RemoveElement
  <2>3. pool[h] + 1 \in 0..PoolSize /\ conns[h] = (pool[h] + 1) + (Cardinality(Database!Reading(h)) - 1) + astray[h]
    <3>1. pool[h] + 1 <= conns[h]
      BY <1>1, <2>1, DatabasePoolBounds
    <3>. QED BY <1>3, <3>1
  <2>4. pool' = [pool EXCEPT ![h] = pool[h] + 1] /\ reader' = [reader EXCEPT ![r] = "end"]
    BY <1>7 DEF Database!ReadEnds, Database!Returns
  <2>5. Database!TypeOK'
    BY <1>1, <2>3, <2>4 DEF Database!IInv, Database!TypeOK
  <2>6. \A g \in Hosts : /\ conns'[g] = pool'[g] + Cardinality(Database!Reading(g)') + astray'[g]
                         /\ process'[g] = "open" => conns'[g] = PoolSize /\ astray'[g] = 0
    BY <1>1, <1>4, <2>1, <2>2, <2>3, <2>4, DatabaseStill
  <2>7. Database!PoolConserved'
    BY <2>6, DatabaseCounts DEF Database!PoolConserved
  <2>. QED BY <1>2, <2>5, <2>7 DEF Database!IInv
<1>. QED BY <1>5, <1>6, <1>7

LEMMA DatabaseInitIInv == ASSUME Database!DatabaseAssumption, Database!Init PROVE Database!IInv
<1>1. PICK v \in 0..Latest : schema = [version |-> v, applied |-> 1..v]
  BY DEF Database!Init
<1>2. v \in Nat /\ 1..v \subseteq 1..Latest
  BY DatabaseGiven
<1>3. Database!TypeOK
  BY <1>1, <1>2, DatabaseGiven DEF Database!Init, Database!TypeOK
<1>4. Database!LocksExact
  BY DatabaseGiven DEF Database!Init, Database!LocksExact, Database!Holding, Database!Connected
<1>5. Database!SchemaRecorded /\ Database!RunningIsMine
  BY <1>1 DEF Database!Init, Database!SchemaRecorded, Database!RunningIsMine
<1>6. Database!PoolConserved
  <2>1. \A h : Database!Reading(h) = {}
    BY DEF Database!Init, Database!Reading
  <2>2. Cardinality({}) = 0
    BY FS_EmptySet, DatabaseCounts
  <2>3. \A h \in Hosts : conns[h] = 0 /\ astray[h] = 0 /\ pool[h] = 0 /\ process[h] # "open"
    BY DEF Database!Init
  <2>. QED BY <2>1, <2>2, <2>3, DatabaseCounts DEF Database!PoolConserved
<1>7. Database!LossesExact
  BY DEF Database!Init, Database!LossesExact
<1>. QED BY <1>3, <1>4, <1>5, <1>6, <1>7 DEF Database!IInv

\* A step of a process, of its close() or of a reader keeps the invariant.
LEMMA DatabaseStep ==
    ASSUME Database!DatabaseAssumption, Database!IInv, [Database!Next]_(Database!vars)
    PROVE  Database!IInv'
<1>1. ASSUME NEW h \in Hosts, \/ Database!Open(h) \/ Database!OpenStep(h) \/ Database!StartRun(h) \/ Database!EndRun(h)
                              \/ Database!Close(h) \/ Database!CloseStep(h) \/ Database!Crash(h)
      PROVE  Database!IInv'
  BY <1>1, DatabaseOpenKeeps, DatabaseConnectKeeps, DatabaseMigrateKeeps, DatabaseValidateKeeps,
     DatabaseRecoverKeeps, DatabaseOpenReaderKeeps, DatabaseRunsKeep,
     DatabaseClosingKeeps, DatabaseCloseReaderKeeps, DatabaseCloseWriterKeeps, DatabaseReleaseKeeps, DatabaseCrashKeeps
     DEF Database!OpenStep, Database!CloseStep
<1>2. ASSUME NEW r \in Readers, Database!Read(r) \/ Database!ReadGets(r) \/ Database!ReadEnds(r)
      PROVE  Database!IInv'
  BY <1>2, DatabaseReadKeeps
<1>3. CASE UNCHANGED Database!vars
  BY <1>3, DatabaseCounts
  DEF Database!vars, Database!IInv, Database!TypeOK, Database!LocksExact, Database!SchemaRecorded,
      Database!RunningIsMine, Database!PoolConserved, Database!LossesExact, Database!Reading
<1>. QED BY <1>1, <1>2, <1>3 DEF Database!Next

\* The inductive invariant: a host past the lock holds it until it is released, its write connection is
\* there from the migrations to the checkpoint, schema and recovery are as they should be, and read
\* connections are in the pool, with a reader, or lost by the opening or the closing that raised.
THEOREM DatabaseInvariant ==
    ASSUME Database!DatabaseAssumption
    PROVE  Database!Spec => []Database!IInv
<1>1. Database!Init => Database!IInv
  BY DatabaseInitIInv
<1>2. Database!IInv /\ [Database!Next]_(Database!vars) => Database!IInv'
  BY DatabaseStep
<1>. QED BY <1>1, <1>2, PTL DEF Database!Spec

LEMMA DatabaseSafety ==
    ASSUME Database!DatabaseAssumption, Database!IInv
    PROVE  Database!OneWriter /\ Database!SchemaRecorded /\ Database!RunningIsMine /\ Database!PoolConserved
<1>1. Database!OneWriter
  BY DEF Database!IInv, Database!LocksExact, Database!TypeOK, Database!OneWriter, Database!Holding,
         Database!Connected
<1>. QED BY <1>1 DEF Database!IInv

\* Whatever fails, is cancelled or crashes while processes open, close and close again: one of them writes
\* to the file, the one that holds the lock; the migrations recorded are those that ran; what a crash left
\* running is nobody's by the time a host serves; and no read connection is shared, or lost but for one
\* whose own opening or closing raised, and none at all while reads are served.
THEOREM DatabaseIsSafe ==
    ASSUME Database!DatabaseAssumption
    PROVE  Database!Spec => [](Database!OneWriter /\ Database!SchemaRecorded /\ Database!RunningIsMine /\ Database!PoolConserved)
BY DatabaseInvariant, DatabaseSafety, PTL

-----------------------------------------------------------------------------
(* The host: each part moves by its own steps, or not at all *)

\* What every part keeps, whichever of them a behaviour is about.
Hosted ==
    /\ IF part = "approvals" THEN IInv ELSE Init
    /\ IF part = "writer" THEN Writer!IInv ELSE Writer!Init
    /\ IF part = "database" THEN Database!IInv ELSE Database!Init
    /\ IF part = "host" THEN Host!IInv ELSE Host!Init

LEMMA HostInitHosted == HostInit => Hosted
<1>. SUFFICES ASSUME HostInit PROVE Hosted
  OBVIOUS
<1>1. Init /\ Writer!Init /\ Database!Init /\ Host!Init
  BY DEF HostInit
<1>2. IInv /\ Writer!IInv /\ Database!IInv /\ Host!IInv
  BY <1>1, InitIInv, Writer!InitIInv, DatabaseInitIInv, ServicesInit, HostAssumption
<1>. QED BY <1>1, <1>2 DEF Hosted

\* A step is a step of the part, and leaves the variables of the others alone.
LEMMA OneMoves ==
    ASSUME [HostNext]_hostingVars
    PROVE  /\ part' = part
           /\ IF part = "approvals" THEN [Next]_vars ELSE UNCHANGED vars
           /\ IF part = "writer" THEN [Writer!Next]_(Writer!vars) ELSE UNCHANGED writerVars
           /\ IF part = "database" THEN [Database!Next]_(Database!vars) ELSE UNCHANGED databaseVars
           /\ IF part = "host" THEN [Host!Next]_(Host!vars) ELSE UNCHANGED hostVars
<1>1. CASE HostNext
  BY <1>1 DEF HostNext
<1>2. CASE UNCHANGED hostingVars
  BY <1>2 DEF hostingVars, writerVars, databaseVars, hostVars, Writer!vars, Database!vars, Host!vars
<1>. QED BY <1>1, <1>2

LEMMA HostStep == ASSUME Hosted, [HostNext]_hostingVars PROVE Hosted'
<1>1. part' = part
  BY OneMoves
<1>2. IF part = "approvals" THEN IInv' ELSE Init'
  BY OneMoves, NextIInv DEF Hosted, Init, vars
<1>3. IF part = "writer" THEN Writer!IInv' ELSE Writer!Init'
  BY OneMoves, Writer!WriterStep, HostAssumption DEF Hosted, writerVars, Writer!Init
<1>4. IF part = "database" THEN Database!IInv' ELSE Database!Init'
  BY OneMoves, DatabaseStep, HostAssumption DEF Hosted, databaseVars, Database!Init
<1>5. IF part = "host" THEN Host!IInv' ELSE Host!Init'
  BY OneMoves, ServicesStep DEF Hosted, hostVars, Host!Init
<1>. QED BY <1>1, <1>2, <1>3, <1>4, <1>5 DEF Hosted

LEMMA HostedAlways == HostSpec => []Hosted
  BY HostInitHosted, HostStep, PTL DEF HostSpec

\* Every part keeps its types and the invariant its own promises rest on.
THEOREM HostKeepsTypes == HostSpec => []StorageTypes
<1>1. Hosted => StorageTypes
  BY DEF Hosted, StorageTypes
<1>. QED BY <1>1, HostedAlways, PTL

\* The writer of the host leaves no transaction open behind an operation that raised, answers
\* every accepted call when it closes, and offers a free place to a caller that waits for one.
THEOREM HostWriterSafe == HostSpec => []WriterSafe
<1>1. Hosted => WriterSafe
  BY Writer!WriterSafety, HostAssumption DEF Hosted, WriterSafe
<1>. QED BY <1>1, HostedAlways, PTL

\* What a caller of the writer is told is what happened to the data: each call changes it once,
\* wholly, when it succeeds, and not at all when it fails.
THEOREM HostWritesAreAtomic == HostSpec => WritesAreAtomic
<1>1. HostInit => Writer!Atomic!Init
  BY DEF HostInit, Writer!Init, Writer!Atomic!Init, Writer!Answer
<1>2. Hosted /\ [HostNext]_hostingVars => [Writer!Atomic!Next]_<<Writer!Answer, store>>
  <2>. SUFFICES ASSUME Hosted, [HostNext]_hostingVars
                PROVE  [Writer!Atomic!Next]_<<Writer!Answer, store>>
    OBVIOUS
  <2>1. CASE part = "writer"
    BY <2>1, OneMoves, Writer!WriterStepIsAtomic, HostAssumption DEF Hosted
  <2>2. CASE part # "writer"
    BY <2>2, OneMoves DEF writerVars, Writer!Answer
  <2>. QED BY <2>1, <2>2
<1>. QED BY <1>1, <1>2, HostedAlways, PTL
     DEF HostSpec, WritesAreAtomic, Writer!ImplementsAtomic, Writer!Atomic!Spec

\* Whatever fails or crashes, one process writes to the database file, the recorded migrations
\* are those that ran, a running row is one of its own, and no read connection is lost.
THEOREM HostDatabaseSafe == HostSpec => []DatabaseSafe
<1>1. Hosted => DatabaseSafe
  BY DatabaseSafety, HostAssumption DEF Hosted, DatabaseSafe
<1>. QED BY <1>1, HostedAlways, PTL

\* The host closes nothing under what uses it while no step raises, and leaves nothing open
\* after an open() that failed or a close() that returned without an error.
THEOREM HostIsSafe == HostSpec => []HostSafe
<1>1. Hosted => HostSafe
  BY ServicesSafety DEF Hosted, HostSafe
<1>. QED BY <1>1, HostedAlways, PTL

\* Tools that ran were allowed on the record, and the record does not contradict itself.
THEOREM HostDecisionsRecorded == HostSpec => []DecisionsAreRecorded
<1>1. Hosted => IInv
  BY InitIInv DEF Hosted
<1>2. IInv => TypeOK /\ AllowedIsAudited /\ NoContradiction
  BY InvariantIsSafe
<1>3. Hosted => DecisionsAreRecorded
  BY <1>1, <1>2 DEF DecisionsAreRecorded
<1>. QED BY <1>3, HostedAlways, PTL

\* After a shutdown() in which no write failed, no request waits for a decision nobody makes.
THEOREM HostShutdownDenies == HostSpec => []HealthyShutdownDenies
<1>1. Hosted => IInv
  BY InitIInv DEF Hosted
<1>2. IInv => HealthyShutdownDenies
  BY InvariantIsSafe
<1>. QED BY <1>1, <1>2, HostedAlways, PTL
=============================================================================
