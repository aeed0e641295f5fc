---------------------------- MODULE HostServices ----------------------------
(***************************************************************************)
(* TauWebServices (src/tau_web/services.py): the order in which the parts  *)
(* of the web host are opened, unwound when opening fails, and closed,     *)
(* with a run that may be waiting for a permission and the receipt task of *)
(* a delivery that waits for that run.  Each part is modelled elsewhere;   *)
(* here it is what it needs to be closed before.                           *)
(***************************************************************************)
EXTENDS Naturals, Sequences, SequencesExt

CONSTANTS MaxFailures   \* bound: steps of open() and close() that raise

VARIABLES
    stage,    \* "opening", "unwinding", "serving", "closing", "closed", "failed"
    todo,     \* the steps of that stage that are left
    up,       \* the parts that are open
    run,      \* the run of a session: it may ask for a permission
    receipt,  \* the task that waits for the run to write the receipt of its delivery
    lost,     \* observed: something was written or published into a part that was closed
    stuck,    \* the steps that raised in the current unwinding or close()
    failures  \* bounded counter

vars == <<stage, todo, up, run, receipt, lost, stuck, failures>>

\* The awaits of open(), "wire" standing for what is built without one.
OpenSteps == <<"database", "purge", "meters", "wire">>
Wired == {"approvals", "runtime", "receipts", "extensions", "broker", "subscription"}

\* Mutant: the database goes before the runtime has drained its runs.
CloseStepsEarly == <<"meters", "database", "approvals", "runtime", "receipts", "extensions",
                     "subscription", "broker">>

CloseSteps == <<"meters", "approvals", "runtime", "receipts", "extensions", "subscription",
                "broker", "database">>

\* Mutant: the background sampler of the meters is forgotten.
UnwindForgets == <<"runtime", "subscription", "broker", "database">>

\* What the except clause of open() closes: meters and broker may not exist yet.
UnwindSteps == <<"runtime", "subscription", "meters", "broker", "database">>

Init ==
    /\ stage = "opening" /\ todo = OpenSteps /\ up = {}
    /\ run = "none" /\ receipt = "none" /\ lost = FALSE /\ stuck = {} /\ failures = 0

-----------------------------------------------------------------------------
Fails == failures < MaxFailures /\ failures' = failures + 1

Open ==
    /\ stage = "opening"
    /\ LET step == Head(todo) IN
       \/ /\ up' = up \cup (IF step = "wire" THEN Wired ELSE {step} \ {"purge"})
          /\ todo' = Tail(todo)
          /\ stage' = IF step = "wire" THEN "serving" ELSE stage
          /\ UNCHANGED failures
       \* the step raises, or open() is cancelled in it
       \/ /\ Fails
          /\ stage' = "unwinding" /\ todo' = UnwindSteps
          /\ UNCHANGED up
    /\ UNCHANGED <<run, receipt, lost, stuck>>

\* The error of a step is suppressed, what it was to close may stay open, and the next step is
\* taken; the error of open() is raised at the end.
Unwind ==
    /\ stage = "unwinding"
    /\ \/ up' = up \ {Head(todo)} /\ UNCHANGED <<stuck, failures>>
       \/ Fails /\ stuck' = stuck \cup {Head(todo)} /\ UNCHANGED up
    /\ todo' = Tail(todo)
    /\ stage' = IF Tail(todo) = <<>> THEN "failed" ELSE stage
    /\ UNCHANGED <<run, receipt, lost>>

-----------------------------------------------------------------------------
(* While it serves *)

Uses(part) == lost' = (lost \/ part \notin up)

\* A request starts a run, possibly by a delivery with a receipt.
Submit ==
    /\ stage = "serving" /\ run \in {"none", "ended"} /\ receipt # "waiting"
    /\ run' = "running"
    /\ receipt' \in IF receipt = "error" THEN {receipt} ELSE {"none", "waiting"}
    /\ UNCHANGED <<stage, todo, up, lost, stuck, failures>>

\* An event of the run is projected into the database and published.
RunEmits ==
    /\ run = "running"
    /\ \E part \in {"database", "broker", "subscription"} : Uses(part)
    /\ UNCHANGED <<stage, todo, up, run, receipt, stuck, failures>>

\* A tool of the run asks; a closed manager denies at once, and so does an aborted run.
RunAsks ==
    /\ run = "running" /\ "approvals" \in up
    /\ stage = "serving" \/ (todo # <<>> /\ Head(todo) # "runtime")
    /\ run' = "asking"
    /\ UNCHANGED <<stage, todo, up, receipt, lost, stuck, failures>>

\* Somebody decides or the time is up; runtime.shutdown() aborts the run, which denies it too.
Answered ==
    /\ run = "asking"
    /\ run' = "running"
    /\ UNCHANGED <<stage, todo, up, receipt, lost, stuck, failures>>

RunEnds ==
    /\ run = "running"
    /\ run' = "ended" /\ Uses("database")
    /\ UNCHANGED <<stage, todo, up, receipt, stuck, failures>>

\* The receipt task finds the run ended and writes the status of the delivery; the error of a
\* task that raises is collected.
ReceiptEnds ==
    /\ receipt = "waiting" /\ run = "ended"
    /\ \/ receipt' = "ended" /\ Uses("database") /\ UNCHANGED failures
       \/ receipt' = "error" /\ Fails /\ UNCHANGED lost
    /\ UNCHANGED <<stage, todo, up, run, stuck>>

-----------------------------------------------------------------------------
\* cleanup_ctx of the application, or a test, calls close(); again after a close() in which a
\* step raised.
Close ==
    /\ stage = "serving" \/ (stage = "closing" /\ todo = <<>> /\ stuck # {})
    /\ stage' = "closing" /\ todo' = CloseSteps /\ stuck' = {}
    /\ UNCHANGED <<up, run, receipt, lost, failures>>

\* shutdown_receipts(cancel=True): the tasks are cancelled, and what others had raised is raised
\* by close(), if no step did before; close() sets its flag all the same.
Cancelled == IF receipt = "waiting" THEN "cancelled" ELSE receipt
Settled == IF receipt = "error" THEN "told" ELSE Cancelled

\* approvals.shutdown() denies what is pending; runtime.shutdown() aborts the runs and waits for
\* their drivers.
\* ExtensionDirectory.dispose() forgets its services before it disposes them: when that raises,
\* a repeated close() finds nothing to dispose.
CloseStep ==
    /\ stage = "closing" /\ todo # <<>>
    /\ LET step == Head(todo) IN
       \/ /\ step = "runtime" => run \in {"none", "ended"}
          /\ up' = up \ {step}
          /\ run' = IF step = "approvals" /\ run = "asking" THEN "running" ELSE run
          /\ receipt' = IF step = "receipts" THEN Settled ELSE receipt
          /\ UNCHANGED <<stuck, failures>>
       \/ /\ Fails
          /\ stuck' = stuck \cup {step}
          /\ up' = IF step = "extensions" /\ step \in up THEN (up \ {step}) \cup {"undisposed"}
                                                       ELSE up
          /\ receipt' = IF step = "receipts" THEN Cancelled ELSE receipt
          /\ UNCHANGED run
    /\ todo' = Tail(todo)
    /\ UNCHANGED <<stage, lost>>

\* The flag closed is set when no step raised.
CloseReturns ==
    /\ stage = "closing" /\ todo = <<>> /\ stuck = {}
    /\ stage' = "closed"
    /\ UNCHANGED <<todo, up, run, receipt, lost, stuck, failures>>

Next ==
    \/ Open \/ Unwind \/ Submit \/ RunEmits \/ RunAsks \/ Answered \/ RunEnds \/ ReceiptEnds
    \/ Close \/ CloseStep \/ CloseReturns

Spec == Init /\ [][Next]_vars

\* Nobody has to answer a permission: close() goes on by itself, and runs that are not asking end.
FairSpec ==
    /\ Spec /\ WF_vars(CloseStep) /\ WF_vars(CloseReturns)
    /\ WF_vars(RunEnds) /\ WF_vars(stage = "closing" /\ Answered)

-----------------------------------------------------------------------------
\* The types of the variables.
TypeOK ==
    /\ stage \in {"opening", "unwinding", "serving", "closing", "closed", "failed"}
    /\ todo \in Seq(Range(CloseSteps) \cup Range(OpenSteps))
    /\ up \subseteq Wired \cup {"database", "meters", "undisposed"}
    /\ run \in {"none", "running", "asking", "ended"}
    /\ receipt \in {"none", "waiting", "ended", "error", "cancelled", "told"}
    /\ lost \in BOOLEAN /\ stuck \subseteq Range(CloseSteps) /\ failures \in 0..MaxFailures

\* A close() in which no step raises takes a part away only when nothing that uses it is alive:
\* docs/architecture.md has the runtime stopped before the database that it writes to.
NothingUsesClosed == lost => failures > 0

\* open() that fails leaves nothing open but the parts whose own unwinding raised: one that does
\* keeps no other from being closed.  So does close(): what is left at its end, a part, a run or
\* a receipt task, is what its own step failed on, or an earlier dispose() of extensions did; and
\* the error of a receipt task has been collected, and raised unless another one was before it.
NothingLeaks ==
    /\ stage = "failed" => up \subseteq stuck
    /\ stage \in {"closing", "closed"} /\ todo = <<>> =>
        /\ up \subseteq stuck \cup {"undisposed"} /\ ("undisposed" \in up => failures > 0)
        /\ "runtime" \in stuck \/ run \notin {"running", "asking"}
        /\ "receipts" \in stuck \/ receipt \notin {"waiting", "error"}
    /\ stage = "closed" => stuck = {}

-----------------------------------------------------------------------------
(* The inductive invariant, one conjunct for each way a part is used *)

\* Steps are taken in their order, from the first one on.
Rest(steps) == {SubSeq(steps, k, Len(steps)) : k \in 1..Len(steps) + 1}

\* While it opens, and when it failed to, nothing runs: what is open is what was opened so far,
\* and what is left to unwind.
OpeningExact ==
    /\ stage \in {"opening", "unwinding", "failed"} =>
        /\ run = "none" /\ receipt = "none" /\ up \subseteq {"database", "meters"}
    /\ stage = "opening" =>
        todo \in Rest(OpenSteps) \ {<<>>} /\ {"database", "meters"} \ Range(todo) \subseteq up
    /\ stage \in {"unwinding", "failed"} =>
        todo \in Rest(UnwindSteps) /\ up \subseteq Range(todo) \cup stuck
    /\ stage = "unwinding" => todo # <<>>
    /\ stage = "failed" => todo = <<>>

ServingExact == stage = "serving" => up = Wired \cup {"database", "meters"}

HealthyExact == failures = 0 => stuck = {} /\ ~lost

\* close() has closed what it passed, but for the steps that raised, and it passes the runtime and
\* the receipts when nothing of theirs is left; until anything raises, what it has not passed is
\* open.
ClosingExact ==
    /\ stage \in {"closing", "closed"} =>
        /\ todo \in Rest(CloseSteps)
        /\ failures = 0 => Range(todo) \subseteq up
        /\ "undisposed" \in up => failures > 0
        /\ up \subseteq Range(todo) \cup stuck \cup {"undisposed"}
        /\ "runtime" \in Range(todo) \cup stuck \/ run \in {"none", "ended"}
        /\ "receipts" \in Range(todo) \cup stuck \/ receipt \notin {"waiting", "error"}
    /\ stage = "closed" => todo = <<>> /\ stuck = {}

IInv == TypeOK /\ OpeningExact /\ ServingExact /\ HealthyExact /\ ClosingExact

-----------------------------------------------------------------------------
\* close() gets to its end although nobody answers the permission a run waits for.
CloseEnds == stage = "closing" ~> todo = <<>>
=============================================================================
