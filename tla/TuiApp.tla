-------------------------------- MODULE TuiApp --------------------------------
(***************************************************************************)
(* The Textual application (tui/app.py): the workers that run prompts, the *)
(* manual compaction, the workers that change the session, and what the    *)
(* screen says of them.  A worker is cancelled at once and ends later; a   *)
(* prompt is a model value, and so is the worker that runs it.             *)
(***************************************************************************)
EXTENDS Naturals, FiniteSets

CONSTANTS None, Prompts, Compactions, Sessions, First,
          MaxJobs      \* bound: how many times the session is changed

Jobs == [kind : {"resume", "new", "branch"}, to : Sessions]

TuiAppAssumption ==
    /\ None \notin Prompts \cup Compactions \cup Jobs /\ None # "tree"
    /\ First \in Sessions /\ MaxJobs \in Nat

VARIABLES
    fate,        \* a prompt: "new", "started", "queued", "sent", "lost"; "direct": given to a run by the handler
    task,        \* its worker, or the handler: "none", "prepare", "run", "loud", "after", "cancelled", "done"
    worker,      \* _prompt_worker
    current,     \* the worker with the newest _prompt_run_id, if any
    running,     \* state.running
    busy,        \* the worker whose run the harness of the session executes
    owner,       \* observed: the session in which a prompt was submitted
    compactor,   \* _compaction_worker
    compacts,    \* manual compactions: "none", "run", "cancelled", "done"
    modal,       \* the screen on top: None, "sessions", "tree"
    job,         \* [kind, to]: a worker that changes the session, or None
    jobs,        \* how many there were
    home,        \* the session
    view,        \* the session whose messages are shown, "status" when they were cleared
    odd          \* observed: {"failed", "resumed", "cancelled", "raised"}

vars == <<fate, task, worker, current, running, busy, owner, compactor, compacts, modal, job, jobs,
          home, view, odd>>

Init ==
    /\ fate = [p \in Prompts |-> "new"] /\ task = [p \in Prompts |-> "none"]
    /\ worker = None /\ current = None /\ running = FALSE /\ busy = None
    /\ owner = [p \in Prompts |-> None]
    /\ compactor = None /\ compacts = [c \in Compactions |-> "none"]
    /\ modal = None /\ job = None /\ jobs = 0 /\ home = First /\ view = First /\ odd = {}

Run == <<fate, task, worker, current, running, busy, owner>>
Compaction == <<compactor, compacts>>
Screen == <<modal, job, jobs, home, view>>

Live(p) == task[p] \notin {"none", "done"}
Queue == {p \in Prompts : fate[p] = "queued"}
Direct(p) == fate[p] = "direct"

\* The handler of the editor awaits what it was given: nothing else is submitted meanwhile.
Free == \A p \in Prompts : ~(Direct(p) /\ Live(p))

CompactionActive == compactor # None

\* Mutant: only what the screen shows as running counts.
ActiveShown == running \/ Queue # {}

\* _is_agent_or_queue_active
Active == running \/ busy # None \/ worker # None \/ Queue # {}

-----------------------------------------------------------------------------
(* Prompts *)

\* An exclusive worker cancels every other one of its group.
Starts(p) ==
    /\ task' = [q \in Prompts |-> IF q = p THEN "prepare" ELSE IF Live(q) THEN "cancelled" ELSE task[q]]
    /\ fate' = [q \in Prompts |-> IF q = p THEN "started" ELSE IF fate[q] = "started" THEN "lost" ELSE fate[q]]
    /\ compacts' = [c \in Compactions |-> IF compacts[c] = "run" THEN "cancelled" ELSE compacts[c]]
    /\ job' = None
    /\ odd' = IF job = None THEN odd ELSE odd \cup {"failed"}
    /\ worker' = p /\ current' = p
    /\ owner' = [owner EXCEPT ![p] = home]
    /\ UNCHANGED <<running, busy, compactor>>

\* The text is run by a worker; given to _queue_prompt while a run is shown; or stays in the editor during a
\* compaction.
Submit(p) ==
    /\ modal = None /\ Free /\ fate[p] = "new" /\ ~CompactionActive
    /\ IF ~running THEN Starts(p)
       ELSE /\ fate' = [fate EXCEPT ![p] = "direct"] /\ task' = [task EXCEPT ![p] = "prepare"]
            /\ owner' = [owner EXCEPT ![p] = home]
            /\ UNCHANGED <<worker, current, running, busy, Compaction, job, odd>>
    /\ UNCHANGED <<modal, jobs, home, view>>

Ended(p) ==
    /\ task' = [task EXCEPT ![p] = "done"]
    /\ worker' = IF current = p THEN None ELSE worker

\* The session expands the prompt and compacts its context; a run that the harness still
\* executes, or an error, ends the worker.
Prepared(p) ==
    /\ task[p] = "prepare" /\ ~Direct(p)
    /\ \/ /\ busy = None /\ busy' = p
          /\ task' = [task EXCEPT ![p] = "run"] /\ fate' = [fate EXCEPT ![p] = "sent"]
          /\ UNCHANGED <<worker, running>>
       \/ /\ Ended(p) /\ fate' = [fate EXCEPT ![p] = "lost"]
          /\ running' = (running /\ current # p)
          /\ UNCHANGED busy
    /\ UNCHANGED <<current, owner, Compaction, Screen, odd>>

\* _queue_prompt: the run that was shown takes the message, unless it has ended meanwhile: then the handler runs
\* the prompt itself.  What it raises is only told.
Handled(p) ==
    /\ task[p] = "prepare" /\ Direct(p)
    /\ \/ /\ busy # None
          /\ fate' = [fate EXCEPT ![p] = "queued"] /\ task' = [task EXCEPT ![p] = "none"]
          /\ UNCHANGED busy
       \/ busy = None /\ busy' = p /\ task' = [task EXCEPT ![p] = "run"] /\ UNCHANGED fate
       \/ fate' = [fate EXCEPT ![p] = "lost"] /\ task' = [task EXCEPT ![p] = "done"] /\ UNCHANGED busy
    /\ UNCHANGED <<worker, current, running, owner, Compaction, Screen, odd>>

\* Mutant: events of an old worker are applied.
AppliesAny(p) == TRUE

\* A worker applies the events of its run as long as its id is the newest, the handler applies all of them.
Applies(p) == current = p \/ Direct(p)

\* The first event of the run; one of a worker that was cancelled is dropped.
Announce(p) ==
    /\ task[p] \in {"run", "cancelled"} /\ busy = p
    /\ IF Applies(p) THEN running' = TRUE ELSE UNCHANGED running
    /\ task' = IF task[p] = "run" THEN [task EXCEPT ![p] = "loud"] ELSE task
    /\ UNCHANGED <<fate, worker, current, busy, owner, Compaction, Screen, odd>>

\* A run takes a queued message.
Drain(p, q) ==
    /\ task[p] = "loud" /\ busy = p /\ fate[q] = "queued"
    /\ fate' = [fate EXCEPT ![q] = "sent"]
    /\ UNCHANGED <<task, worker, current, running, busy, owner, Compaction, Screen, odd>>

\* AgentEndEvent, while the generator is suspended; the session compacts and may continue.
AgentEnd(p) ==
    /\ task[p] = "loud"
    /\ task' = [task EXCEPT ![p] = "after"]
    /\ running' = (running /\ ~Applies(p))
    /\ UNCHANGED <<fate, worker, current, busy, owner, Compaction, Screen, odd>>

\* ErrorEvent, not recoverable: the run goes on to its end.
Fault(p) ==
    /\ task[p] = "loud" /\ running' = (running /\ ~Applies(p))
    /\ UNCHANGED <<fate, task, worker, current, busy, owner, Compaction, Screen, odd>>

\* The run raises, as when its messages cannot be stored.  A worker takes it from the screen, the handler does not.
Raises(p) ==
    /\ task[p] \in {"run", "loud", "after"} /\ Ended(p)
    /\ busy' = IF busy = p THEN None ELSE busy
    /\ running' = (running /\ (Direct(p) \/ current # p))
    /\ odd' = IF Direct(p) THEN odd \cup {"raised"} ELSE odd
    /\ UNCHANGED <<fate, current, owner, Compaction, Screen>>

After(p) ==
    /\ task[p] = "after"
    /\ \/ busy = p /\ busy' = None /\ UNCHANGED <<task, worker>>
       \/ busy # p /\ Ended(p) /\ UNCHANGED busy
       \/ busy = None /\ busy' = p /\ task' = [task EXCEPT ![p] = "run"] /\ UNCHANGED worker
    /\ UNCHANGED <<fate, current, running, owner, Compaction, Screen, odd>>

\* A cancelled worker ends, and the harness with it.
Dies(p) ==
    /\ task[p] = "cancelled"
    /\ Ended(p)
    /\ busy' = IF busy = p THEN None ELSE busy
    /\ UNCHANGED <<fate, current, running, owner, Compaction, Screen, odd>>

\* action_edit_queued_follow_up
Edit(p) ==
    /\ modal = None /\ running /\ fate[p] = "queued"
    /\ fate' = [fate EXCEPT ![p] = "new"]
    /\ UNCHANGED <<task, worker, current, running, busy, owner, Compaction, Screen, odd>>

\* _cancel_active_prompt: a worker is cancelled, a run of the handler is only asked to end.
CancelsPrompt ==
    IF running \/ busy # None \/ worker # None
    THEN /\ current' = None /\ worker' = None /\ running' = FALSE
         /\ task' = [q \in Prompts |-> IF q = worker \/ (q = busy /\ Live(q) /\ ~Direct(q)) THEN "cancelled" ELSE task[q]]
         /\ fate' = [q \in Prompts |-> IF q = worker /\ fate[q] = "started" THEN "lost" ELSE fate[q]]
         /\ UNCHANGED <<busy, owner>>
    ELSE UNCHANGED Run

\* action_cancel: the compaction if there is one, else the prompt
Cancel ==
    /\ modal = None
    /\ IF CompactionActive
       THEN /\ compacts' = [compacts EXCEPT ![compactor] = "cancelled"] /\ compactor' = None
            /\ view' = home /\ odd' = odd \cup {"cancelled"}
            /\ UNCHANGED Run
       ELSE /\ CancelsPrompt
            /\ UNCHANGED <<Compaction, view, odd>>
    /\ UNCHANGED <<modal, job, jobs, home>>

-----------------------------------------------------------------------------
(* Compaction *)

Compact(c) ==
    /\ modal = None /\ Free /\ compacts[c] = "none" /\ ~CompactionActive /\ ~Active
    /\ compactor' = c /\ compacts' = [compacts EXCEPT ![c] = "run"]
    /\ view' = "status"
    /\ UNCHANGED <<Run, modal, job, jobs, home, odd>>

\* _run_compaction ends: the transcript is loaded again unless it failed or was cancelled.
CompactEnds(c) ==
    /\ compacts[c] \in {"run", "cancelled"}
    /\ compacts' = [compacts EXCEPT ![c] = "done"]
    /\ compactor' = None
    /\ \/ compacts[c] = "run" /\ view' = home /\ UNCHANGED odd
       \/ compacts[c] = "run" /\ odd' = odd \cup {"failed"} /\ UNCHANGED view
       \/ compacts[c] = "cancelled" /\ UNCHANGED <<view, odd>>
    /\ UNCHANGED <<Run, modal, job, jobs, home>>

-----------------------------------------------------------------------------
(* Sessions *)

Job(kind, to) ==
    /\ jobs < MaxJobs /\ jobs' = jobs + 1
    /\ job' = [kind |-> kind, to |-> to]
    /\ UNCHANGED <<home>>

OpenPicker(screen) ==
    /\ modal = None
    /\ screen = "sessions" => ~running
    /\ screen = "tree" => Free /\ ~Active /\ ~CompactionActive
    /\ modal' = screen
    /\ UNCHANGED <<Run, Compaction, job, jobs, home, view, odd>>

ClosePicker ==
    /\ modal # None /\ modal' = None
    /\ UNCHANGED <<Run, Compaction, job, jobs, home, view, odd>>

\* The picker of sessions, or the command, which no run stops.
Resume(s) ==
    /\ job = None /\ (modal = "sessions" \/ (modal = None /\ Free /\ ~CompactionActive))
    /\ modal' = None
    /\ Job("resume", s)
    /\ UNCHANGED <<Run, Compaction, view, odd>>

\* Mutant: the prompt that runs is left alone.
NewBeside(s) ==
    /\ job = None /\ modal = None /\ Free /\ ~CompactionActive
    /\ Job("new", s)
    /\ UNCHANGED <<Run, Compaction, modal, view, odd>>

New(s) ==
    /\ job = None /\ modal = None /\ Free /\ ~CompactionActive
    /\ CancelsPrompt
    /\ Job("new", s)
    /\ UNCHANGED <<Compaction, modal, view, odd>>

Branch(summarize) ==
    /\ job = None /\ modal = "tree" /\ modal' = None
    /\ IF Active THEN UNCHANGED <<job, jobs, home, view>>
       ELSE /\ Job("branch", home)
            /\ view' = IF summarize THEN "status" ELSE view
    /\ UNCHANGED <<Run, Compaction, odd>>

\* The session has another harness; what runs in the old one goes on.
JobEnds ==
    /\ job # None /\ job' = None
    /\ \/ /\ home' = job.to /\ view' = job.to
          /\ IF job.kind = "branch" THEN UNCHANGED <<busy, fate, odd>>
             ELSE /\ busy' = None
                  /\ fate' = [p \in Prompts |-> IF fate[p] = "queued" THEN "sent" ELSE fate[p]]
                  /\ odd' = IF job.kind = "resume" /\ ((\E p \in Prompts : Live(p)) \/ CompactionActive)
                            THEN odd \cup {"resumed"} ELSE odd
       \/ odd' = odd \cup {"failed"} /\ UNCHANGED <<busy, fate, home, view>>
    /\ UNCHANGED <<task, worker, current, running, owner, Compaction, modal, jobs>>

-----------------------------------------------------------------------------
Next ==
    \/ \E p \in Prompts : \/ Submit(p) \/ Prepared(p) \/ Handled(p) \/ Announce(p) \/ AgentEnd(p)
                          \/ Fault(p) \/ Raises(p) \/ After(p) \/ Dies(p) \/ Edit(p)
    \/ \E p, q \in Prompts : Drain(p, q)
    \/ Cancel \/ ClosePicker \/ JobEnds
    \/ \E c \in Compactions : Compact(c) \/ CompactEnds(c)
    \/ \E screen \in {"sessions", "tree"} : OpenPicker(screen)
    \/ \E s \in Sessions : Resume(s) \/ New(s)
    \/ \E summarize \in BOOLEAN : Branch(summarize)

Spec == Init /\ [][Next]_vars

-----------------------------------------------------------------------------
\* The types of the variables.
TypeOK ==
    /\ fate \in [Prompts -> {"new", "started", "queued", "sent", "lost", "direct"}]
    /\ task \in [Prompts -> {"none", "prepare", "run", "loud", "after", "cancelled", "done"}]
    /\ worker \in Prompts \cup {None} /\ current \in Prompts \cup {None} /\ busy \in Prompts \cup {None}
    /\ view \in Sessions \cup {"status"} /\ home \in Sessions

\* docs/compaction.md:33, "manual compaction is rejected while an agent turn is active": and no
\* turn starts beside one, unless a compaction was cancelled that still has to end, or the session
\* was changed meanwhile.
CompactsAlone ==
    odd \cap {"cancelled", "resumed"} = {} =>
        \A c \in Compactions, p \in Prompts :
            compacts[c] = "run" => task[p] \notin {"prepare", "run", "loud"}

\* What the screen shows as running is a run that has not ended: that of the newest worker, which was not
\* cancelled, or one of the handler; unless one of the handler raised, which nobody takes from the screen.
RunningIsTrue ==
    running /\ "raised" \notin odd => \E p \in Prompts : (p = current \/ Direct(p)) /\ task[p] \in {"loud", "run"}

\* A prompt runs in the session in which it was entered, unless another one was resumed under it.
StaysHome ==
    "resumed" \notin odd => \A p \in Prompts : task[p] \in {"prepare", "run", "loud", "after"} => owner[p] = home

\* When nothing goes on, the transcript that is shown is the one of the session.
ShowsSession ==
    job = None /\ odd \subseteq {"raised"} /\ (\A c \in Compactions : compacts[c] # "run") => view = home

-----------------------------------------------------------------------------
(* The inductive invariant behind them *)

Working(p) == task[p] \in {"prepare", "run", "loud", "after"}
Undisturbed == "resumed" \notin odd

Shapes ==
    /\ running \in BOOLEAN /\ owner \in [Prompts -> Sessions \cup {None}]
    /\ compactor \in Compactions \cup {None} /\ compacts \in [Compactions -> {"none", "run", "cancelled", "done"}]
    /\ job \in Jobs \cup {None}
    /\ odd \subseteq {"failed", "resumed", "cancelled", "raised"}

\* A worker that was cancelled is not the current one any more.
CancelledIsOld == \A p \in Prompts : task[p] = "cancelled" => current # p
WorkerIsCurrent == worker # None => worker = current

\* What the handler has not taken has no worker, and what it has is not cancelled.
HandlerKeeps ==
    /\ \A p \in Prompts : (fate[p] \in {"new", "queued"} => task[p] = "none") /\ (Direct(p) => task[p] # "cancelled")
    /\ worker # None => fate[worker] \in {"started", "sent", "lost"}
    /\ modal = "tree" => Free

\* There is one worker at work, and its run, or that of the handler, is that of the harness.
OneWorks ==
    Undisturbed => \A p \in Prompts :
        /\ Working(p) /\ ~Direct(p) => worker = p
        /\ task[p] \in {"run", "loud"} => busy = p

\* No prompt runs while a session is made, and a branch stays in the session.
JobsAreAlone ==
    job # None =>
        /\ job.kind = "new" /\ Undisturbed => ~running /\ \A p \in Prompts : ~Working(p)
        /\ job.kind = "branch" => job.to = home

\* A compaction that was not cancelled is the one the application knows, and no prompt runs beside it.
CompactorRuns ==
    /\ "cancelled" \notin odd => \A c \in Compactions : compacts[c] # "cancelled" /\ (compacts[c] = "run" => compactor = c)
    /\ odd \cap {"cancelled", "resumed"} = {} /\ (\E c \in Compactions : compacts[c] = "run") =>
           \A p \in Prompts : ~Working(p)

IInv ==
    /\ TypeOK /\ Shapes /\ RunningIsTrue /\ CancelledIsOld /\ WorkerIsCurrent /\ HandlerKeeps /\ OneWorks /\ JobsAreAlone
    /\ CompactorRuns /\ CompactsAlone /\ StaysHome /\ ShowsSession
=============================================================================
