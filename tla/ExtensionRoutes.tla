--------------------------- MODULE ExtensionRoutes ---------------------------
(***************************************************************************)
(* What the web host does with the contributions of extensions: file       *)
(* renderers and annotation providers (tau_web/extensions.py, asked for    *)
(* every file that GET /api/files returns, routes/assets.py), widgets with *)
(* their actions and the routes of an extension (routes/extensions.py).    *)
(* Handlers run under a timeout; a coroutine is cancelled by it, a plain   *)
(* function goes on in its thread.  Extensions register, withdraw and are  *)
(* disposed of while handlers run.                                         *)
(***************************************************************************)
EXTENDS Integers, Sequences, FiniteSets, SequencesExt

CONSTANTS None,
          Extensions,     \* extension ids, numbers in the order of the ids
          Handlers,       \* handlers of contributions: [priority, threaded]
          Bundles,        \* what an extension registers when it starts
          Requests,       \* bound: requests of clients
          Workers,        \* threads of the default executor
          MaxUses         \* bound: registrations and withdrawals of a running host

ExtensionRoutesAssumption ==
    /\ Extensions \subseteq Nat /\ Workers \in Nat \ {0}
    /\ Handlers \subseteq [priority : Int, threaded : BOOLEAN]
    /\ \A b \in Bundles : b["widgets"] # None => b["assets"] = "script"

VARIABLES
    listed,     \* extensions in the directory
    leaving,    \* extensions taken from it whose services are not disposed of yet
    has,        \* of an extension: registry |-> its contribution, or None
    request,    \* request |-> [kind, pc, jobs], or None
    answer,     \* request |-> what the client got, or None
    stray,      \* functions that still run in a thread after their call timed out
    uses,
    replies,    \* observed: request |-> job |-> [candidate, reply] in the order they ended
    stripped    \* observed: extensions that withdrew the script of a registered widget

vars == <<listed, leaving, has, request, answer, stray, uses, replies, stripped>>

Registries == {"assets", "widgets", "renderers", "annotators", "routes"}
Kinds == {"script", "style"}
Jobs == {"render", "annotate", "call"}
Idle == [todo |-> <<>>, doing |-> None, state |-> "idle", got |-> <<>>]

Init ==
    /\ listed = Extensions /\ leaving = {} /\ has \in [Extensions -> Bundles]
    /\ request = [r \in Requests |-> None] /\ answer = [r \in Requests |-> None]
    /\ stray = 0 /\ uses = 0 /\ stripped = {}
    /\ replies = [r \in Requests |-> [j \in Jobs |-> <<>>]]

Calls == <<request, answer, stray, replies>>

-----------------------------------------------------------------------------
(* Extensions *)

\* A widget needs its script among the assets, and of the right type.
Allowed(e, g) == g = "widgets" => has[e]["assets"] = "script"

Register(e) ==
    /\ uses < MaxUses /\ uses' = uses + 1
    /\ \E g \in Registries : \E spec \in IF g = "assets" THEN Kinds ELSE Handlers :
        /\ has[e][g] = None /\ Allowed(e, g)
        /\ has' = [has EXCEPT ![e][g] = spec]
        /\ stripped' = IF g = "assets" /\ spec = "script" THEN stripped \ {e} ELSE stripped
    /\ UNCHANGED <<listed, leaving>> /\ UNCHANGED Calls

Withdraw(e) ==
    /\ uses < MaxUses /\ uses' = uses + 1
    /\ \E g \in Registries :
        /\ has[e][g] # None /\ has' = [has EXCEPT ![e][g] = None]
        /\ stripped' = IF g = "assets" /\ has[e]["widgets"] # None THEN stripped \cup {e}
                       ELSE IF g = "widgets" THEN stripped \ {e} ELSE stripped
    /\ UNCHANGED <<listed, leaving>> /\ UNCHANGED Calls

List(e) ==
    /\ uses < MaxUses /\ uses' = uses + 1
    /\ e \notin listed \cup leaving /\ listed' = listed \cup {e}
    /\ UNCHANGED <<leaving, has, stripped>> /\ UNCHANGED Calls

\* unregister() takes the extension from the directory and then waits for its tasks.
Unlist(e) ==
    /\ e \in listed /\ listed' = listed \ {e} /\ leaving' = leaving \cup {e}
    /\ UNCHANGED <<has, uses, stripped>> /\ UNCHANGED Calls

Dispose(e) ==
    /\ e \in leaving /\ leaving' = leaving \ {e}
    /\ has' = [has EXCEPT ![e] = [g \in Registries |-> None]]
    /\ stripped' = stripped \ {e}
    /\ UNCHANGED <<listed, uses>> /\ UNCHANGED Calls

Directory == <<listed, leaving, has, uses, stripped>>
HasWidget(e) == e \in listed /\ has[e]["widgets"] # None

\* get_widget_document: whatever is under the path of the script will do.
Document(e) == IF HasWidget(e) /\ has[e]["assets"] # None THEN 200 ELSE 404

-----------------------------------------------------------------------------
(* Requests *)

\* Mutant: in the order of the extensions alone.
BeforeById(a, b) == a.of < b.of
Before(a, b) == a.priority > b.priority \/ (a.priority = b.priority /\ a.of < b.of)

Spec_(e, g) == [of |-> e, priority |-> has[e][g].priority, threaded |-> has[e][g].threaded]
Matching(g) == {Spec_(e, g) : e \in {x \in listed : has[x][g] # None}}
Candidates(g) == SetToSortSeq(Matching(g), Before)

\* wanted: observed, the renderers as they were found
Asking(kind, jobs) == [kind |-> kind, pc |-> "busy", jobs |-> jobs, wanted |-> jobs["render"].todo]
Alone(todo) == [[j \in Jobs |-> Idle] EXCEPT !["call"] = [Idle EXCEPT !.todo = todo]]
Enters(r, asking) == request[r] = None /\ answer[r] = None /\ request' = [request EXCEPT ![r] = asking]
Answers(r, what) ==
    /\ request' = [request EXCEPT ![r] = None] /\ answer' = [answer EXCEPT ![r] = what]

\* gather(render_file, annotate_file): both take their candidates at once.
GetFile(r) ==
    /\ Enters(r, Asking("file", [j \in Jobs |-> CASE j = "render" -> [Idle EXCEPT !.todo = Candidates("renderers")]
                                                  [] j = "annotate" -> [Idle EXCEPT !.todo = Candidates("annotators")]
                                                  [] OTHER -> Idle]))
    /\ UNCHANGED <<answer, stray, replies>> /\ UNCHANGED Directory

\* The route is looked up first and called once the body has been read.
GetRoute(r, e) ==
    /\ e \in listed /\ has[e]["routes"] # None
    /\ Enters(r, [Asking("route", Alone(<<Spec_(e, "routes")>>)) EXCEPT !.pc = "reading"])
    /\ UNCHANGED <<answer, stray, replies>> /\ UNCHANGED Directory

\* The action is looked up after its body has been read.
PostAction(r) ==
    /\ Enters(r, [Asking("action", Alone(<<>>)) EXCEPT !.pc = "reading"])
    /\ UNCHANGED <<answer, stray, replies>> /\ UNCHANGED Directory

\* The body is no JSON object, too large, or of another type: 400, 413 or 415.
Refuse(r) ==
    /\ request[r] # None /\ request[r].pc = "reading"
    /\ Answers(r, [status |-> 400])
    /\ UNCHANGED <<stray, replies>> /\ UNCHANGED Directory

Invoke(r, e) ==
    /\ request[r] # None /\ request[r].pc = "reading"
    /\ IF request[r].kind = "route"
       THEN request' = [request EXCEPT ![r].pc = "busy"] /\ UNCHANGED answer
       ELSE IF HasWidget(e)
            THEN request' = [request EXCEPT ![r] = Asking("action", Alone(<<Spec_(e, "widgets")>>))] /\ UNCHANGED answer
            ELSE Answers(r, [status |-> 404])
    /\ UNCHANGED <<stray, replies>> /\ UNCHANGED Directory

-----------------------------------------------------------------------------
(* Handlers: _invoke_handler under wait_for *)

Job(r, j) == request[r].jobs[j]
Busy(r) == request[r] # None /\ request[r].pc = "busy"
Held == {rj \in Requests \X Jobs : Busy(rj[1]) /\ Job(rj[1], rj[2]).state = "running" /\ Job(rj[1], rj[2]).doing.threaded}
Free == Cardinality(Held) + stray < Workers

Take(r, j) ==
    /\ Busy(r) /\ Job(r, j).doing = None /\ Job(r, j).todo # <<>>
    /\ request' = [request EXCEPT ![r].jobs[j] =
           [@ EXCEPT !.todo = Tail(@), !.doing = Head(request[r].jobs[j].todo),
                     !.state = IF Head(request[r].jobs[j].todo).threaded THEN "queued" ELSE "running"]]
    /\ UNCHANGED <<answer, stray, replies>> /\ UNCHANGED Directory

\* A thread of the pool takes a waiting function.
Starts(r, j) ==
    /\ Busy(r) /\ Job(r, j).state = "queued" /\ Free
    /\ request' = [request EXCEPT ![r].jobs[j].state = "running"]
    /\ UNCHANGED <<answer, stray, replies>> /\ UNCHANGED Directory

Outputs(j) == CASE j = "render" -> {"view", "widget", "unusable"}
                [] j = "annotate" -> {"notes", "unusable"}
                [] j = "call" -> {"value", "unusable", "raised", "lookup"}

Usable(r, j, reply) == reply # "unusable" /\ (reply = "widget" => HasWidget(Job(r, j).doing.of))

\* The loop of render_file ends with the first usable output, that of annotate_file goes on.
Ended(r, j, reply) ==
    LET job == Job(r, j)
        good == reply # "timeout" /\ Usable(r, j, reply)
        of == [of |-> job.doing.of, reply |-> reply]
    IN [todo |-> IF good /\ j = "render" THEN <<>> ELSE job.todo, doing |-> None, state |-> "idle",
        got |-> IF good \/ j = "call" THEN Append(job.got, of) ELSE job.got]

Ends(r, j, reply) ==
    /\ request' = [request EXCEPT ![r].jobs[j] = Ended(r, j, reply)]
    /\ replies' = [replies EXCEPT ![r][j] = Append(@, [who |-> Job(r, j).doing, reply |-> reply,
                                                       usable |-> reply # "timeout" /\ Usable(r, j, reply)])]

Returns(r, j) ==
    /\ Busy(r) /\ Job(r, j).state = "running"
    /\ \E reply \in Outputs(j) : Ends(r, j, reply)
    /\ UNCHANGED <<answer, stray>> /\ UNCHANGED Directory

\* The functions a request leaves in their threads
Abandoned(r, js) == Cardinality({j \in js : <<r, j>> \in Held})

Timeout(r, j) ==
    /\ Busy(r) /\ Job(r, j).state \in {"queued", "running"}
    /\ Ends(r, j, "timeout") /\ stray' = stray + Abandoned(r, {j})
    /\ UNCHANGED answer /\ UNCHANGED Directory

StrayReturns == stray > 0 /\ stray' = stray - 1 /\ UNCHANGED <<request, answer, replies>> /\ UNCHANGED Directory

\* The client goes away: its request is cancelled with all its handlers.
Disconnect(r) ==
    /\ request[r] # None /\ Answers(r, [status |-> 0])
    /\ stray' = stray + IF Busy(r) THEN Abandoned(r, Jobs) ELSE 0
    /\ UNCHANGED replies /\ UNCHANGED Directory

-----------------------------------------------------------------------------
(* Answers *)

Done(r) == Busy(r) /\ \A j \in Jobs : Job(r, j).doing = None /\ Job(r, j).todo = <<>>

\* Mutant: the widget that render_file found is taken for granted.
ShownAnyway(r) == IF Job(r, "render").got = <<>> THEN None ELSE Job(r, "render").got[1]
\* A widget is looked up once more when the annotations are there too.
Shown(r) ==
    IF Job(r, "render").got = <<>> THEN None
    ELSE LET chosen == Job(r, "render").got[1]
         IN IF chosen.reply = "widget" /\ ~HasWidget(chosen.of) THEN None ELSE chosen

AnswerFile(r) ==
    /\ Done(r) /\ request[r].kind = "file"
    /\ Answers(r, [status |-> 200, view |-> Shown(r), notes |-> Job(r, "annotate").got,
                   widget |-> Shown(r) # None /\ HasWidget(Shown(r).of)])
    /\ UNCHANGED <<stray, replies>> /\ UNCHANGED Directory

\* A response of a route or a result of an action that can be sent
Portable(reply) == reply = "value"

Status(kind, reply) ==
    CASE Portable(reply) -> 200
      [] reply = "unusable" -> 502
      [] reply = "timeout" -> 504
      [] reply = "lookup" /\ kind = "action" -> 404
      [] OTHER -> 500

AnswerCall(r) ==
    /\ Done(r) /\ request[r].kind # "file"
    /\ Answers(r, [status |-> Status(request[r].kind, Job(r, "call").got[1].reply)])
    /\ UNCHANGED <<stray, replies>> /\ UNCHANGED Directory

Next ==
    \/ \E e \in Extensions : Register(e) \/ Withdraw(e) \/ List(e) \/ Unlist(e) \/ Dispose(e)
    \/ \E r \in Requests : GetFile(r) \/ PostAction(r) \/ AnswerFile(r) \/ AnswerCall(r) \/ Refuse(r) \/ Disconnect(r)
    \/ \E r \in Requests, e \in Extensions : GetRoute(r, e) \/ Invoke(r, e)
    \/ \E r \in Requests, j \in Jobs : Take(r, j) \/ Starts(r, j) \/ Returns(r, j) \/ Timeout(r, j)
    \/ StrayReturns

Spec == Init /\ [][Next]_vars

-----------------------------------------------------------------------------
(* Properties *)

\* Types; the functions that run never outnumber the threads.
TypeOK ==
    /\ listed \subseteq Extensions /\ leaving \subseteq Extensions /\ listed \cap leaving = {}
    /\ \A e \in Extensions : \A g \in Registries :
           has[e][g] = None \/ IF g = "assets" THEN has[e][g] \in Kinds ELSE has[e][g] \in Handlers
    /\ stray + Cardinality(Held) \in 0..Workers /\ uses \in 0..MaxUses /\ stripped \subseteq Extensions

\* What a file is shown with comes from the candidate of the highest priority,
\* and among equals of the first extension, whose handler answered in time with
\* something usable; a failing, late or useless renderer never hides another:
\* who is asked are the candidates in their order, all of them if none is usable.
BestIsShown ==
    \A r \in Requests :
        LET asked == replies[r]["render"]
            good == {i \in 1..Len(asked) : asked[i].usable}
        IN /\ answer[r] # None /\ answer[r].status = 200 /\ good # {} => Cardinality(good) = 1 /\ good = {Len(asked)}
           /\ \A i, k \in 1..Len(asked) : i < k =>
                  \/ asked[i].who.priority > asked[k].who.priority
                  \/ asked[i].who.priority = asked[k].who.priority /\ asked[i].who.of < asked[k].who.of
           /\ request[r] # None /\ request[r].kind = "file" /\ Done(r) =>
                  /\ Len(asked) <= Len(request[r].wanted) /\ (good = {} => Len(asked) = Len(request[r].wanted))
                  /\ \A i \in 1..Len(asked) : asked[i].who = request[r].wanted[i]

\* A widget that an answer shows is registered, by an extension that is listed,
\* at the moment of the answer.
WidgetIsThere ==
    \A r \in Requests :
        answer[r] # None /\ answer[r].status = 200 /\ "view" \in DOMAIN answer[r] =>
            (answer[r].view # None /\ answer[r].view.reply = "widget" => answer[r].widget)

\* The annotations of a file are those of every provider that answered in time,
\* in the order of their priorities, whatever the others did.
NotesAreComplete ==
    \A r \in Requests :
        answer[r] # None /\ answer[r].status = 200 /\ "notes" \in DOMAIN answer[r] =>
            [i \in 1..Len(answer[r].notes) |-> answer[r].notes[i].of]
              = [i \in 1..Len(SelectSeq(replies[r]["annotate"], LAMBDA x : x.usable))
                   |-> SelectSeq(replies[r]["annotate"], LAMBDA x : x.usable)[i].who.of]

\* The document of a listed widget can be fetched, and with a script in it,
\* unless its own extension withdrew the script.
WidgetsHaveScripts ==
    \A e \in Extensions : HasWidget(e) /\ e \notin stripped => Document(e) = 200 /\ has[e]["assets"] = "script"
==============================================================================
