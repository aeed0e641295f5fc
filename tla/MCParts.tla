-------------------------------- MODULE MCParts --------------------------------
(***************************************************************************)
(* What the sessions keep and show: rows, transcripts, queues, settings    *)
(* and the terminal; and what an agent works with: providers, tools,       *)
(* compaction and extensions.  Each module is a part with bounds of its    *)
(* own; the parts share no state, so a behaviour is one of the part that   *)
(* Init chooses.  The variables of the parts stand in the slots x1 to x15, *)
(* a slot that a part does not need holds None.  Sessions.cfg and          *)
(* Tools.cfg choose the parts of a run.  The instances Media, State,       *)
(* Settings, Files, Processes, Compacting, Executor, App, Host, Services   *)
(* and Login stand in PartProofs.  At the end, the composition is shown to *)
(* keep what PartProofs and ProviderChoiceProofs show of these parts.      *)
(***************************************************************************)
EXTENDS PartProofs

CONSTANTS vA, vB, vC, vD, vE, vF, vG, vK, vM, vN, vP, vQ, vR

\* FromN: the slots from N on; IdleN: they are not used.
From15 == <<x15>>
From14 == <<x14, From15>>
From13 == <<x13, From14>>
From12 == <<x12, From13>>
From11 == <<x11, From12>>
From10 == <<x10, From11>>
From9 == <<x9, From10>>
From8 == <<x8, From9>>
From7 == <<x7, From8>>
From6 == <<x6, From7>>
From5 == <<x5, From6>>
From4 == <<x4, From5>>

Idle15 == x15 = None
Idle14 == x14 = None /\ Idle15
Idle13 == x13 = None /\ Idle14
Idle12 == x12 = None /\ Idle13
Idle11 == x11 = None /\ Idle12
Idle10 == x10 = None /\ Idle11
Idle9 == x9 = None /\ Idle10
Idle8 == x8 = None /\ Idle9
Idle7 == x7 = None /\ Idle8
Idle6 == x6 = None /\ Idle7
Idle5 == x5 = None /\ Idle6
Idle4 == x4 = None /\ Idle5

-----------------------------------------------------------------------------
ContentOf(item) == vF
ThumbnailOf(item) == IF item = vA THEN vG ELSE None
ExtensionOf(client) == IF client = vC THEN vE ELSE vD
MessagePairs == {<<vA, vN>>, <<vC, vM>>, <<vC, vN>>}

SameKey == [source : {vA}, target : {vA}, mode : {"auto"}, key : {None, vK}, parent : {vC, vD, None}]
Queued(s, t, p) == [source |-> s, target |-> t, mode |-> "queue", key |-> None, parent |-> p]
Cycle == {Queued(vA, vB, None), Queued(vB, vA, vC), Queued(vA, vB, vD), Queued(vB, vB, vC)}

Completion(category, extra) == [category |-> category, extra |-> extra]
Completions ==
    {<<Completion(None, 0), Completion(None, 1), Completion(None, 0)>>,
     <<Completion("A", 0), Completion("A", 2), Completion("B", 0), Completion("B", 1)>>,
     <<Completion("A", 3)>>,
     <<Completion("A", 0), Completion("B", 0), Completion(None, 0)>>}

ListedModels == [provider \in {vP, vQ} |-> IF provider = vP THEN {vM, vN} ELSE {vR}]
LevelsOf == [pair \in {vP, vQ} \X {vM, vN, vR} |-> CASE pair[2] = vM -> {"low", "high"} [] pair[2] = vN -> {} [] pair[2] = vR -> {"high"}]
KindOf == [pair \in {vP, vQ} \X {vM, vN, vR} |-> IF pair[2] = vN THEN "anthropic" ELSE "openai"]

FallbackOf(i) == 100 + i
CleanedOf(t) == IF t = 3 THEN 1 ELSE t
OneId(bundle) == vC

TwoInOrder == <<vA, vB>>
TwoDefinitions == <<[a \in {vA, vB} |-> 1], [a \in {vA, vB} |-> 2]>>

Adds(kind, name) == [kind |-> kind, name |-> name]
Offers(name, aliases) == [kind |-> "command", name |-> name, aliases |-> aliases]
Hooks(kind, does) == [kind |-> kind, does |-> does]
Guides == [kind |-> "guideline"]
Breaks == [kind |-> "raise"]
Quit == <<[name |-> vA, aliases |-> <<vB>>]>>
Later == {Adds("tool", vR), Offers(vR, <<>>), Guides, Hooks("input", "acts"), Hooks("call", "acts")}
\* A whole extension, one that raises, one named like an alias, one with the alias of a command, and one of hooks.
Whole == <<Adds("tool", vQ), Offers(vC, <<vD>>), Offers(None, <<>>), Guides, Hooks("input", "acts")>>
Broken == <<Hooks("input", "fails"), Adds("tool", vQ), Adds("tool", vP), Hooks("call", "acts"), Breaks, Guides>>
Aliased == <<Offers(vB, <<>>), Hooks("result", "acts"), Hooks("key", "passes")>>
Clashing == <<Offers(vD, <<vA>>)>>
Hooked == <<Hooks("key", "fails"), Hooks("key", "acts"), Hooks("input", "acts"), Hooks("call", "passes"), Guides>>
SixDisks == {<<Whole, Broken>>, <<Broken, Hooked>>, <<Aliased, None>>, <<Whole, Clashing>>, <<Hooked, Aliased>>, <<None, Hooked>>}
Entry(name, state) == [name |-> name, state |-> state]
FiveShelves ==
    {[skill |-> <<<<Entry(vM, "good")>>, <<Entry(vM, "good"), Entry(vM, "good"), Entry(vN, "garbled")>>>>,
      prompt |-> <<<<Entry(vA, "good")>>>>, context |-> <<Entry(vP, "good")>>],
     [skill |-> <<<<Entry(vN, "good"), Entry(vM, "good")>>, <<Entry(vM, "unread"), Entry(vM, "good")>>>>,
      prompt |-> <<<<Entry(vC, "unread")>>, <<Entry(vC, "good")>>>>, context |-> <<Entry(vP, "good")>>],
     [skill |-> <<<<Entry(vM, "good")>>, <<>>, <<Entry(vM, "good")>>>>,
      prompt |-> <<<<>>>>, context |-> <<Entry(vP, "unread"), Entry(vQ, "good")>>],
     [skill |-> <<>>, prompt |-> <<>>, context |-> <<Entry(vP, "garbled")>>],
     [skill |-> <<>>, prompt |-> <<<<Entry(vC, "good")>>, <<Entry(vC, "good")>>>>, context |-> <<>>]}
FourInputs ==
    {[form |-> "plain", name |-> None], [form |-> "slash", name |-> vA], [form |-> "slash", name |-> vC], [form |-> "skill", name |-> vM]}

Slow == [priority |-> 0, threaded |-> FALSE]
Quick == [priority |-> 1, threaded |-> TRUE]
TwoBundles ==
    {[assets |-> "script", widgets |-> Slow, renderers |-> Quick, annotators |-> None, routes |-> None],
     [assets |-> "style", widgets |-> None, renderers |-> Slow, annotators |-> Slow, routes |-> Quick]}

-----------------------------------------------------------------------------
(* What the sessions keep and show *)

\* Two clients create, rename, archive and restore two sessions; then they append entries.
Aliases == INSTANCE SessionStore WITH
    Sessions <- {vA, vB}, Clients <- {vC, vD}, Existing <- vA, Bases <- {vE}, Default <- vE, Entries <- {},
    MaxClock <- 3, row <- x1, tree <- x2, clock <- x3, call <- x4, seen <- x5

Trees == INSTANCE SessionStore WITH
    Sessions <- {vA, vB}, Clients <- {vC, vD}, Existing <- vA, Bases <- {vE}, Default <- vE,
    Entries <- {vF, vG}, MaxClock <- 2, row <- x1, tree <- x2, clock <- x3, call <- x4, seen <- x5

\* Two calls with one idempotency key; then three that answer each other.
Router == INSTANCE ChatRouter WITH
    Calls <- {vC, vD}, Sessions <- {vA}, Requests <- SameKey, MaxHops <- 1, MaxAttempts <- 1,
    Window <- 2, MaxClock <- 2, MaxRestarts <- 1, call <- x1, row <- x2, holder <- x3,
    attempts <- x4, sent <- x5, run <- x6, receipts <- x7, clock <- x8, restarts <- x9

Chain == INSTANCE ChatRouter WITH
    Calls <- {vC, vD, vE}, Sessions <- {vA, vB}, Requests <- Cycle, MaxHops <- 2, MaxAttempts <- 4,
    Window <- 2, MaxClock <- 0, MaxRestarts <- 0, call <- x1, row <- x2, holder <- x3,
    attempts <- x4, sent <- x5, run <- x6, receipts <- x7, clock <- x8, restarts <- x9

\* An agent and a browser edit one plan; a list of patches passes through two steps in progress, and a step
\* has an end of line in it.
Step(words, status) == [step |-> words, status |-> status]
ThreePlans ==
    {<<>>, <<Step(<<vA, vE, "completed", vB>>, "pending")>>, <<Step(<<vA>>, "in_progress"), Step(<<vA, vB>>, "pending")>>}
Patch(op, index, match, step, status) == [op |-> op, index |-> index, match |-> match, step |-> step, status |-> status]
FourPatches ==
    {<<Patch("update", 2, None, None, "in_progress"), Patch("update", 1, None, None, "completed")>>,
     <<Patch("start", 0, None, <<vB>>, "in_progress")>>,
     <<Patch("update", 0, <<vB>>, <<vB>>, None), Patch("after", 0, <<vA>>, <<vA, vA>>, None), Patch("remove", 1, None, None, None)>>,
     <<Patch("end", 0, None, <<vB>>, None), Patch("before", 2, None, <<vA>>, "completed"), Patch("remove", 0, <<vA>>, None, None)>>}
Edit(op, old, new) == [op |-> op, old |-> old, new |-> new]
FiveEdits ==
    {<<Edit("replace", <<"pending">>, <<"completed">>)>>, <<Edit("append", <<>>, <<vB>>)>>,
     <<Edit("prepend", <<>>, <<"pending", vB, vE>>), Edit("delete", <<vA>>, <<>>)>>,
     <<Edit("insert_after", <<vA>>, <<vE>>), Edit("insert_before", <<vB>>, <<"pending">>)>>,
     <<Edit("delete", <<vA, vE>>, <<>>)>>}

Planning == INSTANCE SharedPlan WITH
    NL <- vE, Tools <- {vC}, Browsers <- {vD}, MaxItems <- 2, MaxStep <- 4, MaxRevisions <- 3, Plans <- ThreePlans,
    Patches <- FourPatches, Edits <- FiveEdits, ContextItems <- 2, Budget <- 7, Notice <- 3, row <- x1, pc <- x2,
    view <- x3, built <- x4, told <- x5, silent <- x6, context <- x7

\* Three messages in two queues of two sessions.
Queues == INSTANCE SessionQueues WITH
    Sessions <- {vA, vB}, Kinds <- {vC, vD}, MaxIds <- 3, MaxPosition <- 4, row <- x1, born <- x2,
    list <- x3, handed <- x4, broken <- x5

\* A session that works and one that only has rows.
Line == INSTANCE Timeline WITH
    Sessions <- {vA, vB}, Working <- {vA}, Limit <- 1, MaxRows <- 3, MaxRuns <- 2, rows <- x1,
    usage <- x2, run <- x3, step <- x4, event <- x5, runs <- x6, cut <- x7, failed <- x8,
    preview <- x9, reader <- x10

\* Two processes, in SQLite and with index files, one of them of an older version.
Table == INSTANCE SessionIndex WITH
    Sqlite <- TRUE, Clients <- {vC, vD}, Ids <- {vA, vB}, Legacy <- {}, Initials <- 2, MaxClock <- 2,
    index <- x1, entries <- x2, held <- x3, work <- x4, clock <- x5, filed <- x6, torn <- x7,
    cut <- x8, printed <- x9, kept <- x10

Index == INSTANCE SessionIndex WITH
    Sqlite <- FALSE, Clients <- {vC, vD}, Ids <- {vA, vB}, Legacy <- {vA}, Initials <- 2, MaxClock <- 3,
    index <- x1, entries <- x2, held <- x3, work <- x4, clock <- x5, filed <- x6, torn <- x7,
    cut <- x8, printed <- x9, kept <- x10

\* A harness with its session log, under two cancels, kills, restarts or compactions.
Transcript == INSTANCE AgentTranscript WITH
    MaxEntries <- 8, MaxCalls <- 2, MaxEvents <- 2, mem <- x1, log <- x2, leaf <- x3, rows <- x4,
    last <- x5, at <- x6, next <- x7, count <- x8, calls <- x9, signal <- x10, queue <- x11,
    retry <- x12, used <- x13, killed <- x14, left <- x15

\* A prompt with one long paste, and lists of completions.
Editor == INSTANCE TuiEditor WITH
    Key <- vA, Mark <- vB, Pastes <- {vC}, Items <- Completions, Limit <- 4, MaxLength <- 2,
    text <- x1, meant <- x2, pending <- x3, last <- x4, changed <- x5, items <- x6, selected <- x7,
    sent <- x8, stained <- x9

\* The transcript as the terminal shows it.
View == INSTANCE TuiTranscript WITH
    MaxText <- 2, MaxMessages <- 4, MaxThoughts <- 1, MaxCalls <- 2, messages <- x1, phase <- x2, calls <- x3,
    items <- x4, buffer <- x5, using <- x6, suppress <- x7, mounted <- x8, active <- x9, shows <- x10, cut <- x11

-----------------------------------------------------------------------------
(* What an agent works with *)

\* Two terminals, two sessions, two providers of which the second looks for its key at each request.
Choice == INSTANCE ProviderChoiceProofs WITH
    Apps <- {vA, vB}, Sessions <- {vC, vD}, Providers <- {vP, vQ}, Listed <- ListedModels, First <- vP,
    Lazy <- {vQ}, Free <- {vP}, Levels <- LevelsOf, Kind <- KindOf, MaxChanges <- 5, file <- x1,
    keys <- x2, app <- x3, log <- x4, record <- x5, found <- x6, wanted <- x7, odd <- x8,
    changes <- x9

\* Files of five characters, which exceed the limits of lines and bytes.
Text == INSTANCE TextTools WITH
    CR <- vR, NL <- vN, Letters <- {vA, vB}, MaxLines <- 2, MaxBytes <- 3, Chunk <- 2, MaxText <- 5,
    Olds <- {<<vA>>, <<vB, vB>>, <<vB, vA, vB>>}, News <- {<<vA>>, <<vB, vN, vB>>}, file <- x1, at <- x2,
    seen <- x3, large <- x4, shown <- x5, edited <- x6

\* A response with three calls and one retry.
Stream == INSTANCE ProviderStream WITH
    Kinds <- {"codex", "chat", "responses", "anthropic"}, Calls <- {1, 2, 3}, MaxRetries <- 1,
    MaxTexts <- 2, kind <- x1, attempt <- x2, phase <- x3, signal <- x4, said <- x5, shown <- x6,
    parts <- x7, builders <- x8, routes <- x9, handed <- x10, message <- x11, last <- x12,
    cut <- x13

\* A session that changes between the adapters; text 3 is cleaned to text 1.
History == INSTANCE ProviderHistory WITH
    Kinds <- {"codex", "chat", "responses", "anthropic"}, Texts <- {1, 3},
    Plain <- {1, 2, 101, 102}, Fallback <- FallbackOf, Cleaned <- CleanedOf, Images <- {vA},
    Accepted <- {vA}, MaxMessages <- 5, kind <- x1, log <- x2, due <- x3

\* Every transcript of four messages under every limit.
Source == INSTANCE CompactionSource WITH
    Lengths <- {1, 2, 5}, MaxRows <- 4, Limits <- {0, 1, 2, 4, 6, 8, 10, 13}, MarkerLength <- 3,
    rows <- x1, limit <- x2, wanted <- x3, kept <- x4, text <- x5

\* Three extensions that depend on each other in every way.
Order == INSTANCE ExtensionPlan WITH
    N <- 3, Versions <- {1, 2}, Ranges <- {[kind |-> "caret", minor |-> 2]}, version <- x1,
    needs <- x2, at <- x3, trusted <- x4, rightly <- x5, active <- x6, blocked <- x7, order <- x8,
    pc <- x9, winner <- x10, proper <- x11

\* Two extensions, a request, and one thread.
Routes == INSTANCE ExtensionRoutes WITH
    Extensions <- {1, 2}, Handlers <- {Slow, Quick}, Bundles <- TwoBundles, Requests <- {vC},
    Workers <- 1, MaxUses <- 1, listed <- x1, leaving <- x2, has <- x3, request <- x4, answer <- x5,
    stray <- x6, uses <- x7, replies <- x8, stripped <- x9

\* Two files of extensions, which change between three openings.
Local == INSTANCE LocalResources WITH
    Disks <- SixDisks, Late <- Later, Defaults <- Quit, Builtin <- <<vP>>, Shelves <- FiveShelves,
    Inputs <- FourInputs, MaxLoads <- 3, MaxEdits <- 1, disk <- x1, shelf <- x2, registry <- x3,
    session <- x4, pending <- x5, loads <- x6, told <- x7, last <- x8, edits <- x9

ASSUME PartsAssumption ==
    /\ Aliases!StoreAssumption
    /\ Trees!StoreAssumption
    /\ Media!MediaAssumption
    /\ Planning!SharedPlanAssumption
    /\ State!ExtensionStateAssumption
    /\ Queues!SessionQueuesAssumption
    /\ Line!TimelineAssumption
    /\ Settings!SettingsAssumption
    /\ Table!SessionIndexAssumption
    /\ Index!SessionIndexAssumption
    /\ App!TuiAppAssumption
    /\ Choice!ProviderChoiceAssumption
    /\ Login({}, {})!OAuthAssumption
    /\ Login({vC, vD}, Logins)!OAuthAssumption
    /\ Files!FileToolsAssumption
    /\ Processes!ProcessToolsAssumption
    /\ Compacting!CompactionAssumption
    /\ Source!CompactionSourceAssumption
    /\ Executor!ActionExecutorAssumption
    /\ Host!ExtensionHostAssumption
    /\ Services!ExtensionServicesAssumption
    /\ Routes!ExtensionRoutesAssumption

-----------------------------------------------------------------------------
Init ==
    /\ part \in Parts
    /\ \/ part = "aliases" /\ Aliases!Init /\ Idle6
       \/ part = "trees" /\ Trees!Init /\ Idle6
       \/ part = "media" /\ Media!Init /\ Idle10
       \/ part = "chat" /\ Router!Init /\ Idle10
       \/ part = "chain" /\ Chain!Init /\ Idle10
       \/ part = "plan" /\ Planning!Init /\ Idle8
       \/ part = "state" /\ State!Init /\ Idle6
       \/ part = "queues" /\ Queues!Init /\ Idle6
       \/ part = "timeline" /\ Line!Init /\ Idle11
       \/ part = "settings" /\ Settings!Init /\ Idle13
       \/ part = "table" /\ Table!Init /\ Idle11
       \/ part = "index" /\ Index!Init /\ Idle11
       \/ part = "transcript" /\ Transcript!Init
       \/ part = "app" /\ App!Init
       \/ part = "editor" /\ Editor!Init /\ Idle10
       \/ part = "view" /\ View!Init /\ Idle12
       \/ part = "choice" /\ Choice!Init /\ Idle10
       \/ part = "callback" /\ Login({}, {})!Init /\ Idle14
       \/ part = "device" /\ Login({vC, vD}, Logins)!Init /\ Idle14
       \/ part = "text" /\ Text!Init /\ Idle7
       \/ part = "files" /\ Files!Init /\ Idle10
       \/ part = "processes" /\ Processes!Init /\ Idle9
       \/ part = "stream" /\ Stream!Init /\ Idle14
       \/ part = "history" /\ History!Init /\ Idle4
       \/ part = "compaction" /\ Compacting!Init /\ Idle9
       \/ part = "source" /\ Source!Init /\ Idle6
       \/ part = "actions" /\ Executor!Init /\ Idle15
       \/ part = "host" /\ Host!Init /\ Idle13
       \/ part = "services" /\ Services!Init /\ Idle15
       \/ part = "order" /\ Order!Init /\ Idle12
       \/ part = "routes" /\ Routes!Init /\ Idle10
       \/ part = "resources" /\ Local!Init /\ Idle10

Next ==
    /\ UNCHANGED part
    /\ \/ part = "aliases" /\ Aliases!Next /\ UNCHANGED From6
       \/ part = "trees" /\ Trees!Next /\ UNCHANGED From6
       \/ part = "media" /\ Media!Next /\ UNCHANGED From10
       \/ part = "chat" /\ Router!Next /\ UNCHANGED From10
       \/ part = "chain" /\ Chain!Next /\ UNCHANGED From10
       \/ part = "plan" /\ Planning!Next /\ UNCHANGED From8
       \/ part = "state" /\ State!Next /\ UNCHANGED From6
       \/ part = "queues" /\ Queues!Next /\ UNCHANGED From6
       \/ part = "timeline" /\ Line!Next /\ UNCHANGED From11
       \/ part = "settings" /\ Settings!Next /\ UNCHANGED From13
       \/ part = "table" /\ Table!Next /\ UNCHANGED From11
       \/ part = "index" /\ Index!Next /\ UNCHANGED From11
       \/ part = "transcript" /\ Transcript!Next
       \/ part = "app" /\ App!Next
       \/ part = "editor" /\ Editor!Next /\ UNCHANGED From10
       \/ part = "view" /\ View!Next /\ UNCHANGED From12
       \/ part = "choice" /\ Choice!Next /\ UNCHANGED From10
       \/ part = "callback" /\ Login({}, {})!Next /\ UNCHANGED From14
       \/ part = "device" /\ Login({vC, vD}, Logins)!Next /\ UNCHANGED From14
       \/ part = "text" /\ Text!Next /\ UNCHANGED From7
       \/ part = "files" /\ Files!Next /\ UNCHANGED From10
       \/ part = "processes" /\ Processes!Next /\ UNCHANGED From9
       \/ part = "stream" /\ Stream!Next /\ UNCHANGED From14
       \/ part = "history" /\ History!Next /\ UNCHANGED From4
       \/ part = "compaction" /\ Compacting!Next /\ UNCHANGED From9
       \/ part = "source" /\ Source!Next /\ UNCHANGED From6
       \/ part = "actions" /\ Executor!Next /\ UNCHANGED From15
       \/ part = "host" /\ Host!Next /\ UNCHANGED From13
       \/ part = "services" /\ Services!Next /\ UNCHANGED From15
       \/ part = "order" /\ Order!Next /\ UNCHANGED From12
       \/ part = "routes" /\ Routes!Next /\ UNCHANGED From10
       \/ part = "resources" /\ Local!Next /\ UNCHANGED From10

slots == <<part, x1, x2, x3, x4, x5, x6, x7, x8, x9, x10, x11, x12, x13, x14, x15>>

Spec == Init /\ [][Next]_slots

-----------------------------------------------------------------------------
\* The types of the variables of every part of the sessions.
SessionTypes ==
    /\ part = "aliases" => Aliases!TypeOK
    /\ part = "trees" => Trees!TypeOK
    /\ part = "media" => Media!TypeOK
    /\ part = "chat" => Router!TypeOK
    /\ part = "chain" => Chain!TypeOK
    /\ part = "plan" => Planning!TypeOK
    /\ part = "state" => State!TypeOK
    /\ part = "queues" => Queues!TypeOK
    /\ part = "timeline" => Line!TypeOK
    /\ part = "settings" => Settings!TypeOK
    /\ part = "table" => Table!TypeOK
    /\ part = "index" => Index!TypeOK
    /\ part = "transcript" => Transcript!TypeOK
    /\ part = "app" => App!TypeOK
    /\ part = "editor" => Editor!TypeOK
    /\ part = "view" => View!TypeOK

\* Two clients that change the same row never overwrite what they have not seen: the second is told of a
\* conflict. Aliases stay unique, entries have their parents, a plan keeps one step in progress and its
\* clients hear of every revision.
UpdatesAreKept ==
    /\ part = "aliases" => Aliases!AliasConflictsCaught /\ Aliases!NoLostUpdate /\ Aliases!PathsExist
    /\ part = "trees" => Trees!AliasConflictsCaught /\ Trees!NoLostUpdate /\ Trees!PathsExist
    /\ part = "plan" => Planning!NoPlanIsLost /\ Planning!OneInProgress /\ Planning!TextIsPlan /\ Planning!ClientsAreTold /\ Planning!ContextFits

\* A live item has its blob, whatever is deleted, aged or rolled back between the steps of an upload; an
\* imported item is not seen by other sessions, nor read by their runs; uploads one at a time keep the quota.
\* What an extension stores is replaced only by who has seen it, and it stores only where it may.
StoredIsKept ==
    /\ part = "media" => Media!BlobsExist /\ Media!StaysPrivate /\ Media!QuotaKept /\ Media!SeenInSession
    /\ part = "state" => State!NoUpdateIsLost /\ State!RevisionsTell /\ State!OnlyPermitted

\* A message between sessions reaches its target once, whatever is retried, restarted or late; receipts say what
\* happened; no chain of replies returns to a session; the rate is kept. A queue of a session is what its
\* user sees, in that order, and no statement fails on its positions.
MessagesArriveOnce ==
    /\ part = "chat" => Router!HandedOnce /\ Router!NoCycles /\ Router!ReceiptsTrue /\ Router!RateKept
    /\ part = "chain" => Chain!HandedOnce /\ Chain!NoCycles /\ Chain!ReceiptsTrue /\ Chain!RateKept
    /\ part = "queues" => Queues!RowsAreTheList /\ Queues!NoCollision /\ Queues!FirstInFirstOut

\* One who pages through a timeline gets every row that stays; the usage of a row is recorded; the preview of
\* the dashboard shows what the run of a session is doing; the context around a row is its neighbourhood. A prompt
\* that is sent is what was typed or pasted, and the selected completion is in sight; a transcript that the terminal
\* shows live is the one a reload shows, each item once.
ShownIsTrue ==
    /\ part = "timeline" => Line!PagesAreComplete /\ Line!UsageIsKept /\ Line!PreviewIsLive /\ Line!ContextIsNear
    /\ part = "editor" => Editor!SentIsMeant /\ Editor!SelectionInSight
    /\ part = "view" => View!LiveIsRestored /\ View!MountedOnce

\* The row of a session, its active branch and its agent in the pool (unless that takes no work, after a removal
\* that failed) name the same model, and usage is recorded under the model that answered, except where a change
\* overtakes a compaction or a branch.
SettingsAgree ==
    /\ part = "settings" => Settings!AgentIsCurrent /\ Settings!RowIsThePath /\ Settings!UsageIsOfItsModel

\* A session that was recorded is found again, with SQLite and, unless two processes rewrite the file at once,
\* with index files; a transcript never disappears, and it begins with its info, once.
IndexFindsSessions ==
    /\ part = "table" => Table!ListedIsFound /\ Table!TranscriptsStay /\ Table!BeginsWithInfo
    /\ part = "index" => Index!ListedIsFound /\ Index!TranscriptsStay /\ Index!BeginsWithInfo

\* Whatever is cancelled, killed, crashed, compacted or branched, a request answers every call that it contains.
\* As long as no turn was killed, its results have their calls, once each (but for a summary put between them),
\* and what a restart replays is what the harness has.
TranscriptIsWhole ==
    /\ part = "transcript" => Transcript!CallsAnswered /\ Transcript!ResultsHaveCalls /\ Transcript!DurableIsLive

\* A compaction of the terminal runs alone, what is shown as running is a run that has not ended (unless the handler
\* drove it itself, and it raised), a prompt stays in its session and the messages shown are those of the session.
TerminalIsTrue == part = "app" => App!CompactsAlone /\ App!RunningIsTrue /\ App!StaysHome /\ App!ShowsSession

-----------------------------------------------------------------------------
\* The types of the variables of the other parts.
ToolTypes ==
    /\ part = "choice" => Choice!TypeOK
    /\ part = "callback" => Login({}, {})!TypeOK
    /\ part = "device" => Login({vC, vD}, Logins)!TypeOK
    /\ part = "text" => Text!TypeOK
    /\ part = "files" => Files!TypeOK
    /\ part = "processes" => Processes!TypeOK
    /\ part = "stream" => Stream!TypeOK
    /\ part = "history" => History!TypeOK
    /\ part = "compaction" => Compacting!TypeOK
    /\ part = "source" => Source!TypeOK
    /\ part = "actions" => Executor!TypeOK
    /\ part = "host" => Host!TypeOK
    /\ part = "services" => Services!TypeOK
    /\ part = "order" => Order!TypeOK
    /\ part = "routes" => Routes!TypeOK
    /\ part = "resources" => Local!TypeOK

\* The adapter of a terminal serves the provider and the model it shows, settings keep what each user chose
\* last, and the default is listed. A login exchanges only a code of its own, its port is free afterwards, and
\* the stored token is the one the issuer accepts, unless two refreshes overlap or a login ends late.
ProvidersServe ==
    /\ part = "choice" => Choice!RuntimeServesPair /\ Choice!DefaultIsListed /\ Choice!ChoicesAreKept /\ Choice!PairIsListedElse
    /\ part = "callback" => Login({}, {})!CodeIsOwn /\ Login({}, {})!PortIsReleased /\ Login({}, {})!StoredIsAccepted
    /\ part = "device" => Login({vC, vD}, Logins)!CodeIsOwn /\ Login({vC, vD}, Logins)!PortIsReleased
                           /\ Login({vC, vD}, Logins)!StoredIsAccepted

\* Following the offsets that read offers shows every line of a file; the end of an output is shown; an edit
\* changes what it names and nothing else, in chunks byte for byte, in memory up to the ends of lines, which all
\* become LF there (see EndingsAreRestored); without CR both make the same file.
TextIsExact ==
    /\ part = "text" => Text!ReadsEverything /\ Text!ShowsTheEnd /\ Text!EditsAreExact /\ Text!StreamAgrees

\* Calls on one file are serial, although threads outlive their calls, and no copy is left beside it. The limit
\* of processes is kept and returned; a process group is gone when its call was stopped, or the leader alone, when
\* the call was cancelled while the process was created; and an answer is what became of the process.
ToolsLeaveNothing ==
    /\ part = "files" => Files!EditsAreSerial /\ Files!OneAtWork /\ Files!NoCopyIsLeft
    /\ part = "processes" => Processes!LimitIsKept /\ Processes!GroupIsGone /\ Processes!AnswersAreTrue

\* The message at the end of a stream holds the texts and calls that were handed to the agent, each call whole
\* and under its own name, over all retries. Sent back to any provider, every result follows its call and no call
\* with a name is lost; identifiers stay apart for all but codex. What a compaction keeps begins at a message of the
\* user and fits, and the text that is summarized shows both ends of what it leaves out.
ConversationIsWhole ==
    /\ part = "stream" => Stream!StreamIsMessage /\ Stream!CallsAreTheirs /\ Stream!CodexCallsAreWhole
    /\ part = "history" => History!PairsAreWhole /\ History!NoCallIsLost /\ History!IdsStayApart
    /\ part = "source" => Source!KeptIsContext /\ Source!SourceKeepsEnds /\ Source!BranchIsMarked

\* What a compaction takes out of the context is in its summary or its native state, at every place of the
\* session's tree, and a request holds it, unless the user switched away from native state, or the provider object
\* could not be refreshed for the place or the model the session moved to.
NothingForgotten == part = "compaction" => Compacting!NothingForgotten /\ Compacting!RequestsAreWhole

\* The result of an action is that of its own payload; one key works once while it is remembered; who waits
\* for another call's result gets it, unless that call was cancelled before its task began.
ActionsAnswer ==
    /\ part = "actions" => Executor!ResultIsOwn /\ Executor!KeyWorksOnce /\ Executor!WaitersAreServed
                           /\ Executor!LinesAreServed

\* A deactivated or failed extension leaves no contribution and no listener, and the tables of the registry
\* agree; after its disposal it has no asset and no task, unless it was started or cancelled meanwhile.
ExtensionsLeaveNothing ==
    /\ part = "host" => Host!NothingIsLeft /\ Host!TablesAgree
    /\ part = "services" => Services!DisposedIsEmpty /\ Services!ClosedIsDisposed

\* Only trusted extensions run, as many as their dependencies allow, each after those it needs; their listeners are
\* called in order, and the bytes of their assets are counted exactly. A file is shown by the renderer with the
\* highest priority that answers, every annotation provider is heard, and a widget that is shown belongs to an
\* extension that runs. Default commands are answered by themselves, whatever local extensions and failed openings
\* leave in the registry; a session works with the extensions of one opening, every hook is heard, files are used
\* by precedence, and listeners are told of a start first and of an end last.
ExtensionsServe ==
    /\ part = "host" => Host!CalledInOrder
    /\ part = "services" => Services!TotalIsSum
    /\ part = "order" => Order!TrustIsKept /\ Order!PlanIsGreatest /\ Order!NeedsComeFirst
    /\ part = "routes" => Routes!BestIsShown /\ Routes!WidgetIsThere /\ Routes!NotesAreComplete /\ Routes!WidgetsHaveScripts
    /\ part = "resources" => /\ Local!CommandsAnswer /\ Local!SessionIsOneLoad /\ Local!HooksAreIsolated
                             /\ Local!PrecedenceIsKept /\ Local!LifecycleIsOrdered

-----------------------------------------------------------------------------
\* docs/compaction.md: "A model or endpoint mismatch fails closed instead of exposing the sentinel or silently
\* treating encrypted state as prose."
MismatchFailsClosed == part = "compaction" => Compacting!FailsClosed

\* create_edit_tool_definition in tools.py: file and edits "are normalized to LF for matching, then the original file's
\* dominant line ending is restored after replacement".
EndingsAreRestored == part = "text" => Text!EndingsSurvive

-----------------------------------------------------------------------------
(* The composition of the parts keeps the inductive invariant of each of    *)
(* them: a behaviour is one of the part that Init chose, whose slots no     *)
(* other part touches.                                                      *)

\* The inductive invariant of the part that Init chose.
PartKept ==
    /\ part = "media" => Media!IInv
    /\ part = "state" => State!IInv
    /\ part = "settings" => Settings!IInv
    /\ part = "files" => Files!IInv
    /\ part = "processes" => Processes!IInv
    /\ part = "compaction" => Compacting!IInv
    /\ part = "actions" => Executor!IInv
    /\ part = "app" => App!IInv
    /\ part = "host" => Host!IInv
    /\ part = "services" => Services!IInv
    /\ part = "choice" => Choice!IInv
    /\ part = "callback" => Login({}, {})!IInv
    /\ part = "device" => Login({vC, vD}, Logins)!IInv

LEMMA PartStarts == Init => PartKept
<1>. SUFFICES ASSUME Init PROVE PartKept
  OBVIOUS
<1>1. ASSUME part = "media" PROVE Media!IInv
  <2>1. Media!Init
    BY <1>1 DEF Init
  <2>. QED BY <2>1, MediaInitIsGood, PartsAssumption
<1>2. ASSUME part = "files" PROVE Files!IInv
  <2>1. Files!Init
    BY <1>2 DEF Init
  <2>. QED BY <2>1, FilesInitIsGood, PartsAssumption
<1>3. ASSUME part = "processes" PROVE Processes!IInv
  <2>1. Processes!Init
    BY <1>3 DEF Init
  <2>. QED BY <2>1, ProcessesInitIsGood, PartsAssumption
<1>4. ASSUME part = "actions" PROVE Executor!IInv
  <2>1. Executor!Init
    BY <1>4 DEF Init
  <2>. QED BY <2>1, ExecutorInitIsGood, PartsAssumption
<1>5. ASSUME part = "settings" PROVE Settings!IInv
  <2>1. Settings!Init
    BY <1>5 DEF Init
  <2>. QED BY <2>1, SettingsInitIsGood, PartsAssumption
<1>6. ASSUME part = "state" PROVE State!IInv
  <2>1. State!Init
    BY <1>6 DEF Init
  <2>. QED BY <2>1, StateInitIsGood, PartsAssumption
<1>7. ASSUME part = "compaction" PROVE Compacting!IInv
  <2>1. Compacting!Init
    BY <1>7 DEF Init
  <2>. QED BY <2>1, CompactingInitIsGood, PartsAssumption
<1>8. ASSUME part = "app" PROVE App!IInv
  <2>1. App!Init
    BY <1>8 DEF Init
  <2>. QED BY <2>1, AppInitIsGood, PartsAssumption
<1>9. ASSUME part = "host" PROVE Host!IInv
  <2>1. Host!Init
    BY <1>9 DEF Init
  <2>. QED BY <2>1, HostInitIsGood, PartsAssumption
<1>10. ASSUME part = "services" PROVE Services!IInv
  <2>1. Services!Init
    BY <1>10 DEF Init
  <2>. QED BY <2>1, ServicesInitIsGood, PartsAssumption
<1>11. ASSUME part = "choice" PROVE Choice!IInv
  <2>1. Choice!Init
    BY <1>11 DEF Init
  <2>. QED BY <2>1, Choice!InitIsGood, PartsAssumption
<1>12. ASSUME part = "callback" PROVE Login({}, {})!IInv
  <2>1. Login({}, {})!Init
    BY <1>12 DEF Init
  <2>. QED BY <2>1, LoginInitIsGood, PartsAssumption
<1>13. ASSUME part = "device" PROVE Login({vC, vD}, Logins)!IInv
  <2>1. Login({vC, vD}, Logins)!Init
    BY <1>13 DEF Init
  <2>. QED BY <2>1, LoginInitIsGood, PartsAssumption
<1>. QED BY <1>1, <1>2, <1>3, <1>4, <1>5, <1>6, <1>7, <1>8, <1>9, <1>10, <1>11, <1>12, <1>13 DEF PartKept

\* A step is a step of the chosen part, which stays the chosen one.
LEMMA PartMoves ==
    ASSUME [Next]_slots
    PROVE  /\ part' = part
           /\ part = "media" => [Media!Next]_(Media!vars)
           /\ part = "state" => [State!Next]_(State!vars)
           /\ part = "settings" => [Settings!Next]_(Settings!vars)
           /\ part = "files" => [Files!Next]_(Files!vars)
           /\ part = "processes" => [Processes!Next]_(Processes!vars)
           /\ part = "compaction" => [Compacting!Next]_(Compacting!vars)
           /\ part = "actions" => [Executor!Next]_(Executor!vars)
           /\ part = "app" => [App!Next]_(App!vars)
           /\ part = "host" => [Host!Next]_(Host!vars)
           /\ part = "services" => [Services!Next]_(Services!vars)
           /\ part = "choice" => [Choice!Next]_(Choice!vars)
           /\ part = "callback" => [Login({}, {})!Next]_(Login({}, {})!vars)
           /\ part = "device" => [Login({vC, vD}, Logins)!Next]_(Login({vC, vD}, Logins)!vars)
<1>1. CASE Next
  BY <1>1 DEF Next
<1>2. CASE UNCHANGED slots
  BY <1>2 DEF slots, Media!vars, State!vars, Settings!vars, Files!vars, Processes!vars, Compacting!vars, Executor!vars,
    App!vars, Host!vars, Services!vars, Choice!vars, Login!vars
<1>. QED BY <1>1, <1>2

LEMMA PartStays == ASSUME PartKept, [Next]_slots PROVE PartKept'
<1>1. part' = part
  BY PartMoves
<1>2. ASSUME part = "media" PROVE Media!IInv'
  BY <1>2, PartMoves, MediaStepKeeps, PartsAssumption DEF PartKept
<1>3. ASSUME part = "files" PROVE Files!IInv'
  BY <1>3, PartMoves, FilesStepKeeps, PartsAssumption DEF PartKept
<1>4. ASSUME part = "processes" PROVE Processes!IInv'
  BY <1>4, PartMoves, ProcessesStepKeeps, PartsAssumption DEF PartKept
<1>5. ASSUME part = "actions" PROVE Executor!IInv'
  BY <1>5, PartMoves, ExecutorStepKeeps, PartsAssumption DEF PartKept
<1>6. ASSUME part = "settings" PROVE Settings!IInv'
  BY <1>6, PartMoves, SettingsStepKeeps, PartsAssumption DEF PartKept
<1>7. ASSUME part = "state" PROVE State!IInv'
  BY <1>7, PartMoves, StateStepKeeps, PartsAssumption DEF PartKept
<1>8. ASSUME part = "compaction" PROVE Compacting!IInv'
  BY <1>8, PartMoves, CompactingStepKeeps, PartsAssumption DEF PartKept
<1>9. ASSUME part = "app" PROVE App!IInv'
  BY <1>9, PartMoves, AppStepKeeps, PartsAssumption DEF PartKept
<1>10. ASSUME part = "host" PROVE Host!IInv'
  BY <1>10, PartMoves, HostStepKeeps, PartsAssumption DEF PartKept
<1>11. ASSUME part = "services" PROVE Services!IInv'
  BY <1>11, PartMoves, ServicesStepKeeps, PartsAssumption DEF PartKept
<1>12. ASSUME part = "choice" PROVE Choice!IInv'
  BY <1>12, PartMoves, Choice!StepKeeps, PartsAssumption DEF PartKept
<1>13. ASSUME part = "callback" PROVE Login({}, {})!IInv'
  <2>1. Login({}, {})!IInv /\ Login({}, {})!OAuthAssumption /\ [Login({}, {})!Next]_(Login({}, {})!vars)
    BY <1>13, PartMoves, PartsAssumption DEF PartKept
  <2>. QED BY <2>1, LoginStepKeeps
<1>14. ASSUME part = "device" PROVE Login({vC, vD}, Logins)!IInv'
  <2>1. /\ Login({vC, vD}, Logins)!IInv /\ Login({vC, vD}, Logins)!OAuthAssumption
        /\ [Login({vC, vD}, Logins)!Next]_(Login({vC, vD}, Logins)!vars)
    BY <1>14, PartMoves, PartsAssumption DEF PartKept
  <2>. QED BY <2>1, LoginStepKeeps
<1>. QED BY <1>1, <1>2, <1>3, <1>4, <1>5, <1>6, <1>7, <1>8, <1>9, <1>10, <1>11, <1>12, <1>13, <1>14 DEF PartKept

LEMMA PartAlways == Spec => []PartKept
  BY PartStarts, PartStays, PTL DEF Spec, slots

\* A live media item has its blobs, an imported item stays in its session, what a session refers to is seen
\* there, and the quota is kept: however uploads, deletions, the import and its rollback meet. A stored value of
\* an extension is replaced only by a client that has seen it, unless its row was made anew.
THEOREM StoredStaysKept == Spec => []StoredIsKept
<1>1. PartKept => StoredIsKept
  BY DEF PartKept, StoredIsKept, Media!IInv, State!IInv
<1>. QED BY <1>1, PartAlways, PTL

\* The agent in the pool (unless that takes no work, after a removal that failed), the row of the session and its
\* active path name one model, and usage is recorded under the model that answered, except where a change overtakes
\* a compaction or a branch, or comes late.
THEOREM SettingsAlwaysAgree == Spec => []SettingsAgree
<1>1. PartKept => SettingsAgree
  BY DEF PartKept, SettingsAgree, Settings!IInv
<1>. QED BY <1>1, PartAlways, PTL

\* Edits of one file are serial although threads outlive their calls, and their copies go with them; the limit
\* of processes is kept; a group is gone when its call was stopped, or the leader alone, when the call was cancelled
\* while the process was created; and an answer is what became of the process.
THEOREM ToolsLeaveNothingBehind == Spec => []ToolsLeaveNothing
<1>1. PartKept => ToolsLeaveNothing
  BY FilesGoodIsSerial DEF PartKept, ToolsLeaveNothing, Processes!IInv
<1>. QED BY <1>1, PartAlways, PTL

\* No turn is lost by compactions, local or native, at any place of a session's tree, and unless the user switched
\* away from native state, or the provider object could not be refreshed where the session moved, a request is
\* refused or holds every turn of its branch, and no sentinel.
THEOREM CompactionForgetsNothing == Spec => []NothingForgotten
<1>1. PartKept => NothingForgotten
  BY DEF PartKept, NothingForgotten, Compacting!IInv
<1>. QED BY <1>1, PartAlways, PTL

\* The result of an action is that of its own payload, a key works once while it is remembered, and whoever
\* waits for a result or for a place of the action is served.
THEOREM ActionsAlwaysAnswer == Spec => []ActionsAnswer
<1>1. PartKept => ActionsAnswer
  BY ExecutorGoodIsOwn, PartsAssumption DEF PartKept, ActionsAnswer
<1>. QED BY <1>1, PartAlways, PTL

\* A compaction of the terminal runs alone, what it shows as running is a run that has not ended, a prompt is run in
\* the session it was typed in, and the messages on the screen are those of the session: however workers,
\* cancellations, screens and changes of session meet, but for the exceptions the properties name, as a run of the
\* handler that raises.
THEOREM TerminalStaysTrue == Spec => []TerminalIsTrue
<1>1. PartKept => TerminalIsTrue
  BY DEF PartKept, TerminalIsTrue, App!IInv
<1>. QED BY <1>1, PartAlways, PTL

\* Nothing is left in the registry of an extension that was deactivated or failed, its tables agree, and after the
\* disposal of its services an extension has no asset and no task, but for what was begun or cancelled meanwhile.
THEOREM ExtensionsLeaveNothingBehind == Spec => []ExtensionsLeaveNothing
<1>1. PartKept => ExtensionsLeaveNothing
  BY DEF PartKept, ExtensionsLeaveNothing, Host!IInv, Services!IInv
<1>. QED BY <1>1, PartAlways, PTL

\* A terminal's adapter serves the pair it shows, the file keeps what was chosen last and a listed default; a login
\* exchanges a code of its own and frees its port, and the stored token is the one the issuer accepts: whatever
\* terminals, discoveries, logins, refreshes and logouts do between each other's steps, but for the named exceptions.
THEOREM ProvidersAlwaysServe == Spec => []ProvidersServe
<1>1. PartKept => ProvidersServe
  BY LoginGoodIsAccepted DEF PartKept, ProvidersServe, Choice!IInv, Login!IInv
<1>. QED BY <1>1, PartAlways, PTL
=============================================================================
