--------------------------- MODULE LocalResources ---------------------------
(***************************************************************************)
(* What a session of the terminal takes from files: Python extensions,     *)
(* whose setup(tau) registers tools, commands, guidelines and hooks, and   *)
(* skills, prompt templates and context files.  All are read when a        *)
(* session is opened; reload() reads all but the extensions anew, and      *)
(* resume() and new_session() open a replacement that takes over the       *)
(* registry of commands.                                                   *)
(***************************************************************************)
EXTENDS Integers, Sequences, FiniteSets, SequencesExt

CONSTANTS
    Disks,     \* what the directories of extensions may hold: by place in the order of loading, a setup or None
    Late,      \* what an extension may register later, from one of its hooks
    Defaults,  \* the commands of create_default_command_registry
    Builtin,   \* the names of the tools of the agent, in order
    Shelves,   \* what the directories of skills, of templates and the paths of context files may hold
    Inputs,    \* what a user types: [form |-> "plain" | "slash" | "skill", name |-> ...]
    MaxLoads,  \* bound on the openings
    MaxEdits,  \* bound on changes of the files and late registrations
    None

VARIABLES
    disk,      \* the extensions' files
    shelf,     \* the other files
    registry,  \* the CommandRegistry that sessions hand on: commands, aliases, and whether the last call raised
    session,   \* the session in use, or None
    pending,   \* the replacement that load() has built and resume() has not taken over, or None
    loads,     \* number of openings
    told,      \* per opening: what the listeners of its extensions were told, repeated events left out
    last,      \* what became of the last input or call
    edits      \* number of changes

vars == <<disk, shelf, registry, session, pending, loads, told, last, edits>>

Has(list, name) == \E k \in DOMAIN list : list[k].name = name

-----------------------------------------------------------------------------
(* The registrations of an extension.  A name is the one that is left of it after stripping, None if none is. *)
NoRun == [tools |-> <<>>, commands |-> <<>>, guidelines |-> <<>>, hooks |-> <<>>, loaded |-> {}, failed |-> {}]

AddTool(run, p, step) ==
    IF Has(run.tools, step.name) THEN run ELSE [run EXCEPT !.tools = Append(@, [name |-> step.name, at |-> p])]

AddCommand(run, p, step) ==
    IF step.name = None \/ Has(run.commands, step.name) THEN run
    ELSE [run EXCEPT !.commands = Append(@, [name |-> step.name, aliases |-> step.aliases, at |-> p])]

AddHook(run, p, step) == [run EXCEPT !.hooks = Append(@, [kind |-> step.kind, does |-> step.does, at |-> p])]

Registered(run, p, step) ==
    CASE step.kind = "tool" -> AddTool(run, p, step)
      [] step.kind = "command" -> AddCommand(run, p, step)
      [] step.kind = "guideline" -> [run EXCEPT !.guidelines = Append(@, p)]
      [] OTHER -> AddHook(run, p, step)

Raises(setup) == \E k \in DOMAIN setup : setup[k].kind = "raise"
UntilRaise(setup) ==
    IF Raises(setup) THEN SubSeq(setup, 1, SelectInSeq(setup, LAMBDA step : step.kind = "raise") - 1) ELSE setup

\* A setup that raises leaves what it had registered, and a diagnostic.
LoadFile(run, p) ==
    IF disk[p] = None THEN run
    ELSE LET after == FoldLeft(LAMBDA r, step : Registered(r, p, step), run, UntilRaise(disk[p]))
         IN  IF Raises(disk[p]) THEN [after EXCEPT !.failed = @ \cup {p}] ELSE [after EXCEPT !.loaded = @ \cup {p}]

\* The directories of the user come before those of the project, and the files of one are sorted.
Files == [p \in DOMAIN disk |-> p]
LoadExtensions == FoldLeft(LoadFile, NoRun, Files)

HooksOf(run, kind) == SelectSeq(run.hooks, LAMBDA hook : hook.kind = kind)

\* Each hook gets what the one before it returned; what a hook raises is recorded and the next one is called.
Through(run, kind) ==
    FoldLeft(LAMBDA text, hook : IF hook.does = "acts" THEN Append(text, hook.at) ELSE text, <<>>, HooksOf(run, kind))

\* The first handler that takes a key ends the round.
Intercepted(run) ==
    LET takers == SelectSeq(HooksOf(run, "key"), LAMBDA hook : hook.does = "acts")
    IN  IF takers = <<>> THEN None ELSE Head(takers).at

-----------------------------------------------------------------------------
(* The registry of commands. *)
\* Mutant: an alias is compared with aliases only.
TakenAlias(reg, name) == name \in {a.alias : a \in reg.aliases}
Taken(reg, name) == name \in {c.name : c \in reg.commands} \cup {a.alias : a \in reg.aliases}

AddAlias(reg, pair) ==
    IF ~reg.ok \/ Taken(reg, pair.alias) THEN [reg EXCEPT !.ok = FALSE] ELSE [reg EXCEPT !.aliases = @ \cup {pair}]

\* A name is only compared with names, an alias also with aliases, and the command stands before its aliases do.
Register(reg, command) ==
    IF ~reg.ok \/ \E c \in reg.commands : c.name = command.name THEN [reg EXCEPT !.ok = FALSE]
    ELSE FoldLeft(AddAlias,
                  [reg EXCEPT !.commands = @ \cup {[name |-> command.name, by |-> command.by]}],
                  [k \in DOMAIN command.aliases |-> [alias |-> command.aliases[k], name |-> command.name]])

DefaultRegistry ==
    FoldLeft(Register, [commands |-> {}, aliases |-> {}, ok |-> TRUE],
             [k \in DOMAIN Defaults |-> Defaults[k] @@ [by |-> 0]])

WithCommands(reg, run, n) ==
    FoldLeft(Register, [reg EXCEPT !.ok = TRUE], [k \in DOMAIN run.commands |-> run.commands[k] @@ [by |-> n]])

\* The opening whose extensions answer a name, 0 for a default command; an alias goes before a name.
Answers(reg, name) ==
    LET target == IF \E a \in reg.aliases : a.alias = name
                  THEN (CHOOSE a \in reg.aliases : a.alias = name).name ELSE name
    IN  {c.by : c \in {d \in reg.commands : d.name = target}}

-----------------------------------------------------------------------------
(* Skills, templates and context files.  An entry is [name, state |-> "good" | "unread" | "garbled"]. *)
Unread(entry) == entry.state # "good"

\* Of entries with one name in a directory only the first is looked at, readable or not.
Scanned(dir, d) ==
    FoldLeft(LAMBDA s, k :
                 IF dir[k].name \in s.seen THEN [s EXCEPT !.notes = @ \cup {[what |-> "duplicate", at |-> <<d, k>>]}]
                 ELSE IF Unread(dir[k])
                 THEN [s EXCEPT !.seen = @ \cup {dir[k].name}, !.notes = @ \cup {[what |-> "unread", at |-> <<d, k>>]}]
                 ELSE [s EXCEPT !.seen = @ \cup {dir[k].name}, !.items = @ \cup {[name |-> dir[k].name, at |-> <<d, k>>]}],
             [seen |-> {}, items |-> {}, notes |-> {}], [k \in DOMAIN dir |-> k])

\* Directories come in increasing precedence; what overrides another file is noted.
Found(dirs) ==
    FoldLeft(LAMBDA all, d :
                 LET new == Scanned(dirs[d], d)
                     over == {i \in new.items : \E j \in all.items : j.name = i.name}
                 IN  [items |-> {j \in all.items : \A i \in new.items : i.name # j.name} \cup new.items,
                      notes |-> all.notes \cup new.notes \cup {[what |-> "overrides", at |-> i.at] : i \in over}],
             [items |-> {}, notes |-> {}], [d \in DOMAIN dirs |-> d])

\* A context file that cannot be read is noted, one that is not UTF-8 is not caught.
ContextRaises == \E k \in DOMAIN shelf.context : shelf.context[k].state = "garbled"
Context == SelectSeq(shelf.context, LAMBDA entry : entry.state = "good")

Skills == Found(shelf.skill)
Templates == Found(shelf.prompt)
Resources == [skill |-> Skills, prompt |-> Templates, context |-> Context]

\* What of the resources the system prompt shows.
Shown(resources) == <<resources.skill.items, resources.context>>
Named(resources, kind, name) == \E i \in resources[kind].items : i.name = name

-----------------------------------------------------------------------------
NoAnswer == [how |-> None, load |-> 0, input |-> None, by |-> {}, before |-> <<>>, after |-> <<>>]
Answered(how, input) == [NoAnswer EXCEPT !.how = how, !.load = session.load, !.input = input]

Init ==
    /\ disk \in Disks /\ shelf \in Shelves
    /\ registry = DefaultRegistry
    /\ session = None /\ pending = None
    /\ loads = 0 /\ told = [n \in 1..MaxLoads |-> <<>>]
    /\ last = NoAnswer /\ edits = 0

Open == session # None /\ session.open
Tell(n, what) == IF Last(told[n]) = what THEN told ELSE [told EXCEPT ![n] = Append(@, what)]

\* The files change.
Edit ==
    /\ edits < MaxEdits /\ edits' = edits + 1
    /\ \/ disk' \in Disks \ {disk} /\ UNCHANGED shelf
       \/ shelf' \in Shelves \ {shelf} /\ UNCHANGED disk
    /\ UNCHANGED <<registry, session, pending, loads, told, last>>

Loading == loads < MaxLoads /\ pending = None /\ (session # None => session.open) /\ loads' = loads + 1
\* A process begins with the default commands; a replacement gets the registry of the session it replaces.
Given == IF session = None THEN DefaultRegistry ELSE registry

\* load() raises when a command's name or alias is taken, or when a context file is not UTF-8.
LoadRaises ==
    /\ Loading
    /\ registry' = WithCommands(Given, LoadExtensions, loads')
    /\ ~registry'.ok \/ ContextRaises
    /\ UNCHANGED <<disk, shelf, session, pending, told, last, edits>>

\* Tools are wrapped if a hook for calls or results is there, and the guidelines go into the prompt.
Load ==
    /\ Loading
    /\ LET run == LoadExtensions IN
       /\ registry' = WithCommands(Given, run, loads')
       /\ registry'.ok /\ ~ContextRaises
       /\ pending' = [load |-> loads', open |-> TRUE, run |-> run,
                      tools |-> [k \in DOMAIN Builtin |-> [name |-> Builtin[k], at |-> 0]] \o run.tools,
                      wrapped |-> HooksOf(run, "call") \o HooksOf(run, "result") # <<>>,
                      resources |-> Resources, guidelines |-> run.guidelines, rebuilt |-> FALSE, late |-> 0]
    /\ told' = [told EXCEPT ![loads'] = <<"startup">>]
    /\ UNCHANGED <<disk, shelf, session, last, edits>>

\* The session takes over its replacement, or what follows in load() raises.
Take == pending # None /\ (session # None => session.open) /\ session' = pending /\ pending' = None
        /\ UNCHANGED <<disk, shelf, registry, loads, told, last, edits>>
Drop == pending # None /\ pending' = None /\ UNCHANGED <<disk, shelf, registry, session, loads, told, last, edits>>

\* reload(): the prompt is only rebuilt when what it shows has changed, and then without the extensions' guidelines.
Reload ==
    /\ Open /\ ~ContextRaises
    /\ LET changed == Shown(Resources) # Shown(session.resources) IN
       session' = [session EXCEPT !.resources = Resources, !.rebuilt = @ \/ changed,
                                  !.guidelines = IF changed THEN <<>> ELSE @]
    /\ UNCHANGED <<disk, shelf, registry, pending, loads, told, last, edits>>

\* A template goes before a command of its name.
IsTemplate(i) == i.form = "slash" /\ Named(session.resources, "prompt", i.name)
IsCommand(i) == i.form = "slash" /\ ~IsTemplate(i) /\ Answers(registry, i.name) # {}

Command(i) ==
    /\ Open /\ IsCommand(i)
    /\ last' = [Answered("command", i) EXCEPT !.by = Answers(registry, i.name)]
    /\ UNCHANGED <<disk, shelf, registry, session, pending, loads, told, edits>>

Expansion(i) ==
    IF IsTemplate(i) THEN "template"
    ELSE IF i.form # "skill" THEN "plain"
    ELSE IF Named(session.resources, "skill", i.name) THEN "skill" ELSE "unknown"

\* A prompt passes the input hooks and is expanded; a skill that is unknown ends it, else the agent's events follow.
Prompt(i) ==
    /\ Open /\ ~IsCommand(i)
    /\ last' = [Answered(Expansion(i), i) EXCEPT !.before = Through(session.run, "input")]
    /\ told' = IF Expansion(i) = "unknown" THEN told ELSE Tell(session.load, "event")
    /\ UNCHANGED <<disk, shelf, registry, session, pending, loads, edits>>

\* The agent calls the last tool of a name; only a wrapped tool knows the hooks.
CallTool(name) ==
    /\ Open /\ Has(session.tools, name)
    /\ last' = [Answered("tool", name) EXCEPT
                    !.by = {session.tools[SelectLastInSeq(session.tools, LAMBDA tool : tool.name = name)].at},
                    !.before = IF session.wrapped THEN Through(session.run, "call") ELSE <<>>,
                    !.after = IF session.wrapped THEN Through(session.run, "result") ELSE <<>>]
    /\ UNCHANGED <<disk, shelf, registry, session, pending, loads, told, edits>>

Press ==
    /\ Open
    /\ last' = [Answered("key", None) EXCEPT !.by = {Intercepted(session.run)}]
    /\ UNCHANGED <<disk, shelf, registry, session, pending, loads, told, edits>>

\* An extension registers something while the session runs.
RegisterLate(p, step) ==
    /\ Open /\ p \in session.run.loaded /\ edits < MaxEdits
    /\ session' = [session EXCEPT !.run = Registered(@, p, step), !.late = @ + 1] /\ edits' = edits + 1
    /\ UNCHANGED <<disk, shelf, registry, pending, loads, told, last>>

Close ==
    /\ Open
    /\ session' = [session EXCEPT !.open = FALSE] /\ told' = Tell(session.load, "shutdown")
    /\ UNCHANGED <<disk, shelf, registry, pending, loads, last, edits>>

Next ==
    \/ Edit \/ LoadRaises \/ Load \/ Take \/ Drop \/ Reload \/ Press \/ Close
    \/ \E i \in Inputs : Command(i) \/ Prompt(i)
    \/ Open /\ \E k \in DOMAIN session.tools : CallTool(session.tools[k].name)
    \/ \E p \in DOMAIN disk, step \in Late : RegisterLate(p, step)

Spec == Init /\ [][Next]_vars

-----------------------------------------------------------------------------
TypeOK ==
    /\ disk \in Disks /\ shelf \in Shelves
    /\ registry.ok \in BOOLEAN
    /\ \A c \in registry.commands : c.by \in 0..loads
    /\ session # None => session.load \in 1..loads /\ session.run.loaded \cap session.run.failed = {}
    /\ pending # None => pending.load = loads
    /\ loads \in 0..MaxLoads /\ edits \in 0..MaxEdits

\* The names of the default commands are answered by them, whatever the extensions of all openings register and
\* when an opening raises halfway too, so that none is ever sent to the agent; a command of the session's
\* extensions is answered by it, unless its name is also an alias (a name is only compared with names).
CommandsAnswer ==
    session # None =>
        LET defaults == {Defaults[k].name : k \in DOMAIN Defaults} IN
        /\ \A name \in defaults : Answers(registry, name) = {0}
        /\ \A c \in registry.commands :
               c.by = session.load /\ (\A a \in registry.aliases : a.alias # c.name) => Answers(registry, c.name) = {c.by}
        /\ last.how = "plain" /\ last.input.form = "slash" => last.input.name \notin defaults

\* What the setups of one opening registered is there as a whole and apart from other openings: the tools of the
\* agent are its own and then those of the extensions, each once; the commands are in the registry, and the
\* guidelines in the prompt until a reload rebuilds it. Only what is registered later is missing there.
SessionIsOneLoad ==
    session # None =>
        LET run == session.run
            given == SubSeq(session.tools, Len(Builtin) + 1, Len(session.tools))
            listed == {k \in DOMAIN run.commands : [name |-> run.commands[k].name, by |-> session.load] \in registry.commands}
        IN  /\ IsPrefix(given, run.tools) /\ \A j, k \in DOMAIN given : given[j].name = given[k].name => j = k
            /\ listed = 1..Cardinality(listed)
            /\ Len(given) + Cardinality(listed) + session.late >= Len(run.tools) + Len(run.commands)
            /\ ~session.rebuilt => /\ IsPrefix(session.guidelines, run.guidelines)
                                  /\ Len(session.guidelines) + session.late >= Len(run.guidelines)

\* Hooks are isolated: an input, and a call of a tool, has passed every hook that acts and that a setup of its
\* session registered, whichever others raise; one that is registered later is passed only where the session asks
\* for hooks anew, never by a tool that was not wrapped when the session was opened.
HooksAreIsolated ==
    session # None /\ last.load = session.load =>
        LET acting(kind) == {k \in DOMAIN session.run.hooks : session.run.hooks[k].kind = kind /\ session.run.hooks[k].does = "acts"}
            Passed(marks, kind) ==
                /\ \A i \in DOMAIN marks : \E k \in acting(kind) : session.run.hooks[k].at = marks[i]
                /\ Cardinality(acting(kind)) - session.late <= Len(marks) /\ Len(marks) <= Cardinality(acting(kind))
        IN  /\ last.how \in {"plain", "template", "skill", "unknown"} => Passed(last.before, "input")
            /\ last.how = "tool" => Passed(last.before, "call") /\ Passed(last.after, "result")
            /\ last.how = "tool" /\ ~session.wrapped => last.before = <<>> /\ last.after = <<>>

\* Of files with one name the one is used that is the first of its name in its directory and can be read, in the
\* directory with the highest precedence that has such a file. A file that is not used has a diagnostic, or one
\* that overrides it has.
PrecedenceIsKept ==
    \A kind \in {"skill", "prompt"} :
        LET dirs == shelf[kind]
            found == Found(dirs)
            Usable(d, k) == ~Unread(dirs[d][k]) /\ \A j \in 1..(k - 1) : dirs[d][j].name # dirs[d][k].name
        IN  \A d \in DOMAIN dirs : \A k \in DOMAIN dirs[d] :
                LET above == {e \in (d + 1)..Len(dirs) :
                                  \E j \in DOMAIN dirs[e] : dirs[e][j].name = dirs[d][k].name /\ Usable(e, j)}
                IN  /\ ([name |-> dirs[d][k].name, at |-> <<d, k>>] \in found.items) <=> (Usable(d, k) /\ above = {})
                    /\ ~Usable(d, k) => \E note \in found.notes : note.at = <<d, k>> /\ note.what # "overrides"
                    /\ Usable(d, k) /\ above # {} =>
                           \E note \in found.notes : note.what = "overrides" /\ note.at[1] \in above

\* The listeners of an opening are told of its start first and once, of its end last, and of the end only if it
\* became the session: who is replaced is not told.
LifecycleIsOrdered ==
    \A n \in 1..MaxLoads :
        /\ told[n] # <<>> => Head(told[n]) = "startup"
        /\ \A k \in DOMAIN told[n] :
               /\ told[n][k] = "startup" => k = 1
               /\ told[n][k] = "shutdown" => k = Len(told[n]) /\ session.load = n /\ ~session.open

\* docs/extensions.md:310: "failures become diagnostics instead of aborting session start-up". Does not hold: a name
\* or alias that is taken raises out of load(), and resume() and new_session() hand on a registry that already
\* holds the names of the extensions that are loaded again.
StartIsNotAborted == registry.ok

\* What an extension put into the prompt stays in it. Does not hold: reload() rebuilds the prompt without it.
GuidelinesStay == session # None => Len(session.guidelines) + session.late >= Len(session.run.guidelines)
=============================================================================
