---------------------------- MODULE ProviderChoice ----------------------------
(***************************************************************************)
(* Which provider and model a coding session uses: the settings and the    *)
(* credentials that running terminals share as files (provider_config.py,  *)
(* credentials.py), and each terminal's copy of the settings, its session  *)
(* and its runtime provider (session.py, provider_runtime.py, tui/app.py). *)
(***************************************************************************)
EXTENDS Naturals, Sequences, FiniteSets, FiniteSetsExt

CONSTANTS None, Apps, Sessions, Providers,
          Listed,       \* the catalog: provider -> its models
          First,        \* the provider that settings without a file prefer
          Lazy,         \* providers that look for their credential at each request
          Free,         \* providers with a key in the environment
          Levels,       \* <<provider, model>> -> thinking levels
          Kind,         \* <<provider, model>> -> adapter
          MaxChanges    \* bound: operations

VARIABLES
    file,     \* providers.json: [default, has, chosen, scoped], None without one
    keys,     \* credentials.json: providers with a credential
    app,      \* terminal -> None or [settings, name, model, level, bare, object, session]
    log,      \* session -> model and level of its entries
    record,   \* session -> provider and model of its index
    found,    \* terminal -> settings a discovery of models began with
    wanted,   \* observed: [default, scoped] that users chose last
    odd,      \* observed: "resumed", "overtaken", "stale", "unlisted"
    changes   \* operations so far

vars == <<file, keys, app, log, record, found, wanted, odd, changes>>

Models == UNION {Listed[p] : p \in Providers}
Pairs == {pair \in Providers \X Models : pair[2] \in Listed[pair[1]]}
DefaultModel(p) == CHOOSE m \in Listed[p] : TRUE

\* Settings know every provider of the catalog.
Settings == [default : Providers, has : {Providers}, chosen : [Providers -> Models], scoped : SUBSET Pairs]
AnyLevel == {None} \cup UNION {Levels[pair] : pair \in Pairs}
Objects == [name : Providers, kind : {Kind[pair] : pair \in Pairs} \cup {None}, level : AnyLevel]
Terminals ==
    [settings : Settings, name : Providers, model : Models, level : AnyLevel, bare : BOOLEAN,
     object : Objects \cup {None}, session : Sessions]
Entries == [model : Models, level : AnyLevel]

ProviderChoiceAssumption ==
    /\ First \in Providers /\ \A p \in Providers : Listed[p] # {}
    /\ None \notin Terminals /\ None \notin Settings /\ None \notin Objects /\ None \notin Entries
    /\ None \notin Providers \X Models

\* builtin_provider_configs, when there is no file
Builtin == [default |-> First, has |-> Providers, chosen |-> [p \in Providers |-> DefaultModel(p)], scoped |-> {}]

Init ==
    /\ file = None /\ keys = {} /\ changes = 0 /\ odd = {}
    /\ app = [a \in Apps |-> None] /\ found = [a \in Apps |-> None]
    /\ log = [s \in Sessions |-> None] /\ record = [s \in Sessions |-> None]
    /\ wanted = [default |-> None, scoped |-> {}]

-----------------------------------------------------------------------------
(* Settings and credentials *)

\* provider_has_usable_credentials
Usable(p, stored) == p \in stored \cup Free

\* load_provider_settings: a file is completed by what the catalog and the credentials know.
Load(f, stored) == IF f = None THEN Builtin ELSE [f EXCEPT !.has = @ \cup {p \in Providers : Usable(p, stored)}]

\* Mutant: what the terminal remembers is written.
ToWriteOwn(mine) == IF file # None /\ mine = None THEN Load(file, keys) ELSE IF mine = None THEN Builtin ELSE mine

\* _load_provider_settings_for_write: the latest file, what the terminal remembers without one
ToWrite(mine) == IF file # None THEN Load(file, keys) ELSE IF mine = None THEN Builtin ELSE mine

\* set_default_provider_model
WithDefault(s, p, m) == [s EXCEPT !.default = p, !.chosen[p] = m]

\* provider_default_thinking_level, normalised when the pair has none
DefaultLevel(p, m) == IF <<p, m>> \notin Pairs \/ Levels[<<p, m>>] = {} THEN None ELSE CHOOSE l \in Levels[<<p, m>>] : TRUE

\* _coerced_thinking_level
Coerced(p, m, level) ==
    IF <<p, m>> \notin Pairs \/ Levels[<<p, m>>] = {} \/ level \in Levels[<<p, m>>] THEN level ELSE DefaultLevel(p, m)

\* _sync_thinking_level_to_active_model
Synced(s, p, m, level) == IF p \in s.has THEN Coerced(p, m, level) ELSE level

\* create_model_provider, which raises without a credential unless it is looked for later
Creates(p) == p \in Lazy \/ Usable(p, keys)
Object(p, m, level) == [name |-> p, kind |-> IF <<p, m>> \in Pairs THEN Kind[<<p, m>>] ELSE None, level |-> level]

\* _refresh_runtime_provider: nothing to do before a first login
Refreshable(t) == t.bare \/ Creates(t.name)
Refreshed(t) == IF t.bare THEN t ELSE [t EXCEPT !.object = Object(t.name, t.model, t.level)]

Sets(a, t) == app' = [app EXCEPT ![a] = t]
Notes(what) == odd' = odd \cup what
Once == changes < MaxChanges /\ changes' = changes + 1

\* reload_provider_settings, which is undone when the provider cannot be created anew
Reloaded(t, loaded) == [t EXCEPT !.settings = loaded, !.level = Synced(loaded, t.name, t.model, t.level)]

-----------------------------------------------------------------------------
(* Choosing a model *)

\* _persist_default_model_choice, then the index of the session; a provider that neither the
\* file nor a credential knows any more is refused.
Persists(a, t) ==
    LET latest == ToWrite(t.settings)
        updated == WithDefault(latest, t.name, t.model)
    IN  IF t.name \in latest.has
        THEN /\ file' = updated /\ wanted' = [wanted EXCEPT !.default = <<t.name, t.model>>]
             /\ Sets(a, [t EXCEPT !.settings = updated, !.level = Synced(updated, t.name, t.model, t.level)])
             /\ record' = [record EXCEPT ![t.session] = <<t.name, t.model>>]
        ELSE Sets(a, t) /\ UNCHANGED <<file, wanted, record>>

\* Mutant: a model is set while the provider is the old one.
SetsKeep(t, m) == [t EXCEPT !.model = m, !.level = Synced(t.settings, t.name, m, t.level)]

\* set_model: the model changes, and then the provider is created anew.
SetsModel(t, m) == Refreshed([t EXCEPT !.model = m, !.level = Synced(t.settings, t.name, m, t.level)])

\* A model of the same provider, from a picker that was opened before; without a credential the
\* model is another one already when the provider is refused.
SetModel(a, m) ==
    LET t == app[a] IN
    /\ t # None /\ m \in Listed[t.name]
    /\ Once
    /\ IF Refreshable(t) THEN Persists(a, SetsModel(t, m)) /\ UNCHANGED odd
       ELSE /\ Sets(a, [SetsModel(t, m) EXCEPT !.object = t.object]) /\ Notes({"stale"})
            /\ UNCHANGED <<file, record, wanted>>
    /\ UNCHANGED <<keys, log, found>>

\* _model_command: the settings are loaded again; without a credential every model passes.
ModelCommand(a, m) ==
    LET t == app[a]
        loaded == Load(file, keys)
    IN  /\ t # None /\ Refreshable(t)
        /\ t.name \in loaded.has /\ Usable(t.name, keys) => m \in Listed[t.name]
        /\ Once
        /\ Persists(a, SetsModel(Reloaded(t, loaded), m))
        /\ odd' = IF m \in Listed[t.name] THEN odd ELSE odd \cup {"unlisted"}
        /\ UNCHANGED <<keys, log, found>>

\* _set_provider_model: the provider is created before anything changes.
Switched(t, p, m) ==
    LET level == Coerced(p, m, t.level) IN
    [t EXCEPT !.name = p, !.model = m, !.level = level, !.bare = FALSE, !.object = Object(p, m, level)]

\* set_model_choice from a picker or by cycling, of another provider
SetChoice(a, p, m) ==
    LET t == app[a] IN
    /\ t # None /\ p # t.name /\ p \in t.settings.has /\ <<p, m>> \in Pairs /\ Creates(p)
    /\ Once
    /\ Persists(a, Switched(t, p, m))
    /\ UNCHANGED <<keys, log, found, odd>>

\* toggle_saved_scoped_model
Toggle(a, p, m) ==
    LET t == app[a]
        latest == ToWrite(t.settings)
        change(set) == IF <<p, m>> \in set THEN set \ {<<p, m>>} ELSE set \cup {<<p, m>>}
    IN  /\ t # None /\ p \in t.settings.has /\ <<p, m>> \in Pairs /\ Usable(p, keys)
        /\ Once
        /\ IF p \in latest.has
           THEN LET updated == [latest EXCEPT !.scoped = change(@)] IN
                /\ file' = updated /\ wanted' = [wanted EXCEPT !.scoped = change(@)]
                /\ Sets(a, [t EXCEPT !.settings = updated, !.level = Synced(updated, t.name, t.model, t.level)])
           ELSE UNCHANGED <<file, app, wanted>>
        /\ UNCHANGED <<keys, log, record, found, odd>>

\* set_thinking_level: put back when the provider cannot be created; an entry of the session
SetLevel(a, level) ==
    LET t == app[a]
        changed == [t EXCEPT !.level = level]
    IN  /\ t # None /\ t.name \in t.settings.has /\ <<t.name, t.model>> \in Pairs
        /\ level \in Levels[<<t.name, t.model>>] \ {t.level}
        /\ Once
        /\ IF Refreshable(t) THEN Sets(a, Refreshed(changed)) /\ log' = [log EXCEPT ![t.session].level = level]
           ELSE UNCHANGED <<app, log>>
        /\ UNCHANGED <<file, keys, record, found, wanted, odd>>

-----------------------------------------------------------------------------
(* Login and logout *)

\* The credential and the provider are saved; then the session is switched to it.
Login(a, p) ==
    LET t == app[a]
        stored == keys \cup {p}
        saved == [Load(file, stored) EXCEPT !.has = @ \cup {p}]
        reloaded == Reloaded(t, Load(saved, stored))
    IN  /\ t # None
        /\ Once
        /\ keys' = stored /\ file' = saved
        /\ IF t.bare \/ t.name \in Lazy \/ Usable(t.name, stored)
           THEN Sets(a, Switched(Refreshed(reloaded), p, saved.chosen[p]))
                /\ record' = [record EXCEPT ![t.session] = <<p, saved.chosen[p]>>]
           ELSE UNCHANGED <<app, record>>
        /\ UNCHANGED <<log, found, wanted, odd>>

Logout(a, p) ==
    LET t == app[a]
        stored == keys \ {p}
    IN  /\ t # None /\ p \in keys
        /\ Once
        /\ keys' = stored
        /\ IF t.bare \/ t.name \in Lazy \/ Usable(t.name, stored)
           THEN Sets(a, Refreshed(Reloaded(t, Load(file, stored))))
           ELSE UNCHANGED app
        /\ UNCHANGED <<file, log, record, found, wanted, odd>>

\* ensure_dynamic_provider_models: what was loaded before the request is written after it.
DiscoverStarts(a) ==
    /\ app[a] # None /\ found[a] = None
    /\ Once
    /\ found' = [found EXCEPT ![a] = Load(file, keys)]
    /\ UNCHANGED <<file, keys, app, log, record, wanted, odd>>

DiscoverEnds(a) ==
    /\ found[a] # None
    /\ found' = [found EXCEPT ![a] = None]
    /\ \/ UNCHANGED <<file, odd>>
       \/ file' = found[a] /\ Notes(IF Load(file, keys) # found[a] THEN {"overtaken"} ELSE {})
    /\ UNCHANGED <<keys, app, log, record, wanted, changes>>

-----------------------------------------------------------------------------
(* Terminals and sessions *)

\* CodingSession.load: the model and the level of the entries come first; the provider is
\* created anew unless a login is required.
Opened(t, entries) ==
    LET model == entries.model
        level == Synced(t.settings, t.name, model, entries.level)
    IN  Refreshed([t EXCEPT !.model = model, !.level = level])

\* _resolve_tui_startup_selection without an explicit choice: the default if it is usable, else
\* one that is
Selections(s) ==
    LET pair(p) == <<p, s.chosen[p]>>
        usable == {p \in s.has : Usable(p, keys)}
    IN  IF s.default \in usable \/ usable = {} THEN {pair(s.default)} ELSE {pair(p) : p \in usable}

\* What a terminal that resumes a session selects: its index, if the settings know the provider
Resumes(s, set) == {IF record[s] # None /\ record[s][1] \in set.has THEN record[s] ELSE pair : pair \in Selections(set)}

\* The first entries of a session: its model, and the level that its provider prefers
FirstEntries(pair) == [model |-> pair[2], level |-> DefaultLevel(pair[1], pair[2])]

\* CodingSessionFactory.bind: without a credential a terminal gets a provider that asks for a login.
Bound(settings, pair, s) ==
    LET level == DefaultLevel(pair[1], pair[2])
        bare == ~Creates(pair[1])
    IN  [settings |-> settings, name |-> pair[1], model |-> pair[2], level |-> level, bare |-> bare,
         object |-> IF bare THEN None ELSE Object(pair[1], pair[2], level), session |-> s]

Enter(a, s, settings, pair, index) ==
    LET entries == IF log[s] = None THEN [FirstEntries(pair) EXCEPT !.model = index[2]] ELSE log[s]
    IN  /\ Sets(a, Opened(Bound(settings, pair, s), entries))
        /\ log' = [log EXCEPT ![s] = entries]
        /\ Notes(IF entries.model # index[2] THEN {"resumed"} ELSE {})

\* run_tui_app, with a new session or an old one
Start(a, s) ==
    LET settings == Load(file, keys) IN
    /\ app[a] = None /\ \A other \in Apps : app[other] # None => app[other].session # s
    /\ Once
    /\ \E pair \in IF record[s] = None THEN Selections(settings) ELSE Resumes(s, settings) :
           LET index == IF record[s] = None THEN pair ELSE record[s] IN
           /\ Enter(a, s, settings, pair, index)
           /\ record' = [record EXCEPT ![s] = index]
    /\ UNCHANGED <<file, keys, found, wanted>>

\* resume: the pair of the index must be listed, and the provider is created anew, or nothing
\* changes.
Resume(a, s) ==
    LET t == app[a] IN
    /\ t # None /\ t.session # s /\ record[s] # None /\ record[s][1] \in t.settings.has /\ record[s] \in Pairs
    /\ \A other \in Apps \ {a} : app[other] # None => app[other].session # s
    /\ Creates(record[s][1])
    /\ Once
    /\ Sets(a, Opened([t EXCEPT !.name = record[s][1], !.bare = FALSE, !.session = s], log[s]))
    /\ Notes(IF log[s].model # record[s][2] THEN {"resumed"} ELSE {})
    /\ UNCHANGED <<file, keys, log, record, found, wanted>>

\* new_session: the default of the settings the terminal remembers
New(a, s) ==
    LET t == app[a]
        p == t.settings.default
        m == t.settings.chosen[p]
        entries == [model |-> m, level |-> Coerced(p, m, t.level)]
    IN  /\ t # None /\ record[s] = None /\ Creates(p)
        /\ Once
        /\ Sets(a, Opened([t EXCEPT !.name = p, !.bare = FALSE, !.session = s], entries))
        /\ log' = [log EXCEPT ![s] = entries] /\ record' = [record EXCEPT ![s] = <<p, m>>]
        /\ UNCHANGED <<file, keys, found, wanted, odd>>

\* resolve_provider_selection: a provider and a model that are named, or the default of either
Asked(settings) == {pair \in Pairs : pair[1] \in settings.has} \cup {<<p, settings.chosen[p]>> : p \in settings.has}

\* tau -p, from its start to its end: a session of its own, which a terminal may resume
PrintMode(s) ==
    /\ record[s] = None /\ Once
    /\ \E pair \in Asked(Load(file, keys)) :
        /\ Creates(pair[1]) \* else it fails before anything is stored
        /\ record' = [record EXCEPT ![s] = pair] /\ log' = [log EXCEPT ![s] = FirstEntries(pair)]
    /\ UNCHANGED <<file, keys, app, found, wanted, odd>>

Quit(a) ==
    /\ app[a] # None
    /\ app' = [app EXCEPT ![a] = None] /\ found' = [found EXCEPT ![a] = None]
    /\ UNCHANGED <<file, keys, log, record, wanted, odd, changes>>

-----------------------------------------------------------------------------
Next ==
    \/ \E s \in Sessions : PrintMode(s)
    \/ \E a \in Apps :
        \/ \E m \in Models : SetModel(a, m) \/ ModelCommand(a, m)
        \/ \E p \in Providers, m \in Models : SetChoice(a, p, m) \/ Toggle(a, p, m)
        \/ \E p \in Providers : Login(a, p) \/ Logout(a, p)
        \/ \E level \in UNION {Levels[pair] : pair \in Pairs} : SetLevel(a, level)
        \/ \E s \in Sessions : Start(a, s) \/ Resume(a, s) \/ New(a, s)
        \/ DiscoverStarts(a) \/ DiscoverEnds(a) \/ Quit(a)

Spec == Init /\ [][Next]_vars

-----------------------------------------------------------------------------
\* The types of the variables.
TypeOK ==
    /\ keys \subseteq Providers /\ odd \subseteq {"resumed", "overtaken", "stale", "unlisted"}
    /\ file # None => file.has \subseteq Providers /\ file.scoped \subseteq Pairs

\* The runtime provider of a session is one for its provider, model and level, whatever was
\* chosen, resumed or logged out of on the way: unless a model was set without a credential.
RuntimeServesPair ==
    "stale" \notin odd =>
        \A a \in Apps : LET t == app[a] IN t # None /\ t.object # None =>
            t.object = Object(t.name, t.model, t.level)

\* The default of the file is a provider it has, with a model of that provider: what the next
\* terminal starts with.
DefaultIsListed ==
    file # None /\ "unlisted" \notin odd =>
        file.default \in file.has /\ file.chosen[file.default] \in Listed[file.default]

\* The file holds the default and the scoped models chosen last in any terminal, unless the
\* settings of a discovery overtook them.
ChoicesAreKept ==
    file # None /\ "overtaken" \notin odd =>
        /\ wanted.default # None => <<file.default, file.chosen[file.default]>> = wanted.default
        /\ wanted.scoped = file.scoped

\* "A resumed session restores ... model changes" (dev-notes/design/04-sessions.md:59), and its
\* model is one of its provider, unless one was named for a provider without a credential.
PairIsListed ==
    "unlisted" \notin odd => \A a \in Apps : app[a] # None => <<app[a].name, app[a].model>> \in Pairs

\* So it is while no session is resumed whose entries hold another model than its index.
PairIsListedElse == "resumed" \notin odd => PairIsListed

-----------------------------------------------------------------------------
(* The inductive invariant behind them *)

Shapes ==
    /\ file \in Settings \cup {None} /\ app \in [Apps -> Terminals \cup {None}] /\ found \in [Apps -> Settings \cup {None}]
    /\ log \in [Sessions -> Entries \cup {None}] /\ record \in [Sessions -> (Providers \X Models) \cup {None}]
    /\ wanted \in [default : (Providers \X Models) \cup {None}, scoped : SUBSET Pairs]

\* A session with an index has entries; that of a terminal has both.
SessionsAreKept ==
    /\ \A s \in Sessions : record[s] # None => log[s] # None
    /\ \A a \in Apps : app[a] # None => record[app[a].session] # None

\* A terminal is at a level that its model has; before its first login it has no provider.
Fits(t) == Coerced(t.name, t.model, t.level) = t.level /\ (t.bare => t.object = None)
TerminalsFit == \A a \in Apps : app[a] # None => Fits(app[a])

\* Before there is a file, nobody has chosen anything.
FirstFile ==
    file = None =>
        /\ wanted = [default |-> None, scoped |-> {}]
        /\ \A a \in Apps : /\ app[a] # None => app[a].settings = Builtin
                           /\ found[a] # None => found[a] = Builtin

\* What is chosen, and what the index of a session names, is in the catalog.
ChosenIsListed(settings) == \A p \in Providers : settings.chosen[p] \in Listed[p]
AllIsListed ==
    "unlisted" \notin odd =>
        /\ file # None => ChosenIsListed(file)
        /\ \A a \in Apps : /\ app[a] # None => ChosenIsListed(app[a].settings)
                           /\ found[a] # None => ChosenIsListed(found[a])
        /\ \A s \in Sessions : record[s] # None => record[s] \in Pairs

IInv ==
    /\ TypeOK /\ Shapes /\ SessionsAreKept /\ TerminalsFit /\ FirstFile /\ AllIsListed
    /\ RuntimeServesPair /\ DefaultIsListed /\ ChoicesAreKept /\ PairIsListedElse
===============================================================================
