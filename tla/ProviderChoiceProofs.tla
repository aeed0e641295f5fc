------------------------ MODULE ProviderChoiceProofs ------------------------
(* Theorems about ProviderChoice for every set of terminals, sessions and providers, every catalog, *)
(* whatever is in the environment, and any number of changes.                                       *)
EXTENDS ProviderChoice, TLAPS

Serves(t) == t.object # None => t.object = Object(t.name, t.model, t.level)

\* A level that was coerced, or chosen by default, stays as it is.
LEMMA LevelFits ==
    ASSUME NEW p, NEW m, NEW l \in AnyLevel
    PROVE  /\ DefaultLevel(p, m) \in AnyLevel /\ Coerced(p, m, DefaultLevel(p, m)) = DefaultLevel(p, m)
           /\ Coerced(p, m, l) \in AnyLevel /\ Coerced(p, m, Coerced(p, m, l)) = Coerced(p, m, l)
<1>1. CASE <<p, m>> \notin Pairs \/ Levels[<<p, m>>] = {}
  <2>1. DefaultLevel(p, m) = None
    BY <1>1 DEF DefaultLevel
  <2>2. None \in AnyLevel
    BY DEF AnyLevel
  <2>3. \A k : Coerced(p, m, k) = k
    BY <1>1 DEF Coerced
  <2>. QED BY <2>1, <2>2, <2>3
<1>2. CASE <<p, m>> \in Pairs /\ Levels[<<p, m>>] # {}
  <2>1. DefaultLevel(p, m) \in Levels[<<p, m>>]
    BY <1>2 DEF DefaultLevel
  <2>2. Levels[<<p, m>>] \subseteq AnyLevel
    BY <1>2 DEF AnyLevel
  <2>. QED BY <1>2, <2>1, <2>2 DEF Coerced
<1>. QED BY <1>1, <1>2

LEMMA ObjectShape ==
    ASSUME NEW p \in Providers, NEW m, NEW l \in AnyLevel
    PROVE  Object(p, m, l) \in Objects
BY DEF Object, Objects

\* Settings keep their choices when they are loaded; a choice changes one of them.
LEMMA SettingsShape ==
    ASSUME ProviderChoiceAssumption
    PROVE  /\ Builtin \in Settings /\ ChosenIsListed(Builtin) /\ Builtin.scoped = {}
           /\ \A f \in Settings : \A stored : /\ Load(f, stored) \in Settings /\ Load(f, stored).default = f.default
                                          /\ Load(f, stored).chosen = f.chosen /\ Load(f, stored).scoped = f.scoped
           /\ \A stored : Load(None, stored) = Builtin
<1>1. \A p \in Providers : DefaultModel(p) \in Listed[p] /\ DefaultModel(p) \in Models
  BY DEF ProviderChoiceAssumption, DefaultModel, Models
<1>2. Builtin \in Settings /\ ChosenIsListed(Builtin) /\ Builtin.scoped = {}
  BY <1>1 DEF ProviderChoiceAssumption, Builtin, Settings, ChosenIsListed
<1>3. ASSUME NEW f \in Settings, NEW stored
      PROVE  /\ Load(f, stored) \in Settings /\ Load(f, stored).default = f.default
             /\ Load(f, stored).chosen = f.chosen /\ Load(f, stored).scoped = f.scoped
  <2>1. f # None /\ f.has = Providers /\ f.has \cup {p \in Providers : Usable(p, stored)} = f.has
    BY DEF ProviderChoiceAssumption, Settings
  <2>2. Load(f, stored) = [f EXCEPT !.has = f.has]
    BY <2>1 DEF Load
  <2>. QED BY <2>2 DEF Settings
<1>. QED BY <1>2, <1>3 DEF Load

LEMMA ChoiceShape ==
    ASSUME NEW s \in Settings, NEW p \in Providers, NEW m \in Models
    PROVE  /\ WithDefault(s, p, m) \in Settings /\ WithDefault(s, p, m).default = p
           /\ WithDefault(s, p, m).chosen = [s.chosen EXCEPT ![p] = m] /\ WithDefault(s, p, m).scoped = s.scoped
BY DEF WithDefault, Settings

\* A refreshed terminal serves what it shows, and is the same but for its provider.
LEMMA RefreshedServes ==
    ASSUME ProviderChoiceAssumption, NEW t \in Terminals, Fits(t)
    PROVE  /\ Refreshed(t) \in Terminals /\ Fits(Refreshed(t)) /\ Serves(Refreshed(t))
           /\ Refreshed(t).name = t.name /\ Refreshed(t).model = t.model /\ Refreshed(t).settings = t.settings
           /\ Refreshed(t).session = t.session /\ Refreshed(t).bare = t.bare
<1>1. CASE t.bare
  BY <1>1 DEF Refreshed, Fits, Serves
<1>2. CASE ~t.bare
  <2>1. Object(t.name, t.model, t.level) \in Objects
    BY ObjectShape DEF Terminals
  <2>2. Refreshed(t) = [t EXCEPT !.object = Object(t.name, t.model, t.level)]
    BY <1>2 DEF Refreshed
  <2>. DEFINE o == Object(t.name, t.model, t.level)
  <2>3. o \in Objects /\ Refreshed(t) = [t EXCEPT !.object = o]
    BY <2>1, <2>2
  <2>. HIDE DEF o
  <2>4. Refreshed(t) \in Terminals /\ Refreshed(t).object = o /\ Refreshed(t).bare = t.bare
        /\ Refreshed(t).name = t.name /\ Refreshed(t).model = t.model /\ Refreshed(t).settings = t.settings
        /\ Refreshed(t).session = t.session /\ Refreshed(t).level = t.level
    BY <2>3 DEF Terminals
  <2>. QED BY <1>2, <2>4 DEF Fits, Serves, o
<1>. QED BY <1>1, <1>2

\* A terminal with another model, other settings, or another session, at a level that fits.
LEMMA SetsModelServes ==
    ASSUME ProviderChoiceAssumption, NEW t \in Terminals, Fits(t), NEW m \in Models
    PROVE  /\ SetsModel(t, m) \in Terminals /\ Fits(SetsModel(t, m)) /\ Serves(SetsModel(t, m))
           /\ SetsModel(t, m).name = t.name /\ SetsModel(t, m).model = m /\ SetsModel(t, m).settings = t.settings
           /\ SetsModel(t, m).session = t.session /\ SetsModel(t, m).bare = t.bare
<1>. DEFINE l == Coerced(t.name, m, t.level)
<1>. DEFINE u == [t EXCEPT !.model = m, !.level = l]
<1>1. l \in AnyLevel /\ Coerced(t.name, m, l) = l
  BY LevelFits DEF Terminals
<1>2. SetsModel(t, m) = Refreshed(u)
  BY DEF SetsModel, Synced, Terminals, Settings
<1>. HIDE DEF l
<1>3. u \in Terminals /\ u.name = t.name /\ u.model = m /\ u.settings = t.settings /\ u.session = t.session /\ u.level = l
      /\ u.bare = t.bare /\ u.object = t.object
  BY <1>1 DEF Terminals
<1>. HIDE DEF u
<1>4. Fits(u)
  BY <1>1, <1>3 DEF Fits
<1>. QED BY <1>2, <1>3, <1>4, RefreshedServes

LEMMA ReloadedFits ==
    ASSUME NEW t \in Terminals, Fits(t), NEW s \in Settings
    PROVE  /\ Reloaded(t, s) \in Terminals /\ Fits(Reloaded(t, s))
           /\ Reloaded(t, s).name = t.name /\ Reloaded(t, s).model = t.model /\ Reloaded(t, s).settings = s
           /\ Reloaded(t, s).session = t.session /\ Reloaded(t, s).bare = t.bare
<1>1. Synced(s, t.name, t.model, t.level) = t.level
  BY DEF Synced, Fits
<1>2. Reloaded(t, s) = [t EXCEPT !.settings = s, !.level = t.level]
  BY <1>1 DEF Reloaded
<1>. QED BY <1>2 DEF Terminals, Fits

LEMMA SwitchedServes ==
    ASSUME ProviderChoiceAssumption, NEW t \in Terminals, NEW p \in Providers, NEW m \in Models
    PROVE  /\ Switched(t, p, m) \in Terminals /\ Fits(Switched(t, p, m)) /\ Serves(Switched(t, p, m))
           /\ Switched(t, p, m).name = p /\ Switched(t, p, m).model = m /\ Switched(t, p, m).settings = t.settings
           /\ Switched(t, p, m).session = t.session
<1>. DEFINE l == Coerced(p, m, t.level)
<1>. DEFINE o == Object(p, m, l)
<1>1. l \in AnyLevel /\ Coerced(p, m, l) = l
  BY LevelFits DEF Terminals
<1>2. o \in Objects
  BY <1>1, ObjectShape
<1>3. Switched(t, p, m) = [t EXCEPT !.name = p, !.model = m, !.level = l, !.bare = FALSE, !.object = o]
  BY DEF Switched
<1>. HIDE DEF l, o
<1>4. /\ Switched(t, p, m) \in Terminals /\ Switched(t, p, m).name = p /\ Switched(t, p, m).model = m
      /\ Switched(t, p, m).settings = t.settings /\ Switched(t, p, m).session = t.session
      /\ Switched(t, p, m).level = l /\ Switched(t, p, m).bare = FALSE /\ Switched(t, p, m).object = o
  BY <1>1, <1>2, <1>3 DEF Terminals
<1>. QED BY <1>1, <1>4 DEF Fits, Serves, o

LEMMA OpenedServes ==
    ASSUME ProviderChoiceAssumption, NEW t \in Terminals, NEW e \in Entries, t.bare => t.object = None
    PROVE  /\ Opened(t, e) \in Terminals /\ Fits(Opened(t, e)) /\ Serves(Opened(t, e))
           /\ Opened(t, e).name = t.name /\ Opened(t, e).model = e.model /\ Opened(t, e).settings = t.settings
           /\ Opened(t, e).session = t.session
<1>. DEFINE l == Coerced(t.name, e.model, e.level)
<1>. DEFINE u == [t EXCEPT !.model = e.model, !.level = l]
<1>1. l \in AnyLevel /\ Coerced(t.name, e.model, l) = l /\ e.model \in Models
  BY LevelFits DEF Terminals, Entries
<1>2. Opened(t, e) = Refreshed(u)
  BY DEF Opened, Synced, Terminals, Settings
<1>. HIDE DEF l
<1>3. u \in Terminals /\ u.name = t.name /\ u.model = e.model /\ u.settings = t.settings /\ u.session = t.session
      /\ u.level = l /\ u.bare = t.bare /\ u.object = t.object
  BY <1>1 DEF Terminals
<1>. HIDE DEF u
<1>4. Fits(u)
  BY <1>1, <1>3 DEF Fits
<1>. QED BY <1>2, <1>3, <1>4, RefreshedServes

LEMMA BoundFits ==
    ASSUME ProviderChoiceAssumption, NEW s \in Settings, NEW pair \in Providers \X Models, NEW session \in Sessions
    PROVE  /\ Bound(s, pair, session) \in Terminals /\ Bound(s, pair, session).name = pair[1]
           /\ Bound(s, pair, session).settings = s /\ Bound(s, pair, session).session = session
           /\ Bound(s, pair, session).bare => Bound(s, pair, session).object = None
<1>. DEFINE p == pair[1]
<1>. DEFINE m == pair[2]
<1>. DEFINE l == DefaultLevel(p, m)
<1>. DEFINE b == ~Creates(p)
<1>. DEFINE o == IF b THEN None ELSE Object(p, m, l)
<1>1. p \in Providers /\ m \in Models
  OBVIOUS
<1>2. l \in AnyLevel
  <2>1. None \in AnyLevel
    BY DEF AnyLevel
  <2>. QED BY <2>1, LevelFits
<1>3. o \in Objects \cup {None} /\ b \in BOOLEAN /\ (b => o = None)
  BY <1>1, <1>2, ObjectShape
<1>4. Bound(s, pair, session) = [settings |-> s, name |-> p, model |-> m, level |-> l, bare |-> b, object |-> o, session |-> session]
  BY DEF Bound
<1>. HIDE DEF p, m, l, b, o
<1>5. p = pair[1]
  BY DEF p
<1>. QED BY <1>1, <1>2, <1>3, <1>4, <1>5 DEF Terminals

LEMMA InitIsGood ==
    ASSUME ProviderChoiceAssumption, Init
    PROVE  IInv
BY DEF Init, ProviderChoiceAssumption, IInv, TypeOK, Shapes, SessionsAreKept, TerminalsFit, FirstFile, AllIsListed,
       RuntimeServesPair, DefaultIsListed, ChoicesAreKept, PairIsListedElse, PairIsListed

\* The file and what is wanted of it; unless it is the first, somebody chose something.
FileIsGood ==
    /\ file \in Settings \cup {None} /\ wanted \in [default : (Providers \X Models) \cup {None}, scoped : SUBSET Pairs]
    /\ file # None /\ "unlisted" \notin odd => ChosenIsListed(file)
    /\ ChoicesAreKept

\* The sessions: entries and indexes.
SessionsAreGood ==
    /\ log \in [Sessions -> Entries \cup {None}] /\ record \in [Sessions -> (Providers \X Models) \cup {None}]
    /\ \A s \in Sessions : record[s] # None => log[s] # None
    /\ "unlisted" \notin odd => \A s \in Sessions : record[s] # None => record[s] \in Pairs

LEMMA NothingElseMoves ==
    ASSUME IInv, odd \subseteq odd'
    PROVE  /\ UNCHANGED <<file, wanted>> => FileIsGood' /\ (file' = None => file = None /\ wanted' = wanted)
           /\ UNCHANGED <<log, record>> => SessionsAreGood' /\ \A s \in Sessions : record[s] # None => record'[s] # None
<1>1. ASSUME UNCHANGED <<file, wanted>>
      PROVE  FileIsGood'
  BY <1>1 DEF IInv, Shapes, AllIsListed, ChosenIsListed, ChoicesAreKept, FileIsGood
<1>2. ASSUME UNCHANGED <<log, record>>
      PROVE  SessionsAreGood'
  BY <1>2 DEF IInv, Shapes, SessionsAreKept, AllIsListed, SessionsAreGood
<1>. QED BY <1>1, <1>2

\* The settings that are written keep what is in the file, or are the first.
LEMMA WritesOn ==
    ASSUME ProviderChoiceAssumption, IInv, NEW mine \in Settings, file = None => mine = Builtin
    PROVE  /\ ToWrite(mine) \in Settings
           /\ "unlisted" \notin odd => ChosenIsListed(ToWrite(mine))
           /\ "overtaken" \notin odd =>
                  /\ wanted.scoped = ToWrite(mine).scoped
                  /\ wanted.default # None => <<ToWrite(mine).default, ToWrite(mine).chosen[ToWrite(mine).default]>> = wanted.default
<1>1. CASE file = None
  <2>1. mine # None /\ ToWrite(mine) = Builtin
    BY <1>1 DEF ToWrite, ProviderChoiceAssumption
  <2>2. wanted.default = None /\ wanted.scoped = {}
    BY <1>1 DEF IInv, FirstFile
  <2>. QED BY <2>1, <2>2, SettingsShape
<1>2. CASE file # None
  <2>1. ToWrite(mine) = Load(file, keys) /\ file \in Settings
    BY <1>2 DEF ToWrite, IInv, Shapes
  <2>2. /\ ToWrite(mine) \in Settings /\ ToWrite(mine).default = file.default
        /\ ToWrite(mine).chosen = file.chosen /\ ToWrite(mine).scoped = file.scoped
    BY <2>1, SettingsShape
  <2>. HIDE DEF ToWrite
  <2>. QED BY <1>2, <2>2 DEF IInv, AllIsListed, ChoicesAreKept, ChosenIsListed
<1>. QED BY <1>1, <1>2

\* What a step may do to the file, the sessions and one terminal at most.
LEMMA StepIsGood ==
    ASSUME ProviderChoiceAssumption, IInv, FileIsGood', file' = None => file = None /\ wanted' = wanted, SessionsAreGood',
           \A s \in Sessions : record[s] # None => record'[s] # None,
           keys' \subseteq Providers, odd \subseteq odd', odd' \subseteq {"resumed", "overtaken", "stale", "unlisted"},
           found' \in [Apps -> Settings \cup {None}],
           \A a \in Apps : found'[a] # None =>
               \/ found'[a] = found[a]
               \/ (file' = None => found'[a] = Builtin) /\ ("unlisted" \notin odd' => ChosenIsListed(found'[a])),
           app' \in [Apps -> Terminals \cup {None}], TerminalsFit', RuntimeServesPair',
           \A a \in Apps : app'[a] # None =>
               \/ app'[a] = app[a]
               \/ /\ record'[app'[a].session] # None /\ (file' = None => app'[a].settings = Builtin)
                  /\ "unlisted" \notin odd' => /\ ChosenIsListed(app'[a].settings)
                                               /\ "resumed" \notin odd' => <<app'[a].name, app'[a].model>> \in Pairs
    PROVE  IInv'
<1>1. \A a \in Apps : app[a] # None => app[a].session \in Sessions /\ record[app[a].session] # None
  BY DEF IInv, Shapes, Terminals, SessionsAreKept
<1>2. \A a \in Apps : app'[a] # None => record'[app'[a].session] # None
  BY <1>1
<1>3. ASSUME file' = None
      PROVE  /\ wanted' = [default |-> None, scoped |-> {}]
             /\ \A a \in Apps : /\ app'[a] # None => app'[a].settings = Builtin
                                /\ found'[a] # None => found'[a] = Builtin
  <2>1. FirstFile /\ file = None /\ wanted' = wanted
    BY <1>3 DEF IInv
  <2>. QED BY <1>3, <2>1 DEF FirstFile
<1>4. ASSUME "unlisted" \notin odd'
      PROVE  \A a \in Apps : /\ app'[a] # None => ChosenIsListed(app'[a].settings)
                             /\ found'[a] # None => ChosenIsListed(found'[a])
  BY <1>4 DEF IInv, AllIsListed
<1>5. ASSUME "unlisted" \notin odd', "resumed" \notin odd'
      PROVE  \A a \in Apps : app'[a] # None => <<app'[a].name, app'[a].model>> \in Pairs
  BY <1>5 DEF IInv, PairIsListedElse, PairIsListed
<1>6. TypeOK' /\ Shapes'
  BY DEF FileIsGood, SessionsAreGood, TypeOK, Shapes, Settings
<1>7. SessionsAreKept'
  BY <1>2 DEF SessionsAreKept, SessionsAreGood
<1>8. FirstFile'
  BY <1>3 DEF FirstFile, Builtin, DefaultModel
<1>9. AllIsListed'
  BY <1>4 DEF AllIsListed, ChosenIsListed, FileIsGood, SessionsAreGood
<1>10. DefaultIsListed' /\ ChoicesAreKept'
  BY DEF FileIsGood, DefaultIsListed, ChosenIsListed, Settings
<1>11. PairIsListedElse'
  BY <1>5 DEF PairIsListedElse, PairIsListed, Pairs
<1>. QED BY <1>6, <1>7, <1>8, <1>9, <1>10, <1>11 DEF IInv

\* One terminal changes.
LEMMA TerminalIsGood ==
    ASSUME ProviderChoiceAssumption, IInv, NEW a \in Apps, NEW t \in Terminals, Fits(t), Sets(a, t),
           "stale" \in odd' \/ Serves(t), odd \subseteq odd', odd' \subseteq {"resumed", "overtaken", "stale", "unlisted"},
           FileIsGood', file' = None => file = None /\ wanted' = wanted, SessionsAreGood',
           \A s \in Sessions : record[s] # None => record'[s] # None, keys' \subseteq Providers, UNCHANGED found,
           record'[t.session] # None, file' = None => t.settings = Builtin,
           "unlisted" \notin odd' => ChosenIsListed(t.settings) /\ ("resumed" \notin odd' => <<t.name, t.model>> \in Pairs)
    PROVE  IInv'
<1>1. app' \in [Apps -> Terminals \cup {None}] /\ app'[a] = t /\ \A other \in Apps \ {a} : app'[other] = app[other]
  BY DEF IInv, Shapes, Sets
<1>2. TerminalsFit'
  BY <1>1 DEF IInv, TerminalsFit
<1>3. RuntimeServesPair'
  BY <1>1 DEF IInv, RuntimeServesPair, Serves
<1>4. found' \in [Apps -> Settings \cup {None}]
  BY DEF IInv, Shapes
<1>. QED BY <1>1, <1>2, <1>3, <1>4, StepIsGood

LEMMA PersistsKeeps ==
    ASSUME ProviderChoiceAssumption, IInv, NEW a \in Apps, NEW t \in Terminals, Fits(t), Serves(t), Persists(a, t),
           record[t.session] # None, file = None => t.settings = Builtin,
           odd \subseteq odd', odd' \subseteq odd \cup {"unlisted"},
           "unlisted" \notin odd' => ChosenIsListed(t.settings) /\ <<t.name, t.model>> \in Pairs,
           UNCHANGED <<keys, log, found>>
    PROVE  IInv'
<1>. DEFINE latest == ToWrite(t.settings)
<1>. DEFINE updated == WithDefault(latest, t.name, t.model)
<1>. DEFINE u == [t EXCEPT !.settings = updated, !.level = t.level]
<1>. DEFINE pair == <<t.name, t.model>>
<1>1. /\ t.settings \in Settings /\ t.name \in Providers /\ t.model \in Models /\ t.session \in Sessions
      /\ keys \subseteq Providers /\ odd' \subseteq {"resumed", "overtaken", "stale", "unlisted"}
  BY DEF Terminals, IInv, TypeOK
<1>2. /\ latest \in Settings /\ ("unlisted" \notin odd => ChosenIsListed(latest))
      /\ "overtaken" \notin odd => wanted.scoped = latest.scoped
  BY <1>1, WritesOn
<1>3. t.name \in latest.has /\ Synced(updated, t.name, t.model, t.level) = t.level
  BY <1>1, <1>2 DEF Settings, Synced, Fits
<1>4. /\ file' = updated /\ wanted' = [wanted EXCEPT !.default = pair]
      /\ Sets(a, u) /\ record' = [record EXCEPT ![t.session] = pair]
  BY <1>3 DEF Persists
<1>. HIDE DEF latest
<1>5. /\ updated \in Settings /\ updated.default = t.name /\ updated.chosen = [latest.chosen EXCEPT ![t.name] = t.model]
      /\ updated.scoped = latest.scoped
  BY <1>1, <1>2, ChoiceShape
<1>6. pair \in Providers \X Models /\ pair # None
  BY <1>1 DEF ProviderChoiceAssumption
<1>7. "unlisted" \notin odd' => "unlisted" \notin odd /\ pair \in Pairs /\ t.model \in Listed[t.name]
  BY DEF Pairs
<1>. HIDE DEF updated
<1>8. /\ u \in Terminals /\ u.settings = updated /\ u.name = t.name /\ u.model = t.model /\ u.level = t.level
      /\ u.bare = t.bare /\ u.object = t.object /\ u.session = t.session
  BY <1>5 DEF Terminals
<1>. HIDE DEF u
<1>9. Fits(u) /\ Serves(u)
  BY <1>8 DEF Fits, Serves
<1>10. updated.chosen[t.name] = t.model /\ updated # None
  BY <1>1, <1>2, <1>5 DEF Settings, ProviderChoiceAssumption
<1>11. "unlisted" \notin odd' => ChosenIsListed(updated)
  BY <1>1, <1>2, <1>5, <1>7 DEF ChosenIsListed, Settings
<1>12. <<updated.default, updated.chosen[updated.default]>> = pair
  BY <1>5, <1>10
<1>. HIDE DEF pair
<1>13. FileIsGood'
  <2>1. wanted'.default = pair /\ wanted'.scoped = wanted.scoped
        /\ wanted' \in [default : (Providers \X Models) \cup {None}, scoped : SUBSET Pairs]
    BY <1>4, <1>6 DEF IInv, Shapes
  <2>2. ChoicesAreKept'
    BY <1>2, <1>4, <1>5, <1>12, <2>1 DEF ChoicesAreKept
  <2>. QED BY <1>4, <1>5, <1>11, <2>1, <2>2 DEF FileIsGood, ChosenIsListed
<1>14. SessionsAreGood' /\ record'[u.session] # None /\ \A s \in Sessions : record[s] # None => record'[s] # None
  BY <1>1, <1>4, <1>6, <1>7, <1>8 DEF IInv, Shapes, SessionsAreKept, AllIsListed, SessionsAreGood
<1>15. "unlisted" \notin odd' => ChosenIsListed(u.settings) /\ <<u.name, u.model>> \in Pairs
  BY <1>8, <1>11
<1>. QED BY <1>1, <1>4, <1>8, <1>9, <1>10, <1>13, <1>14, <1>15, TerminalIsGood

\* What the invariant says of one terminal.
LEMMA AppHas ==
    ASSUME IInv, NEW a \in Apps, app[a] # None
    PROVE  /\ app[a] \in Terminals /\ Fits(app[a]) /\ ("stale" \notin odd => Serves(app[a]))
           /\ app[a].session \in Sessions /\ record[app[a].session] # None /\ log[app[a].session] \in Entries
           /\ app[a].name \in Providers /\ app[a].model \in Models /\ app[a].settings \in Settings
           /\ file = None => app[a].settings = Builtin
           /\ "unlisted" \notin odd => ChosenIsListed(app[a].settings)
           /\ {"unlisted", "resumed"} \cap odd = {} => <<app[a].name, app[a].model>> \in Pairs
<1>1. app[a] \in Terminals /\ Fits(app[a]) /\ ("stale" \notin odd => Serves(app[a]))
  BY DEF IInv, Shapes, TerminalsFit, RuntimeServesPair, Serves
<1>2. /\ app[a].session \in Sessions /\ app[a].name \in Providers /\ app[a].model \in Models /\ app[a].settings \in Settings
  BY <1>1 DEF Terminals
<1>3. record[app[a].session] # None /\ log[app[a].session] \in Entries
  BY <1>2 DEF IInv, Shapes, SessionsAreKept
<1>4. file = None => app[a].settings = Builtin
  BY DEF IInv, FirstFile
<1>5. "unlisted" \notin odd => ChosenIsListed(app[a].settings)
  BY DEF IInv, AllIsListed
<1>6. {"unlisted", "resumed"} \cap odd = {} => <<app[a].name, app[a].model>> \in Pairs
  BY DEF IInv, PairIsListedElse, PairIsListed
<1>. QED BY <1>1, <1>2, <1>3, <1>4, <1>5, <1>6

LEMMA SetModelKeeps ==
    ASSUME ProviderChoiceAssumption, IInv, NEW a \in Apps, NEW m \in Models, SetModel(a, m)
    PROVE  IInv'
<1>. DEFINE t == app[a]
<1>. DEFINE u == SetsModel(t, m)
<1>1. t # None /\ m \in Listed[t.name]
  BY DEF SetModel
<1>2. /\ u \in Terminals /\ Fits(u) /\ Serves(u) /\ u.name = t.name /\ u.model = m /\ u.settings = t.settings
      /\ u.session = t.session /\ u.bare = t.bare
  BY <1>1, AppHas, SetsModelServes
<1>3. <<t.name, m>> \in Pairs
  BY <1>1, AppHas DEF Pairs
<1>4. CASE Refreshable(t)
  <2>1. Persists(a, u) /\ UNCHANGED <<odd, keys, log, found>>
    BY <1>4 DEF SetModel
  <2>. HIDE DEF t, u
  <2>. QED BY <1>1, <1>2, <1>3, <2>1, AppHas, PersistsKeeps DEF t
<1>5. CASE ~Refreshable(t)
  <2>. DEFINE w == [u EXCEPT !.object = t.object]
  <2>1. /\ Sets(a, w) /\ odd' = odd \cup {"stale"} /\ UNCHANGED <<file, record, wanted, keys, log, found>>
    BY <1>5 DEF SetModel, Notes
  <2>2. t.object \in Objects \cup {None} /\ ~t.bare
    BY <1>1, <1>5, AppHas DEF Terminals, Refreshable
  <2>. HIDE DEF u
  <2>3. /\ w \in Terminals /\ Fits(w) /\ w.name = t.name /\ w.model = m /\ w.settings = t.settings /\ w.session = t.session
    BY <1>2, <2>2 DEF Terminals, Fits
  <2>4. keys' \subseteq Providers /\ odd' \subseteq {"resumed", "overtaken", "stale", "unlisted"}
    BY <2>1 DEF IInv, TypeOK
  <2>5. /\ FileIsGood' /\ (file' = None => file = None /\ wanted' = wanted) /\ SessionsAreGood'
        /\ \A s \in Sessions : record[s] # None => record'[s] # None
    BY <2>1, NothingElseMoves
  <2>. HIDE DEF w, t
  <2>. QED BY <1>1, <1>3, <2>1, <2>3, <2>4, <2>5, AppHas, TerminalIsGood DEF t
<1>. QED BY <1>4, <1>5

LEMMA ModelCommandKeeps ==
    ASSUME ProviderChoiceAssumption, IInv, NEW a \in Apps, NEW m \in Models, ModelCommand(a, m)
    PROVE  IInv'
<1>. DEFINE loaded == Load(file, keys)
<1>. DEFINE t == Reloaded(app[a], loaded)
<1>. DEFINE u == SetsModel(t, m)
<1>1. app[a] # None /\ Persists(a, u) /\ UNCHANGED <<keys, log, found>>
      /\ odd' = IF m \in Listed[app[a].name] THEN odd ELSE odd \cup {"unlisted"}
  BY DEF ModelCommand
<1>2. loaded \in Settings /\ ("unlisted" \notin odd => ChosenIsListed(loaded)) /\ (file = None => loaded = Builtin)
  BY SettingsShape DEF IInv, Shapes, AllIsListed, ChosenIsListed
<1>. HIDE DEF loaded
<1>3. t \in Terminals /\ Fits(t) /\ t.name = app[a].name /\ t.settings = loaded /\ t.session = app[a].session
  BY <1>1, <1>2, AppHas, ReloadedFits
<1>. HIDE DEF t
<1>4. /\ u \in Terminals /\ Fits(u) /\ Serves(u) /\ u.name = app[a].name /\ u.model = m /\ u.settings = loaded
      /\ u.session = app[a].session
  BY <1>3, SetsModelServes
<1>5. "unlisted" \notin odd' => "unlisted" \notin odd /\ <<app[a].name, m>> \in Pairs
  BY <1>1, AppHas DEF Pairs
<1>. HIDE DEF u
<1>. QED BY <1>1, <1>2, <1>4, <1>5, AppHas, PersistsKeeps

LEMMA SetChoiceKeeps ==
    ASSUME ProviderChoiceAssumption, IInv, NEW a \in Apps, NEW p \in Providers, NEW m \in Models, SetChoice(a, p, m)
    PROVE  IInv'
<1>. DEFINE u == Switched(app[a], p, m)
<1>1. app[a] # None /\ Persists(a, u) /\ UNCHANGED <<keys, log, found, odd>> /\ <<p, m>> \in Pairs
  BY DEF SetChoice
<1>2. app[a] \in Terminals
  BY <1>1, AppHas
<1>3. /\ u \in Terminals /\ Fits(u) /\ Serves(u) /\ u.name = p /\ u.model = m /\ u.settings = app[a].settings
      /\ u.session = app[a].session
  BY <1>2, SwitchedServes
<1>. HIDE DEF u
<1>. QED BY <1>1, <1>3, AppHas, PersistsKeeps

\* No terminal changes, but one may be left.
LEMMA TerminalsStay ==
    ASSUME ProviderChoiceAssumption, IInv, FileIsGood', file' = None => file = None /\ wanted' = wanted, SessionsAreGood',
           \A s \in Sessions : record[s] # None => record'[s] # None,
           keys' \subseteq Providers, odd \subseteq odd', odd' \subseteq {"resumed", "overtaken", "stale", "unlisted"},
           found' \in [Apps -> Settings \cup {None}],
           \A a \in Apps : found'[a] # None =>
               \/ found'[a] = found[a]
               \/ (file' = None => found'[a] = Builtin) /\ ("unlisted" \notin odd' => ChosenIsListed(found'[a])),
           app' \in [Apps -> Terminals \cup {None}], \A a \in Apps : app'[a] # None => app'[a] = app[a]
    PROVE  IInv'
<1>1. TerminalsFit'
  BY DEF IInv, TerminalsFit
<1>2. RuntimeServesPair'
  BY DEF IInv, RuntimeServesPair
<1>. QED BY <1>1, <1>2, StepIsGood

LEMMA ToggleKeeps ==
    ASSUME ProviderChoiceAssumption, IInv, NEW a \in Apps, NEW p \in Providers, NEW m \in Models, Toggle(a, p, m)
    PROVE  IInv'
<1>. DEFINE t == app[a]
<1>. DEFINE latest == ToWrite(t.settings)
<1>. DEFINE Change(set) == IF <<p, m>> \in set THEN set \ {<<p, m>>} ELSE set \cup {<<p, m>>}
<1>. DEFINE scoped == Change(latest.scoped)
<1>. DEFINE updated == [latest EXCEPT !.scoped = scoped]
<1>1. t # None /\ <<p, m>> \in Pairs /\ UNCHANGED <<keys, log, record, found, odd>>
  BY DEF Toggle
<1>2. /\ t \in Terminals /\ Fits(t) /\ t.settings \in Settings /\ ("stale" \notin odd => Serves(t))
      /\ record[t.session] # None /\ t.session \in Sessions /\ (file = None => t.settings = Builtin)
      /\ {"unlisted", "resumed"} \cap odd = {} => <<t.name, t.model>> \in Pairs
  BY <1>1, AppHas
<1>3. /\ latest \in Settings /\ ("unlisted" \notin odd => ChosenIsListed(latest))
      /\ "overtaken" \notin odd =>
             /\ wanted.scoped = latest.scoped
             /\ wanted.default # None => <<latest.default, latest.chosen[latest.default]>> = wanted.default
  BY <1>2, WritesOn
<1>4. p \in latest.has
  BY <1>3 DEF Settings
<1>5. /\ file' = updated /\ wanted' = [wanted EXCEPT !.scoped = Change(wanted.scoped)]
      /\ Sets(a, Reloaded(t, updated))
  BY <1>4 DEF Toggle, Reloaded
<1>. HIDE DEF latest, t
<1>6. scoped \subseteq Pairs /\ Change(wanted.scoped) \subseteq Pairs
  BY <1>1, <1>3 DEF Settings, IInv, Shapes
<1>7. "overtaken" \notin odd => scoped = Change(wanted.scoped)
  BY <1>3
<1>. HIDE DEF scoped, Change
<1>8. /\ updated \in Settings /\ updated.default = latest.default /\ updated.chosen = latest.chosen
      /\ updated.scoped = scoped /\ updated # None
  BY <1>3, <1>6 DEF Settings, ProviderChoiceAssumption
<1>. HIDE DEF updated
<1>9. /\ wanted'.default = wanted.default /\ wanted'.scoped = Change(wanted.scoped)
      /\ wanted' \in [default : (Providers \X Models) \cup {None}, scoped : SUBSET Pairs]
  BY <1>5, <1>6 DEF IInv, Shapes
<1>10. ChoicesAreKept'
  BY <1>1, <1>3, <1>5, <1>7, <1>8, <1>9 DEF ChoicesAreKept
<1>11. FileIsGood'
  BY <1>1, <1>3, <1>5, <1>8, <1>9, <1>10 DEF FileIsGood, ChosenIsListed
<1>. DEFINE u == Reloaded(t, updated)
<1>12. /\ u \in Terminals /\ Fits(u) /\ u.name = t.name /\ u.model = t.model /\ u.settings = updated /\ u.session = t.session
       /\ ("stale" \notin odd => Serves(u))
  <2>1. Synced(updated, t.name, t.model, t.level) = t.level
    BY <1>2 DEF Synced, Fits
  <2>2. u = [t EXCEPT !.settings = updated, !.level = t.level]
    BY <2>1 DEF Reloaded
  <2>. QED BY <1>2, <1>8, <2>2 DEF Terminals, Fits, Serves
<1>. HIDE DEF u
<1>13. keys' \subseteq Providers /\ odd' \subseteq {"resumed", "overtaken", "stale", "unlisted"}
  BY <1>1 DEF IInv, TypeOK
<1>14. SessionsAreGood' /\ \A s \in Sessions : record[s] # None => record'[s] # None
  BY <1>1, NothingElseMoves
<1>15. "unlisted" \notin odd => ChosenIsListed(updated)
  BY <1>3, <1>8 DEF ChosenIsListed
<1>. QED BY <1>1, <1>2, <1>5, <1>8, <1>11, <1>12, <1>13, <1>14, <1>15, TerminalIsGood DEF u

LEMMA SetLevelKeeps ==
    ASSUME ProviderChoiceAssumption, IInv, NEW a \in Apps, NEW level, SetLevel(a, level)
    PROVE  IInv'
<1>. DEFINE t == app[a]
<1>. DEFINE u == [t EXCEPT !.level = level]
<1>1. /\ t # None /\ <<t.name, t.model>> \in Pairs /\ level \in Levels[<<t.name, t.model>>]
      /\ UNCHANGED <<file, keys, record, found, wanted, odd>>
      /\ \/ Sets(a, Refreshed(u)) /\ log' = [log EXCEPT ![t.session].level = level]
         \/ UNCHANGED <<app, log>>
  BY DEF SetLevel
<1>2. /\ t \in Terminals /\ Fits(t) /\ t.settings \in Settings /\ log[t.session] \in Entries
      /\ record[t.session] # None /\ t.session \in Sessions /\ (file = None => t.settings = Builtin)
      /\ "unlisted" \notin odd => ChosenIsListed(t.settings)
  BY <1>1, AppHas
<1>3. keys' \subseteq Providers /\ odd' = odd /\ odd' \subseteq {"resumed", "overtaken", "stale", "unlisted"}
  BY <1>1 DEF IInv, TypeOK
<1>4. level \in AnyLevel
  BY <1>1 DEF AnyLevel
<1>5. FileIsGood' /\ (file' = None => file = None /\ wanted' = wanted)
  BY <1>1, NothingElseMoves
<1>6. CASE Sets(a, Refreshed(u)) /\ log' = [log EXCEPT ![t.session].level = level]
  <2>1. /\ u \in Terminals /\ u.name = t.name /\ u.model = t.model /\ u.settings = t.settings /\ u.session = t.session
        /\ u.level = level /\ u.bare = t.bare /\ u.object = t.object
    BY <1>2, <1>4 DEF Terminals
  <2>2. Fits(u)
    BY <1>1, <1>2, <2>1 DEF Fits, Coerced
  <2>3. /\ Refreshed(u) \in Terminals /\ Fits(Refreshed(u)) /\ Serves(Refreshed(u)) /\ Refreshed(u).name = u.name
        /\ Refreshed(u).model = u.model /\ Refreshed(u).settings = u.settings /\ Refreshed(u).session = u.session
    BY <2>1, <2>2, RefreshedServes
  <2>4. [log[t.session] EXCEPT !.level = level] \in Entries
    BY <1>2, <1>4 DEF Entries
  <2>5. None \notin Entries
    BY DEF ProviderChoiceAssumption
  <2>6. SessionsAreGood' /\ \A s \in Sessions : record[s] # None => record'[s] # None
    BY <1>1, <1>2, <1>6, <2>4, <2>5 DEF SessionsAreGood, IInv, Shapes, SessionsAreKept, AllIsListed
  <2>. HIDE DEF u
  <2>. QED BY <1>1, <1>2, <1>3, <1>5, <1>6, <2>1, <2>3, <2>6, TerminalIsGood
<1>7. CASE UNCHANGED <<app, log>>
  <2>1. SessionsAreGood' /\ \A s \in Sessions : record[s] # None => record'[s] # None
    BY <1>1, <1>3, <1>7, NothingElseMoves
  <2>. QED BY <1>1, <1>3, <1>5, <1>7, <2>1, TerminalsStay DEF IInv, Shapes
<1>. QED BY <1>1, <1>6, <1>7

LEMMA LoginKeeps ==
    ASSUME ProviderChoiceAssumption, IInv, NEW a \in Apps, NEW p \in Providers, Login(a, p)
    PROVE  IInv'
<1>. DEFINE t == app[a]
<1>. DEFINE stored == keys \cup {p}
<1>. DEFINE first == Load(file, stored)
<1>. DEFINE saved == [first EXCEPT !.has = first.has \cup {p}]
<1>. DEFINE loaded == Load(saved, stored)
<1>. DEFINE m == saved.chosen[p]
<1>. DEFINE r == Reloaded(t, loaded)
<1>. DEFINE u == Switched(Refreshed(r), p, m)
<1>1. /\ t # None /\ keys' = stored /\ file' = saved /\ UNCHANGED <<log, found, wanted, odd>>
      /\ \/ Sets(a, u) /\ record' = [record EXCEPT ![t.session] = <<p, m>>]
         \/ UNCHANGED <<app, record>>
  BY DEF Login
<1>2. /\ t \in Terminals /\ Fits(t) /\ record[t.session] # None /\ t.session \in Sessions /\ log[t.session] \in Entries
  BY <1>1, AppHas
<1>3. stored \subseteq Providers /\ odd' = odd /\ odd' \subseteq {"resumed", "overtaken", "stale", "unlisted"}
  BY <1>1 DEF IInv, TypeOK
<1>4. /\ first \in Settings /\ ("unlisted" \notin odd => ChosenIsListed(first))
      /\ "overtaken" \notin odd =>
             /\ wanted.scoped = first.scoped
             /\ wanted.default # None => <<first.default, first.chosen[first.default]>> = wanted.default
  <2>1. CASE file = None
    <3>1. wanted.default = None /\ wanted.scoped = {}
      BY <2>1 DEF IInv, FirstFile
    <3>. QED BY <2>1, <3>1, SettingsShape
  <2>2. CASE file # None
    <3>1. file \in Settings
      BY <2>2 DEF IInv, Shapes
    <3>2. first \in Settings /\ first.default = file.default /\ first.chosen = file.chosen /\ first.scoped = file.scoped
      BY <3>1, SettingsShape
    <3>. HIDE DEF first
    <3>. QED BY <2>2, <3>2 DEF IInv, AllIsListed, ChoicesAreKept, ChosenIsListed
  <2>. QED BY <2>1, <2>2
<1>. HIDE DEF first
<1>5. /\ saved \in Settings /\ saved.default = first.default /\ saved.chosen = first.chosen
      /\ saved.scoped = first.scoped /\ saved # None
  BY <1>4 DEF Settings, ProviderChoiceAssumption
<1>. HIDE DEF saved
<1>6. loaded \in Settings /\ loaded.chosen = saved.chosen
  BY <1>5, SettingsShape
<1>. HIDE DEF loaded
<1>7. m \in Models /\ ("unlisted" \notin odd => <<p, m>> \in Pairs /\ ChosenIsListed(loaded))
  BY <1>4, <1>5, <1>6 DEF Settings, ChosenIsListed, Pairs
<1>. HIDE DEF m
<1>8. FileIsGood' /\ file' # None
  <2>1. ChoicesAreKept'
    BY <1>1, <1>4, <1>5 DEF ChoicesAreKept
  <2>. QED BY <1>1, <1>4, <1>5, <2>1 DEF FileIsGood, ChosenIsListed, IInv, Shapes
<1>9. CASE Sets(a, u) /\ record' = [record EXCEPT ![t.session] = <<p, m>>]
  <2>1. r \in Terminals /\ Fits(r) /\ r.settings = loaded /\ r.session = t.session
    BY <1>2, <1>6, ReloadedFits
  <2>. HIDE DEF r
  <2>2. Refreshed(r) \in Terminals /\ Refreshed(r).settings = loaded /\ Refreshed(r).session = t.session
    BY <2>1, RefreshedServes
  <2>3. u \in Terminals /\ Fits(u) /\ Serves(u) /\ u.name = p /\ u.model = m /\ u.settings = loaded /\ u.session = t.session
    BY <1>7, <2>2, SwitchedServes
  <2>. DEFINE pair == <<p, m>>
  <2>4. pair \in Providers \X Models /\ pair # None
    BY <1>7 DEF ProviderChoiceAssumption
  <2>5. record' = [record EXCEPT ![t.session] = pair] /\ ("unlisted" \notin odd => pair \in Pairs)
    BY <1>7, <1>9
  <2>. HIDE DEF pair, u, t
  <2>6. SessionsAreGood' /\ (\A s \in Sessions : record[s] # None => record'[s] # None) /\ record'[t.session] # None
    BY <1>1, <1>2, <2>4, <2>5 DEF SessionsAreGood, IInv, Shapes, SessionsAreKept, AllIsListed
  <2>. QED BY <1>1, <1>3, <1>7, <1>8, <1>9, <2>3, <2>6, TerminalIsGood
<1>10. CASE UNCHANGED <<app, record>>
  <2>1. SessionsAreGood' /\ \A s \in Sessions : record[s] # None => record'[s] # None
    BY <1>1, <1>3, <1>10, NothingElseMoves
  <2>2. found' \in [Apps -> Settings \cup {None}] /\ app' \in [Apps -> Terminals \cup {None}] /\ found' = found /\ app' = app
    BY <1>1, <1>10 DEF IInv, Shapes
  <2>. QED BY <1>1, <1>3, <1>8, <2>1, <2>2, TerminalsStay
<1>. QED BY <1>1, <1>9, <1>10

LEMMA LogoutKeeps ==
    ASSUME ProviderChoiceAssumption, IInv, NEW a \in Apps, NEW p, Logout(a, p)
    PROVE  IInv'
<1>. DEFINE t == app[a]
<1>. DEFINE stored == keys \ {p}
<1>. DEFINE loaded == Load(file, stored)
<1>. DEFINE r == Reloaded(t, loaded)
<1>1. /\ t # None /\ keys' = stored /\ UNCHANGED <<file, log, record, found, wanted, odd>>
      /\ Sets(a, Refreshed(r)) \/ UNCHANGED app
  BY DEF Logout
<1>2. /\ t \in Terminals /\ Fits(t) /\ record[t.session] # None /\ t.session \in Sessions
      /\ {"unlisted", "resumed"} \cap odd = {} => <<t.name, t.model>> \in Pairs
  BY <1>1, AppHas
<1>3. keys' \subseteq Providers /\ odd' = odd /\ odd' \subseteq {"resumed", "overtaken", "stale", "unlisted"}
  BY <1>1 DEF IInv, TypeOK
<1>4. /\ FileIsGood' /\ (file' = None => file = None /\ wanted' = wanted)
      /\ SessionsAreGood' /\ \A s \in Sessions : record[s] # None => record'[s] # None
  BY <1>1, NothingElseMoves
<1>5. loaded \in Settings /\ ("unlisted" \notin odd => ChosenIsListed(loaded)) /\ (file = None => loaded = Builtin)
  BY SettingsShape DEF IInv, Shapes, AllIsListed, ChosenIsListed
<1>. HIDE DEF loaded, t
<1>6. CASE Sets(a, Refreshed(r))
  <2>1. r \in Terminals /\ Fits(r) /\ r.name = t.name /\ r.model = t.model /\ r.settings = loaded /\ r.session = t.session
    BY <1>2, <1>5, ReloadedFits
  <2>. HIDE DEF r
  <2>2. /\ Refreshed(r) \in Terminals /\ Fits(Refreshed(r)) /\ Serves(Refreshed(r)) /\ Refreshed(r).name = t.name
        /\ Refreshed(r).model = t.model /\ Refreshed(r).settings = loaded /\ Refreshed(r).session = t.session
    BY <2>1, RefreshedServes
  <2>. QED BY <1>1, <1>2, <1>3, <1>4, <1>5, <1>6, <2>2, TerminalIsGood
<1>7. CASE UNCHANGED app
  <2>1. found' \in [Apps -> Settings \cup {None}] /\ app' \in [Apps -> Terminals \cup {None}] /\ found' = found /\ app' = app
    BY <1>1, <1>7 DEF IInv, Shapes
  <2>. QED BY <1>1, <1>3, <1>4, <2>1, TerminalsStay
<1>. QED BY <1>1, <1>6, <1>7

LEMMA DiscoverStartsKeeps ==
    ASSUME ProviderChoiceAssumption, IInv, NEW a \in Apps, DiscoverStarts(a)
    PROVE  IInv'
<1>. DEFINE loaded == Load(file, keys)
<1>1. found' = [found EXCEPT ![a] = loaded] /\ UNCHANGED <<file, keys, app, log, record, wanted, odd>>
  BY DEF DiscoverStarts
<1>2. loaded \in Settings /\ ("unlisted" \notin odd => ChosenIsListed(loaded)) /\ (file = None => loaded = Builtin)
  BY SettingsShape DEF IInv, Shapes, AllIsListed, ChosenIsListed
<1>. HIDE DEF loaded
<1>3. /\ keys' \subseteq Providers /\ odd' = odd /\ odd' \subseteq {"resumed", "overtaken", "stale", "unlisted"}
      /\ found' \in [Apps -> Settings \cup {None}] /\ app' \in [Apps -> Terminals \cup {None}]
      /\ \A other \in Apps : found'[other] = found[other] \/ found'[other] = loaded
  BY <1>1, <1>2 DEF IInv, TypeOK, Shapes
<1>4. /\ FileIsGood' /\ (file' = None => file = None /\ wanted' = wanted)
      /\ SessionsAreGood' /\ \A s \in Sessions : record[s] # None => record'[s] # None
  BY <1>1, NothingElseMoves
<1>. QED BY <1>1, <1>2, <1>3, <1>4, TerminalsStay

\* What a discovery writes is what it began with: if it is not what the file says now, it overtakes it.
LEMMA DiscoverEndsKeeps ==
    ASSUME ProviderChoiceAssumption, IInv, NEW a \in Apps, DiscoverEnds(a)
    PROVE  IInv'
<1>1. /\ found[a] # None /\ found' = [found EXCEPT ![a] = None] /\ UNCHANGED <<keys, app, log, record, wanted>>
      /\ \/ UNCHANGED <<file, odd>>
         \/ file' = found[a] /\ odd' = odd \cup (IF Load(file, keys) # found[a] THEN {"overtaken"} ELSE {})
  BY DEF DiscoverEnds, Notes
<1>2. /\ keys' \subseteq Providers /\ odd \subseteq odd' /\ odd' \subseteq {"resumed", "overtaken", "stale", "unlisted"}
      /\ ("unlisted" \notin odd' => "unlisted" \notin odd)
      /\ found' \in [Apps -> Settings \cup {None}] /\ app' \in [Apps -> Terminals \cup {None}]
      /\ \A other \in Apps : found'[other] # None => found'[other] = found[other]
      /\ found[a] \in Settings
  BY <1>1 DEF IInv, TypeOK, Shapes
<1>3. SessionsAreGood' /\ \A s \in Sessions : record[s] # None => record'[s] # None
  BY <1>1, <1>2, NothingElseMoves
<1>4. CASE UNCHANGED <<file, odd>>
  <2>1. FileIsGood' /\ (file' = None => file = None /\ wanted' = wanted)
    BY <1>1, <1>4, NothingElseMoves
  <2>. QED BY <1>1, <1>2, <1>3, <2>1, TerminalsStay
<1>5. CASE file' = found[a] /\ odd' = odd \cup (IF Load(file, keys) # found[a] THEN {"overtaken"} ELSE {})
  <2>. DEFINE f == found[a]
  <2>1. "unlisted" \notin odd' => ChosenIsListed(f)
    BY <1>1, <1>2 DEF IInv, AllIsListed
  <2>2. ASSUME "overtaken" \notin odd'
        PROVE  /\ wanted.scoped = f.scoped
               /\ wanted.default # None => <<f.default, f.chosen[f.default]>> = wanted.default
    <3>1. f = Load(file, keys) /\ "overtaken" \notin odd
      BY <1>5, <2>2
    <3>2. CASE file = None
      <4>1. wanted.default = None /\ wanted.scoped = {}
        BY <3>2 DEF IInv, FirstFile
      <4>. QED BY <3>1, <3>2, <4>1, SettingsShape
    <3>3. CASE file # None
      <4>1. file \in Settings
        BY <3>3 DEF IInv, Shapes
      <4>2. f.default = file.default /\ f.chosen = file.chosen /\ f.scoped = file.scoped
        BY <3>1, <4>1, SettingsShape
      <4>. HIDE DEF f
      <4>. QED BY <3>1, <3>3, <4>2 DEF IInv, ChoicesAreKept
    <3>. QED BY <3>2, <3>3
  <2>3. file' = f /\ f \in Settings /\ f # None
    BY <1>1, <1>2, <1>5
  <2>. HIDE DEF f
  <2>4. ChoicesAreKept'
    BY <1>1, <2>2, <2>3 DEF ChoicesAreKept
  <2>5. FileIsGood'
    BY <1>1, <2>1, <2>3, <2>4 DEF FileIsGood, ChosenIsListed, IInv, Shapes
  <2>. QED BY <1>1, <1>2, <1>3, <2>3, <2>5, TerminalsStay
<1>. QED BY <1>1, <1>4, <1>5

\* The settings that a terminal loads when it starts.
LEMMA LoadedFits ==
    ASSUME ProviderChoiceAssumption, IInv
    PROVE  /\ Load(file, keys) \in Settings /\ ("unlisted" \notin odd => ChosenIsListed(Load(file, keys)))
           /\ file = None => Load(file, keys) = Builtin
BY SettingsShape DEF IInv, Shapes, AllIsListed, ChosenIsListed

\* What is selected in settings is a model of its provider.
LEMMA SelectedFits ==
    ASSUME NEW settings \in Settings, NEW one, one \in Selections(settings) \cup Asked(settings)
    PROVE  one \in Providers \X Models /\ (ChosenIsListed(settings) => one \in Pairs)
<1>1. settings.default \in Providers /\ \A p \in Providers : settings.chosen[p] \in Models
  BY DEF Settings
<1>2. one \in Selections(settings) => \E p \in Providers : one = <<p, settings.chosen[p]>>
  BY <1>1 DEF Selections, Settings
<1>3. one \in Asked(settings) => one \in Pairs \/ \E p \in Providers : one = <<p, settings.chosen[p]>>
  BY <1>1 DEF Asked, Settings
<1>. QED BY <1>1, <1>2, <1>3 DEF Pairs, ChosenIsListed

LEMMA StartKeeps ==
    ASSUME ProviderChoiceAssumption, IInv, NEW a \in Apps, NEW s \in Sessions, Start(a, s)
    PROVE  IInv'
<1>. DEFINE settings == Load(file, keys)
<1>1. settings \in Settings /\ ("unlisted" \notin odd => ChosenIsListed(settings)) /\ (file = None => settings = Builtin)
  BY LoadedFits
<1>2. UNCHANGED <<file, keys, found, wanted>>
  BY DEF Start
<1>3. PICK pair \in IF record[s] = None THEN Selections(settings) ELSE Resumes(s, settings) :
          LET index == IF record[s] = None THEN pair ELSE record[s] IN
          Enter(a, s, settings, pair, index) /\ record' = [record EXCEPT ![s] = index]
  BY DEF Start
<1>4. record[s] # None => record[s] \in Providers \X Models /\ record[s][1] \in settings.has
  BY <1>1 DEF IInv, Shapes, Settings
<1>5. IF record[s] = None THEN pair \in Selections(settings) ELSE pair = record[s]
  BY <1>3, <1>4 DEF Resumes
<1>6. Enter(a, s, settings, pair, pair) /\ record' = [record EXCEPT ![s] = pair]
  BY <1>3, <1>5
<1>. HIDE DEF settings
<1>7. pair \in Providers \X Models /\ pair # None /\ ("unlisted" \notin odd => pair \in Pairs)
  BY <1>1, <1>4, <1>5, SelectedFits DEF IInv, AllIsListed, ProviderChoiceAssumption
<1>. DEFINE entries == IF log[s] = None THEN [FirstEntries(pair) EXCEPT !.model = pair[2]] ELSE log[s]
<1>8. entries \in Entries
  <2>1. None \in AnyLevel
    BY DEF AnyLevel
  <2>2. DefaultLevel(pair[1], pair[2]) \in AnyLevel
    BY <2>1, LevelFits
  <2>. QED BY <1>7, <2>2 DEF FirstEntries, Entries, IInv, Shapes
<1>. DEFINE b == Bound(settings, pair, s)
<1>. DEFINE u == Opened(b, entries)
<1>9. Sets(a, u) /\ log' = [log EXCEPT ![s] = entries] /\ odd' = odd \cup (IF entries.model # pair[2] THEN {"resumed"} ELSE {})
  BY <1>6 DEF Enter, Notes
<1>. HIDE DEF entries
<1>10. b \in Terminals /\ b.name = pair[1] /\ b.settings = settings /\ b.session = s /\ (b.bare => b.object = None)
  BY <1>1, <1>7, BoundFits
<1>. HIDE DEF b
<1>11. /\ u \in Terminals /\ Fits(u) /\ Serves(u) /\ u.name = pair[1] /\ u.model = entries.model
       /\ u.settings = settings /\ u.session = s
  BY <1>8, <1>10, OpenedServes
<1>. HIDE DEF u
<1>12. /\ keys' \subseteq Providers /\ odd \subseteq odd' /\ odd' \subseteq {"resumed", "overtaken", "stale", "unlisted"}
       /\ ("unlisted" \notin odd' => "unlisted" \notin odd) /\ ("resumed" \notin odd' => entries.model = pair[2])
  BY <1>2, <1>9 DEF IInv, TypeOK
<1>13. FileIsGood' /\ (file' = None => file = None /\ wanted' = wanted)
  BY <1>2, <1>12, NothingElseMoves
<1>14. SessionsAreGood' /\ (\A other \in Sessions : record[other] # None => record'[other] # None) /\ record'[s] # None
  <2>1. entries # None
    BY <1>8 DEF ProviderChoiceAssumption
  <2>. QED BY <1>6, <1>7, <1>8, <1>9, <1>12, <2>1 DEF SessionsAreGood, IInv, Shapes, SessionsAreKept, AllIsListed
<1>15. "unlisted" \notin odd' => ChosenIsListed(u.settings) /\ ("resumed" \notin odd' => <<u.name, u.model>> \in Pairs)
  BY <1>1, <1>7, <1>11, <1>12
<1>. QED BY <1>1, <1>2, <1>9, <1>11, <1>12, <1>13, <1>14, <1>15, TerminalIsGood

LEMMA ResumeKeeps ==
    ASSUME ProviderChoiceAssumption, IInv, NEW a \in Apps, NEW s \in Sessions, Resume(a, s)
    PROVE  IInv'
<1>. DEFINE t == app[a]
<1>. DEFINE n == record[s][1]
<1>. DEFINE b == [t EXCEPT !.name = n, !.bare = FALSE, !.session = s]
<1>. DEFINE u == Opened(b, log[s])
<1>1. /\ t # None /\ record[s] # None /\ record[s] \in Pairs /\ Sets(a, u)
      /\ odd' = odd \cup (IF log[s].model # record[s][2] THEN {"resumed"} ELSE {})
      /\ UNCHANGED <<file, keys, log, record, found, wanted>>
  BY DEF Resume, Notes
<1>2. /\ t \in Terminals /\ (file = None => t.settings = Builtin) /\ ("unlisted" \notin odd => ChosenIsListed(t.settings))
  BY <1>1, AppHas
<1>3. log[s] \in Entries /\ n \in Providers /\ record[s] = <<n, record[s][2]>>
  BY <1>1 DEF IInv, Shapes, SessionsAreKept
<1>. HIDE DEF n
<1>4. b \in Terminals /\ b.name = n /\ b.settings = t.settings /\ b.session = s /\ b.bare = FALSE
  BY <1>2, <1>3 DEF Terminals
<1>. HIDE DEF b, t
<1>5. /\ u \in Terminals /\ Fits(u) /\ Serves(u) /\ u.name = n /\ u.model = log[s].model
      /\ u.settings = t.settings /\ u.session = s
  BY <1>3, <1>4, OpenedServes
<1>. HIDE DEF u
<1>6. /\ keys' \subseteq Providers /\ odd \subseteq odd' /\ odd' \subseteq {"resumed", "overtaken", "stale", "unlisted"}
      /\ ("unlisted" \notin odd' => "unlisted" \notin odd) /\ ("resumed" \notin odd' => log[s].model = record[s][2])
  BY <1>1 DEF IInv, TypeOK
<1>7. /\ FileIsGood' /\ (file' = None => file = None /\ wanted' = wanted)
      /\ SessionsAreGood' /\ \A other \in Sessions : record[other] # None => record'[other] # None
  BY <1>1, <1>6, NothingElseMoves
<1>. QED BY <1>1, <1>2, <1>3, <1>5, <1>6, <1>7, TerminalIsGood

LEMMA NewKeeps ==
    ASSUME ProviderChoiceAssumption, IInv, NEW a \in Apps, NEW s \in Sessions, New(a, s)
    PROVE  IInv'
<1>. DEFINE t == app[a]
<1>. DEFINE p == t.settings.default
<1>. DEFINE m == t.settings.chosen[p]
<1>. DEFINE l == Coerced(p, m, t.level)
<1>. DEFINE entries == [model |-> m, level |-> l]
<1>. DEFINE pair == <<p, m>>
<1>. DEFINE b == [t EXCEPT !.name = p, !.bare = FALSE, !.session = s]
<1>. DEFINE u == Opened(b, entries)
<1>1. /\ t # None /\ Sets(a, u) /\ log' = [log EXCEPT ![s] = entries] /\ record' = [record EXCEPT ![s] = pair]
      /\ UNCHANGED <<file, keys, found, wanted, odd>>
  BY DEF New
<1>2. /\ t \in Terminals /\ t.settings \in Settings /\ t.level \in AnyLevel /\ (file = None => t.settings = Builtin)
      /\ "unlisted" \notin odd => ChosenIsListed(t.settings)
  BY <1>1, AppHas DEF Terminals
<1>. HIDE DEF t
<1>3. p \in Providers /\ m \in Models /\ ("unlisted" \notin odd => m \in Listed[p])
  BY <1>2 DEF Settings, ChosenIsListed
<1>4. l \in AnyLevel
  BY <1>2, LevelFits
<1>. HIDE DEF p, m, l
<1>5. entries \in Entries /\ entries.model = m
  BY <1>3, <1>4 DEF Entries
<1>6. pair \in Providers \X Models /\ pair # None /\ entries # None /\ ("unlisted" \notin odd => pair \in Pairs)
  BY <1>3, <1>5 DEF ProviderChoiceAssumption, Pairs
<1>7. b \in Terminals /\ b.name = p /\ b.settings = t.settings /\ b.session = s /\ b.bare = FALSE
  BY <1>2, <1>3 DEF Terminals
<1>. HIDE DEF b, entries
<1>8. /\ u \in Terminals /\ Fits(u) /\ Serves(u) /\ u.name = p /\ u.model = m /\ u.settings = t.settings /\ u.session = s
  BY <1>5, <1>7, OpenedServes
<1>. HIDE DEF u
<1>9. "unlisted" \notin odd => <<u.name, u.model>> \in Pairs
  BY <1>6, <1>8
<1>. HIDE DEF pair
<1>10. SessionsAreGood' /\ (\A other \in Sessions : record[other] # None => record'[other] # None) /\ record'[s] # None
  BY <1>1, <1>5, <1>6 DEF SessionsAreGood, IInv, Shapes, SessionsAreKept, AllIsListed
<1>11. /\ keys' \subseteq Providers /\ odd' = odd /\ odd' \subseteq {"resumed", "overtaken", "stale", "unlisted"}
  BY <1>1 DEF IInv, TypeOK
<1>12. FileIsGood' /\ (file' = None => file = None /\ wanted' = wanted)
  BY <1>1, NothingElseMoves
<1>. QED BY <1>1, <1>2, <1>8, <1>9, <1>10, <1>11, <1>12, TerminalIsGood

LEMMA PrintModeKeeps ==
    ASSUME ProviderChoiceAssumption, IInv, NEW s \in Sessions, PrintMode(s)
    PROVE  IInv'
<1>. DEFINE settings == Load(file, keys)
<1>1. PICK pair \in Asked(settings) : record' = [record EXCEPT ![s] = pair] /\ log' = [log EXCEPT ![s] = FirstEntries(pair)]
  BY DEF PrintMode
<1>2. UNCHANGED <<file, keys, app, found, wanted, odd>>
  BY DEF PrintMode
<1>3. settings \in Settings /\ ("unlisted" \notin odd => ChosenIsListed(settings))
  BY LoadedFits
<1>. HIDE DEF settings
<1>4. pair \in Providers \X Models /\ pair # None /\ ("unlisted" \notin odd => pair \in Pairs)
  BY <1>3, SelectedFits DEF ProviderChoiceAssumption
<1>. DEFINE entries == FirstEntries(pair)
<1>5. entries \in Entries /\ entries # None
  <2>1. None \in AnyLevel
    BY DEF AnyLevel
  <2>2. DefaultLevel(pair[1], pair[2]) \in AnyLevel
    BY <2>1, LevelFits
  <2>. QED BY <1>4, <2>2 DEF FirstEntries, Entries, ProviderChoiceAssumption
<1>6. log' = [log EXCEPT ![s] = entries]
  BY <1>1
<1>. HIDE DEF entries
<1>7. SessionsAreGood' /\ \A other \in Sessions : record[other] # None => record'[other] # None
  BY <1>1, <1>2, <1>4, <1>5, <1>6 DEF SessionsAreGood, IInv, Shapes, SessionsAreKept, AllIsListed
<1>8. /\ keys' \subseteq Providers /\ odd' = odd /\ odd' \subseteq {"resumed", "overtaken", "stale", "unlisted"}
      /\ found' \in [Apps -> Settings \cup {None}] /\ app' \in [Apps -> Terminals \cup {None}] /\ found' = found /\ app' = app
  BY <1>2 DEF IInv, TypeOK, Shapes
<1>9. FileIsGood' /\ (file' = None => file = None /\ wanted' = wanted)
  BY <1>2, NothingElseMoves
<1>. QED BY <1>7, <1>8, <1>9, TerminalsStay

LEMMA QuitKeeps ==
    ASSUME ProviderChoiceAssumption, IInv, NEW a \in Apps, Quit(a)
    PROVE  IInv'
<1>1. /\ app' = [app EXCEPT ![a] = None] /\ found' = [found EXCEPT ![a] = None]
      /\ UNCHANGED <<file, keys, log, record, wanted, odd>>
  BY DEF Quit
<1>2. /\ keys' \subseteq Providers /\ odd' = odd /\ odd' \subseteq {"resumed", "overtaken", "stale", "unlisted"}
      /\ found' \in [Apps -> Settings \cup {None}] /\ app' \in [Apps -> Terminals \cup {None}]
      /\ \A other \in Apps : /\ found'[other] # None => found'[other] = found[other]
                             /\ app'[other] # None => app'[other] = app[other]
  BY <1>1 DEF IInv, TypeOK, Shapes
<1>3. /\ FileIsGood' /\ (file' = None => file = None /\ wanted' = wanted)
      /\ SessionsAreGood' /\ \A s \in Sessions : record[s] # None => record'[s] # None
  BY <1>1, NothingElseMoves
<1>. QED BY <1>2, <1>3, TerminalsStay

LEMMA StepKeeps ==
    ASSUME ProviderChoiceAssumption, IInv, [Next]_vars
    PROVE  IInv'
<1>1. CASE UNCHANGED vars
  BY <1>1 DEF vars, IInv, TypeOK, Shapes, SessionsAreKept, TerminalsFit, FirstFile, AllIsListed,
              RuntimeServesPair, DefaultIsListed, ChoicesAreKept, PairIsListedElse, PairIsListed, ChosenIsListed, Builtin, DefaultModel
<1>2. CASE Next
  BY <1>2, SetModelKeeps, ModelCommandKeeps, SetChoiceKeeps, ToggleKeeps, LoginKeeps, LogoutKeeps, SetLevelKeeps,
     StartKeeps, ResumeKeeps, NewKeeps, DiscoverStartsKeeps, DiscoverEndsKeeps, QuitKeeps, PrintModeKeeps DEF Next
<1>. QED BY <1>1, <1>2

\* For every catalog, every set of terminals and sessions, every credential in the environment and any
\* number of changes: what a terminal shows, what the files hold and what the sessions remember stay in
\* agreement with each other.
THEOREM ChoiceInvariant ==
    ASSUME ProviderChoiceAssumption
    PROVE  Spec => []IInv
<1>1. Init => IInv
  BY InitIsGood
<1>2. IInv /\ [Next]_vars => IInv'
  BY StepKeeps
<1>. QED BY <1>1, <1>2, PTL DEF Spec

\* The runtime provider serves the provider, the model and the level of its session; the default is one of
\* the file and its model is in the catalog; the choices made last in any terminal are those of the file.
THEOREM ChoiceIsSafe ==
    ASSUME ProviderChoiceAssumption
    PROVE  Spec => [](RuntimeServesPair /\ DefaultIsListed /\ ChoicesAreKept /\ PairIsListedElse)
<1>1. IInv => RuntimeServesPair /\ DefaultIsListed /\ ChoicesAreKept /\ PairIsListedElse
  BY DEF IInv
<1>. QED BY <1>1, ChoiceInvariant, PTL
=============================================================================
