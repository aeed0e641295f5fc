---------------------------- MODULE ExtensionPlan ----------------------------
(***************************************************************************)
(* From the manifests on disk to an order of activation: discover_extensions*)
(* picks one candidate for each id, resolve_extensions                     *)
(* (tau_extensions/resolution.py) decides by trust and by dependencies,    *)
(* blocks cycles and what depends on them, and sorts the rest.  The ids    *)
(* are numbers, in the order in which the code sorts them.                 *)
(***************************************************************************)
EXTENDS Integers, Sequences, FiniteSets, SequencesExt, FiniteSetsExt, Folds

CONSTANTS N,             \* ids 1..N may have candidates, N + 1 has none
          Versions,      \* minor versions
          Ranges         \* of a dependency: [kind |-> "any" | "exact" | "caret", minor]

Ids == 1..N
Sources == 1..3          \* built-in, admin, workspace: the priority of each

VARIABLES
    version,   \* of each candidate
    needs,     \* id |-> (id |-> range, or no entry)
    at,        \* the id that is decided next, N + 1 when all are
    trusted,   \* ids whose initial decision enabled them
    rightly,   \* observed: ids whose candidate the policy allows
    active,    \* active_ids
    blocked,   \* ids that the search for cycles blocked
    order,     \* ordered_ids
    pc,        \* "discover", "decide", "prune", "cycles", "sort", "done"
    winner,    \* the source of the candidate for the id at hand, 0 without one
    proper     \* observed: the source whose copy hides nothing behind a link, 0 if none does

vars == <<version, needs, at, trusted, rightly, active, blocked, order, pc, winner, proper>>
discovery == <<winner, proper>>

Dependencies(i) == UNION {[on -> Ranges] : on \in SUBSET ((1..N + 1) \ {i})}

Init ==
    /\ version \in [Ids -> Versions] /\ needs \in {f \in [Ids -> UNION {Dependencies(i) : i \in Ids}] : \A i \in Ids : i \notin DOMAIN f[i]}
    /\ at = 1 /\ trusted = {} /\ rightly = {} /\ active = {} /\ blocked = {} /\ order = <<>> /\ pc = "discover"
    /\ winner = 0 /\ proper = 0

-----------------------------------------------------------------------------
(* Discovery and the initial decision, one id after the other *)

\* What lies under the name of an id in a root: as it should be, or with one thing wrong
Whole == [root |-> "directory", child |-> "directory", inside |-> TRUE, manifest |-> "valid"]
Shapes ==
    {Whole, [Whole EXCEPT !.inside = FALSE]}
    \cup {[Whole EXCEPT !.root = k] : k \in {"missing", "link"}} \cup {[Whole EXCEPT !.child = k] : k \in {"file", "link"}}
    \cup {[Whole EXCEPT !.manifest = k] : k \in {"none", "link", "directory", "broken"}}

\* _discover_child: links are not followed, and what a resolved path leaves is refused.
ChildIsCandidate(shape) == shape.child = "directory" /\ shape.inside /\ shape.manifest = "valid"

\* _discover_root
IsCandidate(shape) == shape.root = "directory" /\ ChildIsCandidate(shape)

\* The candidates of an id are sorted by source and then by path; the first wins.
Better(c, d) == c.source < d.source \/ (c.source = d.source /\ c.path < d.path)
Winner(found) == CHOOSE c \in found : \A d \in found \ {c} : Better(c, d)

\* discover_extensions: a copy of the workspace beside another one, the later path first
Discover ==
    /\ pc = "discover"
    /\ \E k \in {1, 2}, first, last \in Shapes :
        LET copies == {[source |-> k, path |-> 2, shape |-> first], [source |-> 3, path |-> 1, shape |-> last]}
            found == {c \in copies : IsCandidate(c.shape)}
        IN  /\ winner' = IF found = {} THEN 0 ELSE Winner(found).source
            /\ proper' = IF first = Whole THEN k ELSE IF last = Whole THEN 3 ELSE 0
    /\ pc' = "decide"
    /\ UNCHANGED <<version, needs, at, trusted, rightly, active, blocked, order>>

\* Mutant: any approval of the id will do.
ApprovedId(approvals) == approvals # {}
\* An approval holds for one fingerprint.
Approved(approvals) == "this" \in approvals

\* _initial_decision
Enabled(source, listed, allowed, approvals, permitted) ==
    /\ source = 1 \/ listed
    /\ source = 2 => allowed
    /\ source = 3 => Approved(approvals)
    /\ permitted

Decide ==
    /\ pc = "decide"
    /\ \E listed, allowed, permitted \in BOOLEAN, approvals \in SUBSET {"this", "other"} :
        LET rights == permitted /\ CASE proper = 0 -> FALSE [] proper = 1 -> TRUE [] proper = 2 -> listed /\ allowed
                                      [] proper = 3 -> listed /\ "this" \in approvals
        IN  /\ trusted' = IF winner # 0 /\ Enabled(winner, listed, allowed, approvals, permitted) THEN trusted \cup {at} ELSE trusted
            /\ rightly' = IF rights THEN rightly \cup {at} ELSE rightly
    /\ at' = at + 1 /\ active' = trusted' /\ winner' = 0 /\ proper' = 0
    /\ pc' = IF at = N THEN "prune" ELSE "discover"
    /\ UNCHANGED <<version, needs, blocked, order>>

-----------------------------------------------------------------------------
(* Dependencies *)

\* VersionRange.contains, of one major version
Accepts(range, v) == CASE range.kind = "any" -> TRUE [] range.kind = "exact" -> v = range.minor [] range.kind = "caret" -> v >= range.minor

\* Mutant: a dependency that is there but not active is none.
ProblemThere(i, enabled) == \E d \in DOMAIN needs[i] : d \notin Ids \/ (d \in Ids /\ ~Accepts(needs[i][d], version[d]))
\* _dependency_problem: missing, disabled, or of another version
Problem(i, enabled) == \E d \in DOMAIN needs[i] : d \notin enabled \/ ~Accepts(needs[i][d], version[d])

\* One turn of the loop; what it disables is still active for the others of the same turn.
Prune ==
    LET disabled == {i \in active : Problem(i, active)} IN
    /\ pc = "prune"
    /\ active' = active \ disabled /\ pc' = IF disabled = {} THEN "cycles" ELSE "prune"
    /\ UNCHANGED <<version, needs, at, trusted, rightly, blocked, order, discovery>>

-----------------------------------------------------------------------------
(* _find_cycles: Tarjan's strongly connected components *)

Graph == [i \in active |-> DOMAIN needs[i] \cap active]
Lower(a, b) == IF a < b THEN a ELSE b

\* The state of a search: the counter, the stack, the index and the low link of each node, and the cycles found
Searches(nodes) == [index : Nat, stack : Seq(nodes), indices : [nodes -> Nat], low : [nodes -> Nat], cycles : SUBSET SUBSET nodes]

StrongConnect(graph, search, root) ==
    LET Enter(s, node) == [s EXCEPT !.index = @ + 1, !.stack = Append(@, node), !.indices[node] = s.index, !.low[node] = s.index]
        Leave(s, node) ==
            LET bottom == CHOOSE k \in DOMAIN s.stack : s.stack[k] = node
                component == {s.stack[k] : k \in bottom..Len(s.stack)}
            IN  IF s.low[node] # s.indices[node] THEN s
                ELSE [s EXCEPT !.stack = SubSeq(@, 1, bottom - 1),
                               !.cycles = IF Cardinality(component) > 1 THEN @ \cup {component} ELSE @]
        connect[s \in Searches(DOMAIN graph), node \in DOMAIN graph] ==
            LET Follow(t, d) ==
                    IF t.indices[d] = 0
                    THEN LET u == connect[t, d] IN [u EXCEPT !.low[node] = Lower(@, u.low[d])]
                    ELSE IF d \in Range(t.stack) THEN [t EXCEPT !.low[node] = Lower(@, t.indices[d])] ELSE t
            IN  Leave(FoldLeft(Follow, Enter(s, node), SetToSortSeq(graph[node], <)), node)
    IN  connect[search, root]

Cycles(graph) ==
    LET nodes == DOMAIN graph
        start == [index |-> 1, stack |-> <<>>, indices |-> [i \in nodes |-> 0], low |-> [i \in nodes |-> 0], cycles |-> {}]
    IN  FoldLeft(LAMBDA s, i : IF s.indices[i] = 0 THEN StrongConnect(graph, s, i) ELSE s, start, SetToSortSeq(nodes, <)).cycles

\* _collect_cycle_dependents, a search through the reversed graph
Dependents(graph, members) ==
    LET grown[k \in Nat] ==
            IF k = 0 THEN members
            ELSE LET found == grown[k - 1] IN found \cup {i \in DOMAIN graph : graph[i] \cap found # {}}
    IN  grown[Cardinality(DOMAIN graph)]

BlockCycles ==
    LET members == UNION Cycles(Graph) IN
    /\ pc = "cycles" /\ pc' = "sort"
    /\ blocked' = Dependents(Graph, members)
    /\ active' = active \ blocked'
    /\ UNCHANGED <<version, needs, at, trusted, rightly, order, discovery>>

-----------------------------------------------------------------------------
(* _topological_order: the least id whose dependencies are all placed comes next *)

Ready == {i \in active \ Range(order) : Graph[i] \subseteq Range(order)}

Sort ==
    /\ pc = "sort"
    /\ IF Ready = {} THEN pc' = "done" /\ UNCHANGED order ELSE order' = Append(order, Min(Ready)) /\ UNCHANGED pc
    /\ UNCHANGED <<version, needs, at, trusted, rightly, active, blocked, discovery>>

Next == Discover \/ Decide \/ Prune \/ BlockCycles \/ Sort

Spec == Init /\ [][Next]_vars

-----------------------------------------------------------------------------
(* Properties *)

TypeOK ==
    /\ at \in 1..N + 1 /\ pc \in {"discover", "decide", "prune", "cycles", "sort", "done"}
    /\ active \subseteq Ids /\ trusted \subseteq Ids /\ order \in Seq(Ids)
    /\ winner \in 0..3 /\ proper \in 0..3

\* Nothing is enabled that its source, its approval for this fingerprint and its permissions do not allow, nor
\* what lies behind a link; and what they allow is not refused at first.
TrustIsKept == trusted = rightly

\* A set of extensions that needs nothing else and has no cycle
Reaches(i, S) == LET Step(T) == T \cup UNION {DOMAIN needs[j] : j \in T \cap S} IN FoldFunction(LAMBDA k, T : Step(T), DOMAIN needs[i], [k \in Ids |-> k])
SelfContained(S) == \A i \in S : ~Problem(i, S) /\ i \notin Reaches(i, S)

\* The plan has exactly the extensions that can run together: the greatest set of trusted ones that needs nothing
\* else and has no cycle; each comes once, after all that it needs.
PlanIsGreatest == pc = "done" => Range(order) = UNION {S \in SUBSET rightly : SelfContained(S)} /\ IsInjective(order)
NeedsComeFirst == \A k \in DOMAIN order : DOMAIN needs[order[k]] \subseteq {order[l] : l \in 1..k - 1}
=============================================================================
