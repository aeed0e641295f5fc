---------------------------- MODULE EventBroker ----------------------------
(***************************************************************************)
(* EventBroker (src/tau_web/sse.py) and its route GET /api/events          *)
(* (src/tau_web/routes/events.py): events get cursors, are kept for        *)
(* replay, are fanned out into one bounded queue per connection, and a     *)
(* client that lost its connection resumes with Last-Event-ID.  A step is  *)
(* what the event loop executes between two suspensions; publish() has     *)
(* none.                                                                   *)
(***************************************************************************)
EXTENDS Naturals, Sequences, FiniteSets, SequencesExt

CONSTANTS Sessions,        \* session ids
          Global,          \* GLOBAL_EVENT_SESSION_ID: for every subscriber
          All,             \* the filter of a client that wants every session
          Clients,
          Interest,        \* the filter of each client: a session, or All
          Kinds,           \* "high", "delta" and "update" events that are published
          ReplayCapacity,  \* replay_capacity
          Capacity,        \* subscriber_capacity
          MaxCursor,       \* bound: events one broker publishes
          MaxDrops,        \* bound: connections that break
          MaxRestarts,     \* bound: restarts of the server
          None

ASSUME BrokerAssumption ==
    /\ IsFiniteSet(Sessions)
    /\ Global \notin Sessions /\ All \notin Sessions \cup {Global}
    /\ Interest \in [Clients -> Sessions \cup {All}]
    /\ Kinds \subseteq {"high", "delta", "update"}
    /\ ReplayCapacity \in Nat \ {0} /\ Capacity \in Nat \ {0}
    /\ MaxCursor \in Nat /\ MaxDrops \in Nat /\ MaxRestarts \in Nat
    /\ None \notin Nat

VARIABLES
    history,   \* all events of this broker; _cursor is its length
    replay,    \* _replay
    floor,     \* _replay_drop_floor (All), _global_drop_floor, _session_drop_floors
    closed,    \* _closed
    conn,      \* conn[c]: the request of stream_events and its _SubscriberState
    client,    \* client[c]: what the client knows
    drops, restarts   \* bounded counters

vars == <<history, replay, floor, closed, conn, client, drops, restarts>>

-----------------------------------------------------------------------------
\* An event, or several that were merged: parts are the cursors whose content it carries.
Event(n, s, k) == [cursor |-> n, session |-> s, kind |-> k, parts |-> {n}]
Snapshot(n) == [cursor |-> n, session |-> Global, kind |-> "snapshot", parts |-> {}]

Cursor == Len(history)

IsLow(e) == e.kind \in {"delta", "update"}

\* _matches_session
Matches(filter, s) == s = Global \/ filter = All \/ filter = s

\* Mutant: the floor of a session is not raised by global events.
DropFloorOwn(filter) == floor[filter]

\* _drop_floor_for
DropFloor(filter) ==
    IF filter = All THEN floor[All]
    ELSE IF floor[Global] > floor[filter] THEN floor[Global] ELSE floor[filter]

\* Mutant: the merged event keeps the cursor of the older one.
MergedOld(old, new) ==
    [new EXCEPT !.cursor = old.cursor,
                !.parts = IF new.kind = "delta" THEN old.parts \cup @ ELSE @]

\* _coalesce_tail: deltas are concatenated, other updates replaced.
Coalesces(old, new) == IsLow(new) /\ old.kind = new.kind /\ old.session = new.session
Merged(old, new) ==
    [new EXCEPT !.parts = IF new.kind = "delta" THEN old.parts \cup @ ELSE @]

OldestLow(q) == CHOOSE i \in DOMAIN q : IsLow(q[i]) /\ \A j \in 1..(i - 1) : ~IsLow(q[j])

\* Mutants: the capacity is off by one; a full queue drops its oldest event; an overflow
\* does not close the connection.
EnqueuedBeyond(d, e) ==
    IF ~d.on \/ d.ended THEN d
    ELSE IF Len(d.queue) <= Capacity THEN [d EXCEPT !.queue = Append(@, e)]
    ELSE [d EXCEPT !.overflowed = TRUE, !.ended = TRUE]
EnqueuedDropping(d, e) ==
    IF ~d.on \/ d.ended THEN d
    ELSE IF Len(d.queue) < Capacity THEN [d EXCEPT !.queue = Append(@, e)]
    ELSE [d EXCEPT !.queue = Append(Tail(@), e)]
OverflowedOpen(d) == [d EXCEPT !.overflowed = TRUE]

\* _wake: a waiter that was cancelled already is left alone
Wake(d) == [d EXCEPT !.wait = IF @ = "waiting" THEN "no" ELSE @]

Overflowed(d) == Wake([d EXCEPT !.overflowed = TRUE, !.ended = TRUE])

\* _enqueue, for the connection d
Enqueued(d, e) ==
    IF ~d.on \/ d.ended \/ d.overflowed THEN d
    ELSE IF Len(d.queue) < Capacity
    THEN Wake([d EXCEPT !.queue = Append(@, e)])
    ELSE IF Coalesces(Last(d.queue), e)
    THEN Wake([d EXCEPT !.queue = [d.queue EXCEPT ![Len(d.queue)] = Merged(Last(d.queue), e)]])
    ELSE IF \E i \in DOMAIN d.queue : IsLow(d.queue[i])
    THEN Wake([d EXCEPT !.queue = Append(RemoveAt(@, OldestLow(d.queue)), e)])
    ELSE Overflowed(d)

NoConnection ==
    [on |-> FALSE,             \* a request is being served
     todo |-> {},              \* what the route is writing, in the order of the cursors
     queue |-> <<>>,           \* the queue of its subscription
     ended |-> FALSE,          \* closed
     overflowed |-> FALSE,
     wait |-> "no",            \* its waiter: "waiting", "timed" out, or there is none
     skip |-> 0]               \* snapshot_cursor

NewClient ==
    [last |-> None,            \* the id it received last
     base |-> 0,               \* cursor of the snapshot its state is built on
     got |-> {},               \* the contents received since
     stale |-> FALSE]          \* last was assigned by a broker that is gone

Init ==
    /\ history = <<>> /\ replay = <<>> /\ closed = FALSE
    /\ floor = [f \in Sessions \cup {Global, All} |-> 0]
    /\ conn = [c \in Clients |-> NoConnection]
    /\ client = [c \in Clients |-> NewClient]
    /\ drops = 0 /\ restarts = 0

-----------------------------------------------------------------------------
(* The broker *)

\* The floors after the oldest event e has left the replay buffer
Dropped(e) ==
    [f \in DOMAIN floor |-> IF f \in {All, e.session} THEN e.cursor ELSE floor[f]]

\* publish: _append_replay, then _enqueue for every subscriber that matches
Publish(s, k) ==
    LET e == Event(Cursor + 1, s, k) IN
    /\ ~closed /\ Cursor < MaxCursor
    /\ history' = Append(history, e)
    /\ IF Len(replay) >= ReplayCapacity
       THEN /\ floor' = Dropped(Head(replay))
            /\ replay' = Append(Tail(replay), e)
       ELSE /\ replay' = Append(replay, e)
            /\ UNCHANGED floor
    /\ conn' = [c \in Clients |->
           IF Matches(Interest[c], s) THEN Enqueued(conn[c], e) ELSE conn[c]]
    /\ UNCHANGED <<closed, client, drops, restarts>>

\* close
Close ==
    /\ ~closed
    /\ closed' = TRUE
    /\ conn' = [c \in Clients |->
           IF conn[c].on THEN Wake([conn[c] EXCEPT !.ended = TRUE]) ELSE conn[c]]
    /\ UNCHANGED <<history, replay, floor, client, drops, restarts>>

\* The process is started again: a new broker, the old connections are gone.
Restart ==
    /\ closed /\ restarts < MaxRestarts
    /\ history' = <<>> /\ replay' = <<>> /\ closed' = FALSE
    /\ floor' = [f \in DOMAIN floor |-> 0]
    /\ conn' = [c \in Clients |-> NoConnection]
    /\ client' = [c \in Clients |->
           [client[c] EXCEPT !.stale = client[c].last # None, !.base = 0, !.got = {}]]
    /\ restarts' = restarts + 1
    /\ UNCHANGED <<drops>>

-----------------------------------------------------------------------------
(* stream_events, one request at a time per client *)

\* Mutant: the replay includes the event that was received last.
MissedAgain(c, last) ==
    {e \in Range(replay) : e.cursor >= last /\ Matches(Interest[c], e.session)}

\* The retained events after last that client c wants
Missed(c, last) ==
    {e \in Range(replay) : e.cursor > last /\ Matches(Interest[c], e.session)}

\* The cursor the client resumes from cannot be replayed.
SnapshotRequired(c, last) == last > Cursor \/ last < DropFloor(Interest[c])

\* The route subscribes before it suspends for the first time.
Connect(c) ==
    LET last == client[c].last
        fresh == last = None \/ (last # None /\ SnapshotRequired(c, last)) IN
    /\ ~conn[c].on
    /\ conn' = [conn EXCEPT ![c] =
           [NoConnection EXCEPT !.on = TRUE, !.ended = closed,
                                !.todo = IF fresh THEN {Snapshot(Cursor)}
                                                  ELSE Missed(c, last),
                                !.skip = IF fresh THEN Cursor ELSE 0]]
    /\ UNCHANGED <<history, replay, floor, closed, client, drops, restarts>>

\* The route is in next(), or was woken there.
InNext(c) == conn[c].on /\ conn[c].todo = {} /\ conn[c].wait = "no"

\* next() returns an event; one that the snapshot covers is passed over.
Take(c) ==
    /\ InNext(c) /\ conn[c].queue # <<>>
    /\ LET e == Head(conn[c].queue) IN
       conn' = [conn EXCEPT ![c] =
           [conn[c] EXCEPT !.queue = Tail(conn[c].queue),
                           !.todo = IF e.cursor <= conn[c].skip THEN {} ELSE {e}]]
    /\ UNCHANGED <<history, replay, floor, closed, client, drops, restarts>>

\* next() finds nothing.
Wait(c) ==
    /\ InNext(c) /\ conn[c].queue = <<>> /\ ~conn[c].ended
    /\ conn' = [conn EXCEPT ![c].wait = "waiting"]
    /\ UNCHANGED <<history, replay, floor, closed, client, drops, restarts>>

\* Its time is over: the waiter is cancelled, the route goes on later.
Expire(c) ==
    /\ conn[c].wait = "waiting"
    /\ conn' = [conn EXCEPT ![c].wait = "timed"]
    /\ UNCHANGED <<history, replay, floor, closed, client, drops, restarts>>

\* next() returned None: a heartbeat, or the end, whatever came into the queue meanwhile
Heartbeat(c) ==
    /\ conn[c].wait = "timed"
    /\ conn' = [conn EXCEPT ![c] = IF conn[c].ended THEN NoConnection ELSE [conn[c] EXCEPT !.wait = "no"]]
    /\ UNCHANGED <<history, replay, floor, closed, client, drops, restarts>>

\* The event that the route writes next
Upcoming(c) == CHOOSE e \in conn[c].todo : \A d \in conn[c].todo : e.cursor <= d.cursor

\* A write reaches the client.
Write(c) ==
    /\ conn[c].on /\ conn[c].todo # {}
    /\ LET e == Upcoming(c) IN
       client' = [client EXCEPT ![c] =
           IF e.kind = "snapshot"
           THEN [last |-> e.cursor, base |-> e.cursor, got |-> {}, stale |-> FALSE]
           ELSE [client[c] EXCEPT !.last = e.cursor, !.got = client[c].got \cup e.parts,
                                  !.stale = FALSE]]
    /\ conn' = [conn EXCEPT ![c].todo = @ \ {Upcoming(c)}]
    /\ UNCHANGED <<history, replay, floor, closed, drops, restarts>>

\* A closed subscription ends the response once its queue is empty.
Finish(c) ==
    /\ InNext(c) /\ conn[c].ended /\ conn[c].queue = <<>>
    /\ conn' = [conn EXCEPT ![c] = NoConnection]
    /\ UNCHANGED <<history, replay, floor, closed, client, drops, restarts>>

\* The connection breaks; what was not written is lost.
Disconnect(c) ==
    /\ conn[c].on /\ drops < MaxDrops
    /\ drops' = drops + 1
    /\ conn' = [conn EXCEPT ![c] = NoConnection]
    /\ UNCHANGED <<history, replay, floor, closed, client, restarts>>

-----------------------------------------------------------------------------
Next ==
    \/ \E s \in Sessions \cup {Global}, k \in Kinds : Publish(s, k)
    \/ Close \/ Restart
    \/ \E c \in Clients :
           \/ Connect(c) \/ Take(c) \/ Wait(c) \/ Expire(c) \/ Heartbeat(c)
           \/ Write(c) \/ Finish(c) \/ Disconnect(c)

Spec == Init /\ [][Next]_vars

\* Clients connect again on their own, and the route goes on as long as it can write.
FairSpec ==
    /\ Spec
    /\ \A c \in Clients :
           WF_vars(Connect(c)) /\ WF_vars(Take(c)) /\ WF_vars(Write(c)) /\ WF_vars(Finish(c))
           /\ WF_vars(Heartbeat(c))

-----------------------------------------------------------------------------
EventType ==
    [cursor : Nat, session : Sessions \cup {Global},
     kind : {"high", "delta", "update", "snapshot"}, parts : SUBSET Nat]

TypeOK ==
    /\ history \in Seq(EventType) /\ replay \in Seq(EventType) /\ closed \in BOOLEAN
    /\ floor \in [Sessions \cup {Global, All} -> Nat]
    /\ conn \in [Clients -> [on : BOOLEAN, todo : SUBSET EventType, queue : Seq(EventType),
                             ended : BOOLEAN, overflowed : BOOLEAN, skip : Nat,
                             wait : {"no", "waiting", "timed"}]]
    /\ client \in [Clients -> [last : Nat \cup {None}, base : Nat, got : SUBSET Nat,
                               stale : BOOLEAN]]
    /\ drops \in 0..MaxDrops /\ restarts \in 0..MaxRestarts
    /\ Len(replay) <= ReplayCapacity
    /\ \A c \in Clients : Len(conn[c].queue) <= Capacity

\* The events of this broker that client c must not miss
Important(c) ==
    {i \in DOMAIN history : history[i].kind = "high" /\ Matches(Interest[c], history[i].session)}

\* A client that has received cursor n has received every important event up to n, or is
\* built on a snapshot that was taken after it: evictions, merges, overflows, replays and
\* broken connections only ever cost low events.
HighComplete ==
    \A c \in Clients :
        ~client[c].stale /\ client[c].last # None =>
            \A i \in Important(c) :
                client[c].base < i /\ i <= client[c].last => i \in client[c].got

\* No content is delivered twice, although merged events, replays and snapshots overlap.
NothingTwice ==
    [][\A c \in Clients :
           Write(c) /\ ~client[c].stale => Upcoming(c).parts \cap client[c].got = {}]_vars

\* The ids a client receives from one broker grow strictly, across connections too.
CursorsGrow ==
    [][\A c \in Clients :
           Write(c) /\ client[c].last # None /\ ~client[c].stale
               => client'[c].last > client[c].last]_vars

\* A resume falls back to a snapshot exactly when an event it would need is gone.
FloorExact ==
    \A f \in Sessions \cup {All} : \A n \in 0..Cursor :
        n < DropFloor(f) <=>
            \E i \in (n + 1)..Cursor :
                /\ Matches(f, history[i].session)
                /\ \A j \in DOMAIN replay : replay[j].cursor # i

\* Who waits has nothing to read: an event, a merge and an end wake the route, so that only what comes
\* between a timeout and its heartbeat is late.
NoWakeIsLost ==
    \A c \in Clients : conn[c].wait = "waiting" => conn[c].queue = <<>> /\ ~conn[c].ended

\* An important event reaches every client in the end, directly, by replay or by snapshot,
\* although queues overflow and connections break, unless the server is started again.
CaughtUp ==
    \A c \in Clients : \A i \in 1..MaxCursor :
        i \in Important(c) ~> i \in client[c].got \/ i <= client[c].base \/ restarts > 0

\* What these rest on.  The replay buffer holds the latest events, and a floor is the cursor of
\* the last event of its filter that is not there any more.
Kept == Cursor - Len(replay)

HistoryExact ==
    \A i \in DOMAIN history : history[i].cursor = i /\ history[i].parts = {i} /\ history[i].kind # "snapshot"

ReplayExact ==
    /\ Len(replay) <= Cursor
    /\ \A j \in DOMAIN replay : replay[j] = history[Kept + j]
    /\ floor[All] = Kept
    /\ \A f \in Sessions \cup {Global} :
           /\ floor[f] <= Kept
           /\ floor[f] > 0 => history[floor[f]].session = f
           /\ \A i \in (floor[f] + 1)..Kept : history[i].session # f

\* The snapshot is still to be written to the connection d.
Opening(d) == \E e \in d.todo : e.kind = "snapshot"

\* The cursor up to which the client x of the connection d has, or is about to get, what it needs
Mark(d, x) == IF Opening(d) THEN d.skip ELSE x.last

\* An event under way is one of the history h, and carries what came after m.
Carries(h, e, m) ==
    /\ m < e.cursor /\ e.cursor <= Len(h)
    /\ e.kind = h[e.cursor].kind /\ e.session = h[e.cursor].session
    /\ e.kind = "high" => e.parts = {e.cursor}
    /\ \A i \in e.parts : m < i /\ i <= e.cursor

\* The events of a queue carry what came after m, one after the other.
Chain(h, q, m) ==
    \A i \in DOMAIN q :
        Carries(h, q[i], m) /\ \A j \in DOMAIN q : i < j => Carries(h, q[j], q[i].cursor)

\* Events are under way in the order of their cursors, and carry no content twice.
Ordered(h, d, x) ==
    /\ Opening(d) => /\ d.todo = {Snapshot(d.skip)}
                     /\ x.last # None /\ ~x.stale => x.last < d.skip
    /\ ~Opening(d) => x.last # None /\ d.skip <= x.last /\ x.last <= Len(h)
    /\ d.skip <= Len(h)
    /\ Chain(h, d.queue, Mark(d, x))
    /\ \A e \in d.todo : e.kind # "snapshot" =>
           /\ Carries(h, e, Mark(d, x))
           /\ \A f \in d.todo : IF e.cursor < f.cursor THEN Carries(h, f, e.cursor)
                                 ELSE f.cursor = e.cursor => f = e
           /\ Chain(h, d.queue, e.cursor)

\* The cursors that are under way on the connection d
UnderWay(d) ==
    {e.cursor : e \in {f \in d.todo : f.kind # "snapshot"} \cup Range(d.queue)}

\* None of the important ones is missing, up to the last of a connection that has ended.
Complete(important, d, x) ==
    \A i \in important :
        Mark(d, x) < i /\ (~d.ended \/ \E n \in UnderWay(d) : i <= n) => i \in UnderWay(d)

StreamExact ==
    \A c \in Clients : conn[c].on =>
        /\ Ordered(history, conn[c], client[c])
        /\ restarts = 0 => Complete(Important(c), conn[c], client[c])

ConnectionsExact ==
    \A c \in Clients :
        /\ conn[c].overflowed => conn[c].ended
        /\ closed /\ conn[c].on => conn[c].ended
        /\ ~conn[c].on => conn[c] = NoConnection

\* What a client has is not newer than what it was told last.
ClientsExact ==
    \A c \in Clients :
        /\ client[c].stale => client[c].last # None /\ client[c].got = {} /\ restarts > 0
        /\ client[c].last = None => client[c].got = {} 
        /\ client[c].last # None /\ ~client[c].stale => client[c].last <= Cursor
        /\ client[c].last # None => \A i \in client[c].got : i <= client[c].last

IInv ==
    /\ TypeOK /\ NoWakeIsLost /\ HistoryExact /\ ReplayExact /\ ConnectionsExact /\ ClientsExact
    /\ StreamExact /\ (restarts = 0 => HighComplete)

\* Replay and queues keep to their capacities, a resume falls back to a snapshot exactly when it
\* must, no wake-up is lost, and until the server is started again no client misses an important event.
Delivers == IInv /\ FloorExact

\* Nothing is delivered twice, and the ids of a client grow.
OnceInOrder == NothingTwice /\ CursorsGrow

\* Instances: every client wants the events of every session.
EverySession == [c \in Clients |-> All]
=============================================================================
