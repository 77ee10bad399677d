------------------------- MODULE FirestoreGet_proofs -------------------------
(***************************************************************************)
(* Proofs about FirestoreGet, for any number of calls and queries, any     *)
(* number of versions of the data and any number of faults: no assertion   *)
(* of the client fails, no completion is called twice, and what a screen   *)
(* is told is from the server has the data of the moment since when its    *)
(* target was followed.                                                    *)
(***************************************************************************)
EXTENDS FirestoreGet, FiniteSetTheorems, SequenceTheorems, TLAPS

-----------------------------------------------------------------------------
(* The inductive invariant of the client.                                  *)

\* A token is awaited while the stream starts only, and a stream is idle only
\* while it is open with nothing to watch.
StreamInv(c) ==
    /\ c.stream.ok
    /\ c.stream.asked => c.stream.state = "Starting"
    /\ c.stream.idle => c.stream.state = "Open" /\ c.targets = {}

\* The timer runs before the first failure of an attempt only.
TrackerInv(t) ==
    /\ t.ok
    /\ t.timer => t.state = "Unknown" /\ t.failures = 0
    /\ t.state = "Online" => t.failures = 0

OnlineInv(c) ==
    TrackerInv(c.online) /\ (c.online.timer => IsStarted(c.stream))

\* An error is the last event of a call, and nobody listens for it any more.
ErrorsAreLast(c) ==
    \A g \in Gets : \A i \in 1 .. Len(c.posted[g]) :
        c.posted[g][i].error => i = Len(c.posted[g]) /\ g \notin c.listeners

\* Everything but the tracker.
CoreInv(c) == c \in Client /\ c.ok /\ StreamInv(c) /\ ErrorsAreLast(c)

\* Listeners, views and targets belong together.
Linked(c) ==
    \A q \in Queries : /\ c.views[q].open <=> q \in c.targets
                       /\ q \in c.targets <=> Listeners(c, q) # {}

\* What a method leaves alone, and who hears nothing of it.
SameLinks(c, d) ==
    /\ d.listeners = c.listeners /\ d.targets = c.targets
    /\ \A q \in Queries : d.views[q].open = c.views[q].open

\* What is not touched by events.
EventsOnly(c, d) ==
    /\ d.stream = c.stream /\ d.online = c.online /\ d.network = c.network
    /\ d.targets = c.targets /\ d.agg = c.agg /\ d.views = c.views
    /\ d.listeners = c.listeners /\ d.ok = c.ok

Silent(c, d) == \A g \in Gets \ c.listeners : d.posted[g] = c.posted[g]

-----------------------------------------------------------------------------
(* Events.                                                                 *)

\* The events of listeners keep the client's invariant.
LEMMA RaiseKeeps ==
    ASSUME NEW c, CoreInv(c), NEW G \in SUBSET c.listeners
    PROVE  LET d == Raise(c, G)
           IN  CoreInv(d) /\ EventsOnly(c, d) /\ Silent(c, d)
<1> DEFINE d == Raise(c, G)
<1>1. c \in Client /\ G \subseteq Gets
    BY DEF CoreInv, Client
<1>2. \A q \in Queries : ViewEvent(c, q) \in Events /\ ~ViewEvent(c, q).error
    BY <1>1 DEF Client, ViewEvent, Events, Views
<1>3. \A g \in Gets : QueryOf[g] \in Queries
    BY GetAssumption
<1>4. /\ d.posted \in [Gets -> Seq(Events)]
      /\ \A g \in G : d.posted[g] = Append(c.posted[g], ViewEvent(c, QueryOf[g]))
      /\ \A g \in Gets \ G : d.posted[g] = c.posted[g]
    BY <1>1, <1>2, <1>3 DEF Client, Raise
<1>5. d \in Client
    BY <1>1, <1>4 DEF Client, Raise
<1>6. ErrorsAreLast(d)
    <2> SUFFICES ASSUME NEW g \in Gets, NEW i \in 1 .. Len(d.posted[g]),
                        d.posted[g][i].error
                 PROVE  i = Len(d.posted[g]) /\ g \notin c.listeners
        BY DEF ErrorsAreLast, Raise
    <2>1. CASE g \in G
        <3> DEFINE s == c.posted[g]
                   e == ViewEvent(c, QueryOf[g])
        <3>1. s \in Seq(Events) /\ e \in Events /\ d.posted[g] = Append(s, e)
            BY <1>1, <1>2, <1>3, <1>4, <2>1 DEF Client
        <3>2. /\ Len(Append(s, e)) = Len(s) + 1 /\ Append(s, e)[Len(s) + 1] = e
              /\ \A j \in 1 .. Len(s) : Append(s, e)[j] = s[j]
              /\ Len(s) \in Nat
            BY <3>1
        <3>3. i # Len(s) + 1
            BY <1>2, <1>3, <3>1, <3>2
        <3>4. i \in 1 .. Len(s) /\ s[i].error
            BY <3>1, <3>2, <3>3
        <3> QED BY <2>1, <3>4 DEF CoreInv, ErrorsAreLast
    <2>2. CASE g \notin G
        BY <1>4, <2>2 DEF CoreInv, ErrorsAreLast
    <2> QED BY <2>1, <2>2
<1>7. EventsOnly(c, d)
    BY <1>1 DEF Raise, Client, EventsOnly
<1>8. Silent(c, d)
    BY <1>1, <1>4 DEF Silent
<1>9. StreamInv(d) /\ d.ok
    BY <1>1 DEF CoreInv, StreamInv, Raise, Client
<1> QED BY <1>5, <1>6, <1>7, <1>8, <1>9 DEF CoreInv

LEMMA SnapshotsKeep ==
    ASSUME NEW c, CoreInv(c), NEW Q
    PROVE  LET d == OnViewSnapshots(c, Q)
           IN  CoreInv(d) /\ EventsOnly(c, d) /\ Silent(c, d)
<1> DEFINE G == {g \in c.listeners :
                    /\ QueryOf[g] \in Q
                    /\ g \in c.raised \/ ShouldRaiseInitialEvent(c, QueryOf[g])}
<1>1. G \in SUBSET c.listeners /\ OnViewSnapshots(c, Q) = Raise(c, G)
    BY DEF OnViewSnapshots
<1> HIDE DEF G
<1> QED BY <1>1, RaiseKeeps

LEMMA OnlineEventsKeep ==
    ASSUME NEW c, CoreInv(c)
    PROVE  LET d == OnOnlineStateChanged(c)
           IN  CoreInv(d) /\ EventsOnly(c, d) /\ Silent(c, d)
<1> DEFINE G == {g \in c.listeners \ c.raised :
                    ShouldRaiseInitialEvent(c, QueryOf[g])}
<1>1. G \in SUBSET c.listeners /\ OnOnlineStateChanged(c) = Raise(c, G)
    BY DEF OnOnlineStateChanged
<1> HIDE DEF G
<1> QED BY <1>1, RaiseKeeps

\* A view that lost its sync state, or gained it, is still well-formed.
LEMMA OnlineKeeps ==
    ASSUME NEW c, CoreInv(c), NEW t \in TrackerType
    PROVE  LET d == Broadcast(c, t)
           IN  /\ CoreInv(d) /\ SameLinks(c, d) /\ Silent(c, d)
               /\ d.online = t /\ d.stream = c.stream /\ d.agg = c.agg
               /\ d.network = c.network
<1>1. CASE t.state = c.online.state
    BY <1>1 DEF CoreInv, Client, StreamInv, ErrorsAreLast, SameLinks, Silent,
                Broadcast
<1>2. CASE t.state # c.online.state
    <2> DEFINE stale == IF t.state = "Offline"
                        THEN {q \in Queries : c.views[q].current} ELSE {}
               w == [q \in Queries |->
                        [c.views[q] EXCEPT !.current = @ /\ q \notin stale]]
               v == [c EXCEPT !.views = w]
               r == OnViewSnapshots(v, stale)
               o == [r EXCEPT !.online = t]
               d == OnOnlineStateChanged(o)
    <2>1. d = Broadcast(c, t)
        BY <1>2 DEF Broadcast, HandleOnlineStateChange
    <2>2. CoreInv(v) /\ SameLinks(c, v) /\ Silent(c, v)
          /\ v.stream = c.stream /\ v.agg = c.agg /\ v.network = c.network
        <3>1. \A q \in Queries : /\ w[q] \in Views
                                 /\ w[q].open = c.views[q].open
            BY DEF CoreInv, Client, Views
        <3>2. w \in [Queries -> Views]
            BY <3>1
        <3> HIDE DEF w
        <3> QED BY <3>1, <3>2 DEF CoreInv, Client, StreamInv, ErrorsAreLast,
                                  SameLinks, Silent
    <2> HIDE DEF v, w, stale
    <2>3. CoreInv(r) /\ EventsOnly(v, r) /\ Silent(v, r)
        BY <2>2, SnapshotsKeep
    <2> HIDE DEF r
    <2>4. CoreInv(o) /\ SameLinks(r, o) /\ Silent(r, o)
          /\ o.stream = r.stream /\ o.agg = r.agg /\ o.online = t
          /\ o.network = r.network
        BY <2>3 DEF CoreInv, Client, StreamInv, ErrorsAreLast, SameLinks, Silent
    <2> HIDE DEF o
    <2>5. CoreInv(d) /\ EventsOnly(o, d) /\ Silent(o, d)
        BY <2>4, OnlineEventsKeep
    <2> HIDE DEF d
    <2>6. SameLinks(c, d) /\ Silent(c, d)
        BY <2>2, <2>3, <2>4, <2>5 DEF SameLinks, Silent, EventsOnly
    <2>7. /\ d.online = t /\ d.stream = c.stream /\ d.agg = c.agg
          /\ d.network = c.network
        BY <2>2, <2>3, <2>4, <2>5 DEF EventsOnly
    <2> QED BY <2>1, <2>5, <2>6, <2>7
<1> QED BY <1>1, <1>2

-----------------------------------------------------------------------------
(* The tracker.                                                            *)

\* Each method keeps the tracker's invariant, a start while no timer runs.
LEMMA TrackerKeeps ==
    ASSUME NEW t \in TrackerType, TrackerInv(t)
    PROVE  /\ LET s == HandleWatchStreamStart(t)
              IN ~t.timer => s \in TrackerType /\ TrackerInv(s)
           /\ LET s == HandleWatchStreamFailure(t)
              IN /\ t.state = "Online" => ~t.timer
                 /\ s \in TrackerType /\ TrackerInv(s) /\ ~s.timer
           /\ t.timer => LET s == OnlineStateTimeout(t)
                         IN s \in TrackerType /\ TrackerInv(s) /\ ~s.timer
           /\ \A state \in {"Unknown", "Online"} :
                  LET s == UpdateState(t, state)
                  IN s \in TrackerType /\ TrackerInv(s) /\ ~s.timer
<1> USE DEF TrackerType, TrackerInv
<1>1. LET s == HandleWatchStreamStart(t)
      IN ~t.timer => s \in TrackerType /\ TrackerInv(s)
    BY DEF HandleWatchStreamStart
<1>2. LET s == HandleWatchStreamFailure(t)
      IN /\ t.state = "Online" => ~t.timer
         /\ s \in TrackerType /\ TrackerInv(s) /\ ~s.timer
    <2>1. CASE t.state = "Online"
        BY <2>1 DEF HandleWatchStreamFailure
    <2>2. CASE t.state # "Online"
        <3> SUFFICES ASSUME NEW s, s = HandleWatchStreamFailure(t)
                     PROVE  s \in TrackerType /\ TrackerInv(s) /\ ~s.timer
            BY <2>2
        <3>1. t.failures + 1 >= kMaxWatchStreamFailures
            BY DEF kMaxWatchStreamFailures
        <3>2. s = [state |-> "Offline", failures |-> kMaxWatchStreamFailures,
                   timer |-> FALSE, ok |-> t.ok]
            BY <2>2, <3>1 DEF HandleWatchStreamFailure
        <3> QED BY <3>2 DEF kMaxWatchStreamFailures
    <2> QED BY <2>1, <2>2
<1>3. t.timer => LET s == OnlineStateTimeout(t)
                 IN s \in TrackerType /\ TrackerInv(s) /\ ~s.timer
    BY DEF OnlineStateTimeout
<1>4. ASSUME NEW state \in {"Unknown", "Online"}
      PROVE  LET s == UpdateState(t, state)
             IN s \in TrackerType /\ TrackerInv(s) /\ ~s.timer
    <2> SUFFICES ASSUME NEW s, s = UpdateState(t, state)
                 PROVE  s \in TrackerType /\ TrackerInv(s) /\ ~s.timer
        OBVIOUS
    <2>1. s = [state |-> state, failures |-> 0, timer |-> FALSE, ok |-> t.ok]
        BY DEF UpdateState
    <2> QED BY <2>1 DEF kMaxWatchStreamFailures
<1> QED BY <1>1, <1>2, <1>3, <1>4

\* The client with its tracker.
ClientInv(c) == CoreInv(c) /\ OnlineInv(c)

-----------------------------------------------------------------------------
(* The watch stream.                                                       *)

\* The streams, as StreamInv has them.
LEMMA StreamKeeps ==
    ASSUME NEW s \in StreamType, s.ok
    PROVE  /\ ~IsStarted(s) /\ ~s.asked /\ ~s.idle =>
                 LET n == Start(s)
                 IN /\ n \in StreamType /\ n.ok /\ IsStarted(n) /\ ~n.idle
                    /\ n.asked => n.state = "Starting"
           /\ \A graceful \in BOOLEAN :
                 IsStarted(s) =>
                     LET n == Close(s, graceful)
                     IN /\ n \in StreamType /\ n.ok /\ ~IsStarted(n)
                        /\ ~n.asked /\ ~n.idle
           /\ s.state = "Backoff" /\ ~s.asked /\ ~s.idle =>
                 LET n == BackoffElapsed(s)
                 IN /\ n \in StreamType /\ n.ok /\ IsStarted(n) /\ ~n.idle
                    /\ n.asked => n.state = "Starting"
<1> USE DEF StreamType, States, IsStarted
<1>1. ASSUME ~IsStarted(s), ~s.asked, ~s.idle
      PROVE  LET n == Start(s)
             IN /\ n \in StreamType /\ n.ok /\ IsStarted(n) /\ ~n.idle
                /\ n.asked => n.state = "Starting"
    <2>1. CASE s.state = "Error"
        BY <1>1, <2>1 DEF Start, BackoffAndTryRestarting
    <2>2. CASE s.state = "Initial"
        BY <1>1, <2>2 DEF Start, RequestCredentials
    <2> QED BY <1>1, <2>1, <2>2
<1>2. ASSUME NEW graceful \in BOOLEAN, IsStarted(s)
      PROVE  LET n == Close(s, graceful)
             IN /\ n \in StreamType /\ n.ok /\ ~IsStarted(n)
                /\ ~n.asked /\ ~n.idle
    <2> SUFFICES ASSUME NEW n, n = Close(s, graceful)
                 PROVE  n \in StreamType /\ n.ok /\ ~IsStarted(n)
                            /\ ~n.asked /\ ~n.idle
        OBVIOUS
    <2>1. n = [state |-> IF graceful THEN "Initial" ELSE "Error",
               asked |-> FALSE, stale |-> s.stale + (IF s.asked THEN 1 ELSE 0),
               idle |-> FALSE, ok |-> TRUE]
        BY <1>2 DEF Close
    <2> QED BY <2>1
<1>3. ASSUME s.state = "Backoff", ~s.asked, ~s.idle
      PROVE  LET n == BackoffElapsed(s)
             IN /\ n \in StreamType /\ n.ok /\ IsStarted(n) /\ ~n.idle
                /\ n.asked => n.state = "Starting"
    BY <1>3 DEF BackoffElapsed, Start, RequestCredentials
<1> QED BY <1>1, <1>2, <1>3

\* What an open stream is after a request, a mark of idleness, a token.
LEMMA OpenStreamKeeps ==
    ASSUME NEW s \in StreamType, s.ok
    PROVE  /\ s.state = "Open" /\ ~s.asked =>
                 /\ Write(s) = [state |-> "Open", asked |-> FALSE,
                                stale |-> s.stale, idle |-> FALSE, ok |-> TRUE]
                 /\ MarkIdle(s) = [state |-> "Open", asked |-> FALSE,
                                   stale |-> s.stale, idle |-> TRUE, ok |-> TRUE]
           /\ s.state = "Starting" /\ ~s.idle =>
                 ResumeStartWithCredentials(s) =
                     [state |-> "Open", asked |-> FALSE, stale |-> s.stale,
                      idle |-> FALSE, ok |-> TRUE]
           /\ \A idle \in BOOLEAN :
                  [state |-> "Open", asked |-> FALSE, stale |-> s.stale,
                   idle |-> idle, ok |-> TRUE] \in StreamType
<1> USE DEF StreamType, States, IsOpen
<1>1. ASSUME s.state = "Open", ~s.asked
      PROVE  Write(s) = [state |-> "Open", asked |-> FALSE, stale |-> s.stale,
                         idle |-> FALSE, ok |-> TRUE]
    <2> SUFFICES ASSUME NEW n, n = Write(s)
                 PROVE  n = [state |-> "Open", asked |-> FALSE,
                             stale |-> s.stale, idle |-> FALSE, ok |-> TRUE]
        OBVIOUS
    <2> QED BY <1>1 DEF Write
<1>2. ASSUME s.state = "Open", ~s.asked
      PROVE  MarkIdle(s) = [state |-> "Open", asked |-> FALSE,
                            stale |-> s.stale, idle |-> TRUE, ok |-> TRUE]
    <2> SUFFICES ASSUME NEW n, n = MarkIdle(s)
                 PROVE  n = [state |-> "Open", asked |-> FALSE,
                             stale |-> s.stale, idle |-> TRUE, ok |-> TRUE]
        OBVIOUS
    <2> QED BY <1>2 DEF MarkIdle
<1>3. ASSUME s.state = "Starting", ~s.idle
      PROVE  ResumeStartWithCredentials(s) =
                 [state |-> "Open", asked |-> FALSE, stale |-> s.stale,
                  idle |-> FALSE, ok |-> TRUE]
    <2> SUFFICES ASSUME NEW n, n = ResumeStartWithCredentials(s)
                 PROVE  n = [state |-> "Open", asked |-> FALSE,
                             stale |-> s.stale, idle |-> FALSE, ok |-> TRUE]
        OBVIOUS
    <2> QED BY <1>3 DEF ResumeStartWithCredentials
<1>4. s.stale \in Nat
    OBVIOUS
<1> QED BY <1>1, <1>2, <1>3, <1>4

LEMMA StartKeeps ==
    ASSUME NEW c, CoreInv(c), ShouldStartWatchStream(c),
           TrackerInv(c.online), ~c.online.timer
    PROVE  LET d == StartWatchStream(c)
           IN ClientInv(d) /\ SameLinks(c, d) /\ Silent(c, d)
<1> DEFINE s == [HardAssert(c, ShouldStartWatchStream(c)) EXCEPT
                     !.agg = NewAggregator(Queries), !.stream = Start(@)]
           t == HandleWatchStreamStart(s.online)
           d == Broadcast(s, t)
<1>1. d = StartWatchStream(c)
    BY DEF StartWatchStream
<1>2. c \in Client /\ c.stream \in StreamType /\ c.stream.ok
      /\ ~IsStarted(c.stream) /\ ~c.stream.asked /\ ~c.stream.idle
    BY DEF CoreInv, Client, StreamInv, ShouldStartWatchStream, IsStarted
<1>3. /\ Start(c.stream) \in StreamType /\ Start(c.stream).ok
      /\ IsStarted(Start(c.stream)) /\ ~Start(c.stream).idle
      /\ Start(c.stream).asked => Start(c.stream).state = "Starting"
    BY <1>2, StreamKeeps
<1>4. NewAggregator(Queries) \in [Queries -> TargetState(MaxVersion)]
    BY GetAssumption DEF NewAggregator, TargetState, NoTargetState
<1>5. /\ s \in Client /\ s.stream = Start(c.stream) /\ s.online = c.online
      /\ s.ok /\ SameLinks(c, s) /\ Silent(c, s) /\ s.posted = c.posted
    BY <1>2, <1>3, <1>4 DEF Client, CoreInv, HardAssert, SameLinks, Silent
<1> HIDE DEF s
<1>6. CoreInv(s)
    BY <1>3, <1>5 DEF CoreInv, StreamInv, ErrorsAreLast, SameLinks
<1>7. t \in TrackerType /\ TrackerInv(t)
    BY <1>2, <1>5, TrackerKeeps DEF Client
<1> HIDE DEF t
<1>8. /\ CoreInv(d) /\ SameLinks(s, d) /\ Silent(s, d)
      /\ d.online = t /\ d.stream = s.stream
    BY <1>6, <1>7, OnlineKeeps
<1> HIDE DEF d
<1>9. OnlineInv(d)
    BY <1>3, <1>5, <1>7, <1>8 DEF OnlineInv
<1>10. SameLinks(c, d) /\ Silent(c, d)
    BY <1>5, <1>8 DEF SameLinks, Silent
<1> QED BY <1>1, <1>8, <1>9, <1>10 DEF ClientInv

\* Closing a started stream: gracefully when it is not wanted any more.
LEMMA CloseKeeps ==
    ASSUME NEW c \in Client, NEW graceful \in BOOLEAN,
           c.ok, c.stream.ok, ErrorsAreLast(c), TrackerInv(c.online),
           IsStarted(c.stream),
           graceful => ~c.network \/ c.targets = {}
    PROVE  LET d == CloseWatchStream(c, graceful)
           IN ClientInv(d) /\ SameLinks(c, d) /\ Silent(c, d)
<1> DEFINE k == [c EXCEPT !.stream = Close(@, graceful), !.sent = << >>]
           w == ShouldStartWatchStream(k)
           e == [HardAssert(k, graceful => ~w) EXCEPT !.agg = NewAggregator(Queries)]
           t == IF w THEN HandleWatchStreamFailure(e.online)
                ELSE UpdateState(e.online, "Unknown")
           b == Broadcast(e, t)
           d == CloseWatchStream(c, graceful)
<1>1. c.stream \in StreamType /\ c.online \in TrackerType
    BY DEF Client
<1>2. /\ Close(c.stream, graceful) \in StreamType
      /\ Close(c.stream, graceful).ok /\ ~IsStarted(Close(c.stream, graceful))
      /\ ~Close(c.stream, graceful).asked /\ ~Close(c.stream, graceful).idle
    BY <1>1, StreamKeeps
<1>3. /\ k \in Client /\ k.stream = Close(c.stream, graceful)
      /\ k.online = c.online /\ k.ok /\ SameLinks(c, k)
      /\ k.posted = c.posted /\ k.network = c.network
    <2>1. << >> \in Seq(Requests)
        OBVIOUS
    <2> QED BY <1>2, <2>1 DEF Client, SameLinks
<1>4. graceful => ~w
    BY <1>3 DEF ShouldStartWatchStream, SameLinks
<1> HIDE DEF k, w
<1>5. NewAggregator(Queries) \in [Queries -> TargetState(MaxVersion)]
    BY GetAssumption DEF NewAggregator, TargetState, NoTargetState
<1>6. /\ e \in Client /\ e.stream = k.stream /\ e.online = c.online
      /\ e.ok /\ SameLinks(k, e) /\ e.posted = c.posted
      /\ e.network = k.network
    BY <1>3, <1>4, <1>5 DEF Client, HardAssert, SameLinks
<1>7. w = ShouldStartWatchStream(e)
    BY <1>6 DEF SameLinks, w, ShouldStartWatchStream
<1>8. IF w THEN d = StartWatchStream(b) ELSE d = b
    BY <1>7 DEF CloseWatchStream, Closes, OnWatchStreamClose, k, w
<1> HIDE DEF e
<1>9. t \in TrackerType /\ TrackerInv(t) /\ ~t.timer
    BY <1>1, <1>6, TrackerKeeps
<1>10. CoreInv(e) /\ SameLinks(c, e) /\ Silent(c, e)
    BY <1>2, <1>3, <1>6 DEF CoreInv, StreamInv, ErrorsAreLast, SameLinks, Silent
<1> HIDE DEF t
<1>11. /\ CoreInv(b) /\ SameLinks(e, b) /\ Silent(e, b)
       /\ b.online = t /\ b.stream = e.stream /\ b.network = e.network
    BY <1>9, <1>10, OnlineKeeps
<1> HIDE DEF b, d
<1>12. SameLinks(c, b) /\ Silent(c, b)
    BY <1>10, <1>11 DEF SameLinks, Silent
<1>13. CASE ~w
    BY <1>8, <1>9, <1>11, <1>12, <1>13 DEF ClientInv, OnlineInv, d
<1>14. CASE w
    <2>1. ShouldStartWatchStream(b)
        BY <1>7, <1>10, <1>11, <1>14 DEF ShouldStartWatchStream, SameLinks
    <2>2. ClientInv(d) /\ SameLinks(b, d) /\ Silent(b, d)
        BY <1>8, <1>9, <1>11, <1>14, <2>1, StartKeeps
    <2>3. SameLinks(c, d) /\ Silent(c, d)
        BY <1>12, <2>2 DEF SameLinks, Silent
    <2> QED BY <2>2, <2>3 DEF d
<1> QED BY <1>13, <1>14
-----------------------------------------------------------------------------
(* Targets.                                                                *)

\* The same listeners, views and targets belong together.
LEMMA LinkedStays ==
    ASSUME NEW c, Linked(c), NEW d, SameLinks(c, d)
    PROVE  Linked(d)
BY DEF Linked, SameLinks, Listeners

\* What the stream needs for a request to go out.
CanSend(c) ==
    /\ c \in Client /\ c.ok /\ ErrorsAreLast(c) /\ OnlineInv(c)
    /\ c.stream.ok /\ IsOpen(c.stream) /\ ~c.stream.asked

LEMMA SendKeeps ==
    ASSUME NEW c, CanSend(c), NEW q \in Queries,
           NEW d, d \in {SendWatchRequest(c, q), SendUnwatchRequest(c, q)}
    PROVE  ClientInv(d) /\ SameLinks(c, d) /\ Silent(c, d)
<1>1. PICK r \in Requests :
          d = Send([c EXCEPT !.agg = RecordPendingTargetRequest(@, q)], r)
    <2>1. PICK op \in {"watch", "unwatch"} :
              d = Send([c EXCEPT !.agg = RecordPendingTargetRequest(@, q)],
                       [op |-> op, target |-> q])
        BY DEF SendWatchRequest, SendUnwatchRequest
    <2> QED BY <2>1 DEF Requests
<1> DEFINE a == RecordPendingTargetRequest(c.agg, q)
           s == Write(c.stream)
           sent == Append(c.sent, r)
<1>2. a \in [Queries -> TargetState(MaxVersion)]
    <2>1. c.agg \in [Queries -> TargetState(MaxVersion)]
        BY DEF CanSend, Client
    <2>2. \A ts \in TargetState(MaxVersion) :
              EnsureTargetState(ts) \in TargetState(MaxVersion)
        BY GetAssumption DEF EnsureTargetState, FreshTargetState, TargetState
    <2>3. \A ts \in TargetState(MaxVersion) :
              [ts EXCEPT !.responses = @ + 1] \in TargetState(MaxVersion)
        BY DEF TargetState
    <2> QED BY <2>1, <2>2, <2>3 DEF RecordPendingTargetRequest
<1>3. /\ s \in StreamType /\ s.ok /\ s.state = c.stream.state /\ ~s.idle
      /\ ~s.asked
    <2>1. c.stream \in StreamType /\ IsOpen(c.stream) /\ ~c.stream.asked
          /\ c.stream.ok
        BY DEF CanSend, Client
    <2>2. /\ s = [state |-> "Open", asked |-> FALSE, stale |-> c.stream.stale,
                  idle |-> FALSE, ok |-> TRUE]
          /\ s \in StreamType
        BY <2>1, OpenStreamKeeps DEF IsOpen
    <2> HIDE DEF s
    <2> QED BY <2>1, <2>2 DEF IsOpen
<1>4. sent \in Seq(Requests)
    BY DEF CanSend, Client
<1> HIDE DEF a, s, sent
<1>5. d = [[[c EXCEPT !.agg = a] EXCEPT !.stream = s] EXCEPT !.sent = sent]
    BY <1>1 DEF Send, CanSend, Client, a, s, sent
<1>6. /\ d \in Client /\ d.stream = s /\ d.online = c.online /\ d.ok
      /\ d.posted = c.posted /\ SameLinks(c, d)
    BY <1>2, <1>3, <1>4, <1>5 DEF CanSend, Client, SameLinks
<1>7. CoreInv(d)
    BY <1>3, <1>6 DEF CoreInv, StreamInv, ErrorsAreLast, CanSend, SameLinks
<1>8. OnlineInv(d)
    BY <1>3, <1>6 DEF OnlineInv, CanSend, IsStarted
<1> QED BY <1>6, <1>7, <1>8 DEF ClientInv, Silent

\* Watching a target of a view that has been opened.
LEMMA ListenKeeps ==
    ASSUME NEW c, ClientInv(c), NEW q \in Queries, q \notin c.targets
    PROVE  LET d == Listen(c, q)
           IN /\ ClientInv(d) /\ Silent(c, d)
              /\ d.listeners = c.listeners /\ d.targets = c.targets \cup {q}
              /\ \A p \in Queries : d.views[p].open = c.views[p].open
<1> DEFINE l == [c EXCEPT !.targets = @ \cup {q}]
           d == Listen(c, q)
<1>1. c \in Client /\ c.ok /\ StreamInv(c) /\ ErrorsAreLast(c) /\ OnlineInv(c)
    BY DEF ClientInv, CoreInv
<1>2. /\ l \in Client /\ l.ok /\ l.stream = c.stream /\ l.online = c.online
      /\ l.posted = c.posted /\ l.listeners = c.listeners /\ l.views = c.views
      /\ l.targets = c.targets \cup {q}
    BY <1>1 DEF Client
<1>3. d = CASE ShouldStartWatchStream(l) -> StartWatchStream(l)
            [] IsOpen(l.stream) -> SendWatchRequest(l, q)
            [] OTHER -> l
    BY DEF Listen
<1> HIDE DEF l
<1>4. ErrorsAreLast(l) /\ OnlineInv(l)
    BY <1>1, <1>2 DEF ErrorsAreLast, OnlineInv
<1>5. ~IsOpen(l.stream) => CoreInv(l)
    BY <1>1, <1>2, <1>4 DEF CoreInv, StreamInv, IsOpen
<1>6. ClientInv(d) /\ SameLinks(l, d) /\ Silent(l, d)
    <2>1. CASE ShouldStartWatchStream(l)
        <3>1. ~IsOpen(l.stream) /\ ~l.online.timer
            BY <1>4, <2>1 DEF ShouldStartWatchStream, OnlineInv, IsOpen, IsStarted
        <3>2. TrackerInv(l.online)
            BY <1>4 DEF OnlineInv
        <3> QED BY <1>3, <1>5, <2>1, <3>1, <3>2, StartKeeps
    <2>2. CASE ~ShouldStartWatchStream(l) /\ IsOpen(l.stream)
        <3>1. d = SendWatchRequest(l, q)
            BY <1>3, <2>2
        <3>2. CanSend(l)
            BY <1>1, <1>2, <1>4, <2>2 DEF CanSend, StreamInv, IsOpen
        <3> QED BY <3>1, <3>2, SendKeeps
    <2>3. CASE ~ShouldStartWatchStream(l) /\ ~IsOpen(l.stream)
        <3>1. d = l
            BY <1>3, <2>3
        <3> HIDE DEF d
        <3> QED BY <1>4, <1>5, <2>3, <3>1 DEF ClientInv, SameLinks, Silent
    <2> QED BY <2>1, <2>2, <2>3
<1> HIDE DEF d
<1>7. QED BY <1>2, <1>6 DEF SameLinks, Silent, d

\* Not watching any more; the view has been closed and the listener removed.
LEMMA StopKeeps ==
    ASSUME NEW c, ClientInv(c), NEW q \in Queries, q \in c.targets
    PROVE  LET d == StopListening(c, q)
           IN /\ ClientInv(d) /\ Silent(c, d)
              /\ d.listeners = c.listeners /\ d.targets = c.targets \ {q}
              /\ \A p \in Queries : d.views[p].open = c.views[p].open
<1> DEFINE w == [HardAssert(c, q \in c.targets) EXCEPT !.targets = @ \ {q}]
           t == IF IsOpen(w.stream) THEN SendUnwatchRequest(w, q) ELSE w
           d == StopListening(c, q)
<1>1. c \in Client /\ c.ok /\ StreamInv(c) /\ ErrorsAreLast(c) /\ OnlineInv(c)
    BY DEF ClientInv, CoreInv
<1>2. /\ w \in Client /\ w.ok /\ w.stream = c.stream /\ w.online = c.online
      /\ w.posted = c.posted /\ w.listeners = c.listeners /\ w.views = c.views
      /\ w.targets = c.targets \ {q}
    BY <1>1 DEF Client, HardAssert
<1>3. d = CASE t.targets # {} -> t
            [] t.targets = {} /\ IsOpen(t.stream) ->
                   [t EXCEPT !.stream = MarkIdle(@)]
            [] OTHER -> IF t.network
                        THEN Broadcast(t, UpdateState(t.online, "Unknown"))
                        ELSE t
    BY DEF StopListening
<1> HIDE DEF w
<1>4. ClientInv(w)
    BY <1>1, <1>2 DEF ClientInv, CoreInv, StreamInv, ErrorsAreLast, OnlineInv
<1>5. ClientInv(t) /\ SameLinks(w, t) /\ Silent(w, t)
    <2>1. CASE IsOpen(w.stream)
        <3>1. CanSend(w)
            BY <1>4, <2>1 DEF CanSend, ClientInv, CoreInv, StreamInv, IsOpen
        <3> QED BY <2>1, <3>1, SendKeeps
    <2>2. CASE ~IsOpen(w.stream)
        BY <1>4, <2>2 DEF SameLinks, Silent
    <2> QED BY <2>1, <2>2
<1> HIDE DEF t
<1>6. ClientInv(d) /\ SameLinks(t, d) /\ Silent(t, d)
    <2>1. CASE t.targets # {}
        <3>1. d = t
            BY <1>3, <2>1
        <3> HIDE DEF d
        <3> QED BY <1>5, <3>1 DEF SameLinks, Silent
    <2>2. CASE t.targets = {} /\ IsOpen(t.stream)
        <3>1. d = [t EXCEPT !.stream = MarkIdle(@)]
            BY <1>3, <2>2
        <3> HIDE DEF d
        <3>2. t \in Client /\ t.stream \in StreamType /\ StreamInv(t)
            BY <1>5 DEF ClientInv, CoreInv, Client
        <3>3. MarkIdle(t.stream) \in StreamType /\ MarkIdle(t.stream).ok
              /\ MarkIdle(t.stream).state = "Open" /\ ~MarkIdle(t.stream).asked
            BY <2>2, <3>2 DEF MarkIdle, IsOpen, StreamType, StreamInv
        <3>4. /\ d \in Client /\ d.stream = MarkIdle(t.stream)
              /\ d.online = t.online /\ d.ok = t.ok /\ d.posted = t.posted
              /\ d.targets = t.targets /\ d.listeners = t.listeners
              /\ d.views = t.views
            BY <3>1, <3>2, <3>3 DEF Client
        <3>5. CoreInv(d)
            BY <1>5, <2>2, <3>3, <3>4
            DEF ClientInv, CoreInv, StreamInv, ErrorsAreLast
        <3>6. OnlineInv(d)
            BY <1>5, <3>3, <3>4 DEF ClientInv, OnlineInv, IsStarted
        <3> QED BY <3>4, <3>5, <3>6 DEF ClientInv, SameLinks, Silent
    <2>3. CASE t.targets = {} /\ ~IsOpen(t.stream) /\ ~t.network
        <3>1. d = t
            BY <1>3, <2>3
        <3> HIDE DEF d
        <3> QED BY <1>5, <3>1 DEF SameLinks, Silent
    <2>4. CASE t.targets = {} /\ ~IsOpen(t.stream) /\ t.network
        <3> DEFINE u == UpdateState(t.online, "Unknown")
        <3>1. d = Broadcast(t, u)
            BY <1>3, <2>4
        <3>2. t.online \in TrackerType /\ TrackerInv(t.online)
            BY <1>5 DEF ClientInv, CoreInv, Client, OnlineInv
        <3>3. u \in TrackerType /\ TrackerInv(u) /\ ~u.timer
            BY <3>2, TrackerKeeps
        <3> HIDE DEF u, d
        <3>4. CoreInv(d) /\ SameLinks(t, d) /\ Silent(t, d) /\ d.online = u
            BY <1>5, <3>1, <3>3, OnlineKeeps DEF ClientInv
        <3> QED BY <3>3, <3>4 DEF ClientInv, OnlineInv
    <2> QED BY <2>1, <2>2, <2>3, <2>4
<1> HIDE DEF d
<1> QED BY <1>2, <1>5, <1>6 DEF SameLinks, Silent, d
\* The set of targets, one request for each.
LEMMA OpenKeeps ==
    ASSUME NEW c, CanSend(c), ~c.stream.idle
    PROVE  LET d == OnWatchStreamOpen(c)
           IN ClientInv(d) /\ SameLinks(c, d) /\ Silent(c, d)
<1> DEFINE order == SetToSeq(c.targets)
           requests == [i \in DOMAIN order |-> [op |-> "watch",
                                                target |-> order[i]]]
           a == [q \in Queries |-> IF q \in c.targets
                                   THEN RecordPendingTargetRequest(c.agg, q)[q]
                                   ELSE c.agg[q]]
           s == IF c.targets = {} THEN c.stream ELSE Write(c.stream)
           sent == c.sent \o requests
           d == OnWatchStreamOpen(c)
<1>1. c \in Client /\ c.targets \in SUBSET Queries
      /\ c.agg \in [Queries -> TargetState(MaxVersion)]
      /\ c.sent \in Seq(Requests) /\ c.stream \in StreamType
    BY DEF CanSend, Client
<1>2. requests \in Seq(Requests)
    <2>1. IsFiniteSet(c.targets)
        BY <1>1, FS_Subset, GetAssumption
    <2>2. Cardinality(c.targets) \in Nat
        BY <2>1, FS_CardinalityType
    <2>3. \E f : f \in Bijection(1 .. Cardinality(c.targets), c.targets)
        BY <2>1, FS_NatBijection, FS_CountingElements DEF ExistsBijection
    <2>4. \E f \in [1 .. Cardinality(c.targets) -> c.targets] : IsInjective(f)
        BY <2>3 DEF Bijection, Injection, IsInjective
    <2>5. order \in [1 .. Cardinality(c.targets) -> c.targets]
        BY <2>4 DEF SetToSeq
    <2> HIDE DEF order
    <2>6. requests \in [1 .. Cardinality(c.targets) -> Requests]
        BY <1>1, <2>5 DEF Requests
    <2> HIDE DEF requests
    <2> QED BY <2>2, <2>6
<1>3. sent \in Seq(Requests)
    BY <1>1, <1>2
<1>4. a \in [Queries -> TargetState(MaxVersion)]
    <2>1. \A ts \in TargetState(MaxVersion) :
              EnsureTargetState(ts) \in TargetState(MaxVersion)
        BY GetAssumption DEF EnsureTargetState, FreshTargetState, TargetState
    <2>2. \A ts \in TargetState(MaxVersion) :
              [ts EXCEPT !.responses = @ + 1] \in TargetState(MaxVersion)
        BY DEF TargetState
    <2> QED BY <1>1, <2>1, <2>2 DEF RecordPendingTargetRequest
<1>5. s \in StreamType /\ s.ok /\ s.state = "Open" /\ ~s.idle /\ ~s.asked
    <2>1. c.stream.ok /\ c.stream.state = "Open" /\ ~c.stream.asked
        BY DEF CanSend, IsOpen
    <2>2. Write(c.stream) = [state |-> "Open", asked |-> FALSE,
                             stale |-> c.stream.stale, idle |-> FALSE, ok |-> TRUE]
          /\ Write(c.stream) \in StreamType
        BY <1>1, <2>1, OpenStreamKeeps
    <2> QED BY <1>1, <2>1, <2>2
<1>6. d = [[[c EXCEPT !.agg = a] EXCEPT !.sent = sent] EXCEPT !.stream = s]
    BY <1>1 DEF OnWatchStreamOpen, Client
<1> HIDE DEF a, s, sent, d
<1>7. /\ d \in Client /\ d.stream = s /\ d.online = c.online /\ d.ok
      /\ d.posted = c.posted /\ SameLinks(c, d)
    BY <1>1, <1>3, <1>4, <1>5, <1>6 DEF CanSend, Client, SameLinks
<1>8. CoreInv(d)
    BY <1>5, <1>7 DEF CoreInv, StreamInv, ErrorsAreLast, CanSend, SameLinks
<1>9. OnlineInv(d)
    BY <1>5, <1>7 DEF OnlineInv, CanSend, IsStarted
<1> QED BY <1>7, <1>8, <1>9 DEF ClientInv, Silent, d

-----------------------------------------------------------------------------
(* Listeners.                                                              *)

\* A listener that has heard no error is added, with the view and the target
\* of its query if it is the first.
LEMMA AddKeeps ==
    ASSUME NEW c, ClientInv(c), Linked(c), NEW g \in Gets \ c.listeners,
           c.posted[g] = << >>, NEW v \in Versions
    PROVE  LET d == AddQueryListener(c, g, v)
           IN /\ ClientInv(d) /\ Linked(d)
              /\ d.listeners = c.listeners \cup {g}
              /\ \A h \in Gets \ (c.listeners \cup {g}) : d.posted[h] = c.posted[h]
<1> DEFINE q == QueryOf[g]
           added == [c EXCEPT !.listeners = @ \cup {g}]
           d == AddQueryListener(c, g, v)
<1>1. q \in Queries /\ c \in Client /\ c.ok /\ ClientInv(c)
    BY GetAssumption DEF ClientInv, CoreInv
<1>2. /\ added \in Client /\ added.listeners = c.listeners \cup {g}
      /\ added.posted = c.posted /\ added.targets = c.targets
      /\ added.views = c.views /\ added.stream = c.stream
      /\ added.online = c.online /\ added.ok /\ added.agg = c.agg
    BY <1>1 DEF Client
<1> HIDE DEF added, q
<1>3. ErrorsAreLast(added)
    <2>1. Len(c.posted[g]) = 0
        OBVIOUS
    <2> QED BY <1>1, <1>2, <2>1 DEF ErrorsAreLast, ClientInv, CoreInv
<1>4. ClientInv(added)
    BY <1>1, <1>2, <1>3 DEF ClientInv, CoreInv, StreamInv, OnlineInv
<1>5. \A p \in Queries : Listeners(added, p) =
                             Listeners(c, p) \cup (IF p = q THEN {g} ELSE {})
    BY <1>2 DEF Listeners, q
<1>6. CASE Listeners(c, q) # {}
    <2> DEFINE r == IF ShouldRaiseInitialEvent(added, q)
                    THEN Raise(added, {g}) ELSE added
    <2>1. d = r
        BY <1>6 DEF AddQueryListener, added, q
    <2>2. Linked(added)
        BY <1>2, <1>5, <1>6 DEF Linked
    <2>3. CASE ShouldRaiseInitialEvent(added, q)
        <3> DEFINE e == Raise(added, {g})
        <3>1. {g} \in SUBSET added.listeners
            BY <1>2
        <3>2. CoreInv(e) /\ EventsOnly(added, e) /\ Silent(added, e)
            BY <1>4, <3>1, RaiseKeeps DEF ClientInv
        <3>3. d = e
            BY <2>1, <2>3
        <3> HIDE DEF e, d
        <3>4. OnlineInv(e) /\ SameLinks(added, e)
            BY <1>4, <3>2 DEF ClientInv, OnlineInv, EventsOnly, SameLinks
        <3>5. Linked(e)
            BY <2>2, <3>4, LinkedStays
        <3> QED BY <1>2, <3>2, <3>3, <3>4, <3>5 DEF ClientInv, Silent, EventsOnly, d
    <2>4. CASE ~ShouldRaiseInitialEvent(added, q)
        <3>1. d = added
            BY <2>1, <2>4
        <3> HIDE DEF d
        <3> QED BY <1>2, <1>4, <2>2, <3>1 DEF d
    <2> QED BY <2>3, <2>4
<1>7. CASE Listeners(c, q) = {}
    <2> DEFINE w == OpenView(c, q, v)
               o == [HardAssert(added, ~c.views[q].open) EXCEPT !.views[q] = w]
               r == OnViewSnapshots(o, {q})
    <2>1. d = Listen(r, q)
        BY <1>7 DEF AddQueryListener, added, q
    <2>2. w \in Views /\ w.open
        BY <1>1 DEF OpenView, Views, Client
    <2>3. ~c.views[q].open /\ q \notin c.targets
        BY <1>1, <1>7 DEF Linked
    <2> HIDE DEF w
    <2>4. /\ o \in Client /\ o.ok /\ o.stream = c.stream
          /\ o.online = c.online /\ o.posted = c.posted /\ o.targets = c.targets
          /\ o.listeners = added.listeners
          /\ o.views[q].open
          /\ \A p \in Queries \ {q} : o.views[p] = c.views[p]
        BY <1>1, <1>2, <2>2, <2>3 DEF Client, HardAssert
    <2> HIDE DEF o
    <2>5. CoreInv(o) /\ OnlineInv(o)
        BY <1>2, <1>4, <2>4
        DEF ClientInv, CoreInv, StreamInv, ErrorsAreLast, OnlineInv
    <2>6. CoreInv(r) /\ EventsOnly(o, r) /\ Silent(o, r)
        BY <2>5, SnapshotsKeep
    <2> HIDE DEF r
    <2>7. ClientInv(r) /\ q \notin r.targets
        BY <2>3, <2>4, <2>5, <2>6 DEF ClientInv, OnlineInv, EventsOnly
    <2>8. /\ ClientInv(d) /\ Silent(r, d)
          /\ d.listeners = r.listeners /\ d.targets = r.targets \cup {q}
          /\ \A p \in Queries : d.views[p].open = r.views[p].open
        BY <1>1, <2>1, <2>7, ListenKeeps
    <2> HIDE DEF d
    <2>9. d.listeners = added.listeners /\ d.targets = c.targets \cup {q}
        BY <2>4, <2>6, <2>8 DEF EventsOnly
    <2>10. Linked(d)
        <3> SUFFICES ASSUME NEW p \in Queries
                     PROVE  /\ d.views[p].open <=> p \in d.targets
                            /\ p \in d.targets <=> Listeners(d, p) # {}
            BY DEF Linked
        <3>1. Listeners(d, p) = Listeners(c, p) \cup (IF p = q THEN {g} ELSE {})
            BY <1>5, <2>9 DEF Listeners
        <3>2. d.views[p].open <=> p = q \/ c.views[p].open
            BY <2>4, <2>6, <2>8 DEF EventsOnly
        <3> QED BY <2>9, <3>1, <3>2 DEF Linked
    <2>11. \A h \in Gets \ (c.listeners \cup {g}) : d.posted[h] = c.posted[h]
        BY <1>2, <2>4, <2>6, <2>8 DEF Silent, EventsOnly
    <2> QED BY <1>2, <2>8, <2>9, <2>10, <2>11 DEF d
<1> QED BY <1>6, <1>7

\* What a listener taken away, or an error, leaves.
Fewer(c, d) ==
    /\ ClientInv(d) /\ Linked(d) /\ Silent(c, d)
    /\ d.listeners \subseteq c.listeners

LEMMA RemoveKeeps ==
    ASSUME NEW c, ClientInv(c), Linked(c), NEW g \in Gets
    PROVE  Fewer(c, RemoveQueryListener(c, g))
<1> DEFINE q == QueryOf[g]
           removed == [c EXCEPT !.listeners = @ \ {g}]
           d == RemoveQueryListener(c, g)
<1>1. q \in Queries /\ c \in Client /\ c.ok
    BY GetAssumption DEF ClientInv, CoreInv
<1>2. /\ removed \in Client /\ removed.listeners = c.listeners \ {g}
      /\ removed.posted = c.posted /\ removed.targets = c.targets
      /\ removed.views = c.views /\ removed.stream = c.stream
      /\ removed.online = c.online /\ removed.ok
    BY <1>1 DEF Client
<1> HIDE DEF removed, q
<1>3. ClientInv(removed)
    BY <1>1, <1>2 DEF ClientInv, CoreInv, StreamInv, OnlineInv, ErrorsAreLast
<1>4. \A p \in Queries : Listeners(removed, p) = Listeners(c, p) \ {g}
    BY <1>2 DEF Listeners
<1>5. \A p \in Queries \ {q} : g \notin Listeners(c, p)
    BY DEF Listeners, q
<1>6. CASE g \notin c.listeners \/ Listeners(removed, q) # {}
    <2>1. d = removed
        BY <1>6 DEF RemoveQueryListener, removed, q
    <2>2. \A p \in Queries : Listeners(removed, p) # {} <=> Listeners(c, p) # {}
        BY <1>4, <1>5, <1>6 DEF Listeners
    <2>3. Linked(removed)
        BY <1>2, <2>2 DEF Linked
    <2> HIDE DEF d
    <2> QED BY <1>2, <1>3, <2>1, <2>3 DEF Fewer, Silent, d
<1>7. CASE g \in c.listeners /\ Listeners(removed, q) = {}
    <2> DEFINE h == HardAssert(removed, c.views[q].open)
               o == CloseView(h, q)
    <2>1. d = StopListening(o, q)
        BY <1>7 DEF RemoveQueryListener, removed, q
    <2>2. q \in c.targets /\ c.views[q].open
        BY <1>1, <1>7 DEF Linked, Listeners, q
    <2>3. /\ h \in Client /\ h.ok /\ h.listeners = c.listeners \ {g}
          /\ h.posted = c.posted /\ h.targets = c.targets
          /\ h.views = c.views /\ h.stream = c.stream /\ h.online = c.online
        BY <1>2, <2>2 DEF Client, HardAssert
    <2> HIDE DEF h
    <2>4. /\ o \in Client /\ o.ok /\ o.listeners = c.listeners \ {g}
          /\ o.posted = c.posted /\ o.targets = c.targets
          /\ o.stream = c.stream /\ o.online = c.online
          /\ ~o.views[q].open
          /\ \A p \in Queries \ {q} : o.views[p] = c.views[p]
        <3> DEFINE w == [h.views[q] EXCEPT !.open = FALSE, !.current = FALSE]
        <3>1. w \in Views /\ ~w.open
            <4> SUFFICES ASSUME NEW z, z = w PROVE z \in Views /\ ~z.open
                OBVIOUS
            <4>1. h.views[q] \in Views
                BY <1>1, <2>3 DEF Client
            <4>2. h.views[q].opened \in Versions /\ h.views[q].followed \in Versions
                BY <4>1 DEF Views
            <4>3. z = [open |-> FALSE, current |-> FALSE,
                       opened |-> h.views[q].opened,
                       followed |-> h.views[q].followed]
                BY <4>1 DEF Views
            <4> QED BY <4>2, <4>3 DEF Views
        <3>2. o = [h EXCEPT !.views[q] = w]
            BY <1>1, <2>3 DEF CloseView, Client
        <3> HIDE DEF w, o
        <3> QED BY <1>1, <2>3, <3>1, <3>2 DEF Client
    <2> HIDE DEF o
    <2>5. ClientInv(o)
        BY <1>2, <1>3, <2>4 DEF ClientInv, CoreInv, StreamInv, OnlineInv,
                                ErrorsAreLast
    <2>6. /\ ClientInv(d) /\ Silent(o, d)
          /\ d.listeners = o.listeners /\ d.targets = o.targets \ {q}
          /\ \A p \in Queries : d.views[p].open = o.views[p].open
        BY <1>1, <2>1, <2>2, <2>4, <2>5, StopKeeps
    <2> HIDE DEF d
    <2>7. Linked(d)
        <3> SUFFICES ASSUME NEW p \in Queries
                     PROVE  /\ d.views[p].open <=> p \in d.targets
                            /\ p \in d.targets <=> Listeners(d, p) # {}
            BY DEF Linked
        <3>1. Listeners(d, p) = Listeners(c, p) \ {g}
            BY <2>4, <2>6 DEF Listeners
        <3>2. p # q => (Listeners(d, p) = Listeners(c, p))
            BY <1>5, <3>1
        <3>3. p = q => Listeners(d, p) = {}
            BY <1>4, <1>7, <3>1
        <3> QED BY <2>4, <2>6, <3>2, <3>3 DEF Linked
    <2> QED BY <2>4, <2>6, <2>7 DEF Fewer, Silent, d
<1> QED BY <1>6, <1>7

-----------------------------------------------------------------------------
(* Messages of the server.                                                 *)

LEMMA AggregatorKeeps ==
    ASSUME NEW a \in [Queries -> TargetState(MaxVersion)], NEW q \in Queries
    PROVE  /\ RemoveTarget(a, q) \in [Queries -> TargetState(MaxVersion)]
           /\ TargetAdded(a, q) \in [Queries -> TargetState(MaxVersion)]
           /\ TargetRemoved(a, q) \in [Queries -> TargetState(MaxVersion)]
           /\ \A T : \A v \in Versions, current \in BOOLEAN :
                 TargetDocuments(a, T, q, v, current)
                     \in [Queries -> TargetState(MaxVersion)]
           /\ \A T : /\ TargetTokens(a, T) \in [Queries -> TargetState(MaxVersion)]
                     /\ AfterRemoteEvent(a, T)
                            \in [Queries -> TargetState(MaxVersion)]
<1> DEFINE TS == TargetState(MaxVersion)
<1>1. NoTargetState \in TS /\ FreshTargetState \in TS
    BY GetAssumption DEF NoTargetState, FreshTargetState, TargetState
<1>2. \A ts \in TS : EnsureTargetState(ts) \in TS
    BY <1>1 DEF EnsureTargetState
<1>3. \A ts \in TS : [ts EXCEPT !.responses = @ - 1] \in TS
    BY DEF TargetState
<1>4. ASSUME NEW ts \in TS PROVE ClearPendingChanges(ts) \in TS
    <2> SUFFICES ASSUME NEW n, n = ClearPendingChanges(ts) PROVE n \in TS
        OBVIOUS
    <2>1. n = [known |-> ts.known, responses |-> ts.responses,
               current |-> ts.current, changed |-> FALSE, docs |-> 0]
        BY DEF ClearPendingChanges, TargetState
    <2> QED BY <2>1, GetAssumption DEF TargetState
<1>5. \A ts \in TS : [ts EXCEPT !.changed = TRUE] \in TS
    BY DEF TargetState
<1>6. ASSUME NEW ts \in TS, NEW v \in Versions, NEW current \in BOOLEAN
      PROVE  [ts EXCEPT !.changed = TRUE, !.current = @ \/ current, !.docs = v]
                 \in TS
    <2> SUFFICES ASSUME NEW n, n = [ts EXCEPT !.changed = TRUE,
                                              !.current = @ \/ current,
                                              !.docs = v]
                 PROVE  n \in TS
        OBVIOUS
    <2>1. ts.current \in BOOLEAN
        BY DEF TargetState
    <2>2. (ts.current \/ current) \in BOOLEAN
        OBVIOUS
    <2>3. n = [known |-> ts.known, responses |-> ts.responses,
               current |-> ts.current \/ current, changed |-> TRUE, docs |-> v]
        BY DEF TargetState
    <2> QED BY <2>2, <2>3 DEF TargetState, Versions
<1> HIDE DEF TS
<1>7. a \in [Queries -> TS]
    BY DEF TS
<1>8. RemoveTarget(a, q) \in [Queries -> TS]
    BY <1>1, <1>7 DEF RemoveTarget
<1>9. TargetAdded(a, q) \in [Queries -> TS]
    BY <1>2, <1>3, <1>4, <1>7 DEF TargetAdded
<1>10. TargetRemoved(a, q) \in [Queries -> TS]
    BY <1>1, <1>2, <1>3, <1>7 DEF TargetRemoved
<1>11. ASSUME NEW T, NEW v \in Versions, NEW current \in BOOLEAN
       PROVE  TargetDocuments(a, T, q, v, current) \in [Queries -> TS]
    <2> DEFINE ts == EnsureTargetState(a[q])
               told == [ts EXCEPT !.changed = TRUE, !.current = @ \/ current,
                                  !.docs = v]
               n == TargetDocuments(a, T, q, v, current)
    <2>1. ts \in TS /\ a[q] \in TS
        BY <1>2, <1>7
    <2>2. told \in TS
        BY <1>6, <2>1, Zenon
    <2>3. n = IF IsActiveTarget(a, T, q) THEN [a EXCEPT ![q] = told]
              ELSE [a EXCEPT ![q] = IF current THEN ts ELSE a[q]]
        BY <1>7 DEF TargetDocuments
    <2> HIDE DEF ts, told, n
    <2>4. n \in [Queries -> TS]
        BY <1>7, <2>1, <2>2, <2>3
    <2> QED BY <2>4 DEF n
<1>12. ASSUME NEW T PROVE TargetTokens(a, T) \in [Queries -> TS]
    BY <1>5, <1>7 DEF TargetTokens
<1>13. ASSUME NEW T PROVE AfterRemoteEvent(a, T) \in [Queries -> TS]
    BY <1>4, <1>7 DEF AfterRemoteEvent
<1> QED BY <1>8, <1>9, <1>10, <1>11, <1>12, <1>13 DEF TS

\* A refused target takes its view and its listeners with it.
LEMMA ErrorKeeps ==
    ASSUME NEW c, ClientInv(c), Linked(c), NEW q \in Queries
    PROVE  Fewer(c, ProcessTargetError(c, q))
<1> DEFINE L == Listeners(c, q)
           d == ProcessTargetError(c, q)
<1>1. c \in Client /\ c.ok /\ StreamInv(c) /\ ErrorsAreLast(c) /\ OnlineInv(c)
    BY DEF ClientInv, CoreInv
<1>2. CASE q \notin c.targets
    <2>1. d = c
        BY <1>2 DEF ProcessTargetError
    <2> HIDE DEF d
    <2> QED BY <2>1 DEF Fewer, Silent, d
<1>3. CASE q \in c.targets
    <2> DEFINE o == CloseView(c, q)
               a == RemoveTarget(c.agg, q)
               p == [g \in Gets |-> IF g \in L
                                    THEN Append(c.posted[g], ErrorEvent)
                                    ELSE c.posted[g]]
    <2>1. /\ o \in Client /\ o.ok /\ o.listeners = c.listeners
          /\ o.posted = c.posted /\ o.targets = c.targets /\ o.agg = c.agg
          /\ o.stream = c.stream /\ o.online = c.online
          /\ ~o.views[q].open
          /\ \A r \in Queries \ {q} : o.views[r] = c.views[r]
        <3> DEFINE w == [c.views[q] EXCEPT !.open = FALSE, !.current = FALSE]
        <3>1. w \in Views /\ ~w.open
            <4> SUFFICES ASSUME NEW z, z = w PROVE z \in Views /\ ~z.open
                OBVIOUS
            <4>1. c.views[q] \in Views
                BY <1>1 DEF Client
            <4>2. c.views[q].opened \in Versions /\ c.views[q].followed \in Versions
                BY <4>1 DEF Views
            <4>3. z = [open |-> FALSE, current |-> FALSE,
                       opened |-> c.views[q].opened,
                       followed |-> c.views[q].followed]
                BY <4>1 DEF Views
            <4> QED BY <4>2, <4>3 DEF Views
        <3>2. o = [c EXCEPT !.views[q] = w]
            BY <1>1 DEF CloseView, Client
        <3> HIDE DEF w, o
        <3> QED BY <1>1, <3>1, <3>2 DEF Client
    <2>2. a \in [Queries -> TargetState(MaxVersion)]
        BY <1>1, AggregatorKeeps DEF Client
    <2>3. ErrorEvent \in Events /\ ErrorEvent.error
        BY GetAssumption DEF ErrorEvent, Events, Versions
    <2>4. p \in [Gets -> Seq(Events)]
        BY <1>1, <2>3 DEF Client
    <2>5. d = [[[[o EXCEPT !.targets = @ \ {q}] EXCEPT !.agg = a]
                   EXCEPT !.listeners = @ \ L] EXCEPT !.posted = p]
        BY <1>1, <1>3, <2>1 DEF ProcessTargetError, Client
    <2> HIDE DEF o, a, p, d, L
    <2>6. /\ d \in Client /\ d.ok /\ d.listeners = c.listeners \ L
          /\ d.posted = p /\ d.targets = c.targets \ {q}
          /\ d.stream = c.stream /\ d.online = c.online /\ d.views = o.views
        BY <2>1, <2>2, <2>4, <2>5 DEF Client
    <2>7. ErrorsAreLast(d)
        <3> SUFFICES ASSUME NEW g \in Gets, NEW i \in 1 .. Len(p[g]),
                            p[g][i].error
                     PROVE  i = Len(p[g]) /\ g \notin d.listeners
            BY <2>6 DEF ErrorsAreLast
        <3>1. CASE g \in L
            <4> DEFINE s == c.posted[g]
            <4>1. s \in Seq(Events) /\ p[g] = Append(s, ErrorEvent)
                BY <1>1, <3>1 DEF Client, p
            <4>2. /\ Len(Append(s, ErrorEvent)) = Len(s) + 1
                  /\ \A j \in 1 .. Len(s) : Append(s, ErrorEvent)[j] = s[j]
                  /\ Len(s) \in Nat
                BY <2>3, <4>1
            <4>3. g \in c.listeners
                BY <3>1 DEF L, Listeners
            <4>4. i \notin 1 .. Len(s)
                BY <1>1, <4>1, <4>2, <4>3 DEF ErrorsAreLast
            <4> QED BY <2>6, <3>1, <4>1, <4>2, <4>4
        <3>2. CASE g \notin L
            <4>1. p[g] = c.posted[g]
                BY <3>2 DEF p
            <4> QED BY <1>1, <2>6, <4>1 DEF ErrorsAreLast
        <3> QED BY <3>1, <3>2
    <2>8. ClientInv(d)
        BY <1>1, <1>3, <2>6, <2>7
        DEF ClientInv, CoreInv, StreamInv, OnlineInv
    <2>9. Linked(d)
        <3> SUFFICES ASSUME NEW r \in Queries
                     PROVE  /\ d.views[r].open <=> r \in d.targets
                            /\ r \in d.targets <=> Listeners(d, r) # {}
            BY DEF Linked
        <3>1. Listeners(d, r) = IF r = q THEN {} ELSE Listeners(c, r)
            BY <2>6 DEF Listeners, L
        <3> QED BY <2>1, <2>6, <3>1 DEF Linked
    <2>10. Silent(c, d)
        BY <2>6 DEF Silent, p, L, Listeners
    <2> QED BY <2>6, <2>8, <2>9, <2>10 DEF Fewer, d
<1> QED BY <1>2, <1>3

\* A consistent snapshot is told to the listeners of the views it changes.
LEMMA SnapshotKeeps ==
    ASSUME NEW c, ClientInv(c), NEW v \in Versions
    PROVE  LET d == RaiseWatchSnapshot(c, v)
           IN ClientInv(d) /\ SameLinks(c, d) /\ Silent(c, d)
<1> DEFINE changed == TargetChanges(c.agg, c.targets)
           arrived == {q \in changed : c.agg[q].docs # 0}
           cached == [q \in Queries |->
                         IF q \in arrived THEN c.agg[q].docs ELSE c.cache[q]]
           seen == {q \in changed : c.views[q].open
                       /\ \/ cached[q] # c.cache[q]
                          \/ c.agg[q].current # c.views[q].current}
           views == [q \in Queries |->
                        IF q \in changed /\ c.views[q].open
                        THEN [c.views[q] EXCEPT !.current = c.agg[q].current]
                        ELSE c.views[q]]
           agg == AfterRemoteEvent(c.agg, c.targets)
           e == [c EXCEPT !.agg = agg, !.cache = cached, !.last = v,
                          !.views = views]
           d == OnViewSnapshots(e, seen)
<1>1. c \in Client /\ c.ok /\ StreamInv(c) /\ ErrorsAreLast(c) /\ OnlineInv(c)
    BY DEF ClientInv, CoreInv
<1>2. d = RaiseWatchSnapshot(c, v)
    BY DEF RaiseWatchSnapshot
<1>3. \A q \in Queries : c.agg[q].current \in BOOLEAN /\ c.agg[q].docs \in Versions
    BY <1>1 DEF Client, TargetState, Versions
<1>4. cached \in [Queries -> Versions]
    BY <1>1, <1>3 DEF Client
<1>5. \A q \in Queries : views[q] \in Views /\ views[q].open = c.views[q].open
    <2>1. \A w \in Views, current \in BOOLEAN :
             /\ [w EXCEPT !.current = current] \in Views
             /\ [w EXCEPT !.current = current].open = w.open
        BY DEF Views
    <2> QED BY <1>1, <1>3, <2>1 DEF Client
<1>6. views \in [Queries -> Views]
    BY <1>5
<1>7. agg \in [Queries -> TargetState(MaxVersion)]
    BY <1>1, AggregatorKeeps, GetAssumption DEF Client
<1> HIDE DEF changed, arrived, cached, seen, views, agg
<1>8. e = [[[[c EXCEPT !.agg = agg] EXCEPT !.cache = cached] EXCEPT !.last = v]
              EXCEPT !.views = views]
    BY <1>1 DEF Client
<1> HIDE DEF e
<1>9. /\ e \in Client /\ e.ok /\ e.listeners = c.listeners
      /\ e.posted = c.posted /\ e.targets = c.targets
      /\ e.stream = c.stream /\ e.online = c.online /\ e.views = views
    BY <1>1, <1>4, <1>6, <1>7, <1>8 DEF Client
<1>10. CoreInv(e) /\ OnlineInv(e) /\ SameLinks(c, e)
    BY <1>1, <1>5, <1>9
    DEF CoreInv, StreamInv, ErrorsAreLast, OnlineInv, SameLinks
<1>11. CoreInv(d) /\ EventsOnly(e, d) /\ Silent(e, d)
    BY <1>10, SnapshotsKeep
<1> HIDE DEF d
<1>12. ClientInv(d)
    BY <1>10, <1>11 DEF ClientInv, OnlineInv, EventsOnly
<1>13. SameLinks(c, d) /\ Silent(c, d)
    BY <1>9, <1>10, <1>11 DEF SameLinks, Silent, EventsOnly
<1> QED BY <1>2, <1>12, <1>13

\* Any message is taken without harm.
LEMMA ChangeKeeps ==
    ASSUME NEW c, ClientInv(c), Linked(c), NEW m \in Messages
    PROVE  Fewer(c, OnWatchStreamChange(c, m))
<1> DEFINE t == UpdateState(c.online, "Online")
           b == Broadcast(c, t)
           d == OnWatchStreamChange(c, m)
<1>1. c.online \in TrackerType /\ TrackerInv(c.online)
    BY DEF ClientInv, CoreInv, Client, OnlineInv
<1>2. t \in TrackerType /\ TrackerInv(t) /\ ~t.timer
    BY <1>1, TrackerKeeps
<1>3. /\ m.op \in {"added", "removed", "rejected", "documents", "snapshot"}
      /\ m.target \in Queries /\ m.version \in Versions /\ m.current \in BOOLEAN
    BY DEF Messages
<1>4. /\ m.op = "rejected" => d = ProcessTargetError(b, m.target)
      /\ m.op = "added" =>
             d = [b EXCEPT !.agg = TargetAdded(@, m.target)]
      /\ m.op = "removed" =>
             d = [b EXCEPT !.agg = TargetRemoved(@, m.target)]
      /\ m.op = "documents" =>
             d = [b EXCEPT !.agg = TargetDocuments(
                     @, b.targets, m.target, m.version, m.current)]
      /\ m.op = "snapshot" =>
             \E k : /\ k = [b EXCEPT !.agg = TargetTokens(@, b.targets)]
                    /\ d \in {RaiseWatchSnapshot(k, m.version), k}
    BY <1>3 DEF OnWatchStreamChange
<1> HIDE DEF t
<1>5. CoreInv(b) /\ SameLinks(c, b) /\ Silent(c, b) /\ b.online = t
    BY <1>2, OnlineKeeps DEF ClientInv
<1> HIDE DEF b, d
<1>6. ClientInv(b)
    BY <1>2, <1>5 DEF ClientInv, OnlineInv
<1>7. b.agg \in [Queries -> TargetState(MaxVersion)]
    BY <1>5 DEF CoreInv, Client
<1>8. ASSUME NEW a \in [Queries -> TargetState(MaxVersion)],
             NEW k, k = [b EXCEPT !.agg = a]
      PROVE  ClientInv(k) /\ SameLinks(c, k) /\ Silent(c, k)
    <2>1. /\ k \in Client /\ k.ok /\ k.listeners = b.listeners
          /\ k.posted = b.posted /\ k.targets = b.targets
          /\ k.stream = b.stream /\ k.online = b.online /\ k.views = b.views
        BY <1>5, <1>8 DEF CoreInv, Client
    <2> QED BY <1>5, <1>6, <2>1 DEF ClientInv, CoreInv, StreamInv, OnlineInv,
                                    ErrorsAreLast, SameLinks, Silent
<1>9. ASSUME NEW k, ClientInv(k), SameLinks(c, k), Silent(c, k)
      PROVE  Fewer(c, k)
    BY <1>9, LinkedStays DEF Fewer, SameLinks
<1>10. CASE m.op = "rejected"
    <2>1. Linked(b)
        BY <1>5, LinkedStays
    <2>2. Fewer(b, d)
        BY <1>3, <1>4, <1>6, <1>10, <2>1, ErrorKeeps
    <2> QED BY <1>5, <2>2 DEF Fewer, SameLinks, Silent, d
<1>11. CASE m.op \in {"added", "removed", "documents"}
    <2>1. PICK a \in [Queries -> TargetState(MaxVersion)] :
              d = [b EXCEPT !.agg = a]
        <3> DEFINE x == TargetAdded(b.agg, m.target)
                   y == TargetRemoved(b.agg, m.target)
                   z == TargetDocuments(b.agg, b.targets, m.target, m.version,
                                        m.current)
                   AS == [Queries -> TargetState(MaxVersion)]
        <3>1. x \in AS /\ y \in AS
            BY <1>3, <1>7, AggregatorKeeps
        <3>2. \A T : \A v \in Versions, current \in BOOLEAN :
                  TargetDocuments(b.agg, T, m.target, v, current) \in AS
            BY <1>3, <1>7, AggregatorKeeps
        <3>3. z \in AS
            BY <1>3, <3>2
        <3>4. \E a \in {x, y, z} : d = [b EXCEPT !.agg = a]
            BY <1>4, <1>11
        <3> HIDE DEF x, y, z
        <3> QED BY <3>1, <3>3, <3>4
    <2> QED BY <1>8, <1>9, <2>1 DEF d
<1>12. CASE m.op = "snapshot"
    <2>1. PICK k : /\ k = [b EXCEPT !.agg = TargetTokens(b.agg, b.targets)]
                   /\ d \in {RaiseWatchSnapshot(k, m.version), k}
        BY <1>4, <1>12
    <2>2. TargetTokens(b.agg, b.targets) \in [Queries -> TargetState(MaxVersion)]
        BY <1>3, <1>7, AggregatorKeeps
    <2>3. ClientInv(k) /\ SameLinks(c, k) /\ Silent(c, k)
        BY <1>8, <2>1, <2>2
    <2> DEFINE r == RaiseWatchSnapshot(k, m.version)
    <2>4. ClientInv(r) /\ SameLinks(k, r) /\ Silent(k, r)
        BY <1>3, <2>3, SnapshotKeeps
    <2>5. d \in {r, k}
        BY <2>1
    <2> HIDE DEF r
    <2>6. ClientInv(d) /\ SameLinks(c, d) /\ Silent(c, d)
        BY <2>3, <2>4, <2>5 DEF SameLinks, Silent
    <2> QED BY <1>9, <2>6 DEF d
<1> QED BY <1>3, <1>10, <1>11, <1>12

\* Another user: the network goes down and up again.
LEMMA UserKeeps ==
    ASSUME NEW c, ClientInv(c)
    PROVE  LET d == HandleCredentialChange(c)
           IN ClientInv(d) /\ SameLinks(c, d) /\ Silent(c, d)
<1> DEFINE n == [c EXCEPT !.network = FALSE]
           down == CloseWatchStream(n, TRUE)
           e == [down EXCEPT !.agg = NewAggregator(Queries)]
           t == UpdateState(down.online, "Unknown")
           y == Broadcast(e, t)
           up == [y EXCEPT !.network = TRUE]
           d == HandleCredentialChange(c)
<1>1. /\ ShouldStartWatchStream(up) => d = StartWatchStream(up)
      /\ ~ShouldStartWatchStream(up) =>
             d = Broadcast(up, UpdateState(up.online, "Unknown"))
    BY DEF HandleCredentialChange
<1>2. c \in Client /\ c.ok /\ StreamInv(c) /\ ErrorsAreLast(c) /\ OnlineInv(c)
    BY DEF ClientInv, CoreInv
<1>3. /\ n \in Client /\ n.ok /\ ~n.network /\ n.listeners = c.listeners
      /\ n.posted = c.posted /\ n.targets = c.targets
      /\ n.stream = c.stream /\ n.online = c.online /\ n.views = c.views
    BY <1>2 DEF Client
<1> HIDE DEF n
<1>4. ClientInv(n) /\ SameLinks(c, n) /\ Silent(c, n)
    BY <1>2, <1>3 DEF ClientInv, CoreInv, StreamInv, OnlineInv, ErrorsAreLast,
                      SameLinks, Silent
<1>5. ClientInv(down) /\ SameLinks(n, down) /\ Silent(n, down)
    <2>1. CASE IsStarted(n.stream)
        <3>1. TrackerInv(n.online) /\ n.stream.ok /\ ErrorsAreLast(n)
            BY <1>4 DEF ClientInv, CoreInv, StreamInv, OnlineInv
        <3> QED BY <1>3, <2>1, <3>1, CloseKeeps
    <2>2. CASE ~IsStarted(n.stream)
        <3>1. down = n
            BY <2>2 DEF CloseWatchStream, Closes
        <3> HIDE DEF down
        <3> QED BY <1>4, <3>1 DEF SameLinks, Silent
    <2> QED BY <2>1, <2>2
<1> HIDE DEF down
<1>6. t \in TrackerType /\ TrackerInv(t) /\ ~t.timer
    <2>1. down.online \in TrackerType /\ TrackerInv(down.online)
        BY <1>5 DEF ClientInv, CoreInv, Client, OnlineInv
    <2> QED BY <2>1, TrackerKeeps
<1>7. NewAggregator(Queries) \in [Queries -> TargetState(MaxVersion)]
    BY GetAssumption DEF NewAggregator, TargetState, NoTargetState
<1>8. CoreInv(e) /\ SameLinks(down, e) /\ Silent(down, e)
    <2>1. /\ e \in Client /\ e.ok /\ e.listeners = down.listeners
          /\ e.posted = down.posted /\ e.targets = down.targets
          /\ e.stream = down.stream /\ e.online = down.online
          /\ e.views = down.views
        BY <1>5, <1>7 DEF ClientInv, CoreInv, Client
    <2> HIDE DEF e
    <2> QED BY <1>5, <2>1 DEF ClientInv, CoreInv, StreamInv, ErrorsAreLast,
                              SameLinks, Silent
<1> HIDE DEF t, e
<1>9. CoreInv(y) /\ SameLinks(e, y) /\ Silent(e, y) /\ y.online = t
    BY <1>6, <1>8, OnlineKeeps
<1> HIDE DEF y
<1>10. /\ CoreInv(up) /\ SameLinks(y, up) /\ Silent(y, up) /\ up.online = t
    <2>1. /\ up \in Client /\ up.ok /\ up.listeners = y.listeners
          /\ up.posted = y.posted /\ up.targets = y.targets
          /\ up.stream = y.stream /\ up.online = y.online
          /\ up.views = y.views
        BY <1>9 DEF CoreInv, Client
    <2> HIDE DEF up
    <2> QED BY <1>9, <2>1 DEF CoreInv, StreamInv, ErrorsAreLast, SameLinks, Silent
<1> HIDE DEF up, d
<1>11. SameLinks(c, up) /\ Silent(c, up)
    BY <1>4, <1>5, <1>8, <1>9, <1>10 DEF SameLinks, Silent
<1>12. ClientInv(d) /\ SameLinks(up, d) /\ Silent(up, d)
    <2>1. CASE ShouldStartWatchStream(up)
        BY <1>1, <1>6, <1>10, <2>1, StartKeeps
    <2>2. CASE ~ShouldStartWatchStream(up)
        <3> DEFINE u == UpdateState(t, "Unknown")
        <3>1. u \in TrackerType /\ TrackerInv(u) /\ ~u.timer
            BY <1>6, TrackerKeeps
        <3>2. d = Broadcast(up, u)
            BY <1>1, <1>10, <2>2
        <3> HIDE DEF u
        <3>3. CoreInv(d) /\ SameLinks(up, d) /\ Silent(up, d) /\ d.online = u
            BY <1>10, <3>1, <3>2, OnlineKeeps
        <3> QED BY <3>1, <3>3 DEF ClientInv, OnlineInv
    <2> QED BY <2>1, <2>2
<1> QED BY <1>11, <1>12 DEF SameLinks, Silent, d

-----------------------------------------------------------------------------
(* The server.                                                             *)

LEMMA ServerKeeps ==
    ASSUME NEW s \in Server
    PROVE  /\ Disconnected(s) \in Server
           /\ \A D \in SUBSET Queries :
                  [Disconnected(s) EXCEPT !.denied = D] \in Server
           /\ \A r \in Requests : Answered(s, r) \in Server
           /\ \A q \in Queries, v \in Versions : Documents(s, q, v) \in Server
           /\ Snapshot(s) \in Server
<1> DEFINE W == [watched : BOOLEAN, asked : Versions, docs : Versions]
<1>1. 0 \in Versions
    BY GetAssumption DEF Versions
<1>2. Unwatched \in W
    BY <1>1 DEF Unwatched
<1>3. Disconnected(s) \in Server
    <2> SUFFICES ASSUME NEW n, n = Disconnected(s) PROVE n \in Server
        OBVIOUS
    <2>1. n = [version |-> s.version, read |-> s.read, denied |-> s.denied,
               fresh |-> FALSE, targets |-> [q \in Queries |-> Unwatched],
               out |-> << >>]
        BY DEF Disconnected, Server
    <2>2. << >> \in Seq(Messages)
        OBVIOUS
    <2>3. [q \in Queries |-> Unwatched] \in [Queries -> W]
        BY <1>2
    <2>4. s.version \in Versions /\ s.read \in Versions
          /\ s.denied \in SUBSET Queries
        BY DEF Server
    <2> QED BY <2>1, <2>2, <2>3, <2>4 DEF Server
<1>4. ASSUME NEW D \in SUBSET Queries
      PROVE  [Disconnected(s) EXCEPT !.denied = D] \in Server
    <2> DEFINE k == Disconnected(s)
    <2> HIDE DEF k
    <2>1. k \in Server
        BY <1>3 DEF k
    <2>2. [k EXCEPT !.denied = D] \in Server
        BY <2>1 DEF Server
    <2> QED BY <2>2 DEF k
<1>5. ASSUME NEW z \in Server, NEW m \in Messages
      PROVE  Reply(z, m) \in Server
    <2>1. Append(z.out, m) \in Seq(Messages)
        BY DEF Server
    <2> QED BY <2>1 DEF Reply, Server
<1>6. \A op \in {"added", "removed", "rejected", "documents", "snapshot"},
         q \in Queries, v \in Versions, current \in BOOLEAN :
             Message(op, q, v, current) \in Messages
    BY DEF Message, Messages
<1>7. ASSUME NEW q \in Queries, NEW w \in W
      PROVE  [s EXCEPT !.targets[q] = w] \in Server
    BY DEF Server
<1>8. \A z \in Server, f \in BOOLEAN : [z EXCEPT !.fresh = f] \in Server
    BY DEF Server
<1>9. ASSUME NEW r \in Requests PROVE Answered(s, r) \in Server
    <2> DEFINE q == r.target
               w == [watched |-> TRUE, docs |-> 0, asked |-> s.version]
               k == [s EXCEPT !.targets[q] = w]
               l == [k EXCEPT !.fresh = TRUE]
               u == [s EXCEPT !.targets[q] = Unwatched]
               n == Answered(s, r)
    <2>1. q \in Queries /\ s.version \in Versions
        BY DEF Requests, Server
    <2>2. n \in {Reply(s, Message("rejected", q, 0, FALSE)),
                 Reply(l, Message("added", q, 0, FALSE)),
                 Reply(u, Message("removed", q, 0, FALSE)), s}
        BY DEF Answered, Server
    <2>3. w \in W
        BY <1>1, <2>1
    <2> HIDE DEF w, q
    <2>4. k \in Server /\ u \in Server
        BY <1>2, <1>7, <2>1, <2>3
    <2> HIDE DEF k, u
    <2>5. l \in Server
        BY <1>8, <2>4
    <2> HIDE DEF l
    <2>6. /\ Message("rejected", q, 0, FALSE) \in Messages
          /\ Message("added", q, 0, FALSE) \in Messages
          /\ Message("removed", q, 0, FALSE) \in Messages
        BY <1>1, <1>6, <2>1
    <2>7. /\ Reply(s, Message("rejected", q, 0, FALSE)) \in Server
          /\ Reply(l, Message("added", q, 0, FALSE)) \in Server
          /\ Reply(u, Message("removed", q, 0, FALSE)) \in Server
        BY <1>5, <2>4, <2>5, <2>6
    <2> QED BY <2>2, <2>7
<1>10. ASSUME NEW q \in Queries, NEW v \in Versions
       PROVE  Documents(s, q, v) \in Server
    <2> DEFINE w == [s.targets[q] EXCEPT !.docs = v]
               k == [s EXCEPT !.targets[q] = w]
               l == [[k EXCEPT !.read = v] EXCEPT !.fresh = TRUE]
               m == Message("documents", q, v, v >= s.targets[q].asked)
    <2>1. s.targets[q] \in W
        BY DEF Server
    <2>2. w \in W
        BY <2>1
    <2>3. Documents(s, q, v) = Reply(l, m)
        BY DEF Documents, Server
    <2> HIDE DEF w
    <2>4. k \in Server
        BY <1>7, <2>2
    <2> HIDE DEF k
    <2>5. l \in Server
        BY <2>4 DEF Server
    <2>6. m \in Messages
        <3>1. (v >= s.targets[q].asked) \in BOOLEAN
            BY <2>1 DEF Versions
        <3> QED BY <1>6, <3>1
    <2> QED BY <1>5, <2>3, <2>5, <2>6
<1>11. Snapshot(s) \in Server
    <2> DEFINE q == CHOOSE q \in Queries : TRUE
               k == [s EXCEPT !.fresh = FALSE]
               m == Message("snapshot", q, s.read, FALSE)
    <2>1. q \in Queries
        BY GetAssumption
    <2> HIDE DEF q
    <2>2. m \in Messages
        BY <1>6, <2>1 DEF Server
    <2>3. k \in Server
        BY <1>8
    <2>4. Snapshot(s) = Reply(k, m)
        BY DEF Snapshot, Server, q
    <2> QED BY <1>5, <2>2, <2>3, <2>4
<1> QED BY <1>3, <1>4, <1>9, <1>10, <1>11

-----------------------------------------------------------------------------
(* The inductive invariant of the specification.                           *)

\* Nobody has heard anything of this call.
Fresh(g) ==
    /\ g \notin client.listeners /\ client.posted[g] = << >>
    /\ get[g].completions = 0

\* A completion that was called is muted, or nothing can reach it any more.
AnsweredOnce ==
    \A g \in Gets :
        /\ get[g].completions \in {0, 1}
        /\ get[g].muted => get[g].completions = 1
        /\ get[g].completions = 1 /\ ~get[g].muted =>
              g \notin client.listeners /\ client.posted[g] = << >>
        /\ ~get[g].called => Fresh(g)

AddOf(g) == [op |-> "add", get |-> g]

\* A listener is added once, for a call that was made and has not been answered.
AddedOnce ==
    \A g \in Gets : \A i \in 1 .. Len(workerQ) :
        workerQ[i] = AddOf(g) =>
            /\ get[g].called /\ Fresh(g)
            /\ \A j \in 1 .. Len(workerQ) : workerQ[j] = AddOf(g) => j = i

OnceInv == AnsweredOnce /\ AddedOnce

GetsIInv == GetsTypeOK /\ ClientInv(client) /\ Linked(client) /\ OnceInv

Blocks == [op : {"add", "remove"}, get : Gets]
Marks == [called : BOOLEAN, muted : BOOLEAN, completions : Nat]

LEMMA SameLinksIsFewer ==
    ASSUME NEW c, Linked(c), NEW d, ClientInv(d), SameLinks(c, d), Silent(c, d)
    PROVE  Fewer(c, d)
BY LinkedStays DEF Fewer, SameLinks

\* What is left of a queue is its tail.
LEMMA TailFacts ==
    ASSUME NEW S, NEW s \in Seq(S), NEW t, t = s \/ (s # << >> /\ t = Tail(s))
    PROVE  /\ t \in Seq(S) /\ Len(t) \in Nat /\ Len(s) \in Nat
           /\ \E n \in {0, 1} :
                 \A i \in 1 .. Len(t) : i + n \in 1 .. Len(s) /\ t[i] = s[i + n]
<1>1. CASE t = s
    <2>1. \A i \in 1 .. Len(t) : i + 0 \in 1 .. Len(s) /\ t[i] = s[i + 0]
        BY <1>1
    <2> QED BY <1>1, <2>1
<1>2. CASE s # << >> /\ t = Tail(s)
    <2>1. /\ t \in Seq(S) /\ Len(t) = Len(s) - 1
          /\ \A i \in 1 .. Len(t) : t[i] = s[i + 1]
        BY <1>2, HeadTailProperties
    <2>2. Len(s) \in Nat /\ Len(t) \in Nat
        BY <2>1
    <2>3. \A i \in 1 .. Len(t) : i + 1 \in 1 .. Len(s) /\ t[i] = s[i + 1]
        BY <2>1, <2>2
    <2> QED BY <2>1, <2>2, <2>3
<1> QED BY <1>1, <1>2

\* A step of the client that tells nobody but its listeners.
LEMMA FewerStep ==
    ASSUME GetsIInv, Fewer(client, client'), get' = get,
           \/ workerQ' = workerQ
           \/ workerQ # << >> /\ workerQ' = Tail(workerQ),
           server' \in Server, faults' \in Nat
    PROVE  GetsIInv'
<1>1. workerQ \in Seq(Blocks) /\ get \in [Gets -> Marks]
    BY DEF GetsIInv, GetsTypeOK, Blocks, Marks
<1>2. workerQ' \in Seq(Blocks)
    BY <1>1, TailFacts
<1>3. GetsTypeOK'
    BY <1>1, <1>2
    DEF Fewer, ClientInv, CoreInv, GetsTypeOK, Blocks, Marks
<1>4. \A g \in Gets \ client.listeners :
          g \notin client'.listeners /\ client'.posted[g] = client.posted[g]
    BY DEF Fewer, Silent
<1>5. \A g \in Gets : Fresh(g) => Fresh(g)'
    BY <1>4 DEF Fresh
<1>6. AnsweredOnce'
    <2> SUFFICES ASSUME NEW g \in Gets
                 PROVE  /\ get[g].completions \in {0, 1}
                        /\ get[g].muted => get[g].completions = 1
                        /\ get[g].completions = 1 /\ ~get[g].muted =>
                              /\ g \notin client'.listeners
                              /\ client'.posted[g] = << >>
                        /\ ~get[g].called => Fresh(g)'
        BY DEF AnsweredOnce
    <2> QED BY <1>4, <1>5 DEF GetsIInv, OnceInv, AnsweredOnce
<1>7. AddedOnce'
    <2> SUFFICES ASSUME NEW g \in Gets, NEW i \in 1 .. Len(workerQ'),
                        workerQ'[i] = AddOf(g)
                 PROVE  /\ get[g].called /\ Fresh(g)'
                        /\ \A j \in 1 .. Len(workerQ') :
                              workerQ'[j] = AddOf(g) => j = i
        BY DEF AddedOnce, AddOf
    <2>1. PICK n \in {0, 1} :
              \A k \in 1 .. Len(workerQ') :
                  k + n \in 1 .. Len(workerQ) /\ workerQ'[k] = workerQ[k + n]
        BY <1>1, TailFacts
    <2>2. get[g].called /\ Fresh(g)
        BY <2>1 DEF GetsIInv, OnceInv, AddedOnce
    <2>3. ASSUME NEW j \in 1 .. Len(workerQ'), workerQ'[j] = AddOf(g)
          PROVE  j = i
        <3>1. /\ i + n \in 1 .. Len(workerQ) /\ workerQ[i + n] = AddOf(g)
              /\ j + n \in 1 .. Len(workerQ) /\ workerQ[j + n] = AddOf(g)
            BY <2>1, <2>3, Zenon
        <3>2. j + n = i + n
            BY <3>1, Zenon DEF GetsIInv, OnceInv, AddedOnce
        <3> QED BY <3>2
    <2> QED BY <1>5, <2>2, <2>3
<1> QED BY <1>3, <1>6, <1>7 DEF GetsIInv, OnceInv, Fewer

\* The blocks of the worker queue that are not about listeners.
LEMMA ClientStepIsFewer ==
    ASSUME GetsIInv,
           \/ TokenArrives \/ TokenFails \/ StaleTokenArrives \/ BackoffTimer
           \/ IdleTimer \/ OnlineTimer \/ OnStreamRead \/ StreamFails
           \/ UserChanges \/ ServerReceives
    PROVE  Fewer(client, client')
<1> DEFINE c == client
<1>1. /\ c \in Client /\ c.ok /\ StreamInv(c) /\ ErrorsAreLast(c) /\ OnlineInv(c)
      /\ CoreInv(c) /\ ClientInv(c) /\ Linked(c)
      /\ c.stream \in StreamType /\ c.online \in TrackerType
      /\ server \in Server
    BY DEF GetsIInv, GetsTypeOK, ClientInv, CoreInv, Client
<1> SUFFICES \/ Fewer(c, client')
             \/ ClientInv(client') /\ SameLinks(c, client') /\ Silent(c, client')
    BY <1>1, SameLinksIsFewer
\* The stream is replaced by s.
<1>2. ASSUME NEW s \in StreamType, s.ok, NEW d, d = [c EXCEPT !.stream = s],
             IsStarted(c.stream) => IsStarted(s)
      PROVE  /\ d \in Client /\ d.ok /\ ErrorsAreLast(d) /\ OnlineInv(d)
             /\ d.stream = s /\ SameLinks(c, d) /\ Silent(c, d)
             /\ d.network = c.network
    <2>1. /\ d \in Client /\ d.stream = s /\ d.ok /\ d.posted = c.posted
          /\ d.listeners = c.listeners /\ d.targets = c.targets
          /\ d.views = c.views /\ d.online = c.online /\ d.network = c.network
        BY <1>1, <1>2 DEF Client
    <2>2. ErrorsAreLast(d)
        BY <1>1, <2>1, Zenon DEF ErrorsAreLast
    <2>3. OnlineInv(d)
        BY <1>1, <1>2, <2>1 DEF OnlineInv
    <2>4. SameLinks(c, d) /\ Silent(c, d)
        BY <2>1 DEF SameLinks, Silent
    <2> QED BY <2>1, <2>2, <2>3, <2>4
<1>3. CASE TokenArrives
    <2> DEFINE s == ResumeStartWithCredentials(c.stream)
               k == [c EXCEPT !.stream = s]
               d == OnWatchStreamOpen(k)
    <2>1. /\ c.stream.ok /\ c.stream.state = "Starting" /\ ~c.stream.idle
          /\ client' = d
        BY <1>1, <1>3 DEF TokenArrives, StreamInv, Client
    <2>2. s = [state |-> "Open", asked |-> FALSE, stale |-> c.stream.stale,
               idle |-> FALSE, ok |-> TRUE]
          /\ s \in StreamType
        BY <1>1, <2>1, OpenStreamKeeps
    <2> HIDE DEF s
    <2>0. s.ok /\ IsStarted(s) /\ k = [c EXCEPT !.stream = s]
        BY <2>2 DEF IsStarted
    <2> HIDE DEF k
    <2>3. /\ k \in Client /\ k.ok /\ ErrorsAreLast(k) /\ OnlineInv(k)
          /\ k.stream = s /\ SameLinks(c, k) /\ Silent(c, k)
        BY <1>2, <2>0, <2>2, Zenon
    <2>4. CanSend(k) /\ ~k.stream.idle
        BY <2>2, <2>3 DEF CanSend, IsOpen
    <2>5. ClientInv(d) /\ SameLinks(k, d) /\ Silent(k, d)
        BY <2>4, OpenKeeps
    <2> HIDE DEF d
    <2> QED BY <2>1, <2>3, <2>5 DEF SameLinks, Silent
<1>4. CASE TokenFails
    <2> DEFINE s == [c.stream EXCEPT !.asked = FALSE]
               k == [c EXCEPT !.stream = s]
               d == CloseWatchStream(k, FALSE)
    <2>1. /\ c.stream.ok /\ c.stream.state = "Starting"
          /\ client' = d
        BY <1>1, <1>4 DEF TokenFails, StreamInv, Client
    <2>2. s \in StreamType /\ s.ok /\ s.state = "Starting"
        BY <1>1, <2>1 DEF StreamType
    <2> HIDE DEF s
    <2>3. /\ k \in Client /\ k.ok /\ ErrorsAreLast(k) /\ OnlineInv(k)
          /\ k.stream = s /\ SameLinks(c, k) /\ Silent(c, k)
        BY <1>2, <2>2 DEF IsStarted
    <2> HIDE DEF k
    <2>4. ClientInv(d) /\ SameLinks(k, d) /\ Silent(k, d)
        BY <2>2, <2>3, CloseKeeps DEF OnlineInv, IsStarted
    <2> HIDE DEF d
    <2> QED BY <2>1, <2>3, <2>4 DEF SameLinks, Silent
<1>5. CASE StaleTokenArrives
    <2> DEFINE s == IgnoreCredentials(c.stream)
    <2>1. client' = [c EXCEPT !.stream = s] /\ c.stream.stale > 0
        BY <1>1, <1>5 DEF StaleTokenArrives
    <2>2. /\ s \in StreamType /\ s.ok /\ s.state = c.stream.state
          /\ s.asked = c.stream.asked /\ s.idle = c.stream.idle
        BY <1>1, <2>1 DEF IgnoreCredentials, StreamType, StreamInv
    <2> HIDE DEF s
    <2>3. /\ client' \in Client /\ client'.ok /\ ErrorsAreLast(client')
          /\ OnlineInv(client') /\ client'.stream = s
          /\ SameLinks(c, client') /\ Silent(c, client')
        BY <1>2, <2>1, <2>2 DEF IsStarted
    <2>4. StreamInv(client')
        BY <1>1, <2>2, <2>3 DEF StreamInv, SameLinks
    <2> QED BY <2>3, <2>4 DEF ClientInv, CoreInv
<1>6. CASE BackoffTimer
    <2> DEFINE s == BackoffElapsed(c.stream)
    <2>1. client' = [c EXCEPT !.stream = s] /\ c.stream.state = "Backoff"
          /\ c.stream.ok /\ ~c.stream.asked /\ ~c.stream.idle
        BY <1>1, <1>6 DEF BackoffTimer, StreamInv
    <2>2. /\ s \in StreamType /\ s.ok /\ IsStarted(s) /\ ~s.idle
          /\ s.asked => s.state = "Starting"
        BY <1>1, <2>1, StreamKeeps
    <2> HIDE DEF s
    <2>3. /\ client' \in Client /\ client'.ok /\ ErrorsAreLast(client')
          /\ OnlineInv(client') /\ client'.stream = s
          /\ SameLinks(c, client') /\ Silent(c, client')
        BY <1>2, <2>1, <2>2
    <2> QED BY <2>2, <2>3 DEF ClientInv, CoreInv, StreamInv
<1>7. CASE IdleTimer
    <2>1. client' = CloseWatchStream(c, TRUE) /\ IsStarted(c.stream)
          /\ c.targets = {} /\ c.stream.ok
        BY <1>1, <1>7 DEF IdleTimer, StreamInv, IsStarted
    <2> QED BY <1>1, <2>1, CloseKeeps DEF OnlineInv
<1>8. CASE OnlineTimer
    <2> DEFINE t == OnlineStateTimeout(c.online)
    <2>1. client' = Broadcast(c, t) /\ c.online.timer
        BY <1>8 DEF OnlineTimer
    <2>2. t \in TrackerType /\ TrackerInv(t) /\ ~t.timer
        BY <1>1, <2>1, TrackerKeeps DEF OnlineInv
    <2> HIDE DEF t
    <2>3. /\ CoreInv(client') /\ SameLinks(c, client') /\ Silent(c, client')
          /\ client'.online = t
        BY <1>1, <2>1, <2>2, OnlineKeeps
    <2> QED BY <2>2, <2>3 DEF ClientInv, OnlineInv
<1>9. CASE OnStreamRead
    <2>1. client' = OnWatchStreamChange(c, Head(server.out))
          /\ server.out # << >>
        BY <1>9 DEF OnStreamRead
    <2>2. Head(server.out) \in Messages
        BY <1>1, <2>1 DEF Server
    <2> QED BY <1>1, <2>1, <2>2, ChangeKeeps
<1>10. CASE StreamFails
    <2>1. client' = CloseWatchStream(c, FALSE) /\ IsStarted(c.stream)
          /\ c.stream.ok
        BY <1>1, <1>10 DEF StreamFails, StreamInv, IsOpen, IsStarted
    <2> QED BY <1>1, <2>1, CloseKeeps DEF OnlineInv
<1>11. CASE UserChanges
    BY <1>1, <1>11, UserKeeps DEF UserChanges
<1>12. CASE ServerReceives
    <2>1. client' = [c EXCEPT !.sent = Tail(c.sent)] /\ Tail(c.sent) \in Seq(Requests)
        BY <1>1, <1>12 DEF ServerReceives, Client
    <2>2. /\ client' \in Client /\ client'.stream = c.stream /\ client'.ok
          /\ client'.posted = c.posted /\ client'.listeners = c.listeners
          /\ client'.targets = c.targets /\ client'.views = c.views
          /\ client'.online = c.online
        BY <1>1, <2>1 DEF Client
    <2> QED BY <1>1, <2>2 DEF ClientInv, CoreInv, StreamInv, ErrorsAreLast,
                              OnlineInv, SameLinks, Silent
<1> QED BY <1>3, <1>4, <1>5, <1>6, <1>7, <1>8, <1>9, <1>10, <1>11, <1>12

\* The blocks about listeners.
LEMMA ListenerBlockKeeps ==
    ASSUME GetsIInv, RunListenerBlock
    PROVE  GetsIInv'
<1> DEFINE b == Head(workerQ)
<1>1. /\ workerQ \in Seq(Blocks) /\ get \in [Gets -> Marks]
      /\ ClientInv(client) /\ Linked(client)
      /\ server \in Server /\ server.version \in Versions /\ faults \in Nat
    BY DEF GetsIInv, GetsTypeOK, Blocks, Marks, Server
<1>2. /\ workerQ # << >> /\ workerQ' = Tail(workerQ)
      /\ server' = server /\ get' = get /\ faults' = faults
    BY DEF RunListenerBlock
<1>3. b \in Blocks /\ 1 \in 1 .. Len(workerQ) /\ workerQ[1] = b
    BY <1>1, <1>2
<1>4. CASE b.op # "add"
    <2>1. client' = RemoveQueryListener(client, b.get)
        BY <1>4 DEF RunListenerBlock
    <2>2. Fewer(client, client')
        BY <1>1, <1>3, <2>1, RemoveKeeps DEF Blocks
    <2> QED BY <1>1, <1>2, <2>2, FewerStep
<1>5. CASE b.op = "add"
    <2> DEFINE g == b.get
    <2>1. client' = AddQueryListener(client, g, server.version)
        BY <1>5 DEF RunListenerBlock
    <2>2. g \in Gets /\ b = AddOf(g)
        BY <1>3, <1>5 DEF Blocks, AddOf
    <2> HIDE DEF b, g
    <2>3. get[g].called /\ Fresh(g)
        BY <1>3, <2>2 DEF GetsIInv, OnceInv, AddedOnce
    <2>4. \A j \in 1 .. Len(workerQ) : workerQ[j] = AddOf(g) => j = 1
        BY <1>3, <2>2 DEF GetsIInv, OnceInv, AddedOnce
    <2>5. /\ ClientInv(client') /\ Linked(client')
          /\ client'.listeners = client.listeners \cup {g}
          /\ \A h \in Gets \ (client.listeners \cup {g}) :
                client'.posted[h] = client.posted[h]
        BY <1>1, <2>1, <2>2, <2>3, AddKeeps DEF Fresh
    <2>6. /\ workerQ' \in Seq(Blocks)
          /\ \A i \in 1 .. Len(workerQ') : i + 1 \in 1 .. Len(workerQ)
                                           /\ workerQ'[i] = workerQ[i + 1]
        <3>1. /\ Tail(workerQ) \in Seq(Blocks)
              /\ Len(Tail(workerQ)) = Len(workerQ) - 1
              /\ \A i \in 1 .. Len(Tail(workerQ)) : Tail(workerQ)[i] = workerQ[i + 1]
            BY <1>1, <1>2, HeadTailProperties
        <3>2. Len(workerQ) \in Nat
            BY <1>1
        <3> QED BY <1>2, <3>1, <3>2
    <2>7. GetsTypeOK'
        BY <1>1, <1>2, <2>5, <2>6
        DEF ClientInv, CoreInv, GetsTypeOK, Blocks, Marks
    <2>8. \A h \in Gets \ {g} : Fresh(h) => Fresh(h)'
        BY <1>2, <2>5 DEF Fresh
    <2>9. AnsweredOnce'
        <3> SUFFICES ASSUME NEW h \in Gets
                     PROVE  /\ get[h].completions \in {0, 1}
                            /\ get[h].muted => get[h].completions = 1
                            /\ get[h].completions = 1 /\ ~get[h].muted =>
                                  /\ h \notin client'.listeners
                                  /\ client'.posted[h] = << >>
                            /\ ~get[h].called => Fresh(h)'
            BY <1>2 DEF AnsweredOnce
        <3>1. CASE h = g
            BY <2>3, <3>1 DEF Fresh, GetsIInv, OnceInv, AnsweredOnce
        <3>2. CASE h # g
            BY <2>5, <2>8, <3>2 DEF GetsIInv, OnceInv, AnsweredOnce
        <3> QED BY <3>1, <3>2
    <2>10. AddedOnce'
        <3> SUFFICES ASSUME NEW h \in Gets, NEW i \in 1 .. Len(workerQ'),
                            workerQ'[i] = AddOf(h)
                     PROVE  /\ get[h].called /\ Fresh(h)'
                            /\ \A j \in 1 .. Len(workerQ') :
                                  workerQ'[j] = AddOf(h) => j = i
            BY <1>2 DEF AddedOnce, AddOf
        <3>1. /\ get[h].called /\ Fresh(h)
              /\ \A j \in 1 .. Len(workerQ) : workerQ[j] = AddOf(h) => j = i + 1
            BY <2>6 DEF GetsIInv, OnceInv, AddedOnce
        <3>2. h # g
            <4>1. i + 1 # 1
                OBVIOUS
            <4> QED BY <2>4, <2>6, <4>1
        <3>3. ASSUME NEW j \in 1 .. Len(workerQ'), workerQ'[j] = AddOf(h)
              PROVE  j = i
            <4>1. j + 1 = i + 1
                BY <2>6, <3>1, <3>3
            <4> QED BY <4>1
        <3> QED BY <2>8, <3>1, <3>2, <3>3
    <2> QED BY <2>5, <2>7, <2>9, <2>10 DEF GetsIInv, OnceInv
<1> QED BY <1>4, <1>5

\* A block put at the end of the queue.
LEMMA AppendFacts ==
    ASSUME NEW S, NEW s \in Seq(S), NEW e \in S
    PROVE  /\ Append(s, e) \in Seq(S) /\ Len(s) \in Nat
           /\ \A i \in 1 .. Len(Append(s, e)) :
                 \/ i \in 1 .. Len(s) /\ Append(s, e)[i] = s[i]
                 \/ i = Len(s) + 1 /\ Append(s, e)[i] = e
OBVIOUS

\* A call of the app.
LEMMA CallKeeps ==
    ASSUME GetsIInv, NEW g \in Gets, GetDocuments(g)
    PROVE  GetsIInv'
<1>1. /\ workerQ \in Seq(Blocks) /\ get \in [Gets -> Marks]
      /\ AnsweredOnce /\ AddedOnce
    BY DEF GetsIInv, GetsTypeOK, Blocks, Marks, OnceInv
<1>2. /\ ~get[g].called /\ get' = [get EXCEPT ![g].called = TRUE]
      /\ workerQ' = Append(workerQ, AddOf(g))
      /\ client' = client /\ server' = server /\ faults' = faults
    BY DEF GetDocuments, AddOf
<1>3. AddOf(g) \in Blocks
    BY DEF AddOf, Blocks
<1>4. /\ workerQ' \in Seq(Blocks) /\ Len(workerQ) \in Nat
      /\ \A i \in 1 .. Len(workerQ') :
            \/ i \in 1 .. Len(workerQ) /\ workerQ'[i] = workerQ[i]
            \/ i = Len(workerQ) + 1 /\ workerQ'[i] = AddOf(g)
    BY <1>1, <1>2, <1>3, AppendFacts
<1>5. /\ get' \in [Gets -> Marks]
      /\ \A h \in Gets : /\ get'[h].completions = get[h].completions
                         /\ get'[h].muted = get[h].muted
                         /\ get[h].called => get'[h].called
      /\ get'[g].called
      /\ \A h \in Gets \ {g} : get'[h] = get[h]
    BY <1>1, <1>2 DEF Marks
<1>6. GetsTypeOK'
    BY <1>2, <1>4, <1>5 DEF GetsIInv, GetsTypeOK, Blocks, Marks
<1>7. \A h \in Gets : Fresh(h) <=> Fresh(h)'
    BY <1>2, <1>5 DEF Fresh
<1>8. AnsweredOnce'
    <2> SUFFICES ASSUME NEW h \in Gets
                 PROVE  /\ get'[h].completions \in {0, 1}
                        /\ get'[h].muted => get'[h].completions = 1
                        /\ get'[h].completions = 1 /\ ~get'[h].muted =>
                              /\ h \notin client'.listeners
                              /\ client'.posted[h] = << >>
                        /\ ~get'[h].called => Fresh(h)'
        BY DEF AnsweredOnce
    <2> QED BY <1>1, <1>2, <1>5, <1>7 DEF AnsweredOnce
<1>9. AddedOnce'
    <2> SUFFICES ASSUME NEW h \in Gets, NEW i \in 1 .. Len(workerQ'),
                        workerQ'[i] = AddOf(h)
                 PROVE  /\ get'[h].called /\ Fresh(h)'
                        /\ \A j \in 1 .. Len(workerQ') :
                              workerQ'[j] = AddOf(h) => j = i
        BY DEF AddedOnce, AddOf
    <2>1. \A j \in 1 .. Len(workerQ) : workerQ[j] # AddOf(g)
        BY <1>1, <1>2 DEF AddedOnce
    <2>2. CASE h = g
        <3>1. \A j \in 1 .. Len(workerQ') :
                  workerQ'[j] = AddOf(h) => j = Len(workerQ) + 1
            BY <1>4, <2>1, <2>2
        <3>2. Fresh(h)
            BY <1>1, <1>2, <2>2 DEF AnsweredOnce
        <3> QED BY <1>5, <1>7, <2>2, <3>1, <3>2
    <2>3. CASE h # g
        <3>1. AddOf(h) # AddOf(g)
            BY <2>3 DEF AddOf
        <3>2. \A j \in 1 .. Len(workerQ') :
                  workerQ'[j] = AddOf(h) =>
                      j \in 1 .. Len(workerQ) /\ workerQ[j] = AddOf(h)
            BY <1>4, <3>1
        <3>3. get[h].called /\ Fresh(h)
            BY <1>1, <3>2 DEF AddedOnce
        <3>4. \A j \in 1 .. Len(workerQ') : workerQ'[j] = AddOf(h) => j = i
            BY <1>1, <3>2 DEF AddedOnce
        <3> QED BY <1>5, <1>7, <3>3, <3>4
    <2> QED BY <2>2, <2>3
<1> QED BY <1>2, <1>6, <1>8, <1>9 DEF GetsIInv, OnceInv

\* An event of a call that is not muted is its first, and an error the last.
LEMMA EventStep ==
    ASSUME GetsIInv, NEW g \in Gets, RunEvent(g)
    PROVE  /\ GetsIInv'
           /\ \/ get' = get
              \/ /\ get[g].called /\ get[g].completions = 0
                 /\ \A h \in Gets : /\ get'[h].called = get[h].called
                                    /\ get'[h].completions =
                                         IF h = g THEN 1 ELSE get[h].completions
<1> DEFINE s == client.posted[g]
           e == Head(s)
<1>1. /\ workerQ \in Seq(Blocks) /\ get \in [Gets -> Marks]
      /\ AnsweredOnce /\ AddedOnce /\ client \in Client /\ ErrorsAreLast(client)
      /\ ClientInv(client) /\ Linked(client)
    BY DEF GetsIInv, GetsTypeOK, Blocks, Marks, OnceInv, ClientInv, CoreInv
<1>2. /\ s # << >> /\ client' = [client EXCEPT !.posted[g] = Tail(s)]
      /\ server' = server /\ faults' = faults
    BY DEF RunEvent
<1>3. /\ s \in Seq(Events) /\ e \in Events /\ Tail(s) \in Seq(Events)
      /\ Len(Tail(s)) = Len(s) - 1 /\ Len(s) \in Nat \ {0} /\ s[1] = e
      /\ \A i \in 1 .. Len(Tail(s)) : Tail(s)[i] = s[i + 1]
    <2>1. s \in Seq(Events)
        BY <1>1 DEF Client
    <2> QED BY <1>2, <2>1, HeadTailProperties
<1>4. e.error => Tail(s) = << >> /\ g \notin client.listeners
    <2>1. \A i \in 1 .. Len(s) :
              s[i].error => i = Len(s) /\ g \notin client.listeners
        BY <1>1 DEF ErrorsAreLast
    <2> HIDE DEF s, e
    <2>2. e.error => 1 = Len(s) /\ g \notin client.listeners
        <3>1. 1 \in 1 .. Len(s) /\ s[1].error = e.error
            BY <1>3
        <3> QED BY <2>1, <3>1
    <2>3. Len(Tail(s)) = 0 => Tail(s) = << >>
        BY <1>3, EmptySeq
    <2> QED BY <1>3, <2>2, <2>3
<1> HIDE DEF s, e
<1>5. /\ client' \in Client /\ client'.posted[g] = Tail(s)
      /\ \A h \in Gets \ {g} : client'.posted[h] = client.posted[h]
      /\ client'.listeners = client.listeners /\ client'.ok = client.ok
      /\ client'.targets = client.targets /\ client'.views = client.views
      /\ client'.stream = client.stream /\ client'.online = client.online
    BY <1>1, <1>2, <1>3 DEF Client
<1>6. ErrorsAreLast(client')
    <2> SUFFICES ASSUME NEW h \in Gets, NEW i \in 1 .. Len(client'.posted[h]),
                        client'.posted[h][i].error
                 PROVE  i = Len(client'.posted[h]) /\ h \notin client'.listeners
        BY DEF ErrorsAreLast
    <2>1. CASE h = g
        <3>1. /\ i \in 1 .. Len(Tail(s)) /\ Tail(s)[i] = s[i + 1]
              /\ Tail(s)[i].error
            BY <1>3, <1>5, <2>1
        <3>2. i + 1 \in 1 .. Len(s) /\ s[i + 1].error
            BY <1>3, <3>1
        <3>3. i + 1 = Len(s) /\ g \notin client.listeners
            BY <1>1, <3>2 DEF ErrorsAreLast, s
        <3> QED BY <1>3, <1>5, <2>1, <3>3
    <2>2. CASE h # g
        BY <1>1, <1>5, <2>2 DEF ErrorsAreLast
    <2> QED BY <2>1, <2>2
<1>7. ClientInv(client') /\ Linked(client')
    <2>1. SameLinks(client, client')
        BY <1>5 DEF SameLinks
    <2>2. Linked(client')
        BY <1>1, <2>1, LinkedStays
    <2> QED BY <1>1, <1>5, <1>6, <2>2
            DEF ClientInv, CoreInv, StreamInv, OnlineInv
<1>8. \A h \in Gets \ {g} : Fresh(h) => /\ h \notin client'.listeners
                                        /\ client'.posted[h] = << >>
    BY <1>5 DEF Fresh
<1>9. ~Fresh(g) /\ get[g].called /\ \A i \in 1 .. Len(workerQ) : workerQ[i] # AddOf(g)
    <2>1. ~Fresh(g)
        BY <1>2 DEF Fresh, s
    <2> QED BY <1>1, <2>1 DEF AnsweredOnce, AddedOnce
<1>10. CASE get[g].muted
    <2>1. get' = get /\ workerQ' = workerQ
        BY <1>10 DEF RunEvent
    <2>2. GetsTypeOK'
        BY <1>2, <1>5, <2>1 DEF GetsIInv, GetsTypeOK
    <2>3. \A h \in Gets \ {g} : Fresh(h) => Fresh(h)'
        BY <1>5, <2>1 DEF Fresh
    <2>4. AnsweredOnce'
        <3> SUFFICES ASSUME NEW h \in Gets
                     PROVE  /\ get[h].completions \in {0, 1}
                            /\ get[h].muted => get[h].completions = 1
                            /\ get[h].completions = 1 /\ ~get[h].muted =>
                                  /\ h \notin client'.listeners
                                  /\ client'.posted[h] = << >>
                            /\ ~get[h].called => Fresh(h)'
            BY <2>1 DEF AnsweredOnce
        <3>1. CASE h = g
            BY <1>1, <1>9, <1>10, <3>1 DEF AnsweredOnce
        <3>2. CASE h # g
            BY <1>1, <1>5, <2>3, <3>2 DEF AnsweredOnce
        <3> QED BY <3>1, <3>2
    <2>5. AddedOnce'
        <3> SUFFICES ASSUME NEW h \in Gets, NEW i \in 1 .. Len(workerQ),
                            workerQ[i] = AddOf(h)
                     PROVE  /\ get[h].called /\ Fresh(h)'
                            /\ \A j \in 1 .. Len(workerQ) :
                                  workerQ[j] = AddOf(h) => j = i
            BY <2>1 DEF AddedOnce, AddOf
        <3>1. h # g
            BY <1>9
        <3> QED BY <1>1, <2>3, <3>1 DEF AddedOnce
    <2> QED BY <1>7, <2>1, <2>2, <2>4, <2>5 DEF GetsIInv, OnceInv
<1>11. CASE ~get[g].muted
    <2> DEFINE rest == [op |-> "remove", get |-> g]
    <2>1. /\ get' = [get EXCEPT ![g].completions = @ + 1, ![g].muted = ~e.error]
          /\ workerQ' \in {workerQ, Append(workerQ, rest)}
        BY <1>11 DEF RunEvent, s, e
    <2>2. get[g].completions = 0
        BY <1>1, <1>2, <1>11 DEF AnsweredOnce, s
    <2>3. e.error \in BOOLEAN
        BY <1>3 DEF Events
    <2>4. /\ get' \in [Gets -> Marks]
          /\ get'[g].completions = 1 /\ get'[g].called
          /\ ~get'[g].muted => e.error
          /\ \A h \in Gets \ {g} : get'[h] = get[h]
        <3> DEFINE m == [called |-> get[g].called, muted |-> ~e.error,
                         completions |-> 1]
        <3>1. get[g] \in Marks /\ m \in Marks
            BY <1>1, <2>3 DEF Marks
        <3>2. get' = [get EXCEPT ![g] = m]
            <4> DEFINE n == [get[g] EXCEPT !.completions = get[g].completions + 1]
                       k == [get EXCEPT ![g] = n]
            <4>1. n = [called |-> get[g].called, muted |-> get[g].muted,
                       completions |-> 1]
                BY <2>2, <3>1 DEF Marks
            <4> HIDE DEF n
            <4>2. k[g] = n
                BY <1>1
            <4>3. get' = [k EXCEPT ![g] = [n EXCEPT !.muted = ~e.error]]
                BY <2>1, <4>2 DEF n
            <4>4. [n EXCEPT !.muted = ~e.error] = m
                BY <4>1
            <4> HIDE DEF m
            <4> QED BY <1>1, <4>3, <4>4
        <3>3. m.completions = 1 /\ m.called = get[g].called /\ m.muted = ~e.error
            OBVIOUS
        <3> HIDE DEF m
        <3> QED BY <1>1, <1>9, <2>3, <3>1, <3>2, <3>3
    <2>5. /\ workerQ' \in Seq(Blocks)
          /\ \A h \in Gets : \A i \in 1 .. Len(workerQ') :
                workerQ'[i] = AddOf(h) =>
                    i \in 1 .. Len(workerQ) /\ workerQ[i] = AddOf(h)
        <3>1. CASE workerQ' = workerQ
            BY <1>1, <3>1
        <3>2. CASE workerQ' = Append(workerQ, rest)
            <4>1. rest \in Blocks /\ \A h \in Gets : rest # AddOf(h)
                BY DEF Blocks, AddOf
            <4> HIDE DEF rest
            <4> QED BY <1>1, <3>2, <4>1, AppendFacts
        <3> QED BY <2>1, <3>1, <3>2
    <2>6. GetsTypeOK'
        BY <1>2, <1>5, <2>4, <2>5 DEF GetsIInv, GetsTypeOK, Blocks, Marks
    <2>7. \A h \in Gets \ {g} : Fresh(h) => Fresh(h)'
        BY <1>5, <2>4 DEF Fresh
    <2>8. AnsweredOnce'
        <3> SUFFICES ASSUME NEW h \in Gets
                     PROVE  /\ get'[h].completions \in {0, 1}
                            /\ get'[h].muted => get'[h].completions = 1
                            /\ get'[h].completions = 1 /\ ~get'[h].muted =>
                                  /\ h \notin client'.listeners
                                  /\ client'.posted[h] = << >>
                            /\ ~get'[h].called => Fresh(h)'
            BY DEF AnsweredOnce
        <3>1. CASE h = g
            BY <1>4, <1>5, <2>4, <3>1
        <3>2. CASE h # g
            BY <1>1, <1>5, <2>4, <2>7, <3>2 DEF AnsweredOnce
        <3> QED BY <3>1, <3>2
    <2>9. AddedOnce'
        <3> SUFFICES ASSUME NEW h \in Gets, NEW i \in 1 .. Len(workerQ'),
                            workerQ'[i] = AddOf(h)
                     PROVE  /\ get'[h].called /\ Fresh(h)'
                            /\ \A j \in 1 .. Len(workerQ') :
                                  workerQ'[j] = AddOf(h) => j = i
            BY DEF AddedOnce, AddOf
        <3>1. i \in 1 .. Len(workerQ) /\ workerQ[i] = AddOf(h)
            BY <2>5
        <3>2. h # g
            BY <1>9, <3>1
        <3>3. get[h].called /\ Fresh(h)
            BY <1>1, <3>1 DEF AddedOnce
        <3>4. \A j \in 1 .. Len(workerQ') : workerQ'[j] = AddOf(h) => j = i
            BY <1>1, <2>5, <3>1 DEF AddedOnce
        <3> QED BY <2>4, <2>7, <3>2, <3>3, <3>4
    <2>10. \A h \in Gets : /\ get'[h].called = get[h].called
                           /\ get'[h].completions =
                                IF h = g THEN 1 ELSE get[h].completions
        BY <1>1, <1>9, <2>1, <2>4 DEF Marks
    <2> QED BY <1>7, <1>9, <2>2, <2>6, <2>8, <2>9, <2>10 DEF GetsIInv, OnceInv
<1> QED BY <1>10, <1>11

-----------------------------------------------------------------------------
(* The theorems.                                                           *)

\* In the beginning nothing was called and nothing is watched.
LEMMA InitHolds == GetsInit => GetsIInv
<1> SUFFICES ASSUME GetsInit PROVE GetsIInv
    OBVIOUS
<1>1. /\ client = NewClient /\ workerQ = << >> /\ faults = 0
      /\ get = [g \in Gets |-> NewGet]
      /\ server = [version |-> 1, read |-> 1, denied |-> {}, fresh |-> FALSE,
                   targets |-> [q \in Queries |-> Unwatched], out |-> << >>]
    BY DEF GetsInit
<1>2. 0 \in Versions /\ 1 \in Versions
    BY GetAssumption DEF Versions
<1>3. /\ client.stream = NewStream /\ client.online = NewTracker
      /\ client.network = TRUE /\ client.targets = {}
      /\ client.agg = NewAggregator(Queries)
      /\ client.views = [q \in Queries |-> NoView]
      /\ client.cache = [q \in Queries |-> 0] /\ client.last = 0
      /\ client.listeners = {} /\ client.raised = {} /\ client.sent = << >>
      /\ client.posted = [g \in Gets |-> << >>] /\ client.ok
    BY <1>1 DEF NewClient
<1>4. NewStream \in StreamType /\ NewTracker \in TrackerType
    BY DEF NewStream, StreamType, States, NewTracker, TrackerType,
           kMaxWatchStreamFailures
<1>5. NewAggregator(Queries) \in [Queries -> TargetState(MaxVersion)]
    BY GetAssumption DEF NewAggregator, TargetState, NoTargetState
<1>6. [q \in Queries |-> NoView] \in [Queries -> Views]
    BY <1>2 DEF NoView, Views
<1>7. [g \in Gets |-> << >>] \in [Gets -> Seq(Events)] /\ << >> \in Seq(Requests)
    OBVIOUS
<1>8. client \in Client
    BY <1>1, <1>2, <1>4, <1>5, <1>6, <1>7 DEF NewClient, Client
<1>9. server \in Server
    <2>1. Unwatched \in [watched : BOOLEAN, asked : Versions, docs : Versions]
        BY <1>2 DEF Unwatched
    <2>2. << >> \in Seq(Messages)
        OBVIOUS
    <2>3. [q \in Queries |-> Unwatched]
              \in [Queries -> [watched : BOOLEAN, asked : Versions,
                               docs : Versions]]
        BY <2>1
    <2> QED BY <1>1, <1>2, <2>2, <2>3 DEF Server
<1>10. \A g \in Gets : get[g] = NewGet /\ client.posted[g] = << >>
    BY <1>1, <1>3
<1>11. GetsTypeOK
    <2>1. NewGet \in [called : BOOLEAN, muted : BOOLEAN, completions : Nat]
        BY DEF NewGet
    <2>2. get \in [Gets -> [called : BOOLEAN, muted : BOOLEAN, completions : Nat]]
        BY <1>1, <2>1
    <2>3. workerQ \in Seq([op : {"add", "remove"}, get : Gets])
        BY <1>1
    <2> QED BY <1>1, <1>8, <1>9, <2>2, <2>3 DEF GetsTypeOK
<1>12. ErrorsAreLast(client)
    BY <1>10 DEF ErrorsAreLast
<1>13. ClientInv(client)
    <2>1. client.stream.ok /\ ~client.stream.asked /\ ~client.stream.idle
        BY <1>3 DEF NewStream
    <2>2. /\ client.online.ok /\ ~client.online.timer
          /\ client.online.state # "Online"
        BY <1>3 DEF NewTracker
    <2> QED BY <1>3, <1>8, <1>12, <2>1, <2>2
            DEF ClientInv, CoreInv, StreamInv, OnlineInv, TrackerInv
<1>14. Linked(client)
    BY <1>3 DEF Linked, Listeners, NoView
<1>15. OnceInv
    <2>1. AnsweredOnce
        BY <1>3, <1>10 DEF AnsweredOnce, Fresh, NewGet
    <2>2. AddedOnce
        BY <1>1 DEF AddedOnce
    <2> QED BY <2>1, <2>2 DEF OnceInv
<1> QED BY <1>11, <1>13, <1>14, <1>15 DEF GetsIInv

\* A step of the server leaves the client alone.
LEMMA ServerStepKeeps ==
    ASSUME GetsIInv,
           \/ ServerSendsSnapshot \/ DataChanges
           \/ \E q \in Queries : ServerSendsDocuments(q)
    PROVE  GetsIInv'
<1>1. server \in Server /\ faults \in Nat
    BY DEF GetsIInv, GetsTypeOK
<1>2. /\ client' = client /\ workerQ' = workerQ /\ get' = get /\ faults' = faults
    BY DEF ServerSendsSnapshot, DataChanges, ServerSendsDocuments
<1>3. server' \in Server
    <2>1. CASE ServerSendsSnapshot
        BY <1>1, <2>1, ServerKeeps DEF ServerSendsSnapshot
    <2>2. CASE DataChanges
        <3>1. server.version + 1 \in Versions
            BY <1>1, <2>2, GetAssumption DEF DataChanges, Server, Versions
        <3> QED BY <1>1, <2>2, <3>1 DEF DataChanges, Server
    <2>3. ASSUME NEW q \in Queries, ServerSendsDocuments(q)
          PROVE  server' \in Server
        <3>1. PICK v \in server.read .. server.version :
                  server' = Documents(server, q, v)
            BY <2>3 DEF ServerSendsDocuments
        <3>2. server.read \in Versions /\ server.version \in Versions
            BY <1>1 DEF Server
        <3>3. v \in Versions
            BY <3>2, GetAssumption DEF Versions
        <3> QED BY <1>1, <3>1, <3>3, ServerKeeps
    <2> QED BY <2>1, <2>2, <2>3
<1>4. Fewer(client, client')
    BY <1>2 DEF GetsIInv, Fewer, Silent
<1> QED BY <1>1, <1>2, <1>3, <1>4, FewerStep

\* The steps of the client's queue, of the connection and of the user.
LEMMA ClientStepKeeps ==
    ASSUME GetsIInv,
           \/ TokenArrives \/ TokenFails \/ StaleTokenArrives \/ BackoffTimer
           \/ IdleTimer \/ OnlineTimer \/ OnStreamRead \/ StreamFails
           \/ UserChanges \/ ServerReceives
    PROVE  GetsIInv' /\ get' = get
<1>1. server \in Server /\ faults \in Nat /\ client \in Client
    BY DEF GetsIInv, GetsTypeOK
<1>2. get' = get /\ workerQ' = workerQ
    BY DEF TokenArrives, TokenFails, StaleTokenArrives, BackoffTimer, IdleTimer,
           OnlineTimer, OnStreamRead, StreamFails, UserChanges, ServerReceives
<1>3. faults' \in Nat
    <2>1. CASE StreamFails \/ UserChanges
        <3>1. faults' \in {faults, faults + 1}
            BY <2>1 DEF StreamFails, UserChanges
        <3> QED BY <1>1, <3>1
    <2>2. CASE \/ TokenArrives \/ TokenFails \/ StaleTokenArrives
               \/ BackoffTimer \/ IdleTimer \/ OnlineTimer \/ OnStreamRead
               \/ ServerReceives
        <3>1. faults' = faults
            BY <2>2 DEF TokenArrives, TokenFails, StaleTokenArrives,
                        BackoffTimer, IdleTimer, OnlineTimer, OnStreamRead,
                        ServerReceives
        <3> QED BY <1>1, <3>1
    <2> QED BY <2>1, <2>2
<1>4. server' \in Server
    <2>1. CASE TokenArrives \/ TokenFails \/ StaleTokenArrives \/ BackoffTimer
                   \/ OnlineTimer
        BY <1>1, <2>1 DEF TokenArrives, TokenFails, StaleTokenArrives,
                          BackoffTimer, OnlineTimer
    <2>2. CASE IdleTimer \/ StreamFails
        BY <1>1, <2>2, ServerKeeps DEF IdleTimer, StreamFails
    <2>3. CASE UserChanges
        BY <1>1, <2>3, ServerKeeps DEF UserChanges
    <2>4. CASE OnStreamRead
        <3>1. Tail(server.out) \in Seq(Messages)
            BY <1>1, <2>4 DEF OnStreamRead, Server
        <3> QED BY <1>1, <2>4, <3>1 DEF OnStreamRead, Server
    <2>5. CASE ServerReceives
        <3>1. Head(client.sent) \in Requests
            BY <1>1, <2>5 DEF ServerReceives, Client
        <3> QED BY <1>1, <2>5, <3>1, ServerKeeps DEF ServerReceives
    <2> QED BY <2>1, <2>2, <2>3, <2>4, <2>5
<1>5. Fewer(client, client')
    BY ClientStepIsFewer
<1> QED BY <1>2, <1>3, <1>4, <1>5, FewerStep

LEMMA NextHolds == GetsIInv /\ [GetsNext]_getsVars => GetsIInv'
<1> SUFFICES ASSUME GetsIInv, [GetsNext]_getsVars PROVE GetsIInv'
    OBVIOUS
<1>1. CASE \E g \in Gets : GetDocuments(g) \/ RunEvent(g)
    BY <1>1, CallKeeps, EventStep
<1>2. CASE RunListenerBlock
    BY <1>2, ListenerBlockKeeps
<1>3. CASE \/ TokenArrives \/ TokenFails \/ StaleTokenArrives \/ BackoffTimer
           \/ IdleTimer \/ OnlineTimer \/ OnStreamRead \/ StreamFails
           \/ UserChanges \/ ServerReceives
    BY <1>3, ClientStepKeeps
<1>4. CASE \/ ServerSendsSnapshot \/ DataChanges
           \/ \E q \in Queries : ServerSendsDocuments(q)
    BY <1>4, ServerStepKeeps
<1>5. CASE UNCHANGED getsVars
    <2>1. client' = client /\ server' = server /\ workerQ' = workerQ
          /\ get' = get /\ faults' = faults
        BY <1>5 DEF getsVars
    <2>2. Fewer(client, client') /\ server \in Server /\ faults \in Nat
        BY <2>1 DEF GetsIInv, GetsTypeOK, Fewer, Silent
    <2> QED BY <2>1, <2>2, FewerStep
<1> QED BY <1>1, <1>2, <1>3, <1>4, <1>5 DEF GetsNext, ClientStep, ServerStep

LEMMA Inductive == GetsSpec => []GetsIInv
<1> QED BY InitHolds, NextHolds, PTL DEF GetsSpec

\* For any calls and queries, and however often the connection breaks, the user
\* changes and the timers run out: every part of the client keeps its type and
\* no HARD_ASSERT of stream.cc, online_state_tracker.cc, remote_store.cc,
\* sync_engine.cc and event_manager.cc fails.
THEOREM NoAssertionFails == GetsSpec => []GetsInv
<1>1. GetsIInv => GetsInv
    BY DEF GetsIInv, GetsInv, ClientInv, CoreInv, StreamInv, OnlineInv, TrackerInv
<1> QED BY Inductive, <1>1, PTL

\* A listener is answered for a view that is open and a target that is watched:
\* the maps of event_manager.cc, sync_engine.cc and remote_store.cc always have
\* the same queries.
THEOREM MapsAgree == GetsSpec => []Linked(client)
<1>1. GetsIInv => Linked(client)
    BY DEF GetsIInv
<1> QED BY Inductive, <1>1, PTL

\* The safety half of OneShotGet: no completion of a getDocuments call is called
\* twice, or before the call (ListenOnce of query_core.cc and
\* document_reference_core.cc).
THEOREM CompletesAtMostOnce ==
    GetsSpec => Contract!GetInit /\ [][Contract!GetNext]_(Contract!getVars)
<1>1. GetsInit => Contract!GetInit
    BY DEF GetsInit, NewGet, Contract!GetInit
<1>2. ASSUME GetsIInv, [GetsNext]_getsVars
      PROVE  [Contract!GetNext]_(Contract!getVars)
    <2> USE DEF Contract!GetNext, Contract!getVars
    <2>1. CASE get' = get
        BY <2>1
    <2>2. ASSUME NEW g \in Gets, GetDocuments(g)
          PROVE  Contract!GetNext
        <3>1. /\ get \in [Gets -> Marks] /\ ~get[g].called
              /\ get' = [get EXCEPT ![g].called = TRUE]
            BY <1>2, <2>2 DEF GetsIInv, GetsTypeOK, Marks, GetDocuments
        <3>2. /\ get'[g].called
              /\ \A h \in Gets : get'[h].completions = get[h].completions
              /\ \A h \in Gets \ {g} : get'[h].called = get[h].called
            BY <3>1 DEF Marks
        <3> QED BY <3>1, <3>2 DEF Contract!Call
    <2>3. ASSUME NEW g \in Gets, RunEvent(g), get' # get
          PROVE  Contract!GetNext
        <3>1. /\ get[g].called /\ get[g].completions = 0
              /\ \A h \in Gets : /\ get'[h].called = get[h].called
                                 /\ get'[h].completions =
                                      IF h = g THEN 1 ELSE get[h].completions
            BY <1>2, <2>3, EventStep
        <3>2. [h \in Gets |-> get'[h].completions]
                  = [[h \in Gets |-> get[h].completions] EXCEPT ![g] = 1]
            BY <3>1
        <3>3. {h \in Gets : get'[h].called} = {h \in Gets : get[h].called}
            BY <3>1
        <3>4. [h \in Gets |-> get[h].completions][g] = 0
            BY <3>1
        <3> QED BY <3>1, <3>2, <3>3, <3>4 DEF Contract!Complete
    <2>4. CASE \/ TokenArrives \/ TokenFails \/ StaleTokenArrives \/ BackoffTimer
               \/ IdleTimer \/ OnlineTimer \/ OnStreamRead \/ StreamFails
               \/ UserChanges \/ ServerReceives
        BY <1>2, <2>1, <2>4, ClientStepKeeps
    <2>5. CASE RunListenerBlock \/ ServerSendsSnapshot \/ DataChanges
               \/ \E q \in Queries : ServerSendsDocuments(q)
        <3>1. get' = get
            BY <2>5 DEF RunListenerBlock, ServerSendsSnapshot, DataChanges,
                        ServerSendsDocuments
        <3> QED BY <2>1, <3>1
    <2>6. CASE UNCHANGED getsVars
        <3>1. get' = get
            BY <2>6 DEF getsVars
        <3> QED BY <2>1, <3>1
    <2> QED BY <1>2, <2>1, <2>2, <2>3, <2>4, <2>5, <2>6
            DEF GetsNext, ClientStep, ServerStep
<1> QED BY Inductive, <1>1, <1>2, PTL DEF GetsSpec

-----------------------------------------------------------------------------
(* What a screen is told is fresh: the invariant that relates the client,   *)
(* the requests on the wire, the server and its messages.                   *)

\* Places of a queue with a request or message of a kind.
Hits(s, H) == {i \in 1 .. Len(s) : s[i] \in H}

Asks(q) == {r \in Requests : r.target = q}
Watches == {r \in Requests : r.op = "watch"}
Answers(q) == {m \in Messages : m.target = q /\ m.op \in {"added", "removed"}}
Docs(q) == {m \in Messages : m.target = q /\ m.op = "documents"}

\* The queue s switches between requests of H that are in W and requests that
\* are not, from the state `before` at its oldest end to `after`.
Alternates(s, H, W, before, after) ==
    /\ Hits(s, H) = {} => (before <=> after)
    /\ \A i \in Hits(s, H) :
          (\A k \in Hits(s, H) : i <= k) => (s[i] \in W <=> ~before)
    /\ \A i \in Hits(s, H) :
          (\A k \in Hits(s, H) : k <= i) => (s[i] \in W <=> after)
    /\ \A i, j \in Hits(s, H) :
          i < j /\ (\A k \in Hits(s, H) : k <= i \/ j <= k)
              => (s[i] \in W <=> s[j] \notin W)

\* What the aggregator waits for is on the wire, in one direction or the other.
Counted(a, sent, out, q) ==
    (IF a.known THEN a.responses ELSE 0)
        = Cardinality(Hits(sent, Asks(q))) + Cardinality(Hits(out, Answers(q)))

\* The messages of the present watch: those behind every answer.
Present(out, q) ==
    {i \in 1 .. Len(out) : \A k \in Hits(out, Answers(q)) : k < i}

Synced(a) == a.known /\ a.current
Got(a, cached, followed) ==
    a.responses = 0 /\ (a.docs # 0 \/ cached >= followed)

\* Documents come before the next snapshot.
DocumentsFirst(out, q) ==
    \A k \in Present(out, q) : out[k].op = "snapshot" =>
        \E i \in Present(out, q) : i < k /\ out[i] \in Docs(q)

\* The server watches the target, at least as late as `followed`; a
\* target that is synced from an earlier watch gets documents before a snapshot.
Wired(a, cached, followed, s, q) ==
    /\ s.targets[q].watched /\ s.targets[q].asked >= followed
    /\ \A i \in Present(s.out, q) :
          s.out[i] \in Docs(q) /\ s.out[i].current => s.out[i].version >= followed
    /\ Synced(a) /\ ~Got(a, cached, followed) =>
          /\ s.targets[q].docs # 0 =>
                \E i \in Present(s.out, q) : s.out[i] \in Docs(q)
          /\ DocumentsFirst(s.out, q)

Followed(a, cached, followed, wanted, sent, s, q) ==
    /\ Counted(a, sent, s.out, q)
    /\ Alternates(sent, Asks(q), Watches, s.targets[q].watched, wanted)
    /\ wanted /\ Hits(sent, Asks(q)) = {} => Wired(a, cached, followed, s, q)

\* A target the server refuses is never synced.
Refused(a, s, q) ==
    ~Synced(a) /\ ~s.targets[q].watched
        /\ Hits(s.out, Answers(q) \cup Docs(q)) = {}

\* The stream of the server does not go back.
ServerInv(s) ==
    /\ s.read \in 1 .. s.version
    /\ \A i \in 1 .. Len(s.out) :
          /\ s.out[i].op = "rejected" => s.out[i].target \in s.denied
          /\ s.out[i].op = "documents" =>
                1 <= s.out[i].version /\ s.out[i].version <= s.read
    /\ \A i, j \in 1 .. Len(s.out) :
          i < j /\ s.out[i].op = "documents" /\ s.out[j].op = "documents" =>
              s.out[i].version <= s.out[j].version

\* A synced target has seen the server's data that its view is to follow.
CaughtUp(a, followed, s) ==
    Synced(a) =>
        /\ s.read >= followed
        /\ a.docs # 0 => a.docs >= followed
        /\ \A i \in 1 .. Len(s.out) :
              s.out[i].op = "documents" => s.out[i].version >= followed

\* No connection: nothing is watched and nothing is on the wire.
Closed(c, s) ==
    /\ c.sent = << >> /\ c.agg = NewAggregator(Queries)
    /\ s.out = << >> /\ ~s.fresh
    /\ \A q \in Queries : ~s.targets[q].watched

ViewsFresh(c) ==
    \A q \in Queries : c.views[q].current => c.cache[q] >= c.views[q].followed

PostedFresh(c) ==
    \A g \in Gets : \A i \in 1 .. Len(c.posted[g]) :
        LET e == c.posted[g][i]
        IN e.error \/ e.fromCache \/ e.version >= e.followed

Told(c) == ViewsFresh(c) /\ PostedFresh(c)

TargetInv(c, s, q) ==
    IF q \in s.denied
    THEN Refused(c.agg[q], s, q)
    ELSE Followed(c.agg[q], c.cache[q], c.views[q].followed, q \in c.targets,
                  c.sent, s, q)

FreshInv(c, s) ==
    /\ ServerInv(s) /\ Told(c)
    /\ \A q \in Queries : /\ c.views[q].followed <= s.version
                          /\ CaughtUp(c.agg[q], c.views[q].followed, s)
    /\ IF IsOpen(c.stream)
       THEN \A q \in Queries : TargetInv(c, s, q)
       ELSE Closed(c, s)

-----------------------------------------------------------------------------
(* Queues.                                                                 *)

\* A new entry is one more place, if it is of the kind.
LEMMA HitsOfAppend ==
    ASSUME NEW S, NEW s \in Seq(S), NEW e \in S, NEW H
    PROVE  LET n == Append(s, e)
           IN /\ Len(n) = Len(s) + 1 /\ n[Len(s) + 1] = e
              /\ \A i \in 1 .. Len(s) : n[i] = s[i]
              /\ e \in H => Hits(n, H) = Hits(s, H) \cup {Len(s) + 1}
              /\ e \notin H => Hits(n, H) = Hits(s, H)
<1> DEFINE n == Append(s, e)
<1>1. /\ Len(s) \in Nat /\ Len(n) = Len(s) + 1 /\ n[Len(s) + 1] = e
      /\ \A i \in 1 .. Len(s) : n[i] = s[i]
    OBVIOUS
<1> HIDE DEF n
<1>2. PICK l \in Nat : l = Len(s)
    BY <1>1
<1>3. \A i : i \in 1 .. Len(n) <=> i \in 1 .. l \/ i = l + 1
    BY <1>1, <1>2
<1>4. \A i \in 1 .. l : i # l + 1
    BY <1>2
<1>5. e \in H => Hits(n, H) = Hits(s, H) \cup {Len(s) + 1}
    BY <1>1, <1>2, <1>3, <1>4, Zenon DEF Hits
<1>6. e \notin H => Hits(n, H) = Hits(s, H)
    BY <1>1, <1>2, <1>3, <1>4, Zenon DEF Hits
<1> QED BY <1>1, <1>5, <1>6 DEF n

\* The places are finitely many.
LEMMA HitsAreFinite ==
    ASSUME NEW S, NEW s \in Seq(S), NEW H
    PROVE  /\ IsFiniteSet(Hits(s, H)) /\ Cardinality(Hits(s, H)) \in Nat
           /\ Cardinality(Hits(s, H)) = 0 <=> Hits(s, H) = {}
           /\ Hits(s, H) \subseteq 1 .. Len(s) /\ Len(s) \in Nat
<1>1. Len(s) \in Nat
    OBVIOUS
<1>2. IsFiniteSet(1 .. Len(s))
    BY <1>1, FS_Interval
<1>3. Hits(s, H) \subseteq 1 .. Len(s)
    BY DEF Hits
<1>4. IsFiniteSet(Hits(s, H))
    BY <1>2, <1>3, FS_Subset
<1> QED BY <1>1, <1>3, <1>4, FS_CardinalityType, FS_EmptySet

LEMMA CountOfAppend ==
    ASSUME NEW S, NEW s \in Seq(S), NEW e \in S, NEW H
    PROVE  Cardinality(Hits(Append(s, e), H))
               = Cardinality(Hits(s, H)) + (IF e \in H THEN 1 ELSE 0)
<1>1. IsFiniteSet(Hits(s, H)) /\ Hits(s, H) \subseteq 1 .. Len(s)
      /\ Cardinality(Hits(s, H)) \in Nat /\ Len(s) \in Nat
    BY HitsAreFinite
<1>2. Len(s) + 1 \notin Hits(s, H)
    <2>1. Len(s) + 1 \notin 1 .. Len(s)
        BY <1>1
    <2> QED BY <1>1, <2>1
<1>3. CASE e \in H
    <2>1. Hits(Append(s, e), H) = Hits(s, H) \cup {Len(s) + 1}
        BY <1>3, HitsOfAppend
    <2>2. Cardinality(Hits(s, H) \cup {Len(s) + 1}) = Cardinality(Hits(s, H)) + 1
        BY <1>1, <1>2, FS_AddElement
    <2> QED BY <1>3, <2>1, <2>2
<1>4. CASE e \notin H
    <2>1. Hits(Append(s, e), H) = Hits(s, H)
        BY <1>4, HitsOfAppend
    <2> QED BY <1>1, <1>4, <2>1
<1> QED BY <1>3, <1>4

\* What is left of a queue when its oldest entry is taken.
LEMMA HitsOfTail ==
    ASSUME NEW S, NEW s \in Seq(S), s # << >>, NEW H
    PROVE  LET n == Tail(s)
           IN /\ n \in Seq(S) /\ Len(s) \in Nat /\ Len(n) \in Nat
              /\ Len(s) = Len(n) + 1 /\ 1 \in 1 .. Len(s) /\ Head(s) = s[1]
              /\ \A i \in 1 .. Len(n) :
                    /\ i + 1 \in 1 .. Len(s) /\ i + 1 > 1 /\ n[i] = s[i + 1]
                    /\ i \in Hits(n, H) <=> i + 1 \in Hits(s, H)
              /\ \A i \in 1 .. Len(s) :
                    i # 1 => i - 1 \in 1 .. Len(n) /\ (i - 1) + 1 = i
              /\ 1 \in Hits(s, H) <=> Head(s) \in H
<1> DEFINE n == Tail(s)
<1>1. /\ n \in Seq(S) /\ Len(s) \in Nat /\ Len(n) = Len(s) - 1 /\ Len(s) # 0
      /\ \A i \in 1 .. Len(n) : n[i] = s[i + 1]
      /\ Head(s) = s[1]
    OBVIOUS
<1> HIDE DEF n
<1>2. PICK l \in Nat : l = Len(n) /\ Len(s) = l + 1
    BY <1>1
<1>3. /\ \A i \in 1 .. l : i + 1 \in 1 .. l + 1 /\ i + 1 > 1
      /\ \A i \in 1 .. l + 1 : i # 1 => i - 1 \in 1 .. l /\ (i - 1) + 1 = i
      /\ 1 \in 1 .. l + 1
    OBVIOUS
<1>4. \A i \in 1 .. Len(n) : i \in Hits(n, H) <=> i + 1 \in Hits(s, H)
    BY <1>1, <1>2, <1>3, Zenon DEF Hits
<1>5. 1 \in Hits(s, H) <=> Head(s) \in H
    BY <1>1, <1>2, <1>3, Zenon DEF Hits
<1> QED BY <1>1, <1>2, <1>3, <1>4, <1>5, Zenon DEF n

LEMMA CountOfTail ==
    ASSUME NEW S, NEW s \in Seq(S), s # << >>, NEW H
    PROVE  Cardinality(Hits(s, H))
               = Cardinality(Hits(Tail(s), H)) + (IF Head(s) \in H THEN 1 ELSE 0)
<1> DEFINE n == Tail(s)
           M == Hits(n, H)
           f == [i \in M |-> i + 1]
           K == Hits(s, H) \ {1}
<1>1. n \in Seq(S)
    OBVIOUS
<1> HIDE DEF n
<1>2. IsFiniteSet(M) /\ M \subseteq 1 .. Len(n) /\ Len(n) \in Nat
      /\ Cardinality(M) \in Nat
    BY <1>1, HitsAreFinite
<1>3. IsFiniteSet(Hits(s, H)) /\ Hits(s, H) \subseteq 1 .. Len(s)
      /\ Cardinality(Hits(s, H)) \in Nat
    BY HitsAreFinite
<1>4. IsFiniteSet(K) /\ 1 \notin K
    BY <1>3, FS_Subset
<1>5. /\ \A i \in 1 .. Len(n) : /\ i + 1 > 1
                                /\ i \in M <=> i + 1 \in Hits(s, H)
      /\ \A i \in 1 .. Len(s) :
            i # 1 => i - 1 \in 1 .. Len(n) /\ (i - 1) + 1 = i
      /\ 1 \in Hits(s, H) <=> Head(s) \in H
    BY HitsOfTail DEF n
<1>6. f \in Bijection(M, K)
    <2> HIDE DEF K
    <2>1. \A i \in M : i + 1 \in K /\ i \in Int
        <3>1. \A i \in M : i + 1 \in Hits(s, H) /\ i \in 1 .. Len(n)
            BY <1>2, <1>5
        <3>2. \A i \in 1 .. Len(n) : i \in Int /\ i + 1 # 1
            BY <1>2
        <3> QED BY <3>1, <3>2, Zenon DEF K
    <2>2. f \in [M -> K] /\ \A i \in M : f[i] = i + 1
        BY <2>1
    <2>3. \A i, j \in M : f[i] = f[j] => i = j
        BY <2>1, <2>2
    <2>4. ASSUME NEW k \in K
          PROVE  \E i \in M : f[i] = k
        <3>1. k \in Hits(s, H) /\ k # 1 /\ k \in 1 .. Len(s)
            BY <1>3 DEF K
        <3>2. k - 1 \in 1 .. Len(n) /\ (k - 1) + 1 = k
            BY <1>5, <3>1
        <3>3. k - 1 \in M
            BY <1>5, <3>1, <3>2
        <3> QED BY <2>2, <3>2, <3>3
    <2> HIDE DEF f, M
    <2> QED BY <2>2, <2>3, <2>4, Zenon DEF Bijection, Injection, Surjection, IsInjective
<1>7. Cardinality(M) = Cardinality(K)
    BY <1>2, <1>4, <1>6, FS_Bijection DEF ExistsBijection
<1>8. CASE Head(s) \in H
    <2>1. Hits(s, H) = K \cup {1}
        BY <1>5, <1>8
    <2>2. Cardinality(K \cup {1}) = Cardinality(K) + 1
        BY <1>4, FS_AddElement
    <2> QED BY <1>2, <1>7, <1>8, <2>1, <2>2 DEF n
<1>9. CASE Head(s) \notin H
    <2>1. Hits(s, H) = K
        BY <1>5, <1>9
    <2>2. Cardinality(Hits(s, H)) = Cardinality(M)
        BY <1>7, <2>1
    <2> HIDE DEF M
    <2>3. Cardinality(Hits(s, H)) = Cardinality(M) + 0
        BY <1>2, <2>2
    <2> QED BY <1>9, <2>3 DEF n, M
<1> QED BY <1>8, <1>9

\* A request of another kind changes nothing, one of this kind must switch.
LEMMA AlternatesAppend ==
    ASSUME NEW S, NEW s \in Seq(S), NEW e \in S, NEW H, NEW W,
           NEW before \in BOOLEAN, NEW after \in BOOLEAN,
           Alternates(s, H, W, before, after)
    PROVE  /\ e \notin H => Alternates(Append(s, e), H, W, before, after)
           /\ e \in H /\ (e \in W <=> ~after) =>
                  Alternates(Append(s, e), H, W, before, ~after)
<1> DEFINE n == Append(s, e)
           M == Hits(n, H)
           K == Hits(s, H)
<1>1. PICK l \in Nat : l = Len(s)
    OBVIOUS
<1>2. /\ n[l + 1] = e /\ \A i \in 1 .. l : n[i] = s[i]
      /\ e \in H => M = K \cup {l + 1}
      /\ e \notin H => M = K
    BY <1>1, HitsOfAppend
<1>3. \A i \in K : i \in 1 .. l /\ i \in Int /\ i < l + 1 /\ n[i] = s[i]
    <2>1. K \subseteq 1 .. l
        BY <1>1, HitsAreFinite
    <2>2. \A i \in 1 .. l : i \in Int /\ i < l + 1
        BY <1>1
    <2> QED BY <1>2, <2>1, <2>2
<1> HIDE DEF n, M, K
<1>4. /\ K = {} => (before <=> after)
      /\ \A i \in K : (\A k \in K : i <= k) => (s[i] \in W <=> ~before)
      /\ \A i \in K : (\A k \in K : k <= i) => (s[i] \in W <=> after)
      /\ \A i, j \in K : i < j /\ (\A k \in K : k <= i \/ j <= k)
             => (s[i] \in W <=> s[j] \notin W)
    BY DEF Alternates, K
<1>5. CASE e \notin H
    <2>1. M = K
        BY <1>2, <1>5
    <2>2. Alternates(n, H, W, before, after)
        BY <1>3, <1>4, <2>1, Zenon DEF Alternates, M
    <2> QED BY <1>5, <2>2 DEF n
<1>6. CASE e \in H /\ (e \in W <=> ~after)
    <2>1. M = K \cup {l + 1} /\ n[l + 1] = e
        BY <1>2, <1>6
    <2>2. M # {}
        BY <2>1
    <2>3. ASSUME NEW i \in M, \A k \in M : i <= k
          PROVE  n[i] \in W <=> ~before
        <3>1. CASE i \in K
            BY <1>3, <1>4, <2>1, <2>3, <3>1
        <3>2. CASE i = l + 1
            <4>1. K = {}
                BY <1>1, <1>3, <2>1, <2>3, <3>2
            <4> QED BY <1>4, <1>6, <2>1, <3>2, <4>1, Zenon
        <3> QED BY <2>1, <3>1, <3>2
    <2>4. ASSUME NEW i \in M, \A k \in M : k <= i
          PROVE  n[i] \in W <=> ~after
        <3>1. i = l + 1
            BY <1>1, <1>3, <2>1, <2>4
        <3> QED BY <1>6, <2>1, <3>1
    <2>5. ASSUME NEW i \in M, NEW j \in M, i < j,
                 \A k \in M : k <= i \/ j <= k
          PROVE  n[i] \in W <=> n[j] \notin W
        <3>1. i \in K
            BY <1>1, <1>3, <2>1, <2>5
        <3>2. CASE j \in K
            BY <1>3, <1>4, <2>1, <2>5, <3>1, <3>2
        <3>3. CASE j = l + 1
            <4>1. \A k \in K : k <= i
                BY <1>1, <1>3, <2>1, <2>5, <3>1, <3>3
            <4>2. n[i] \in W <=> after
                BY <1>3, <1>4, <3>1, <4>1
            <4> QED BY <1>6, <2>1, <3>3, <4>2
        <3> QED BY <2>1, <3>2, <3>3
    <2>6. Alternates(n, H, W, before, ~after)
        BY <2>2, <2>3, <2>4, <2>5, Zenon DEF Alternates, M
    <2> QED BY <1>6, <2>6 DEF n
<1> QED BY <1>5, <1>6

\* Taking the oldest request switches, if it is of this kind.
LEMMA AlternatesTail ==
    ASSUME NEW S, NEW s \in Seq(S), s # << >>, NEW H, NEW W,
           NEW before \in BOOLEAN, NEW after \in BOOLEAN,
           Alternates(s, H, W, before, after)
    PROVE  /\ Head(s) \notin H => Alternates(Tail(s), H, W, before, after)
           /\ Head(s) \in H => /\ Head(s) \in W <=> ~before
                               /\ Alternates(Tail(s), H, W, ~before, after)
<1> DEFINE n == Tail(s)
           M == Hits(n, H)
           K == Hits(s, H)
           e == Head(s)
<1>1. /\ e = s[1]
      /\ \A i \in 1 .. Len(n) :
            i + 1 > 1 /\ n[i] = s[i + 1] /\ (i \in M <=> i + 1 \in K)
      /\ \A i \in 1 .. Len(s) :
            i # 1 => i - 1 \in 1 .. Len(n) /\ (i - 1) + 1 = i
      /\ 1 \in K <=> e \in H
    BY HitsOfTail
<1>2. /\ K \subseteq 1 .. Len(s) /\ M \subseteq 1 .. Len(n)
      /\ Len(s) \in Nat /\ Len(n) \in Nat
    <2>1. n \in Seq(S)
        OBVIOUS
    <2> HIDE DEF n
    <2> QED BY <2>1, HitsAreFinite
<1> HIDE DEF n, M, K, e
<1>3. \A i \in M : i \in Int /\ i + 1 \in K /\ i + 1 > 1 /\ n[i] = s[i + 1]
    BY <1>1, <1>2
<1>4. \A i \in K : i \in Int /\ i >= 1 /\ (i # 1 => i - 1 \in M /\ (i - 1) + 1 = i)
    BY <1>1, <1>2
<1>5. /\ K = {} => (before <=> after)
      /\ \A i \in K : (\A k \in K : i <= k) => (s[i] \in W <=> ~before)
      /\ \A i \in K : (\A k \in K : k <= i) => (s[i] \in W <=> after)
      /\ \A i, j \in K : i < j /\ (\A k \in K : k <= i \/ j <= k)
             => (s[i] \in W <=> s[j] \notin W)
    BY DEF Alternates, K
<1>6. ASSUME NEW i \in M, NEW j \in M, i < j, \A k \in M : k <= i \/ j <= k
      PROVE  n[i] \in W <=> n[j] \notin W
    <2>1. i + 1 \in K /\ j + 1 \in K /\ i + 1 < j + 1
        BY <1>3, <1>6
    <2>2. \A k \in K : k <= i + 1 \/ j + 1 <= k
        <3> SUFFICES ASSUME NEW k \in K
                     PROVE  k <= i + 1 \/ j + 1 <= k
            OBVIOUS
        <3>1. CASE k = 1
            BY <1>3, <3>1
        <3>2. CASE k # 1
            <4>1. k - 1 \in M /\ (k - 1 <= i \/ j <= k - 1)
                BY <1>4, <1>6, <3>2
            <4> QED BY <1>3, <1>4, <4>1
        <3> QED BY <3>1, <3>2
    <2> QED BY <1>3, <1>5, <2>1, <2>2
<1>7. ASSUME NEW i \in M, \A k \in M : k <= i
      PROVE  n[i] \in W <=> after
    <2>1. \A k \in K : k <= i + 1
        <3> SUFFICES ASSUME NEW k \in K
                     PROVE  k <= i + 1
            OBVIOUS
        <3>1. CASE k = 1
            BY <1>3, <3>1
        <3>2. CASE k # 1
            <4>1. k - 1 \in M /\ k - 1 <= i
                BY <1>4, <1>7, <3>2
            <4> QED BY <1>3, <1>4, <4>1
        <3> QED BY <3>1, <3>2
    <2> QED BY <1>3, <1>5, <2>1
<1>8. CASE e \notin H
    <2>1. 1 \notin K
        BY <1>1, <1>8
    <2>2. M = {} => (before <=> after)
        BY <1>4, <1>5, <2>1
    <2>3. ASSUME NEW i \in M, \A k \in M : i <= k
          PROVE  n[i] \in W <=> ~before
        <3>1. \A k \in K : i + 1 <= k
            <4> SUFFICES ASSUME NEW k \in K
                         PROVE  i + 1 <= k
                OBVIOUS
            <4>1. k - 1 \in M /\ i <= k - 1
                BY <1>4, <2>1, <2>3
            <4> QED BY <1>3, <1>4, <4>1
        <3> QED BY <1>3, <1>5, <3>1
    <2>4. Alternates(n, H, W, before, after)
        BY <1>6, <1>7, <2>2, <2>3, Zenon DEF Alternates, M
    <2> QED BY <1>8, <2>4 DEF n, e
<1>9. CASE e \in H
    <2>1. 1 \in K /\ \A k \in K : 1 <= k
        BY <1>1, <1>4, <1>9
    <2>2. e \in W <=> ~before
        BY <1>1, <1>5, <2>1
    <2>3. M = {} => (~before <=> after)
        <3> SUFFICES ASSUME M = {}
                     PROVE  ~before <=> after
            OBVIOUS
        <3>1. \A k \in K : k <= 1
            BY <1>4
        <3>2. e \in W <=> after
            BY <1>1, <1>5, <2>1, <3>1
        <3> QED BY <2>2, <3>2
    <2>4. ASSUME NEW i \in M, \A k \in M : i <= k
          PROVE  n[i] \in W <=> ~(~before)
        <3>1. i + 1 \in K /\ 1 < i + 1
            BY <1>3
        <3>2. \A k \in K : k <= 1 \/ i + 1 <= k
            <4> SUFFICES ASSUME NEW k \in K, k # 1
                         PROVE  i + 1 <= k
                BY <1>4
            <4>1. k - 1 \in M /\ i <= k - 1
                BY <1>4, <2>4
            <4> QED BY <1>3, <1>4, <4>1
        <3>3. s[1] \in W <=> s[i + 1] \notin W
            BY <1>5, <2>1, <3>1, <3>2
        <3> QED BY <1>1, <1>3, <2>2, <3>3
    <2>5. Alternates(n, H, W, ~before, after)
        BY <1>6, <1>7, <2>3, <2>4, Zenon DEF Alternates, M
    <2> QED BY <1>9, <2>2, <2>5 DEF n, e
<1> QED BY <1>8, <1>9

\* The messages behind the answers.
LEMMA PresentOfAppend ==
    ASSUME NEW s \in Seq(Messages), NEW m \in Messages, NEW q
    PROVE  LET n == Append(s, m)
           IN /\ m \in Answers(q) => Present(n, q) = {}
              /\ m \notin Answers(q) =>
                     Present(n, q) = Present(s, q) \cup {Len(s) + 1}
<1> DEFINE n == Append(s, m)
           M == Hits(n, Answers(q))
           K == Hits(s, Answers(q))
<1>1. PICK l \in Nat : l = Len(s)
    OBVIOUS
<1>2. /\ Len(n) = l + 1
      /\ m \in Answers(q) => M = K \cup {l + 1}
      /\ m \notin Answers(q) => M = K
    BY <1>1, HitsOfAppend
<1>3. K \subseteq 1 .. l
    BY <1>1, HitsAreFinite
<1> HIDE DEF n, M, K
<1>4. /\ \A i : i \in 1 .. Len(n) <=> i \in 1 .. l \/ i = l + 1
      /\ \A k \in K : k < l + 1
      /\ \A i \in 1 .. l + 1 : ~(l + 1 < i)
    BY <1>1, <1>2, <1>3
<1>5. m \in Answers(q) => Present(n, q) = {}
    <2>1. m \in Answers(q) => l + 1 \in M
        BY <1>2
    <2>2. \A i \in 1 .. Len(n) : ~(l + 1 < i)
        BY <1>2, <1>4
    <2> QED BY <2>1, <2>2, Zenon DEF Present, M
<1>6. m \notin Answers(q) => Present(n, q) = Present(s, q) \cup {l + 1}
    BY <1>1, <1>2, <1>4, Zenon DEF Present, M, K
<1> QED BY <1>1, <1>5, <1>6 DEF n

LEMMA PresentOfTail ==
    ASSUME NEW s \in Seq(Messages), s # << >>, NEW q
    PROVE  /\ \A i \in 1 .. Len(Tail(s)) :
                 i \in Present(Tail(s), q) <=> i + 1 \in Present(s, q)
           /\ Hits(s, Answers(q)) = {} => 1 \in Present(s, q)
<1> DEFINE n == Tail(s)
           M == Hits(n, Answers(q))
           K == Hits(s, Answers(q))
<1>1. /\ n \in Seq(Messages) /\ 1 \in 1 .. Len(s)
      /\ \A i \in 1 .. Len(n) :
            /\ i + 1 \in 1 .. Len(s) /\ i + 1 > 1
            /\ i \in M <=> i + 1 \in K
      /\ \A i \in 1 .. Len(s) :
            i # 1 => i - 1 \in 1 .. Len(n) /\ (i - 1) + 1 = i
    BY HitsOfTail
<1>2. /\ K \subseteq 1 .. Len(s) /\ M \subseteq 1 .. Len(n)
      /\ Len(s) \in Nat /\ Len(n) \in Nat
    <2> HIDE DEF n
    <2> QED BY <1>1, HitsAreFinite
<1> HIDE DEF n, M, K
<1>3. ASSUME NEW i \in 1 .. Len(n)
      PROVE  i \in Present(n, q) <=> i + 1 \in Present(s, q)
    <2>1. i \in Int /\ i + 1 > 1 /\ i + 1 \in 1 .. Len(s)
        BY <1>1, <1>2
    <2>2. ASSUME \A k \in M : k < i, NEW k \in K
          PROVE  k < i + 1
        <3>1. CASE k = 1
            BY <2>1, <3>1
        <3>2. CASE k # 1
            <4>1. k \in 1 .. Len(s) /\ k \in Int
                BY <1>2
            <4>2. k - 1 \in 1 .. Len(n) /\ (k - 1) + 1 = k
                BY <1>1, <3>2, <4>1
            <4>3. k - 1 \in M
                BY <1>1, <4>2
            <4>4. k - 1 < i
                BY <2>2, <4>3
            <4> QED BY <2>1, <4>1, <4>4
        <3> QED BY <3>1, <3>2
    <2>3. ASSUME \A k \in K : k < i + 1, NEW k \in M
          PROVE  k < i
        <3>1. k \in Int /\ k + 1 < i + 1
            BY <1>1, <1>2, <2>3
        <3> QED BY <2>1, <3>1
    <2> QED BY <2>1, <2>2, <2>3, Zenon DEF Present, M, K
<1>4. K = {} => 1 \in Present(s, q)
    BY <1>1 DEF Present, K
<1> QED BY <1>3, <1>4 DEF n, K

-----------------------------------------------------------------------------
(* What does not concern the connection.                                   *)

\* Nothing is on the wire but what was; views may only lose their sync state.
Quiet(c, d) ==
    /\ d.agg = c.agg /\ d.sent = c.sent /\ d.cache = c.cache
    /\ d.targets = c.targets /\ (IsOpen(d.stream) <=> IsOpen(c.stream))
    /\ \A q \in Queries : /\ d.views[q].followed = c.views[q].followed
                          /\ d.views[q].current => c.views[q].current

LEMMA QuietKeeps ==
    ASSUME NEW c, NEW s, NEW d, FreshInv(c, s), Quiet(c, d), Told(d)
    PROVE  FreshInv(d, s)
<1>1. \A q \in Queries : TargetInv(c, s, q) => TargetInv(d, s, q)
    BY Zenon DEF Quiet, TargetInv
<1>2. Closed(c, s) => Closed(d, s)
    BY Zenon DEF Quiet, Closed
<1>3. \A q \in Queries :
          /\ d.views[q].followed = c.views[q].followed
          /\ d.agg[q] = c.agg[q]
    BY Zenon DEF Quiet
<1> QED BY <1>1, <1>2, <1>3, Zenon DEF FreshInv, Quiet

LEMMA QuietTwice ==
    ASSUME NEW c, NEW d, NEW e, Quiet(c, d), Quiet(d, e)
    PROVE  Quiet(c, e)
BY Zenon DEF Quiet

\* A connection that is gone leaves nothing to relate.
LEMMA ClosedHolds ==
    ASSUME NEW d, NEW s, ServerInv(s), Told(d), ~IsOpen(d.stream), Closed(d, s),
           \A q \in Queries : d.views[q].followed <= s.version
    PROVE  FreshInv(d, s)
<1>1. \A q \in Queries : ~d.agg[q].known
    BY DEF Closed, NewAggregator, NoTargetState
<1>2. \A q \in Queries : CaughtUp(d.agg[q], d.views[q].followed, s)
    BY <1>1, Zenon DEF CaughtUp, Synced
<1> QED BY <1>2, Zenon DEF FreshInv

-----------------------------------------------------------------------------
(* The client takes a message of the server.                               *)

Popped(s) == [s EXCEPT !.out = Tail(@)]

LEMMA PoppedServer ==
    ASSUME NEW s \in Server, s.out # << >>, ServerInv(s)
    PROVE  LET t == Popped(s)
           IN /\ t \in Server /\ t.out = Tail(s.out) /\ t.read = s.read
              /\ t.version = s.version /\ t.denied = s.denied
              /\ t.targets = s.targets
              /\ ServerInv(t)
              /\ \A a, o : CaughtUp(a, o, s) => CaughtUp(a, o, t)
<1> DEFINE t == Popped(s)
           n == Tail(s.out)
<1>1. s.out \in Seq(Messages)
    BY DEF Server
<1>2. n \in Seq(Messages) /\ Len(n) \in Nat /\ Len(s.out) \in Nat
      /\ \A i \in 1 .. Len(n) : i + 1 \in 1 .. Len(s.out) /\ n[i] = s.out[i + 1]
    BY <1>1, HitsOfTail
<1> HIDE DEF n
<1>3. /\ t \in Server /\ t.out = n /\ t.read = s.read
      /\ t.version = s.version /\ t.denied = s.denied
      /\ t.targets = s.targets
    BY <1>2 DEF Popped, Server, n
<1> HIDE DEF t
<1>4. \A i, j \in 1 .. Len(n) : i < j => i + 1 < j + 1
    BY <1>2
<1>5. ServerInv(t)
    <2>1. t.read \in 1 .. t.version
        BY <1>3 DEF ServerInv
    <2>2. \A i \in 1 .. Len(n) :
              /\ n[i].op = "rejected" => n[i].target \in s.denied
              /\ n[i].op = "documents" =>
                    1 <= n[i].version /\ n[i].version <= s.read
        BY <1>2, Zenon DEF ServerInv
    <2>3. ASSUME NEW i \in 1 .. Len(n), NEW j \in 1 .. Len(n),
                 i < j, n[i].op = "documents", n[j].op = "documents"
          PROVE  n[i].version <= n[j].version
        <3>1. i + 1 \in 1 .. Len(s.out) /\ j + 1 \in 1 .. Len(s.out)
              /\ i + 1 < j + 1 /\ n[i] = s.out[i + 1] /\ n[j] = s.out[j + 1]
            BY <1>2, <1>4, <2>3
        <3> QED BY <2>3, <3>1, Zenon DEF ServerInv
    <2> QED BY <1>3, <2>1, <2>2, <2>3, Zenon DEF ServerInv
<1>6. \A a, o : CaughtUp(a, o, s) => CaughtUp(a, o, t)
    BY <1>2, <1>3, Zenon DEF CaughtUp
<1> QED BY <1>3, <1>5, <1>6 DEF t, n

\* The head is an answer the aggregator counts, or does not matter to it.
LEMMA PoppedCounted ==
    ASSUME NEW a \in TargetState(MaxVersion), NEW sent \in Seq(Requests),
           NEW out \in Seq(Messages), out # << >>, NEW q,
           Counted(a, sent, out, q)
    PROVE  /\ Head(out) \notin Answers(q) =>
                 \A b : b.responses = a.responses /\ b.known = a.known =>
                            Counted(b, sent, Tail(out), q)
           /\ Head(out) \in Answers(q) =>
                 /\ a.known /\ a.responses # 0
                 /\ \A b : \/ b.known /\ b.responses = a.responses - 1
                           \/ ~b.known /\ a.responses - 1 = 0
                           => Counted(b, sent, Tail(out), q)
<1>1. PICK x \in Nat : x = Cardinality(Hits(sent, Asks(q)))
    BY HitsAreFinite
<1>2. Tail(out) \in Seq(Messages)
    OBVIOUS
<1>3. PICK y \in Nat : y = Cardinality(Hits(Tail(out), Answers(q)))
    BY <1>2, HitsAreFinite
<1>4. Cardinality(Hits(out, Answers(q)))
          = y + (IF Head(out) \in Answers(q) THEN 1 ELSE 0)
    BY <1>3, CountOfTail
<1>5. (IF a.known THEN a.responses ELSE 0)
          = x + Cardinality(Hits(out, Answers(q)))
    BY <1>1 DEF Counted
<1>6. a.responses \in Int /\ a.known \in BOOLEAN
    BY DEF TargetState
<1>7. CASE Head(out) \notin Answers(q)
    <2>1. (IF a.known THEN a.responses ELSE 0) = x + y
        <3>1. Cardinality(Hits(out, Answers(q))) = y + 0
            BY <1>4, <1>7
        <3>2. y + 0 = y
            BY <1>3
        <3> QED BY <1>5, <3>1, <3>2
    <2> QED BY <1>1, <1>3, <1>7, <2>1, Zenon DEF Counted
<1>8. CASE Head(out) \in Answers(q)
    <2>1. (IF a.known THEN a.responses ELSE 0) = x + (y + 1)
        <3>1. Cardinality(Hits(out, Answers(q))) = y + 1
            BY <1>4, <1>8
        <3> QED BY <1>5, <3>1
    <2>2. a.known /\ a.responses # 0 /\ a.responses - 1 = x + y
        BY <1>1, <1>3, <1>6, <2>1
    <2>3. ASSUME NEW b, \/ b.known /\ b.responses = a.responses - 1
                        \/ ~b.known /\ a.responses - 1 = 0
          PROVE  (IF b.known THEN b.responses ELSE 0) = x + y
        BY <2>2, <2>3
    <2> QED BY <1>1, <1>3, <1>8, <2>2, <2>3, Zenon DEF Counted
<1> QED BY <1>7, <1>8

\* Documents taken by a target are the ones it got.
LEMMA PoppedWired ==
    ASSUME NEW s \in Server, s.out # << >>, NEW q, NEW a, NEW b,
           NEW k, NEW l, NEW o, Wired(a, k, o, s, q),
           Synced(b) /\ ~Got(b, l, o) =>
               /\ Synced(a) /\ ~Got(a, k, o)
               /\ 1 \in Present(s.out, q) => Head(s.out) \notin Docs(q)
    PROVE  Wired(b, l, o, Popped(s), q)
<1> DEFINE t == Popped(s)
           n == Tail(s.out)
<1>1. s.out \in Seq(Messages)
    BY DEF Server
<1>2. /\ n \in Seq(Messages) /\ Len(n) \in Nat /\ Len(s.out) \in Nat
      /\ Head(s.out) = s.out[1]
      /\ \A i \in 1 .. Len(n) : i + 1 \in 1 .. Len(s.out) /\ n[i] = s.out[i + 1]
      /\ \A i \in 1 .. Len(s.out) :
            i # 1 => i - 1 \in 1 .. Len(n) /\ (i - 1) + 1 = i
    BY <1>1, HitsOfTail
<1>3. \A i \in 1 .. Len(n) : i \in Present(n, q) <=> i + 1 \in Present(s.out, q)
    BY <1>1, PresentOfTail
<1> HIDE DEF n
<1>4. t.out = n /\ t.targets = s.targets
    BY DEF Popped, Server, n
<1> HIDE DEF t
<1>5. /\ \A i \in Present(n, q) : i \in 1 .. Len(n)
      /\ \A i \in Present(s.out, q) : i \in 1 .. Len(s.out)
    BY DEF Present
<1>6. \A i \in Present(n, q) :
          n[i] \in Docs(q) /\ n[i].current => n[i].version >= o
    BY <1>2, <1>3, <1>5, Zenon DEF Wired
<1>7. ASSUME Synced(b) /\ ~Got(b, l, o)
      PROVE  /\ s.targets[q].docs # 0 => \E i \in Present(n, q) : n[i] \in Docs(q)
             /\ DocumentsFirst(n, q)
    <2>1. /\ s.targets[q].docs # 0 =>
                \E i \in Present(s.out, q) : s.out[i] \in Docs(q)
          /\ DocumentsFirst(s.out, q)
        BY <1>7, Zenon DEF Wired
    <2>2. \A i \in Present(s.out, q) : s.out[i] \in Docs(q) =>
              /\ i - 1 \in Present(n, q) /\ n[i - 1] = s.out[i]
              /\ i \in Int /\ i - 1 \in Int /\ (i - 1) + 1 = i
        <3> SUFFICES ASSUME NEW i \in Present(s.out, q), s.out[i] \in Docs(q)
                     PROVE  /\ i - 1 \in Present(n, q) /\ n[i - 1] = s.out[i]
                            /\ i \in Int /\ i - 1 \in Int /\ (i - 1) + 1 = i
            OBVIOUS
        <3>1. i # 1
            BY <1>2, <1>7
        <3>2. i - 1 \in 1 .. Len(n) /\ (i - 1) + 1 = i
            BY <1>2, <1>5, <3>1
        <3>3. i \in 1 .. Len(s.out)
            BY <1>5
        <3>4. i \in Int /\ i - 1 \in Int
            BY <1>2, <3>3
        <3> QED BY <1>2, <1>3, <3>2, <3>4
    <2>3. s.targets[q].docs # 0 => \E i \in Present(n, q) : n[i] \in Docs(q)
        BY <2>1, <2>2, Zenon
    <2>4. ASSUME NEW j \in Present(n, q), n[j].op = "snapshot"
          PROVE  \E i \in Present(n, q) : i < j /\ n[i] \in Docs(q)
        <3>1. j + 1 \in Present(s.out, q) /\ s.out[j + 1].op = "snapshot"
              /\ j \in 1 .. Len(n)
            BY <1>2, <1>3, <1>5, <2>4
        <3>2. PICK i \in Present(s.out, q) : i < j + 1 /\ s.out[i] \in Docs(q)
            BY <2>1, <3>1, Zenon DEF DocumentsFirst
        <3>3. /\ i - 1 \in Present(n, q) /\ n[i - 1] = s.out[i] /\ i \in Int
            BY <2>2, <3>2
        <3>4. i - 1 < j
            BY <1>2, <3>1, <3>2, <3>3
        <3> QED BY <3>2, <3>3, <3>4
    <2> QED BY <2>3, <2>4, Zenon DEF DocumentsFirst
<1> QED BY <1>4, <1>6, <1>7, Zenon DEF Wired, t

\* What a method may do to the target q, of the state c, on taking the head of
\* the messages of s, for the invariant to hold in the state d after it.
Taken(c, s, d, q) ==
    LET a == c.agg[q]
        b == d.agg[q]
        o == c.views[q].followed
    IN /\ d.views[q].followed = o /\ CaughtUp(b, o, s)
       /\ q \in s.denied => ~Synced(b)
       /\ q \notin s.denied =>
             /\ q \in d.targets <=> q \in c.targets
             /\ Counted(b, d.sent, Tail(s.out), q)
             /\ /\ q \in c.targets /\ Hits(c.sent, Asks(q)) = {}
                /\ Synced(b) /\ ~Got(b, d.cache[q], o)
                => /\ Synced(a) /\ ~Got(a, c.cache[q], o)
                   /\ 1 \in Present(s.out, q) => Head(s.out) \notin Docs(q)

LEMMA TakenKeeps ==
    ASSUME NEW c, NEW s \in Server, s.out # << >>, NEW d, NEW q \in Queries,
           TargetInv(c, s, q), d.sent = c.sent, Taken(c, s, d, q)
    PROVE  TargetInv(d, Popped(s), q)
<1> DEFINE t == Popped(s)
<1>1. s.out \in Seq(Messages)
    BY DEF Server
<1>2. t.out = Tail(s.out) /\ t.denied = s.denied /\ t.targets = s.targets
    BY DEF Popped, Server
<1> HIDE DEF t
<1>3. CASE q \in s.denied
    <2>1. Refused(c.agg[q], s, q) /\ ~Synced(d.agg[q])
        BY <1>3 DEF TargetInv, Taken
    <2>2. Hits(t.out, Answers(q) \cup Docs(q)) = {}
        <3> DEFINE H == Answers(q) \cup Docs(q)
        <3>1. Hits(s.out, H) = {}
            BY <2>1 DEF Refused
        <3> HIDE DEF H
        <3>2. \A i \in 1 .. Len(Tail(s.out)) :
                  i \in Hits(Tail(s.out), H) <=> i + 1 \in Hits(s.out, H)
            BY <1>1, HitsOfTail
        <3>3. Hits(Tail(s.out), H) = {}
            BY <3>1, <3>2 DEF Hits
        <3> QED BY <1>2, <3>3 DEF H
    <2>3. Refused(d.agg[q], t, q)
        BY <1>2, <2>1, <2>2, Zenon DEF Refused
    <2> QED BY <1>2, <1>3, <2>3, Zenon DEF TargetInv, t
<1>4. CASE q \notin s.denied
    <2>1. Followed(c.agg[q], c.cache[q], c.views[q].followed, q \in c.targets,
                   c.sent, s, q)
        BY <1>4 DEF TargetInv
    <2>2. /\ d.views[q].followed = c.views[q].followed
          /\ q \in d.targets <=> q \in c.targets
          /\ Counted(d.agg[q], d.sent, t.out, q)
        BY <1>2, <1>4, Zenon DEF Taken
    <2>3. Alternates(d.sent, Asks(q), Watches, t.targets[q].watched,
                     q \in d.targets)
        BY <1>2, <2>1, <2>2 DEF Followed
    <2>4. ASSUME q \in d.targets, Hits(d.sent, Asks(q)) = {}
          PROVE  Wired(d.agg[q], d.cache[q], d.views[q].followed, t, q)
        <3>1. Wired(c.agg[q], c.cache[q], c.views[q].followed, s, q)
            BY <2>1, <2>2, <2>4 DEF Followed
        <3>2. Synced(d.agg[q]) /\ ~Got(d.agg[q], d.cache[q], c.views[q].followed)
                => /\ Synced(c.agg[q])
                   /\ ~Got(c.agg[q], c.cache[q], c.views[q].followed)
                   /\ 1 \in Present(s.out, q) => Head(s.out) \notin Docs(q)
            BY <1>4, <2>2, <2>4, Zenon DEF Taken
        <3>3. Wired(d.agg[q], d.cache[q], c.views[q].followed, t, q)
            BY <3>1, <3>2, PoppedWired, Zenon DEF t
        <3> QED BY <2>2, <3>3
    <2>5. Followed(d.agg[q], d.cache[q], d.views[q].followed, q \in d.targets,
                   d.sent, t, q)
        BY <2>2, <2>3, <2>4, Zenon DEF Followed
    <2> QED BY <1>2, <1>4, <2>5, Zenon DEF TargetInv, t
<1> QED BY <1>3, <1>4 DEF t

\* The client has an open stream and there is a message to take.
Reading(c, s) ==
    /\ c \in Client /\ s \in Server /\ FreshInv(c, s)
    /\ IsOpen(c.stream) /\ s.out # << >>

LEMMA ReadHolds ==
    ASSUME NEW c, NEW s, Reading(c, s), NEW d, Told(d), IsOpen(d.stream),
           d.sent = c.sent, \A q \in Queries : Taken(c, s, d, q)
    PROVE  FreshInv(d, Popped(s))
<1> DEFINE t == Popped(s)
<1>1. ServerInv(s) /\ \A q \in Queries : TargetInv(c, s, q)
    BY Zenon DEF Reading, FreshInv
<1>2. /\ ServerInv(t) /\ t.version = s.version
      /\ \A a, o : CaughtUp(a, o, s) => CaughtUp(a, o, t)
    BY <1>1, PoppedServer DEF Reading
<1>3. \A q \in Queries : TargetInv(d, t, q)
    BY <1>1, TakenKeeps DEF Reading
<1> HIDE DEF t
<1>4. \A q \in Queries : /\ d.views[q].followed <= t.version
                         /\ CaughtUp(d.agg[q], d.views[q].followed, t)
    <2> TAKE q \in Queries
    <2>1. d.views[q].followed = c.views[q].followed
          /\ CaughtUp(d.agg[q], c.views[q].followed, s)
        BY Zenon DEF Taken
    <2>2. c.views[q].followed <= s.version
        BY Zenon DEF Reading, FreshInv
    <2> QED BY <1>2, <2>1, <2>2
<1> QED BY <1>2, <1>3, <1>4, Zenon DEF FreshInv, t

\* A target the message does not touch.
LEMMA SameIsTaken ==
    ASSUME NEW c, NEW s, Reading(c, s), NEW d, NEW q \in Queries,
           d.sent = c.sent, d.agg[q] = c.agg[q], d.cache[q] = c.cache[q],
           d.views[q].followed = c.views[q].followed,
           q \in d.targets <=> q \in c.targets,
           Head(s.out) \notin Answers(q), Head(s.out) \notin Docs(q)
    PROVE  Taken(c, s, d, q)
<1>1. CaughtUp(c.agg[q], c.views[q].followed, s) /\ TargetInv(c, s, q)
    BY Zenon DEF Reading, FreshInv
<1>2. q \in s.denied => ~Synced(c.agg[q])
    BY <1>1, Zenon DEF TargetInv, Refused
<1>3. c.agg[q] \in TargetState(MaxVersion) /\ c.sent \in Seq(Requests)
      /\ s.out \in Seq(Messages) /\ s.out # << >>
    BY DEF Reading, Client, Server
<1>4. q \notin s.denied => Counted(c.agg[q], c.sent, s.out, q)
    BY <1>1, Zenon DEF TargetInv, Followed
<1>5. q \notin s.denied => Counted(c.agg[q], c.sent, Tail(s.out), q)
    BY <1>3, <1>4, PoppedCounted
<1> QED BY <1>1, <1>2, <1>5, Zenon DEF Taken

\* What an answer does to the state of its target.
LEMMA AnswerAt ==
    ASSUME NEW agg \in [Queries -> TargetState(MaxVersion)], NEW q \in Queries,
           agg[q].known,
           NEW new, new = TargetAdded(agg, q) \/ new = TargetRemoved(agg, q)
    PROVE  LET a == agg[q]
               b == new[q]
           IN /\ \/ b.known /\ b.responses = a.responses - 1
                 \/ ~b.known /\ a.responses - 1 = 0
              /\ b.known => b.current = a.current
              /\ b.docs = a.docs \/ b.docs = 0
<1> DEFINE a == agg[q]
           counted == [a EXCEPT !.responses = @ - 1]
<1>1. a \in TargetState(MaxVersion) /\ EnsureTargetState(a) = a
    BY DEF EnsureTargetState
<1>2. /\ counted.known /\ counted.responses = a.responses - 1
      /\ counted.current = a.current /\ counted.docs = a.docs
    BY <1>1 DEF TargetState
<1>3. LET b == ClearPendingChanges(counted)
      IN /\ b.known /\ b.responses = a.responses - 1
         /\ b.current = a.current /\ b.docs = 0
    BY <1>1, <1>2 DEF TargetState, ClearPendingChanges
<1>4. ~NoTargetState.known /\ NoTargetState.docs = 0
    BY DEF NoTargetState
<1> HIDE DEF counted, a
<1>5. CASE new = TargetAdded(agg, q)
    <2>1. new[q] = IF counted.responses # 0
                   THEN counted ELSE ClearPendingChanges(counted)
        BY <1>1, <1>5, Zenon DEF TargetAdded, counted, a
    <2> QED BY <1>2, <1>3, <2>1 DEF a
<1>6. CASE new = TargetRemoved(agg, q)
    <2>1. new[q] = IF counted.responses # 0 THEN counted ELSE NoTargetState
        BY <1>1, <1>6, Zenon DEF TargetRemoved, counted, a
    <2> QED BY <1>2, <1>4, <2>1 DEF a
<1> QED BY <1>5, <1>6

\* An answer to a request.
LEMMA AnswerIsTaken ==
    ASSUME NEW c, NEW s, Reading(c, s), NEW d, d.sent = c.sent,
           d.cache = c.cache, d.targets = c.targets, d.views = c.views,
           NEW p \in Queries, Head(s.out) \in Answers(p),
           \/ d.agg = TargetAdded(c.agg, p)
           \/ d.agg = TargetRemoved(c.agg, p),
           NEW q \in Queries
    PROVE  Taken(c, s, d, q)
<1> DEFINE a == c.agg[q]
           b == d.agg[q]
           o == c.views[q].followed
<1>1. CaughtUp(a, o, s) /\ TargetInv(c, s, q)
    BY Zenon DEF Reading, FreshInv
<1>2. c.agg \in [Queries -> TargetState(MaxVersion)] /\ c.sent \in Seq(Requests)
      /\ s.out \in Seq(Messages) /\ s.out # << >>
    BY DEF Reading, Client, Server
<1>3. CASE q # p
    <2>1. d.agg[q] = c.agg[q]
        BY <1>2, <1>3 DEF TargetAdded, TargetRemoved
    <2>2. Head(s.out) \notin Answers(q) /\ Head(s.out) \notin Docs(q)
        BY <1>3 DEF Answers, Docs
    <2> QED BY <2>1, <2>2, SameIsTaken, Zenon
<1>4. CASE q = p
    <2>1. q \notin s.denied
        <3>1. 1 \in Hits(s.out, Answers(q) \cup Docs(q))
            BY <1>2, <1>4, HitsOfTail
        <3> QED BY <1>1, <3>1 DEF TargetInv, Refused
    <2>2. Counted(a, c.sent, s.out, q)
        BY <1>1, <2>1 DEF TargetInv, Followed
    <2>3. a \in TargetState(MaxVersion)
        BY <1>2
    <2>4. a.known /\ a.responses # 0
        BY <1>2, <1>4, <2>2, <2>3, PoppedCounted
    <2>5. /\ \/ b.known /\ b.responses = a.responses - 1
             \/ ~b.known /\ a.responses - 1 = 0
          /\ Synced(b) => Synced(a) /\ (b.docs = a.docs \/ b.docs = 0)
        BY <1>2, <1>4, <2>4, AnswerAt DEF Synced
    <2>6. Counted(b, d.sent, Tail(s.out), q)
        <3> HIDE DEF a, b
        <3> QED BY <1>2, <1>4, <2>2, <2>3, <2>5, PoppedCounted
    <2>7. CaughtUp(b, o, s)
        BY <1>1, <2>5 DEF CaughtUp
    <2>8. Head(s.out) \notin Docs(q)
        BY <1>4 DEF Answers, Docs
    <2>9. ~Got(a, c.cache[q], o)
        BY <2>4 DEF Got
    <2> QED BY <2>1, <2>5, <2>6, <2>7, <2>8, <2>9, Zenon DEF Taken
<1> QED BY <1>3, <1>4

LEMMA ReadAnswer ==
    ASSUME NEW c, NEW s, Reading(c, s), NEW p \in Queries,
           Head(s.out) \in Answers(p),
           NEW d, \/ d = [c EXCEPT !.agg = TargetAdded(@, p)]
                  \/ d = [c EXCEPT !.agg = TargetRemoved(@, p)]
    PROVE  FreshInv(d, Popped(s))
<1>1. c \in Client
    BY DEF Reading
<1>2. /\ d.sent = c.sent /\ d.cache = c.cache /\ d.targets = c.targets
      /\ d.views = c.views /\ d.stream = c.stream /\ d.posted = c.posted
      /\ \/ d.agg = TargetAdded(c.agg, p)
         \/ d.agg = TargetRemoved(c.agg, p)
    BY <1>1 DEF Client
<1>3. Told(c) /\ IsOpen(c.stream)
    BY Zenon DEF Reading, FreshInv
<1>4. Told(d) /\ IsOpen(d.stream)
    BY <1>2, <1>3, Zenon DEF Told, ViewsFresh, PostedFresh
<1>5. \A q \in Queries : Taken(c, s, d, q)
    BY <1>2, AnswerIsTaken, Zenon
<1> QED BY <1>2, <1>4, <1>5, ReadHolds, Zenon

-----------------------------------------------------------------------------
(* Events tell what the views know.                                        *)

Tells(c, d) == Quiet(c, d) /\ (Told(c) => Told(d))

LEMMA TellsTwice ==
    ASSUME NEW c, NEW d, NEW e, Tells(c, d), Tells(d, e)
    PROVE  Tells(c, e)
BY QuietTwice, Zenon DEF Tells

LEMMA RaiseTells ==
    ASSUME NEW c \in Client, NEW G \in SUBSET c.listeners
    PROVE  Tells(c, Raise(c, G))
<1> DEFINE d == Raise(c, G)
<1>1. G \subseteq Gets /\ \A g \in Gets : QueryOf[g] \in Queries
    BY GetAssumption DEF Client
<1>2. \A q \in Queries : ViewEvent(c, q) \in Events
    BY DEF Client, ViewEvent, Events, Views
<1>3. /\ \A g \in G : d.posted[g] = Append(c.posted[g], ViewEvent(c, QueryOf[g]))
      /\ \A g \in Gets \ G : d.posted[g] = c.posted[g]
    BY <1>1 DEF Client, Raise
<1>4. /\ d.stream = c.stream /\ d.targets = c.targets /\ d.agg = c.agg
      /\ d.views = c.views /\ d.sent = c.sent /\ d.cache = c.cache
    BY DEF Raise, Client
<1> HIDE DEF d
<1>5. Quiet(c, d)
    BY <1>4, Zenon DEF Quiet
<1>6. ASSUME Told(c)
      PROVE  Told(d)
    <2>1. ViewsFresh(d)
        BY <1>4, <1>6, Zenon DEF Told, ViewsFresh
    <2>2. PostedFresh(d)
        <3> SUFFICES ASSUME NEW g \in Gets, NEW i \in 1 .. Len(d.posted[g])
                     PROVE  LET e == d.posted[g][i]
                            IN e.error \/ e.fromCache \/ e.version >= e.followed
            BY Zenon DEF PostedFresh
        <3>1. CASE g \in G
            <4> DEFINE q == QueryOf[g]
                       e == ViewEvent(c, q)
                       s == c.posted[g]
            <4>1. q \in Queries /\ e \in Events /\ s \in Seq(Events)
                BY <1>1, <1>2 DEF Client
            <4>2. e.fromCache \/ e.version >= e.followed
                BY <1>6, <4>1 DEF Told, ViewsFresh, ViewEvent
            <4> HIDE DEF e, s
            <4>3. /\ Len(Append(s, e)) = Len(s) + 1 /\ Append(s, e)[Len(s) + 1] = e
                  /\ \A j \in 1 .. Len(s) : Append(s, e)[j] = s[j]
                  /\ Len(s) \in Nat
                BY <4>1
            <4>4. d.posted[g] = Append(s, e)
                BY <1>3, <3>1 DEF e, s
            <4>5. i = Len(s) + 1 \/ i \in 1 .. Len(s)
                BY <4>3, <4>4
            <4>6. CASE i = Len(s) + 1
                BY <4>2, <4>3, <4>4, <4>6
            <4>7. CASE i \in 1 .. Len(s)
                <5>1. d.posted[g][i] = c.posted[g][i] /\ i \in 1 .. Len(c.posted[g])
                    BY <4>3, <4>4, <4>7 DEF s
                <5> QED BY <1>6, <5>1, Zenon DEF Told, PostedFresh
            <4> QED BY <4>5, <4>6, <4>7
        <3>2. CASE g \notin G
            <4>1. d.posted[g] = c.posted[g]
                BY <1>3, <3>2
            <4> QED BY <1>6, <4>1, Zenon DEF Told, PostedFresh
        <3> QED BY <3>1, <3>2
    <2> QED BY <2>1, <2>2 DEF Told
<1> QED BY <1>5, <1>6 DEF Tells, d

LEMMA SnapshotsTell ==
    ASSUME NEW c \in Client, NEW Q
    PROVE  Tells(c, OnViewSnapshots(c, Q))
<1> DEFINE G == {g \in c.listeners :
                    /\ QueryOf[g] \in Q
                    /\ g \in c.raised \/ ShouldRaiseInitialEvent(c, QueryOf[g])}
<1>1. G \in SUBSET c.listeners /\ OnViewSnapshots(c, Q) = Raise(c, G)
    BY DEF OnViewSnapshots
<1> HIDE DEF G
<1> QED BY <1>1, RaiseTells

LEMMA OnlineEventsTell ==
    ASSUME NEW c \in Client
    PROVE  Tells(c, OnOnlineStateChanged(c))
<1> DEFINE G == {g \in c.listeners \ c.raised :
                    ShouldRaiseInitialEvent(c, QueryOf[g])}
<1>1. G \in SUBSET c.listeners /\ OnOnlineStateChanged(c) = Raise(c, G)
    BY DEF OnOnlineStateChanged
<1> HIDE DEF G
<1> QED BY <1>1, RaiseTells

\* A state that differs in nothing that was told.
LEMMA SameTells ==
    ASSUME NEW c, NEW d, d.agg = c.agg, d.sent = c.sent, d.cache = c.cache,
           d.targets = c.targets, IsOpen(d.stream) <=> IsOpen(c.stream),
           d.views = c.views, d.posted = c.posted
    PROVE  Tells(c, d)
BY Zenon DEF Tells, Quiet, Told, ViewsFresh, PostedFresh

LEMMA BroadcastTells ==
    ASSUME NEW c, CoreInv(c), NEW t \in TrackerType
    PROVE  Tells(c, Broadcast(c, t))
<1>1. c \in Client
    BY DEF CoreInv
<1>2. CASE t.state = c.online.state
    <2> DEFINE d == Broadcast(c, t)
    <2>1. d = [c EXCEPT !.online = t]
        BY <1>2 DEF Broadcast
    <2>2. /\ d.agg = c.agg /\ d.sent = c.sent /\ d.cache = c.cache
          /\ d.targets = c.targets /\ d.stream = c.stream
          /\ d.views = c.views /\ d.posted = c.posted
        BY <1>1, <2>1 DEF Client
    <2> HIDE DEF d
    <2>3. Tells(c, d)
        BY <2>2, SameTells, Zenon
    <2> QED BY <2>3 DEF d
<1>3. CASE t.state # c.online.state
    <2> DEFINE stale == IF t.state = "Offline"
                        THEN {q \in Queries : c.views[q].current} ELSE {}
               w == [q \in Queries |->
                        [c.views[q] EXCEPT !.current = @ /\ q \notin stale]]
               v == [c EXCEPT !.views = w]
               r == OnViewSnapshots(v, stale)
               o == [r EXCEPT !.online = t]
               d == OnOnlineStateChanged(o)
    <2>1. d = Broadcast(c, t)
        BY <1>3 DEF Broadcast, HandleOnlineStateChange
    <2>2. \A q \in Queries :
              /\ w[q] \in Views /\ w[q].open = c.views[q].open
              /\ w[q].followed = c.views[q].followed
              /\ w[q].current => c.views[q].current
        BY <1>1 DEF Client, Views
    <2>3. w \in [Queries -> Views]
        BY <2>2
    <2> HIDE DEF w, stale
    <2>4. /\ v \in Client /\ v.agg = c.agg /\ v.sent = c.sent
          /\ v.cache = c.cache /\ v.targets = c.targets
          /\ v.stream = c.stream /\ v.views = w /\ v.posted = c.posted
          /\ v.ok = c.ok /\ v.listeners = c.listeners
        BY <1>1, <2>3 DEF Client
    <2> HIDE DEF v
    <2>5. Quiet(c, v)
        BY <2>2, <2>4, Zenon DEF Quiet
    <2>6. Told(c) => Told(v)
        BY <2>2, <2>4, Zenon DEF Told, ViewsFresh, PostedFresh
    <2>7. CoreInv(v)
        BY <2>4 DEF CoreInv, StreamInv, ErrorsAreLast
    <2>8. Tells(v, r) /\ CoreInv(r)
        BY <2>4, <2>7, SnapshotsTell, SnapshotsKeep
    <2> HIDE DEF r
    <2>9. /\ o \in Client /\ o.agg = r.agg /\ o.sent = r.sent
          /\ o.cache = r.cache /\ o.targets = r.targets
          /\ o.stream = r.stream /\ o.views = r.views /\ o.posted = r.posted
        BY <2>8 DEF CoreInv, Client
    <2> HIDE DEF o
    <2>10. Tells(r, o)
        BY <2>9, SameTells, Zenon
    <2>11. Tells(o, d)
        BY <2>9, OnlineEventsTell
    <2> HIDE DEF d
    <2>12. Tells(c, d)
        BY <2>5, <2>6, <2>8, <2>10, <2>11, TellsTwice, Zenon DEF Tells
    <2> QED BY <2>1, <2>12
<1> QED BY <1>2, <1>3

-----------------------------------------------------------------------------
(* Starting and closing the stream.                                        *)

\* The connection is gone, and the views hear of it.
Loses(c, d) ==
    /\ d.agg = NewAggregator(Queries) /\ d.sent = << >> /\ ~IsOpen(d.stream)
    /\ d.cache = c.cache /\ d.targets = c.targets
    /\ \A q \in Queries : d.views[q].followed = c.views[q].followed
    /\ Told(c) => Told(d)

LEMMA LosesAndTells ==
    ASSUME NEW c, NEW d, NEW e, Loses(c, d), Tells(d, e)
    PROVE  Loses(c, e)
BY Zenon DEF Loses, Tells, Quiet

LEMMA TellsAndLoses ==
    ASSUME NEW c, NEW d, NEW e, Tells(c, d), Loses(d, e)
    PROVE  Loses(c, e)
BY Zenon DEF Loses, Tells, Quiet

LEMMA LosesTwice ==
    ASSUME NEW c, NEW d, NEW e, Loses(c, d), Loses(d, e)
    PROVE  Loses(c, e)
BY Zenon DEF Loses

LEMMA StartLoses ==
    ASSUME NEW c, CoreInv(c), ShouldStartWatchStream(c), c.sent = << >>,
           TrackerInv(c.online), ~c.online.timer
    PROVE  Loses(c, StartWatchStream(c))
<1> DEFINE s == [HardAssert(c, ShouldStartWatchStream(c)) EXCEPT
                     !.agg = NewAggregator(Queries), !.stream = Start(@)]
           t == HandleWatchStreamStart(s.online)
           d == Broadcast(s, t)
<1>1. d = StartWatchStream(c)
    BY DEF StartWatchStream
<1>2. c \in Client /\ c.stream \in StreamType /\ c.stream.ok
      /\ ~IsStarted(c.stream) /\ ~c.stream.asked /\ ~c.stream.idle
    BY DEF CoreInv, Client, StreamInv, ShouldStartWatchStream, IsStarted
<1>3. /\ Start(c.stream) \in StreamType /\ Start(c.stream).ok
      /\ ~Start(c.stream).idle /\ ~IsOpen(Start(c.stream))
      /\ Start(c.stream).asked => Start(c.stream).state = "Starting"
    <2>1. ~IsOpen(Start(c.stream))
        BY <1>2 DEF Start, BackoffAndTryRestarting, RequestCredentials,
                    StreamType, IsOpen
    <2> QED BY <1>2, <2>1, StreamKeeps
<1>4. NewAggregator(Queries) \in [Queries -> TargetState(MaxVersion)]
    BY GetAssumption DEF NewAggregator, TargetState, NoTargetState
<1>5. /\ s \in Client /\ s.stream = Start(c.stream) /\ s.online = c.online
      /\ s.ok /\ s.posted = c.posted /\ s.agg = NewAggregator(Queries)
      /\ s.sent = c.sent /\ s.cache = c.cache /\ s.targets = c.targets
      /\ s.views = c.views /\ s.listeners = c.listeners
    BY <1>2, <1>3, <1>4 DEF Client, CoreInv, HardAssert
<1> HIDE DEF s
<1>6. CoreInv(s)
    BY <1>3, <1>5 DEF CoreInv, StreamInv, ErrorsAreLast
<1>7. t \in TrackerType
    BY <1>2, <1>5, TrackerKeeps DEF Client
<1> HIDE DEF t
<1>8. Loses(c, s)
    BY <1>3, <1>5, Zenon DEF Loses, Told, ViewsFresh, PostedFresh
<1>9. Loses(c, d)
    BY <1>6, <1>7, <1>8, BroadcastTells, LosesAndTells
<1> QED BY <1>1, <1>9

LEMMA CloseLoses ==
    ASSUME NEW c \in Client, NEW graceful \in BOOLEAN,
           c.ok, c.stream.ok, ErrorsAreLast(c), TrackerInv(c.online),
           IsStarted(c.stream),
           graceful => ~c.network \/ c.targets = {}
    PROVE  Loses(c, CloseWatchStream(c, graceful))
<1> DEFINE k == [c EXCEPT !.stream = Close(@, graceful), !.sent = << >>]
           w == ShouldStartWatchStream(k)
           e == [HardAssert(k, graceful => ~w) EXCEPT !.agg = NewAggregator(Queries)]
           t == IF w THEN HandleWatchStreamFailure(e.online)
                ELSE UpdateState(e.online, "Unknown")
           b == Broadcast(e, t)
           d == CloseWatchStream(c, graceful)
<1>1. c.stream \in StreamType /\ c.online \in TrackerType
    BY DEF Client
<1>2. /\ Close(c.stream, graceful) \in StreamType
      /\ Close(c.stream, graceful).ok /\ ~IsStarted(Close(c.stream, graceful))
      /\ ~Close(c.stream, graceful).asked /\ ~Close(c.stream, graceful).idle
    BY <1>1, StreamKeeps
<1>3. /\ k \in Client /\ k.stream = Close(c.stream, graceful)
      /\ k.online = c.online /\ k.ok /\ k.targets = c.targets
      /\ k.posted = c.posted /\ k.network = c.network /\ k.sent = << >>
      /\ k.cache = c.cache /\ k.views = c.views /\ k.listeners = c.listeners
    <2>1. << >> \in Seq(Requests)
        OBVIOUS
    <2> QED BY <1>2, <2>1 DEF Client
<1>4. graceful => ~w
    BY <1>3 DEF ShouldStartWatchStream
<1> HIDE DEF k, w
<1>5. NewAggregator(Queries) \in [Queries -> TargetState(MaxVersion)]
    BY GetAssumption DEF NewAggregator, TargetState, NoTargetState
<1>6. /\ e \in Client /\ e.stream = k.stream /\ e.online = c.online
      /\ e.ok /\ e.targets = c.targets /\ e.posted = c.posted
      /\ e.network = k.network /\ e.sent = << >> /\ e.cache = c.cache
      /\ e.views = c.views /\ e.agg = NewAggregator(Queries)
      /\ e.listeners = c.listeners
    BY <1>3, <1>4, <1>5 DEF Client, HardAssert
<1>7. w = ShouldStartWatchStream(e)
    BY <1>3, <1>6 DEF w, ShouldStartWatchStream
<1>8. IF w THEN d = StartWatchStream(b) ELSE d = b
    BY <1>7 DEF CloseWatchStream, Closes, OnWatchStreamClose, k, w
<1> HIDE DEF e
<1>9. t \in TrackerType /\ TrackerInv(t) /\ ~t.timer
    BY <1>1, <1>6, TrackerKeeps
<1>10. CoreInv(e)
    BY <1>2, <1>3, <1>6 DEF CoreInv, StreamInv, ErrorsAreLast
<1>11. Loses(c, e)
    <2>1. ~IsOpen(e.stream)
        BY <1>2, <1>3, <1>6 DEF IsOpen, IsStarted
    <2> QED BY <1>6, <2>1, Zenon DEF Loses, Told, ViewsFresh, PostedFresh
<1> HIDE DEF t
<1>12. /\ CoreInv(b) /\ SameLinks(e, b)
       /\ b.online = t /\ b.stream = e.stream /\ b.network = e.network
    BY <1>9, <1>10, OnlineKeeps
<1>13. Loses(c, b)
    BY <1>9, <1>10, <1>11, BroadcastTells, LosesAndTells
<1> HIDE DEF b, d
<1>14. CASE ~w
    BY <1>8, <1>13, <1>14 DEF d
<1>15. CASE w
    <2>1. ShouldStartWatchStream(b)
        BY <1>7, <1>12, <1>15 DEF ShouldStartWatchStream, SameLinks
    <2>2. b.sent = << >>
        BY <1>13 DEF Loses
    <2>3. Loses(b, d)
        BY <1>8, <1>9, <1>12, <1>15, <2>1, <2>2, StartLoses
    <2> QED BY <1>13, <2>3, LosesTwice DEF d
<1> QED BY <1>14, <1>15

-----------------------------------------------------------------------------
(* The invariant and the methods of the client.                            *)

LEMMA TellsKeeps ==
    ASSUME NEW c, NEW s, FreshInv(c, s), NEW d, Tells(c, d)
    PROVE  FreshInv(d, s)
<1>1. Quiet(c, d) /\ Told(d)
    BY Zenon DEF Tells, FreshInv
<1> QED BY <1>1, QuietKeeps

\* After the connection is gone, for the client and for the server.
LEMMA LosesHolds ==
    ASSUME NEW c, NEW s, FreshInv(c, s), NEW d, Loses(c, d)
    PROVE  /\ ~IsOpen(c.stream) => FreshInv(d, s)
           /\ s \in Server => \A D \in SUBSET Queries :
                 /\ FreshInv(d, Disconnected(s))
                 /\ FreshInv(d, [Disconnected(s) EXCEPT !.denied = D])
<1>1. /\ Told(d) /\ ~IsOpen(d.stream) /\ ServerInv(s)
      /\ \A q \in Queries : d.views[q].followed <= s.version
      /\ d.sent = << >> /\ d.agg = NewAggregator(Queries)
    BY Zenon DEF Loses, FreshInv
<1>2. ASSUME NEW t, t.out = << >>, t.version = s.version, t.read = s.read,
             ~t.fresh, \A q \in Queries : ~t.targets[q].watched
      PROVE  FreshInv(d, t)
    <2>1. ServerInv(t)
        BY <1>1, <1>2 DEF ServerInv
    <2>2. Closed(d, t)
        BY <1>1, <1>2, Zenon DEF Closed
    <2> QED BY <1>1, <1>2, <2>1, <2>2, ClosedHolds
<1>3. ~IsOpen(c.stream) => FreshInv(d, s)
    <2>1. ~IsOpen(c.stream) => Closed(d, s)
        BY <1>1, Zenon DEF FreshInv, Closed
    <2> QED BY <1>1, <2>1, ClosedHolds
<1>4. ASSUME s \in Server, NEW D \in SUBSET Queries,
             NEW t, \/ t = Disconnected(s)
                    \/ t = [Disconnected(s) EXCEPT !.denied = D]
      PROVE  FreshInv(d, t)
    <2>1. /\ t.out = << >> /\ t.version = s.version /\ t.read = s.read
          /\ ~t.fresh /\ t.targets = [q \in Queries |-> Unwatched]
        BY <1>4 DEF Disconnected, Server
    <2>2. \A q \in Queries : ~t.targets[q].watched
        BY <2>1 DEF Unwatched
    <2> QED BY <1>2, <2>1, <2>2
<1> QED BY <1>3, <1>4

\* The state of a target with one more request out.
LEMMA RequestAt ==
    ASSUME NEW agg \in [Queries -> TargetState(MaxVersion)], NEW q \in Queries
    PROVE  LET new == RecordPendingTargetRequest(agg, q)
           IN /\ \A p \in Queries : p # q => new[p] = agg[p]
              /\ new[q].known
              /\ new[q].responses =
                     (IF agg[q].known THEN agg[q].responses ELSE 0) + 1
              /\ Synced(new[q]) => Synced(agg[q]) /\ new[q].docs = agg[q].docs
<1> DEFINE ts == EnsureTargetState(agg[q])
           new == RecordPendingTargetRequest(agg, q)
<1>1. /\ ts \in TargetState(MaxVersion) /\ ts.known
      /\ ts.responses = IF agg[q].known THEN agg[q].responses ELSE 0
      /\ Synced(ts) => Synced(agg[q]) /\ ts.docs = agg[q].docs
    BY GetAssumption DEF EnsureTargetState, FreshTargetState, TargetState, Synced
<1>2. new = [agg EXCEPT ![q] = [ts EXCEPT !.responses = @ + 1]]
    BY DEF RecordPendingTargetRequest
<1> HIDE DEF ts, new
<1>3. new[q] = [ts EXCEPT !.responses = @ + 1]
      /\ \A p \in Queries : p # q => new[p] = agg[p]
    BY <1>2
<1>4. /\ new[q].known /\ new[q].responses = ts.responses + 1
      /\ new[q].current = ts.current /\ new[q].docs = ts.docs
    BY <1>1, <1>3 DEF TargetState
<1> QED BY <1>1, <1>3, <1>4 DEF new, Synced

\* A request to another target.
LEMMA AlternatesSkip ==
    ASSUME NEW s \in Seq(Requests), NEW e \in Requests, NEW H, e \notin H,
           NEW W, NEW before \in BOOLEAN, NEW after \in BOOLEAN,
           Alternates(s, H, W, before, after)
    PROVE  Alternates(Append(s, e), H, W, before, after)
BY AlternatesAppend

LEMMA RequestHolds ==
    ASSUME NEW c \in Client, NEW s \in Server, FreshInv(c, s),
           IsOpen(c.stream), NEW q \in Queries, NEW r \in Asks(q),
           r.op = "watch" <=> q \notin c.targets,
           NEW d, d.agg = RecordPendingTargetRequest(c.agg, q),
           d.sent = Append(c.sent, r), d.cache = c.cache, d.views = c.views,
           d.posted = c.posted, IsOpen(d.stream),
           d.targets = IF r.op = "watch" THEN c.targets \cup {q}
                       ELSE c.targets \ {q}
    PROVE  FreshInv(d, s)
<1>1. /\ c.agg \in [Queries -> TargetState(MaxVersion)]
      /\ c.sent \in Seq(Requests) /\ r \in Requests
      /\ s.out \in Seq(Messages)
    BY DEF Client, Server, Asks
<1>2. /\ \A p \in Queries : p # q => d.agg[p] = c.agg[p]
      /\ d.agg[q].known
      /\ d.agg[q].responses =
             (IF c.agg[q].known THEN c.agg[q].responses ELSE 0) + 1
      /\ Synced(d.agg[q]) => Synced(c.agg[q]) /\ d.agg[q].docs = c.agg[q].docs
    BY <1>1, RequestAt
<1>3. \A p \in Queries : CaughtUp(c.agg[p], c.views[p].followed, s)
                         /\ TargetInv(c, s, p)
    BY Zenon DEF FreshInv
<1>4. \A p \in Queries : CaughtUp(d.agg[p], d.views[p].followed, s)
    BY <1>2, <1>3, Zenon DEF CaughtUp
<1>5. ASSUME NEW p \in Queries, p # q
      PROVE  TargetInv(d, s, p)
    <2>1. r \notin Asks(p)
        BY <1>5 DEF Asks
    <2>2. Hits(d.sent, Asks(p)) = Hits(c.sent, Asks(p))
        BY <1>1, <2>1, HitsOfAppend
    <2>3. p \in d.targets <=> p \in c.targets
        BY <1>5
    <2>4. p \notin s.denied =>
              Alternates(d.sent, Asks(p), Watches, s.targets[p].watched,
                         p \in d.targets)
        <3> SUFFICES ASSUME p \notin s.denied
                     PROVE  Alternates(d.sent, Asks(p), Watches,
                                       s.targets[p].watched, p \in d.targets)
            OBVIOUS
        <3> DEFINE w == s.targets[p].watched
                   v == p \in c.targets
        <3>1. w \in BOOLEAN /\ v \in BOOLEAN
            BY DEF Server
        <3>2. Alternates(c.sent, Asks(p), Watches, w, v)
            BY <1>3, Zenon DEF TargetInv, Followed
        <3> HIDE DEF w, v
        <3>3. Alternates(Append(c.sent, r), Asks(p), Watches, w, v)
            BY <1>1, <2>1, <3>1, <3>2, AlternatesSkip
        <3>4. v = (p \in d.targets)
            BY <2>3 DEF v
        <3> QED BY <3>3, <3>4, Zenon DEF w
    <2> QED BY <1>2, <1>3, <1>5, <2>2, <2>3, <2>4, Zenon
            DEF TargetInv, Followed, Counted
<1>6. TargetInv(d, s, q)
    <2>1. CASE q \in s.denied
        BY <1>2, <1>3, <2>1, Zenon DEF TargetInv, Refused
    <2>2. CASE q \notin s.denied
        <3>1. /\ Counted(c.agg[q], c.sent, s.out, q)
              /\ Alternates(c.sent, Asks(q), Watches, s.targets[q].watched,
                            q \in c.targets)
            BY <1>3, <2>2, Zenon DEF TargetInv, Followed
        <3>2. Counted(d.agg[q], d.sent, s.out, q)
            <4>1. PICK x \in Nat : x = Cardinality(Hits(c.sent, Asks(q)))
                BY <1>1, HitsAreFinite
            <4>2. PICK y \in Nat : y = Cardinality(Hits(s.out, Answers(q)))
                BY <1>1, HitsAreFinite
            <4>3. Cardinality(Hits(d.sent, Asks(q)))
                      = x + (IF r \in Asks(q) THEN 1 ELSE 0)
                BY <1>1, <4>1, CountOfAppend
            <4>4. Cardinality(Hits(d.sent, Asks(q))) = x + 1
                BY <4>3
            <4>5. (IF c.agg[q].known THEN c.agg[q].responses ELSE 0) = x + y
                BY <3>1, <4>1, <4>2, Zenon DEF Counted
            <4>6. d.agg[q].responses = (x + 1) + y
                BY <1>2, <4>1, <4>2, <4>5
            <4> QED BY <1>2, <4>2, <4>4, <4>6 DEF Counted
        <3>3. Alternates(d.sent, Asks(q), Watches, s.targets[q].watched,
                         q \in d.targets)
            <4>1. r \in Watches <=> ~(q \in c.targets)
                BY <1>1 DEF Watches
            <4>2. q \in d.targets <=> ~(q \in c.targets)
                OBVIOUS
            <4> DEFINE w == s.targets[q].watched
                       v == q \in c.targets
            <4>3. w \in BOOLEAN /\ v \in BOOLEAN /\ (r \in Watches <=> ~v)
                BY <4>1 DEF Server
            <4>4. Alternates(c.sent, Asks(q), Watches, w, v)
                BY <3>1
            <4> HIDE DEF w, v
            <4>5. Alternates(Append(c.sent, r), Asks(q), Watches, w, ~v)
                BY <1>1, <4>3, <4>4, AlternatesAppend
            <4>6. (~v) = (q \in d.targets)
                BY <4>2 DEF v
            <4> QED BY <4>5, <4>6, Zenon DEF w
        <3>4. Hits(d.sent, Asks(q)) # {}
            <4>1. Hits(d.sent, Asks(q))
                      = Hits(c.sent, Asks(q)) \cup {Len(c.sent) + 1}
                BY <1>1, HitsOfAppend
            <4> QED BY <4>1
        <3> QED BY <2>2, <3>2, <3>3, <3>4, Zenon DEF TargetInv, Followed
    <2> QED BY <2>1, <2>2
<1>7. \A p \in Queries : TargetInv(d, s, p)
    BY <1>5, <1>6
<1>8. Told(d)
    BY Zenon DEF FreshInv, Told, ViewsFresh, PostedFresh
<1> QED BY <1>4, <1>7, <1>8, Zenon DEF FreshInv

\* What a request changes.
LEMMA SentState ==
    ASSUME NEW c, CanSend(c), NEW q \in Queries, NEW r \in Asks(q),
           NEW d, d = IF r.op = "watch" THEN SendWatchRequest(c, q)
                      ELSE SendUnwatchRequest(c, q)
    PROVE  /\ d.agg = RecordPendingTargetRequest(c.agg, q)
           /\ d.sent = Append(c.sent, r) /\ d.cache = c.cache
           /\ d.targets = c.targets /\ d.views = c.views
           /\ d.posted = c.posted /\ IsOpen(d.stream)
<1> DEFINE a == RecordPendingTargetRequest(c.agg, q)
           s == Write(c.stream)
           sent == Append(c.sent, r)
<1>1. r \in Requests /\ r = [op |-> r.op, target |-> q]
      /\ r.op \in {"watch", "unwatch"}
    BY DEF Asks, Requests
<1>2. d = Send([c EXCEPT !.agg = a], r)
    BY <1>1 DEF SendWatchRequest, SendUnwatchRequest
<1>3. c \in Client /\ c.stream \in StreamType /\ IsOpen(c.stream)
    BY DEF CanSend, Client
<1>4. IsOpen(s)
    BY <1>3 DEF Write, IsOpen, StreamType
<1>5. d = [[[c EXCEPT !.agg = a] EXCEPT !.stream = s] EXCEPT !.sent = sent]
    BY <1>2, <1>3 DEF Send, Client
<1> HIDE DEF a, s, sent
<1>6. /\ d.agg = a /\ d.sent = sent /\ d.cache = c.cache
      /\ d.targets = c.targets /\ d.views = c.views
      /\ d.posted = c.posted /\ d.stream = s
    BY <1>3, <1>5 DEF Client
<1> QED BY <1>4, <1>6 DEF a, sent

LEMMA ListenHolds ==
    ASSUME NEW c, ClientInv(c), NEW s \in Server, FreshInv(c, s),
           NEW q \in Queries, q \notin c.targets
    PROVE  FreshInv(Listen(c, q), s)
<1> DEFINE l == [c EXCEPT !.targets = @ \cup {q}]
           d == Listen(c, q)
<1>1. c \in Client /\ c.ok /\ StreamInv(c) /\ ErrorsAreLast(c) /\ OnlineInv(c)
    BY DEF ClientInv, CoreInv
<1>2. /\ l \in Client /\ l.ok /\ l.stream = c.stream /\ l.online = c.online
      /\ l.posted = c.posted /\ l.listeners = c.listeners /\ l.views = c.views
      /\ l.targets = c.targets \cup {q} /\ l.agg = c.agg /\ l.sent = c.sent
      /\ l.cache = c.cache
    BY <1>1 DEF Client
<1>3. d = CASE ShouldStartWatchStream(l) -> StartWatchStream(l)
            [] IsOpen(l.stream) -> SendWatchRequest(l, q)
            [] OTHER -> l
    BY DEF Listen
<1> HIDE DEF l
<1>4. ErrorsAreLast(l) /\ OnlineInv(l)
    BY <1>1, <1>2 DEF ErrorsAreLast, OnlineInv
<1>5. CASE IsOpen(c.stream)
    <2> DEFINE r == [op |-> "watch", target |-> q]
    <2>1. r \in Asks(q) /\ r.op = "watch"
        BY DEF Asks, Requests
    <2> HIDE DEF r
    <2>2. d = SendWatchRequest(l, q)
        BY <1>2, <1>3, <1>5 DEF ShouldStartWatchStream, IsOpen, IsStarted
    <2>3. CanSend(l)
        BY <1>1, <1>2, <1>4, <1>5 DEF CanSend, StreamInv, IsOpen
    <2> HIDE DEF d
    <2>4. /\ d.agg = RecordPendingTargetRequest(l.agg, q)
          /\ d.sent = Append(l.sent, r) /\ d.cache = l.cache
          /\ d.targets = l.targets /\ d.views = l.views
          /\ d.posted = l.posted /\ IsOpen(d.stream)
        BY <2>1, <2>2, <2>3, SentState
    <2>5. FreshInv(d, s)
        <3>1. /\ d.agg = RecordPendingTargetRequest(c.agg, q)
              /\ d.sent = Append(c.sent, r) /\ d.cache = c.cache
              /\ d.views = c.views /\ d.posted = c.posted
            BY <1>2, <2>4, Zenon
        <3>2. r.op = "watch" <=> q \notin c.targets
            BY <2>1, Zenon
        <3>3. d.targets = IF r.op = "watch" THEN c.targets \cup {q}
                          ELSE c.targets \ {q}
            BY <1>2, <2>1, <2>4, Zenon
        <3> QED BY <1>1, <1>5, <2>1, <2>4, <3>1, <3>2, <3>3, RequestHolds, Zenon
    <2> QED BY <2>5 DEF d
<1>6. CASE ~IsOpen(c.stream)
    <2>1. Closed(c, s)
        BY <1>6 DEF FreshInv
    <2>2. FreshInv(l, s)
        <3>1. Closed(l, s)
            BY <1>2, <2>1, Zenon DEF Closed
        <3>2. Told(l) /\ ServerInv(s)
              /\ \A p \in Queries : l.views[p].followed <= s.version
            BY <1>2, Zenon DEF FreshInv, Told, ViewsFresh, PostedFresh
        <3>3. ~IsOpen(l.stream)
            BY <1>2, <1>6
        <3> QED BY <3>1, <3>2, <3>3, ClosedHolds
    <2>3. CASE ShouldStartWatchStream(l)
        <3>1. CoreInv(l)
            BY <1>1, <1>2, <1>4, <1>6 DEF CoreInv, StreamInv, IsOpen
        <3>2. ~l.online.timer /\ TrackerInv(l.online)
            BY <1>4, <2>3 DEF ShouldStartWatchStream, OnlineInv
        <3>3. l.sent = << >>
            BY <1>2, <2>1 DEF Closed
        <3>4. Loses(l, StartWatchStream(l))
            BY <2>3, <3>1, <3>2, <3>3, StartLoses
        <3>5. ~IsOpen(l.stream) /\ d = StartWatchStream(l)
            BY <1>2, <1>3, <1>6, <2>3
        <3> HIDE DEF d
        <3>6. FreshInv(d, s)
            BY <2>2, <3>4, <3>5, LosesHolds
        <3> QED BY <3>6 DEF d
    <2>4. CASE ~ShouldStartWatchStream(l)
        <3>1. d = l
            BY <1>2, <1>3, <1>6, <2>4
        <3> QED BY <2>2, <3>1
    <2> QED BY <2>3, <2>4
<1> QED BY <1>5, <1>6 DEF d

LEMMA StopHolds ==
    ASSUME NEW c, ClientInv(c), NEW s \in Server, FreshInv(c, s),
           NEW q \in Queries, q \in c.targets
    PROVE  FreshInv(StopListening(c, q), s)
<1> DEFINE w == [HardAssert(c, q \in c.targets) EXCEPT !.targets = @ \ {q}]
           t == IF IsOpen(w.stream) THEN SendUnwatchRequest(w, q) ELSE w
           d == StopListening(c, q)
<1>1. c \in Client /\ c.ok /\ StreamInv(c) /\ ErrorsAreLast(c) /\ OnlineInv(c)
    BY DEF ClientInv, CoreInv
<1>2. /\ w \in Client /\ w.ok /\ w.stream = c.stream /\ w.online = c.online
      /\ w.posted = c.posted /\ w.listeners = c.listeners /\ w.views = c.views
      /\ w.targets = c.targets \ {q} /\ w.agg = c.agg /\ w.sent = c.sent
      /\ w.cache = c.cache
    BY <1>1 DEF Client, HardAssert
<1>3. d = CASE t.targets # {} -> t
            [] t.targets = {} /\ IsOpen(t.stream) ->
                   [t EXCEPT !.stream = MarkIdle(@)]
            [] OTHER -> IF t.network
                        THEN Broadcast(t, UpdateState(t.online, "Unknown"))
                        ELSE t
    BY DEF StopListening
<1> HIDE DEF w
<1>4. ClientInv(w)
    BY <1>1, <1>2 DEF ClientInv, CoreInv, StreamInv, ErrorsAreLast, OnlineInv
<1>5. ClientInv(t) /\ FreshInv(t, s)
    <2>1. CASE IsOpen(w.stream)
        <3> DEFINE r == [op |-> "unwatch", target |-> q]
        <3>1. r \in Asks(q) /\ r.op # "watch"
            BY DEF Asks, Requests
        <3> HIDE DEF r
        <3>2. CanSend(w)
            BY <1>4, <2>1 DEF CanSend, ClientInv, CoreInv, StreamInv, IsOpen
        <3>3. t = SendUnwatchRequest(w, q)
            BY <2>1
        <3> HIDE DEF t
        <3>4. /\ t.agg = RecordPendingTargetRequest(w.agg, q)
              /\ t.sent = Append(w.sent, r) /\ t.cache = w.cache
              /\ t.targets = w.targets /\ t.views = w.views
              /\ t.posted = w.posted /\ IsOpen(t.stream)
            BY <3>1, <3>2, <3>3, SentState
        <3>5. /\ t.agg = RecordPendingTargetRequest(c.agg, q)
              /\ t.sent = Append(c.sent, r) /\ t.cache = c.cache
              /\ t.views = c.views /\ t.posted = c.posted
              /\ t.targets = IF r.op = "watch" THEN c.targets \cup {q}
                             ELSE c.targets \ {q}
              /\ r.op = "watch" <=> q \notin c.targets
              /\ IsOpen(c.stream)
            BY <1>2, <2>1, <3>1, <3>4
        <3>6. FreshInv(t, s)
            BY <1>1, <3>1, <3>4, <3>5, RequestHolds, Zenon
        <3>7. ClientInv(t)
            BY <3>2, <3>3, SendKeeps
        <3> QED BY <3>6, <3>7
    <2>2. CASE ~IsOpen(w.stream)
        <3>1. Closed(c, s) /\ ~IsOpen(w.stream)
            BY <1>2, <2>2 DEF FreshInv
        <3>2. Closed(w, s)
            BY <1>2, <3>1, Zenon DEF Closed
        <3>3. Told(w) /\ ServerInv(s)
              /\ \A p \in Queries : w.views[p].followed <= s.version
            BY <1>2, Zenon DEF FreshInv, Told, ViewsFresh, PostedFresh
        <3>4. FreshInv(w, s)
            BY <3>1, <3>2, <3>3, ClosedHolds
        <3> QED BY <1>4, <2>2, <3>4
    <2> QED BY <2>1, <2>2
<1> HIDE DEF t
<1>6. t \in Client /\ CoreInv(t)
    BY <1>5 DEF ClientInv, CoreInv
<1>7. Tells(t, d)
    <2>1. CASE d = t
        BY <2>1, SameTells
    <2>2. CASE t.targets = {} /\ IsOpen(t.stream)
        <3>1. d = [t EXCEPT !.stream = MarkIdle(@)]
            BY <1>3, <2>2
        <3> HIDE DEF d
        <3>2. IsOpen(MarkIdle(t.stream))
            BY <1>6, <2>2 DEF MarkIdle, IsOpen, StreamType, Client
        <3>3. /\ d.agg = t.agg /\ d.sent = t.sent /\ d.cache = t.cache
              /\ d.targets = t.targets /\ d.stream = MarkIdle(t.stream)
              /\ d.views = t.views /\ d.posted = t.posted
            BY <1>6, <3>1 DEF Client
        <3>4. IsOpen(d.stream) <=> IsOpen(t.stream)
            BY <2>2, <3>2, <3>3
        <3> QED BY <3>3, <3>4, SameTells, Zenon
    <2>3. CASE d = Broadcast(t, UpdateState(t.online, "Unknown"))
        <3>1. UpdateState(t.online, "Unknown") \in TrackerType
            BY <1>5, <1>6, TrackerKeeps DEF Client, ClientInv, OnlineInv
        <3> HIDE DEF d
        <3> QED BY <1>6, <2>3, <3>1, BroadcastTells
    <2> QED BY <1>3, <2>1, <2>2, <2>3
<1> HIDE DEF d
<1>8. FreshInv(d, s)
    BY <1>5, <1>7, TellsKeeps
<1> QED BY <1>8 DEF d

\* A stream that opens asks for every target, once.
LEMMA OpenHolds ==
    ASSUME NEW c, CanSend(c), NEW s \in Server, ServerInv(s), Closed(c, s),
           Told(c), \A q \in Queries : c.views[q].followed <= s.version
    PROVE  FreshInv(OnWatchStreamOpen(c), s)
<1> DEFINE order == SetToSeq(c.targets)
           requests == [i \in DOMAIN order |-> [op |-> "watch",
                                                target |-> order[i]]]
           a == [q \in Queries |-> IF q \in c.targets
                                   THEN RecordPendingTargetRequest(c.agg, q)[q]
                                   ELSE c.agg[q]]
           w == IF c.targets = {} THEN c.stream ELSE Write(c.stream)
           sent == c.sent \o requests
           d == OnWatchStreamOpen(c)
<1>1. c \in Client /\ c.targets \in SUBSET Queries
      /\ c.agg \in [Queries -> TargetState(MaxVersion)]
      /\ c.sent = << >> /\ c.stream \in StreamType /\ IsOpen(c.stream)
      /\ s.out = << >>
    BY DEF CanSend, Client, Closed
<1>2. PICK n \in Nat : /\ requests \in Seq(Requests) /\ Len(requests) = n
                       /\ \A i \in 1 .. n : /\ requests[i].op = "watch"
                                            /\ requests[i].target \in c.targets
                       /\ \A q \in c.targets :
                             \E i \in 1 .. n : requests[i].target = q
                       /\ \A i, j \in 1 .. n :
                             requests[i].target = requests[j].target => i = j
    <2> DEFINE n == Cardinality(c.targets)
    <2>1. IsFiniteSet(c.targets)
        BY <1>1, FS_Subset, GetAssumption
    <2>2. n \in Nat
        BY <2>1, FS_CardinalityType
    <2>3. \E f : f \in Bijection(1 .. n, c.targets)
        BY <2>1, FS_NatBijection, FS_CountingElements DEF ExistsBijection
    <2>4. \E f \in [1 .. n -> c.targets] : IsInjective(f)
        BY <2>3 DEF Bijection, Injection, IsInjective
    <2>5. order \in [1 .. n -> c.targets] /\ IsInjective(order)
        BY <2>4 DEF SetToSeq
    <2> HIDE DEF order, n
    <2>6. IsFiniteSet(1 .. n) /\ Cardinality(1 .. n) = Cardinality(c.targets)
        BY <2>2, FS_Interval DEF n
    <2>7. order \in Injection(1 .. n, c.targets)
        BY <2>5 DEF Injection
    <2>8. order \in Surjection(1 .. n, c.targets)
        BY <2>1, <2>6, <2>7, FS_Injection
    <2>9. \A i, j \in 1 .. n : order[i] = order[j] => i = j
        BY <2>5 DEF IsInjective
    <2>10. \A q \in c.targets : \E i \in 1 .. n : order[i] = q
        BY <2>8 DEF Surjection
    <2>11. requests \in [1 .. n -> Requests]
        BY <1>1, <2>5 DEF Requests
    <2>12. \A i \in 1 .. n : requests[i].op = "watch" /\ requests[i].target = order[i]
        BY <2>5
    <2> HIDE DEF requests
    <2>13. requests \in Seq(Requests) /\ Len(requests) = n
        BY <2>2, <2>11
    <2>14. \A i \in 1 .. n : order[i] \in c.targets
        BY <2>5
    <2>15. \A i \in 1 .. n : /\ requests[i].op = "watch"
                             /\ requests[i].target \in c.targets
        BY <2>12, <2>14
    <2>16. \A q \in c.targets : \E i \in 1 .. n : requests[i].target = q
        BY <2>10, <2>12
    <2>17. \A i, j \in 1 .. n :
              requests[i].target = requests[j].target => i = j
        BY <2>9, <2>12
    <2> QED BY <2>2, <2>13, <2>15, <2>16, <2>17, Zenon
<1> HIDE DEF requests
<1>3. sent = requests /\ sent \in Seq(Requests)
    BY <1>1, <1>2
<1>4. \A q \in Queries : ~c.agg[q].known /\ ~s.targets[q].watched
    BY DEF Closed, NewAggregator, NoTargetState
<1>5. \A q \in Queries :
          IF q \in c.targets
          THEN a[q].known /\ a[q].responses = 1 /\ ~Synced(a[q])
          ELSE ~a[q].known /\ ~Synced(a[q])
    <2> TAKE q \in Queries
    <2> DEFINE new == RecordPendingTargetRequest(c.agg, q)
    <2>1. /\ new[q].known
          /\ new[q].responses =
                 (IF c.agg[q].known THEN c.agg[q].responses ELSE 0) + 1
          /\ Synced(new[q]) => Synced(c.agg[q])
        BY <1>1, RequestAt
    <2>2. ~Synced(c.agg[q])
        BY <1>4 DEF Synced
    <2>3. a[q] = IF q \in c.targets THEN new[q] ELSE c.agg[q]
        OBVIOUS
    <2> HIDE DEF new, a
    <2> QED BY <1>4, <2>1, <2>2, <2>3
<1>6. IsOpen(w)
    BY <1>1 DEF Write, IsOpen, StreamType
<1>7. d = [[[c EXCEPT !.agg = a] EXCEPT !.sent = sent] EXCEPT !.stream = w]
    BY <1>1 DEF OnWatchStreamOpen, Client, requests
<1> HIDE DEF a, w, sent, d
<1>8. /\ d.agg = a /\ d.sent = sent /\ d.stream = w /\ d.cache = c.cache
      /\ d.views = c.views /\ d.posted = c.posted /\ d.targets = c.targets
    BY <1>1, <1>7 DEF Client
<1>9. Hits(s.out, {}) = {} /\ \A H : Hits(s.out, H) = {}
    BY <1>1 DEF Hits
<1>10. ASSUME NEW q \in Queries
       PROVE  TargetInv(d, s, q)
    <2>1. CASE q \in s.denied
        BY <1>4, <1>5, <1>8, <1>9, <2>1 DEF TargetInv, Refused
    <2>2. CASE q \notin s.denied /\ q \in c.targets
        <3> DEFINE K == Hits(sent, Asks(q))
        <3>1. PICK i \in 1 .. n : requests[i].target = q
            BY <1>2, <2>2
        <3>2. K = {i}
            <4>1. \A j \in 1 .. n : sent[j] \in Asks(q) <=> j = i
                BY <1>2, <1>3, <3>1 DEF Asks
            <4> QED BY <1>2, <1>3, <3>1, <4>1 DEF Hits
        <3>3. sent[i] \in Watches
            BY <1>2, <1>3, <3>1 DEF Watches
        <3> HIDE DEF K
        <3>4. Cardinality(K) = 1 /\ Cardinality(Hits(s.out, Answers(q))) = 0
            BY <1>9, <3>2, FS_Singleton, FS_EmptySet
        <3>5. Counted(d.agg[q], d.sent, s.out, q)
            BY <1>5, <1>8, <2>2, <3>4 DEF Counted, K
        <3>6. Alternates(d.sent, Asks(q), Watches, s.targets[q].watched,
                         q \in d.targets)
            <4>1. /\ K # {}
                  /\ \A k \in K : k = i
                  /\ ~(i < i)
                BY <1>2, <3>2
            <4> QED BY <1>4, <1>8, <2>2, <3>3, <4>1 DEF Alternates, K
        <3>7. Hits(d.sent, Asks(q)) # {}
            BY <1>8, <3>2 DEF K
        <3> QED BY <2>2, <3>5, <3>6, <3>7, Zenon DEF TargetInv, Followed
    <2>3. CASE q \notin s.denied /\ q \notin c.targets
        <3>1. Hits(d.sent, Asks(q)) = {}
            <4>1. \A j \in 1 .. n : sent[j] \notin Asks(q)
                BY <1>2, <1>3, <2>3 DEF Asks
            <4> QED BY <1>2, <1>3, <1>8, <4>1 DEF Hits
        <3>2. Cardinality(Hits(d.sent, Asks(q))) = 0
              /\ Cardinality(Hits(s.out, Answers(q))) = 0
            BY <1>9, <3>1, FS_EmptySet
        <3>3. Counted(d.agg[q], d.sent, s.out, q)
            BY <1>5, <1>8, <2>3, <3>2 DEF Counted
        <3>4. Alternates(d.sent, Asks(q), Watches, s.targets[q].watched,
                         q \in d.targets)
            BY <1>4, <1>8, <2>3, <3>1 DEF Alternates
        <3> QED BY <1>8, <2>3, <3>3, <3>4, Zenon DEF TargetInv, Followed
    <2> QED BY <2>1, <2>2, <2>3
<1>11. Told(d)
    BY <1>8, Zenon DEF Told, ViewsFresh, PostedFresh
<1>12. \A q \in Queries : CaughtUp(d.agg[q], d.views[q].followed, s)
    BY <1>5, <1>8, Zenon DEF CaughtUp
<1>13. FreshInv(d, s)
    BY <1>6, <1>8, <1>10, <1>11, <1>12, Zenon DEF FreshInv
<1> QED BY <1>13 DEF d

-----------------------------------------------------------------------------
(* Documents.                                                              *)

\* The oldest entry of a queue.
LEMMA HeadIsFirst ==
    ASSUME NEW S, NEW s \in Seq(S), s # << >>
    PROVE  /\ Len(s) \in Nat /\ 1 \in 1 .. Len(s)
           /\ Head(s) = s[1] /\ Head(s) \in S
OBVIOUS

TakesDocuments(agg, T, p, v, isCurrent, new) ==
    /\ \A q \in Queries : q # p => new[q] = agg[q]
    /\ IsActiveTarget(agg, T, p) =>
          /\ new[p].known /\ new[p].responses = 0 /\ new[p].docs = v
          /\ Synced(new[p]) => Synced(agg[p]) \/ isCurrent
          /\ agg[p].known => agg[p].responses = 0
    /\ ~IsActiveTarget(agg, T, p) =>
          \/ new[p] = agg[p]
          \/ /\ ~agg[p].known /\ new[p].known
             /\ new[p].responses = 0 /\ ~Synced(new[p])

LEMMA DocumentsAt ==
    ASSUME NEW agg \in [Queries -> TargetState(MaxVersion)], NEW T,
           NEW p \in Queries, NEW v \in Versions, NEW isCurrent \in BOOLEAN
    PROVE  TakesDocuments(agg, T, p, v, isCurrent,
                          TargetDocuments(agg, T, p, v, isCurrent))
<1> DEFINE ts == EnsureTargetState(agg[p])
           told == [ts EXCEPT !.changed = TRUE, !.current = @ \/ isCurrent,
                              !.docs = v]
           new == TargetDocuments(agg, T, p, v, isCurrent)
<1>1. agg[p] \in TargetState(MaxVersion) /\ ts \in TargetState(MaxVersion)
    BY GetAssumption
    DEF EnsureTargetState, FreshTargetState, TargetState
<1>2. /\ ts.known
      /\ agg[p].known => ts = agg[p]
      /\ ~agg[p].known => ts.responses = 0 /\ ~ts.current
    BY DEF EnsureTargetState, FreshTargetState
<1> HIDE DEF ts
<1>3. /\ told.known = ts.known /\ told.responses = ts.responses
      /\ told.docs = v /\ (told.current => ts.current \/ isCurrent)
    BY <1>1 DEF TargetState
<1>4. new = IF IsActiveTarget(agg, T, p) THEN [agg EXCEPT ![p] = told]
            ELSE [agg EXCEPT ![p] = IF isCurrent THEN ts ELSE agg[p]]
    BY DEF TargetDocuments, ts
<1> HIDE DEF told, new
<1>5. \A q \in Queries : q # p => new[q] = agg[q]
    BY <1>4
<1>6. CASE IsActiveTarget(agg, T, p)
    <2>1. new[p] = told
        BY <1>4, <1>6
    <2>2. agg[p].known => agg[p].responses = 0
        BY <1>6 DEF IsActiveTarget, IsPending
    <2>3. Synced(told) => Synced(agg[p]) \/ isCurrent
        BY <1>2, <1>3 DEF Synced
    <2> QED BY <1>2, <1>3, <1>5, <1>6, <2>1, <2>2, <2>3
            DEF new, TakesDocuments
<1>7. CASE ~IsActiveTarget(agg, T, p)
    <2>1. new[p] = IF isCurrent THEN ts ELSE agg[p]
        BY <1>4, <1>7
    <2>2. \/ new[p] = agg[p]
          \/ /\ ~agg[p].known /\ new[p].known
             /\ new[p].responses = 0 /\ ~Synced(new[p])
        BY <1>2, <2>1 DEF Synced
    <2> QED BY <1>5, <1>7, <2>2 DEF new, TakesDocuments
<1> QED BY <1>6, <1>7

\* No request and no answer on the wire: the target is not pending, and the
\* first message belongs to the present watch.
LEMMA NothingPending ==
    ASSUME NEW c, NEW s, Reading(c, s), NEW q \in Queries, q \notin s.denied
    PROVE  /\ (c.agg[q].known => c.agg[q].responses = 0)
                 => /\ Hits(c.sent, Asks(q)) = {}
                    /\ 1 \in Present(s.out, q)
           /\ 1 \in Present(s.out, q) /\ Hits(c.sent, Asks(q)) = {}
                 => (c.agg[q].known => c.agg[q].responses = 0)
<1>1. c.sent \in Seq(Requests) /\ s.out \in Seq(Messages) /\ s.out # << >>
    BY DEF Reading, Client, Server
<1>2. Counted(c.agg[q], c.sent, s.out, q)
    BY Zenon DEF Reading, FreshInv, TargetInv, Followed
<1>3. PICK x \in Nat : /\ x = Cardinality(Hits(c.sent, Asks(q)))
                       /\ x = 0 <=> Hits(c.sent, Asks(q)) = {}
    BY <1>1, HitsAreFinite
<1>4. PICK y \in Nat : /\ y = Cardinality(Hits(s.out, Answers(q)))
                       /\ y = 0 <=> Hits(s.out, Answers(q)) = {}
    BY <1>1, HitsAreFinite
<1>5. (IF c.agg[q].known THEN c.agg[q].responses ELSE 0) = x + y
    BY <1>2, <1>3, <1>4, Zenon DEF Counted
<1>6. (c.agg[q].known => c.agg[q].responses = 0) <=> x = 0 /\ y = 0
    BY <1>3, <1>4, <1>5
<1>7. 1 \in Present(s.out, q) <=> Hits(s.out, Answers(q)) = {}
    <2>1. Hits(s.out, Answers(q)) = {} => 1 \in Present(s.out, q)
        BY <1>1, PresentOfTail
    <2>2. ASSUME 1 \in Present(s.out, q), NEW k \in Hits(s.out, Answers(q))
          PROVE  FALSE
        <3>1. k < 1 /\ k \in 1 .. Len(s.out)
            BY <2>2 DEF Present, Hits
        <3> QED BY <1>1, <3>1
    <2> QED BY <2>1, <2>2
<1> QED BY <1>3, <1>4, <1>6, <1>7

\* The first of the documents on the wire is the oldest.
LEMMA HeadIsOldest ==
    ASSUME NEW s \in Server, s.out # << >>, ServerInv(s),
           Head(s.out).op = "documents"
    PROVE  LET v == Head(s.out).version
           IN /\ v \in Nat /\ v # 0 /\ v <= s.read
              /\ \A i \in 1 .. Len(s.out) :
                    s.out[i].op = "documents" => v <= s.out[i].version
<1>1. s.out \in Seq(Messages)
    BY DEF Server
<1>2. /\ Len(s.out) \in Nat /\ 1 \in 1 .. Len(s.out)
      /\ Head(s.out) = s.out[1] /\ Head(s.out) \in Messages
    BY <1>1, HeadIsFirst
<1>3. Head(s.out).version \in Nat
    BY <1>2, GetAssumption DEF Messages, Versions
<1>4. 1 <= Head(s.out).version /\ Head(s.out).version <= s.read
    BY <1>2 DEF ServerInv
<1>5. ASSUME NEW i \in 1 .. Len(s.out), s.out[i].op = "documents"
      PROVE  Head(s.out).version <= s.out[i].version
    <2>1. CASE i = 1
        BY <1>2, <1>3, <2>1
    <2>2. CASE i # 1
        <3>1. 1 < i
            BY <1>2, <2>2
        <3> QED BY <1>2, <1>5, <3>1 DEF ServerInv
    <2> QED BY <2>1, <2>2
<1> QED BY <1>3, <1>4, <1>5

LEMMA ReadDocuments ==
    ASSUME NEW c, NEW s, Reading(c, s), NEW p \in Queries,
           Head(s.out) \in Docs(p),
           NEW d, d = [c EXCEPT !.agg = TargetDocuments(
                           @, c.targets, p, Head(s.out).version,
                           Head(s.out).current)]
    PROVE  FreshInv(d, Popped(s))
<1> DEFINE m == Head(s.out)
           new == TargetDocuments(c.agg, c.targets, p, m.version, m.current)
<1>1. /\ c \in Client /\ s \in Server /\ ServerInv(s) /\ s.out # << >>
      /\ c.agg \in [Queries -> TargetState(MaxVersion)]
      /\ c.sent \in Seq(Requests) /\ s.out \in Seq(Messages)
    BY DEF Reading, Client, Server, FreshInv
<1>2. m.version \in Versions /\ m.current \in BOOLEAN /\ m.op = "documents"
      /\ Len(s.out) \in Nat /\ 1 \in 1 .. Len(s.out) /\ m = s.out[1]
    BY <1>1, HeadIsFirst DEF Docs, Messages
<1>3. /\ d.sent = c.sent /\ d.cache = c.cache /\ d.targets = c.targets
      /\ d.views = c.views /\ d.stream = c.stream /\ d.posted = c.posted
      /\ d.agg = new
    BY <1>1 DEF Client
<1>4. Told(d) /\ IsOpen(d.stream)
    BY <1>3, Zenon DEF Reading, FreshInv, Told, ViewsFresh, PostedFresh
<1>5. /\ m.version \in Nat /\ m.version # 0 /\ m.version <= s.read
      /\ \A i \in 1 .. Len(s.out) :
            s.out[i].op = "documents" => m.version <= s.out[i].version
    BY <1>1, <1>2, HeadIsOldest
<1>6. TakesDocuments(c.agg, c.targets, p, m.version, m.current, new)
    BY <1>1, <1>2, DocumentsAt, Zenon
<1> HIDE DEF new
<1>7. ASSUME NEW q \in Queries, q # p
      PROVE  Taken(c, s, d, q)
    <2>1. m \notin Answers(q) /\ m \notin Docs(q)
        BY <1>7 DEF Answers, Docs
    <2>2. d.agg[q] = c.agg[q]
        BY <1>3, <1>6, <1>7, Zenon DEF TakesDocuments
    <2> QED BY <1>3, <1>7, <2>1, <2>2, SameIsTaken, Zenon
<1>8. Taken(c, s, d, p)
    <2> DEFINE a == c.agg[p]
               b == d.agg[p]
               o == c.views[p].followed
    <2>1. TargetInv(c, s, p) /\ CaughtUp(a, o, s)
        BY Zenon DEF Reading, FreshInv
    <2>2. p \notin s.denied
        <3>1. 1 \in Hits(s.out, Answers(p) \cup Docs(p))
            BY <1>2 DEF Hits
        <3> QED BY <2>1, <3>1 DEF TargetInv, Refused
    <2>3. Followed(a, c.cache[p], o, p \in c.targets, c.sent, s, p)
        BY <2>1, <2>2 DEF TargetInv
    <2>4. m \notin Answers(p)
        BY <1>2 DEF Answers
    <2>5. a \in TargetState(MaxVersion) /\ o \in Nat /\ s.read \in Nat
        BY <1>1, GetAssumption DEF Client, Views, Server, Versions
    <2>6. \A x : x.responses = a.responses /\ x.known = a.known =>
              Counted(x, c.sent, Tail(s.out), p)
        BY <1>1, <2>3, <2>4, <2>5, PoppedCounted DEF Followed
    <2>7. Counted(a, c.sent, Tail(s.out), p)
        BY <2>6
    <2>8. ASSUME ~a.known, NEW x, x.known, x.responses = 0
          PROVE  Counted(x, c.sent, Tail(s.out), p)
        BY <2>7, <2>8 DEF Counted
    <2>9. CASE IsActiveTarget(c.agg, c.targets, p)
        <3>1. /\ b.known /\ b.responses = 0 /\ b.docs = m.version
              /\ Synced(b) => Synced(a) \/ m.current
              /\ a.known => a.responses = 0
            BY <1>3, <1>6, <2>9, Zenon DEF TakesDocuments
        <3>2. p \in c.targets
            BY <2>9 DEF IsActiveTarget
        <3>3. 1 \in Present(s.out, p) /\ Hits(c.sent, Asks(p)) = {}
            BY <2>2, <3>1, NothingPending
        <3>4. m.current => m.version >= o
            <4>1. Wired(a, c.cache[p], o, s, p)
                BY <2>3, <3>2, <3>3, Zenon DEF Followed
            <4> QED BY <1>2, <3>3, <4>1 DEF Wired
        <3>5. Synced(a) => m.version >= o
            BY <1>2, <2>1 DEF CaughtUp
        <3>6. CaughtUp(b, o, s)
            <4> SUFFICES ASSUME Synced(b)
                         PROVE  CaughtUp(b, o, s)
                BY DEF CaughtUp
            <4>1. m.version >= o
                BY <3>1, <3>4, <3>5
            <4>2. s.read >= o
                BY <1>5, <2>5, <4>1
            <4>3. ASSUME NEW i \in 1 .. Len(s.out), s.out[i].op = "documents"
                  PROVE  s.out[i].version >= o
                <5>1. m.version <= s.out[i].version
                    BY <1>5, <4>3
                <5>2. s.out[i].version \in Nat
                    <6>1. s.out[i] \in Messages
                        BY <1>1
                    <6> QED BY <6>1, GetAssumption DEF Messages, Versions
                <5>3. \A x, y, z \in Nat : x <= y /\ x >= z => y >= z
                    OBVIOUS
                <5>4. m.version \in Nat /\ o \in Nat
                    BY <1>5, <2>5
                <5> QED BY <4>1, <5>1, <5>2, <5>3, <5>4, Zenon
            <4> QED BY <3>1, <4>1, <4>2, <4>3, Zenon DEF CaughtUp
        <3>7. Counted(b, d.sent, Tail(s.out), p)
            <4>1. CASE a.known
                BY <1>3, <2>6, <3>1, <4>1
            <4>2. CASE ~a.known
                BY <1>3, <2>8, <3>1, <4>2
            <4> QED BY <2>5, <4>1, <4>2
        <3>8. Got(b, d.cache[p], o)
            BY <1>5, <3>1 DEF Got
        <3> QED BY <1>3, <2>2, <3>6, <3>7, <3>8, Zenon DEF Taken
    <2>10. CASE ~IsActiveTarget(c.agg, c.targets, p)
        <3>1. \/ b = a
              \/ /\ ~a.known /\ b.known /\ b.responses = 0 /\ ~Synced(b)
            BY <1>3, <1>6, <2>10, Zenon DEF TakesDocuments
        <3>2. CaughtUp(b, o, s)
            BY <2>1, <3>1, Zenon DEF CaughtUp
        <3>3. Counted(b, d.sent, Tail(s.out), p)
            BY <1>3, <2>7, <2>8, <3>1, Zenon
        <3>4. ASSUME p \in c.targets, Hits(c.sent, Asks(p)) = {},
                     Synced(b), ~Got(b, d.cache[p], o)
              PROVE  /\ Synced(a) /\ ~Got(a, c.cache[p], o)
                     /\ 1 \in Present(s.out, p) => m \notin Docs(p)
            <4>1. b = a
                BY <3>1, <3>4
            <4>2. 1 \notin Present(s.out, p)
                <5>1. a.known /\ a.responses # 0
                    BY <2>10, <3>4 DEF IsActiveTarget, IsPending
                <5> QED BY <2>2, <3>4, <5>1, NothingPending
            <4> QED BY <1>3, <3>4, <4>1, <4>2
        <3> QED BY <1>3, <2>2, <3>2, <3>3, <3>4, Zenon DEF Taken
    <2> QED BY <2>9, <2>10
<1>9. \A q \in Queries : Taken(c, s, d, q)
    BY <1>7, <1>8
<1> QED BY <1>3, <1>4, <1>9, ReadHolds, Zenon

-----------------------------------------------------------------------------
(* A refused target.                                                       *)

LEMMA ClosedView ==
    ASSUME NEW c \in Client, NEW q \in Queries
    PROVE  LET o == CloseView(c, q)
           IN /\ o \in Client /\ o.agg = c.agg /\ o.sent = c.sent
              /\ o.cache = c.cache /\ o.targets = c.targets
              /\ o.stream = c.stream /\ o.posted = c.posted
              /\ o.listeners = c.listeners
              /\ o.views[q].followed = c.views[q].followed /\ ~o.views[q].current
              /\ \A r \in Queries \ {q} : o.views[r] = c.views[r]
<1> DEFINE w == [c.views[q] EXCEPT !.open = FALSE, !.current = FALSE]
           o == CloseView(c, q)
<1>1. c.views[q] \in Views /\ c.views \in [Queries -> Views]
    BY DEF Client
<1>2. w \in Views /\ ~w.current /\ w.followed = c.views[q].followed
    <2> SUFFICES ASSUME NEW z, z = w
                 PROVE  z \in Views /\ ~z.current /\ z.followed = c.views[q].followed
        OBVIOUS
    <2>1. c.views[q].opened \in Versions /\ c.views[q].followed \in Versions
        BY <1>1 DEF Views
    <2>2. z = [open |-> FALSE, current |-> FALSE, opened |-> c.views[q].opened,
               followed |-> c.views[q].followed]
        BY <1>1 DEF Views
    <2> QED BY <2>1, <2>2 DEF Views
<1>3. o = [c EXCEPT !.views[q] = w]
    BY DEF CloseView, Client
<1> HIDE DEF w, o
<1>4. /\ o \in Client /\ o.agg = c.agg /\ o.sent = c.sent
      /\ o.cache = c.cache /\ o.targets = c.targets
      /\ o.stream = c.stream /\ o.posted = c.posted
      /\ o.listeners = c.listeners
    BY <1>2, <1>3 DEF Client
<1>5. o.views[q] = w /\ \A r \in Queries \ {q} : o.views[r] = c.views[r]
    BY <1>1, <1>3 DEF Client
<1> QED BY <1>2, <1>4, <1>5 DEF o

LEMMA CloseViewTells ==
    ASSUME NEW c \in Client, NEW q \in Queries
    PROVE  Tells(c, CloseView(c, q))
<1> DEFINE o == CloseView(c, q)
<1>1. /\ o.agg = c.agg /\ o.sent = c.sent
      /\ o.cache = c.cache /\ o.targets = c.targets
      /\ o.stream = c.stream /\ o.posted = c.posted
      /\ o.views[q].followed = c.views[q].followed /\ ~o.views[q].current
      /\ \A r \in Queries \ {q} : o.views[r] = c.views[r]
    BY ClosedView
<1> HIDE DEF o
<1>2. \A r \in Queries : /\ o.views[r].followed = c.views[r].followed
                         /\ o.views[r].current => c.views[r].current
    BY <1>1
<1>3. Quiet(c, o)
    BY <1>1, <1>2, Zenon DEF Quiet
<1>4. ASSUME Told(c) PROVE Told(o)
    BY <1>1, <1>2, <1>4, Zenon DEF Told, ViewsFresh, PostedFresh
<1> QED BY <1>3, <1>4, Zenon DEF Tells, o

\* One more event that may be shown.
LEMMA PostedOneMore ==
    ASSUME NEW s \in Seq(Events), NEW e \in Events,
           e.error \/ e.fromCache \/ e.version >= e.followed,
           \A i \in 1 .. Len(s) :
              s[i].error \/ s[i].fromCache \/ s[i].version >= s[i].followed
    PROVE  LET n == Append(s, e)
           IN \A i \in 1 .. Len(n) :
                 n[i].error \/ n[i].fromCache \/ n[i].version >= n[i].followed
<1> DEFINE n == Append(s, e)
<1>1. /\ Len(n) = Len(s) + 1 /\ n[Len(s) + 1] = e /\ Len(s) \in Nat
      /\ \A i \in 1 .. Len(s) : n[i] = s[i]
    OBVIOUS
<1> HIDE DEF n
<1>2. ASSUME NEW i \in 1 .. Len(n)
      PROVE  n[i].error \/ n[i].fromCache \/ n[i].version >= n[i].followed
    <2>1. CASE i = Len(s) + 1
        BY <1>1, <2>1
    <2>2. CASE i # Len(s) + 1
        <3>1. i \in 1 .. Len(s)
            BY <1>1, <2>2
        <3> QED BY <1>1, <3>1
    <2> QED BY <2>1, <2>2
<1> QED BY <1>2 DEF n

LEMMA ReadRejected ==
    ASSUME NEW c, NEW s, Reading(c, s), NEW p \in Queries,
           Head(s.out).op = "rejected", Head(s.out).target = p,
           NEW d, d = ProcessTargetError(c, p)
    PROVE  FreshInv(d, Popped(s))
<1> DEFINE m == Head(s.out)
<1>1. /\ c \in Client /\ s \in Server /\ ServerInv(s) /\ s.out # << >>
      /\ s.out \in Seq(Messages) /\ Told(c) /\ IsOpen(c.stream)
    BY DEF Reading, Server, FreshInv
<1>2. /\ 1 \in 1 .. Len(s.out) /\ m = s.out[1]
    BY <1>1, HeadIsFirst
<1>3. p \in s.denied
    BY <1>1, <1>2 DEF ServerInv
<1>4. \A q \in Queries : m \notin Answers(q) /\ m \notin Docs(q)
    BY DEF Answers, Docs
<1>5. CASE p \notin c.targets
    <2>1. d = c
        BY <1>5 DEF ProcessTargetError
    <2>2. \A q \in Queries : Taken(c, s, d, q)
        BY <1>4, <2>1, SameIsTaken, Zenon
    <2> QED BY <1>1, <2>1, <2>2, ReadHolds, Zenon
<1>6. CASE p \in c.targets
    <2> DEFINE o == CloseView(c, p)
               a == RemoveTarget(c.agg, p)
               L == Listeners(c, p)
               posted == [g \in Gets |-> IF g \in L
                                         THEN Append(c.posted[g], ErrorEvent)
                                         ELSE c.posted[g]]
    <2>1. /\ o \in Client /\ o.agg = c.agg /\ o.sent = c.sent
          /\ o.cache = c.cache /\ o.targets = c.targets
          /\ o.stream = c.stream /\ o.posted = c.posted
          /\ o.listeners = c.listeners
          /\ o.views[p].followed = c.views[p].followed /\ ~o.views[p].current
          /\ \A r \in Queries \ {p} : o.views[r] = c.views[r]
        BY <1>1, ClosedView
    <2>2. /\ a[p] = NoTargetState
          /\ \A q \in Queries \ {p} : a[q] = c.agg[q]
        BY <1>1 DEF RemoveTarget, Client
    <2>3. d = [[[[o EXCEPT !.targets = @ \ {p}] EXCEPT !.agg = a]
                   EXCEPT !.listeners = @ \ L] EXCEPT !.posted = posted]
        BY <1>1, <1>6, <2>1 DEF ProcessTargetError, Client
    <2> HIDE DEF o, a, L, posted
    <2>4. /\ d.targets = c.targets \ {p} /\ d.agg = a /\ d.posted = posted
          /\ d.sent = c.sent /\ d.cache = c.cache /\ d.stream = c.stream
          /\ d.views = o.views
        BY <2>1, <2>3 DEF Client
    <2>5. ViewsFresh(d)
        <3>1. ASSUME NEW q \in Queries, d.views[q].current
              PROVE  d.cache[q] >= d.views[q].followed
            <4>1. q # p /\ d.views[q] = c.views[q]
                BY <2>1, <2>4, <3>1
            <4> QED BY <1>1, <2>4, <3>1, <4>1 DEF Told, ViewsFresh
        <3> QED BY <3>1, Zenon DEF ViewsFresh
    <2>6. PostedFresh(d)
        <3> SUFFICES ASSUME NEW g \in Gets
                     PROVE  \A i \in 1 .. Len(d.posted[g]) :
                                LET e == d.posted[g][i]
                                IN e.error \/ e.fromCache \/ e.version >= e.followed
            BY Zenon DEF PostedFresh
        <3>1. \A i \in 1 .. Len(c.posted[g]) :
                  LET e == c.posted[g][i]
                  IN e.error \/ e.fromCache \/ e.version >= e.followed
            BY <1>1, Zenon DEF Told, PostedFresh
        <3>2. ErrorEvent \in Events /\ ErrorEvent.error
            BY GetAssumption DEF ErrorEvent, Events, Versions
        <3>3. c.posted[g] \in Seq(Events)
            BY <1>1 DEF Client
        <3>4. d.posted[g] = Append(c.posted[g], ErrorEvent)
                  \/ d.posted[g] = c.posted[g]
            BY <2>4 DEF posted
        <3> QED BY <3>1, <3>2, <3>3, <3>4, PostedOneMore, Zenon
    <2>7. Told(d)
        BY <2>5, <2>6 DEF Told
    <2>8. ASSUME NEW q \in Queries, q # p
          PROVE  Taken(c, s, d, q)
        <3>1. /\ d.agg[q] = c.agg[q] /\ d.cache[q] = c.cache[q]
              /\ d.views[q].followed = c.views[q].followed
              /\ q \in d.targets <=> q \in c.targets
            BY <2>1, <2>2, <2>4, <2>8
        <3> QED BY <1>4, <2>4, <3>1, SameIsTaken, Zenon
    <2>9. Taken(c, s, d, p)
        <3>1. ~Synced(d.agg[p])
            BY <2>2, <2>4 DEF Synced, NoTargetState
        <3>2. d.views[p].followed = c.views[p].followed
            BY <2>1, <2>4
        <3> QED BY <1>3, <3>1, <3>2, Zenon DEF Taken, CaughtUp
    <2> QED BY <1>1, <2>4, <2>7, <2>8, <2>9, ReadHolds, Zenon
<1> QED BY <1>5, <1>6

-----------------------------------------------------------------------------
(* A snapshot.                                                             *)

\* Documents stay with a target until a snapshot moves them to the cache.
Drained(c, d, q) ==
    LET a == c.agg[q]
        b == d.agg[q]
    IN /\ b.known = a.known /\ b.responses = a.responses
       /\ b.current = a.current
       /\ \/ b.docs = a.docs /\ d.cache[q] = c.cache[q]
          \/ /\ b.docs = 0
             /\ d.cache[q] = IF a.docs # 0 THEN a.docs ELSE c.cache[q]

LEMMA DrainedIsTaken ==
    ASSUME NEW c, NEW s, Reading(c, s), NEW d, NEW q \in Queries,
           Head(s.out).op = "snapshot",
           d.sent = c.sent, d.targets = c.targets,
           d.views[q].followed = c.views[q].followed, Drained(c, d, q)
    PROVE  Taken(c, s, d, q)
<1> DEFINE a == c.agg[q]
           b == d.agg[q]
           o == c.views[q].followed
<1>1. CaughtUp(a, o, s) /\ TargetInv(c, s, q)
    BY Zenon DEF Reading, FreshInv
<1>2. /\ a \in TargetState(MaxVersion) /\ c.sent \in Seq(Requests)
      /\ s.out \in Seq(Messages) /\ s.out # << >>
    BY DEF Reading, Client, Server
<1>3. Head(s.out) \notin Answers(q) /\ Head(s.out) \notin Docs(q)
    BY DEF Answers, Docs
<1>4. Synced(b) <=> Synced(a)
    BY Zenon DEF Drained, Synced
<1>5. q \in s.denied => ~Synced(b)
    BY <1>1, <1>4, Zenon DEF TargetInv, Refused
<1>6. q \notin s.denied => Counted(a, c.sent, s.out, q)
    BY <1>1, Zenon DEF TargetInv, Followed
<1>7. q \notin s.denied => Counted(b, c.sent, Tail(s.out), q)
    BY <1>2, <1>3, <1>6, PoppedCounted DEF Drained
<1>8. CaughtUp(b, o, s)
    <2>1. b.docs # 0 => b.docs = a.docs
        BY Zenon DEF Drained
    <2> QED BY <1>1, <1>4, <2>1, Zenon DEF CaughtUp
<1>9. ASSUME Synced(b), ~Got(b, d.cache[q], o)
      PROVE  ~Got(a, c.cache[q], o)
    <2>1. a.docs # 0 => a.docs >= o
        BY <1>1, <1>4, <1>9, Zenon DEF CaughtUp
    <2> QED BY <1>9, <2>1, Zenon DEF Drained, Got
<1> QED BY <1>3, <1>4, <1>5, <1>7, <1>8, <1>9, Zenon DEF Taken

\* The resume tokens of a snapshot.
LEMMA TokensHold ==
    ASSUME NEW c, NEW s, Reading(c, s), Head(s.out).op = "snapshot",
           NEW k, k = [c EXCEPT !.agg = TargetTokens(@, c.targets)]
    PROVE  FreshInv(k, Popped(s))
<1>1. c \in Client /\ Told(c) /\ IsOpen(c.stream)
    BY DEF Reading, FreshInv
<1>2. /\ k.sent = c.sent /\ k.cache = c.cache /\ k.targets = c.targets
      /\ k.views = c.views /\ k.stream = c.stream /\ k.posted = c.posted
      /\ k.agg = TargetTokens(c.agg, c.targets)
    BY <1>1 DEF Client
<1>3. Told(k)
    BY <1>1, <1>2, Zenon DEF Told, ViewsFresh, PostedFresh
<1>4. ASSUME NEW q \in Queries PROVE Taken(c, s, k, q)
    <2>1. c.agg \in [Queries -> TargetState(MaxVersion)]
        BY <1>1 DEF Client
    <2>2. /\ k.agg[q].known = c.agg[q].known
          /\ k.agg[q].responses = c.agg[q].responses
          /\ k.agg[q].current = c.agg[q].current
          /\ k.agg[q].docs = c.agg[q].docs
        BY <1>2, <2>1 DEF TargetTokens, TargetState
    <2>3. Drained(c, k, q)
        BY <1>2, <2>2, Zenon DEF Drained
    <2> QED BY <1>2, <2>3, DrainedIsTaken, Zenon
<1> QED BY <1>1, <1>2, <1>3, <1>4, ReadHolds, Zenon

\* A target that is synced and has nothing to wait for, at a snapshot, has got
\* the data that its view is to follow.
LEMMA SnapshotIsFresh ==
    ASSUME NEW c, NEW s, Reading(c, s), Head(s.out).op = "snapshot",
           NEW q \in Queries, q \in c.targets, c.agg[q].known,
           c.agg[q].responses = 0, c.agg[q].current
    PROVE  IF c.agg[q].docs # 0 THEN c.agg[q].docs >= c.views[q].followed
           ELSE c.cache[q] >= c.views[q].followed
<1> DEFINE a == c.agg[q]
           k == c.cache[q]
           o == c.views[q].followed
<1>1. Synced(a)
    BY DEF Synced
<1>2. CaughtUp(a, o, s) /\ TargetInv(c, s, q)
    BY Zenon DEF Reading, FreshInv
<1>3. a.docs # 0 => a.docs >= o
    BY <1>1, <1>2, Zenon DEF CaughtUp
<1>4. q \notin s.denied
    BY <1>1, <1>2, Zenon DEF TargetInv, Refused
<1>5. Followed(a, k, o, TRUE, c.sent, s, q)
    <2>1. Followed(a, k, o, q \in c.targets, c.sent, s, q)
        BY <1>2, <1>4, Zenon DEF TargetInv
    <2>2. (q \in c.targets) = TRUE
        OBVIOUS
    <2> QED BY <2>1, <2>2
<1>6. 1 \in Present(s.out, q) /\ Hits(c.sent, Asks(q)) = {}
    BY <1>4, NothingPending
<1>7. Wired(a, k, o, s, q)
    BY <1>5, <1>6, Zenon DEF Followed
<1>8. s.out \in Seq(Messages) /\ s.out # << >>
    BY DEF Reading, Server
<1>9. ASSUME ~Got(a, k, o) PROVE FALSE
    <2>1. DocumentsFirst(s.out, q)
        BY <1>1, <1>7, <1>9, Zenon DEF Wired
    <2>2. s.out[1].op = "snapshot"
        BY <1>8, HeadIsFirst
    <2>3. PICK i \in Present(s.out, q) : i < 1
        BY <1>6, <2>1, <2>2, Zenon DEF DocumentsFirst
    <2>4. i \in 1 .. Len(s.out) /\ Len(s.out) \in Nat
        BY <1>8, <2>3 DEF Present
    <2> QED BY <2>3, <2>4
<1> QED BY <1>3, <1>9, Zenon DEF Got

LEMMA SnapshotHolds ==
    ASSUME NEW b, NEW s, Reading(b, s), Linked(b), Head(s.out).op = "snapshot",
           NEW c, c = [b EXCEPT !.agg = TargetTokens(@, b.targets)],
           NEW v \in Versions
    PROVE  FreshInv(RaiseWatchSnapshot(c, v), Popped(s))
<1> DEFINE changed == TargetChanges(c.agg, c.targets)
           arrived == {q \in changed : c.agg[q].docs # 0}
           cached == [q \in Queries |->
                         IF q \in arrived THEN c.agg[q].docs ELSE c.cache[q]]
           seen == {q \in changed : c.views[q].open
                       /\ \/ cached[q] # c.cache[q]
                          \/ c.agg[q].current # c.views[q].current}
           views == [q \in Queries |->
                        IF q \in changed /\ c.views[q].open
                        THEN [c.views[q] EXCEPT !.current = c.agg[q].current]
                        ELSE c.views[q]]
           agg == AfterRemoteEvent(c.agg, c.targets)
           e == [c EXCEPT !.agg = agg, !.cache = cached, !.last = v,
                          !.views = views]
<1>1. RaiseWatchSnapshot(c, v) = OnViewSnapshots(e, seen)
    BY DEF RaiseWatchSnapshot
<1>2. /\ b \in Client /\ Told(b) /\ IsOpen(b.stream)
      /\ b.agg \in [Queries -> TargetState(MaxVersion)]
      /\ b.views \in [Queries -> Views] /\ b.cache \in [Queries -> Versions]
    BY DEF Reading, FreshInv, Client
<1>3. TargetTokens(b.agg, b.targets) \in [Queries -> TargetState(MaxVersion)]
    BY <1>2, AggregatorKeeps, GetAssumption
<1>4. /\ c \in Client /\ c.sent = b.sent /\ c.cache = b.cache
      /\ c.targets = b.targets /\ c.views = b.views /\ c.stream = b.stream
      /\ c.posted = b.posted /\ c.agg = TargetTokens(b.agg, b.targets)
    BY <1>2, <1>3 DEF Client
<1>5. \A q \in Queries : /\ c.agg[q].known = b.agg[q].known
                         /\ c.agg[q].responses = b.agg[q].responses
                         /\ c.agg[q].current = b.agg[q].current
                         /\ c.agg[q].docs = b.agg[q].docs
    BY <1>2, <1>4 DEF TargetTokens, TargetState
<1>6. /\ c.agg \in [Queries -> TargetState(MaxVersion)]
      /\ \A q \in Queries : /\ c.agg[q].current \in BOOLEAN
                            /\ c.agg[q].docs \in Versions
                            /\ c.views[q] \in Views
    BY <1>2, <1>3, <1>4 DEF TargetState, Versions
<1>7. \A q \in changed : /\ q \in Queries /\ q \in c.targets /\ c.agg[q].known
                         /\ c.agg[q].responses = 0
    BY <1>6 DEF TargetChanges, IsActiveTarget, IsPending
<1>8. cached \in [Queries -> Versions]
    BY <1>2, <1>4, <1>6
<1>9. \A q \in Queries :
          /\ views[q] \in Views /\ views[q].followed = c.views[q].followed
          /\ IF q \in changed /\ c.views[q].open
             THEN views[q].current = c.agg[q].current
             ELSE views[q] = c.views[q]
    <2>1. \A w \in Views, current \in BOOLEAN :
             /\ [w EXCEPT !.current = current] \in Views
             /\ [w EXCEPT !.current = current].followed = w.followed
             /\ [w EXCEPT !.current = current].current = current
        BY DEF Views
    <2> QED BY <1>6, <2>1
<1>10. views \in [Queries -> Views]
    BY <1>9
<1>11. agg \in [Queries -> TargetState(MaxVersion)]
    BY <1>6, AggregatorKeeps, GetAssumption
<1>12. \A q \in Queries :
          /\ q \notin changed => agg[q] = c.agg[q]
          /\ q \in changed => /\ agg[q].known = c.agg[q].known
                              /\ agg[q].responses = c.agg[q].responses
                              /\ agg[q].current = c.agg[q].current
                              /\ agg[q].docs = 0
    <2>1. \A t \in TargetState(MaxVersion) :
             /\ ClearPendingChanges(t).known = t.known
             /\ ClearPendingChanges(t).responses = t.responses
             /\ ClearPendingChanges(t).current = t.current
             /\ ClearPendingChanges(t).docs = 0
        BY DEF TargetState, ClearPendingChanges
    <2> QED BY <1>6, <2>1 DEF AfterRemoteEvent
<1>13. \A q \in Queries :
          cached[q] = IF q \in changed /\ c.agg[q].docs # 0
                      THEN c.agg[q].docs ELSE c.cache[q]
    OBVIOUS
<1> HIDE DEF changed, arrived, cached, seen, views, agg
<1>14. e = [[[[c EXCEPT !.agg = agg] EXCEPT !.cache = cached] EXCEPT !.last = v]
               EXCEPT !.views = views]
    BY <1>4 DEF Client
<1> HIDE DEF e
<1>15. /\ e \in Client /\ e.posted = c.posted /\ e.targets = c.targets
       /\ e.stream = c.stream /\ e.views = views /\ e.agg = agg
       /\ e.cache = cached /\ e.sent = c.sent
    BY <1>4, <1>8, <1>10, <1>11, <1>14 DEF Client
<1>16. ASSUME NEW q \in Queries PROVE Drained(b, e, q)
    BY <1>4, <1>5, <1>12, <1>13, <1>15, <1>16 DEF Drained
<1>17. ASSUME NEW q \in Queries, e.views[q].current
       PROVE  e.cache[q] >= e.views[q].followed
    <2>1. CASE q \in changed /\ c.views[q].open
        <3>1. /\ q \in b.targets /\ b.agg[q].known /\ b.agg[q].responses = 0
              /\ b.agg[q].current
            BY <1>4, <1>5, <1>7, <1>9, <1>15, <1>17, <2>1
        <3>2. IF b.agg[q].docs # 0 THEN b.agg[q].docs >= b.views[q].followed
              ELSE b.cache[q] >= b.views[q].followed
            BY <3>1, SnapshotIsFresh
        <3>3. e.cache[q] = IF b.agg[q].docs # 0 THEN b.agg[q].docs
                           ELSE b.cache[q]
            BY <1>4, <1>5, <1>13, <1>15, <2>1
        <3>4. e.views[q].followed = b.views[q].followed
            BY <1>4, <1>9, <1>15
        <3> QED BY <3>2, <3>3, <3>4
    <2>2. CASE ~(q \in changed /\ c.views[q].open)
        <3>1. q \notin changed
            BY <1>4, <1>7, <2>2 DEF Linked
        <3>2. e.cache[q] = b.cache[q] /\ e.views[q] = b.views[q]
            BY <1>4, <1>9, <1>13, <1>15, <3>1
        <3> QED BY <1>2, <1>17, <3>2, Zenon DEF Told, ViewsFresh
    <2> QED BY <2>1, <2>2
<1>18. Told(e)
    <2>1. ViewsFresh(e)
        BY <1>17, Zenon DEF ViewsFresh
    <2>2. PostedFresh(e)
        BY <1>2, <1>4, <1>15, Zenon DEF Told, PostedFresh
    <2> QED BY <2>1, <2>2 DEF Told
<1>19. ASSUME NEW q \in Queries PROVE Taken(b, s, e, q)
    <2>1. e.views[q].followed = b.views[q].followed
        BY <1>4, <1>9, <1>15
    <2>2. e.sent = b.sent /\ e.targets = b.targets
        BY <1>4, <1>15
    <2> QED BY <1>16, <2>1, <2>2, DrainedIsTaken, Zenon
<1>20. FreshInv(e, Popped(s))
    <2>1. IsOpen(e.stream) /\ e.sent = b.sent
        BY <1>2, <1>4, <1>15
    <2> QED BY <1>18, <1>19, <2>1, ReadHolds, Zenon
<1>21. Tells(e, OnViewSnapshots(e, seen))
    BY <1>15, SnapshotsTell
<1> QED BY <1>1, <1>20, <1>21, TellsKeeps, Zenon

-----------------------------------------------------------------------------
(* The entries of the client.                                              *)

LEMMA ChangeHolds ==
    ASSUME NEW c, ClientInv(c), Linked(c), NEW s \in Server, FreshInv(c, s),
           s.out # << >>
    PROVE  FreshInv(OnWatchStreamChange(c, Head(s.out)), Popped(s))
<1> DEFINE m == Head(s.out)
           t == UpdateState(c.online, "Online")
           b == Broadcast(c, t)
           d == OnWatchStreamChange(c, m)
<1>1. m \in Messages
    BY HeadIsFirst DEF Server
<1>2. /\ m.op \in {"added", "removed", "rejected", "documents", "snapshot"}
      /\ m.target \in Queries /\ m.version \in Versions
    BY <1>1 DEF Messages
<1>3. /\ m.op = "rejected" => d = ProcessTargetError(b, m.target)
      /\ m.op = "added" =>
             d = [b EXCEPT !.agg = TargetAdded(@, m.target)]
      /\ m.op = "removed" =>
             d = [b EXCEPT !.agg = TargetRemoved(@, m.target)]
      /\ m.op = "documents" =>
             d = [b EXCEPT !.agg = TargetDocuments(
                     @, b.targets, m.target, m.version, m.current)]
      /\ m.op = "snapshot" =>
             \E k : /\ k = [b EXCEPT !.agg = TargetTokens(@, b.targets)]
                    /\ d = RaiseWatchSnapshot(k, m.version) \/ d = k
    BY <1>2 DEF OnWatchStreamChange
<1>4. c.online \in TrackerType /\ TrackerInv(c.online) /\ CoreInv(c)
    BY DEF ClientInv, CoreInv, Client, OnlineInv
<1>5. t \in TrackerType
    BY <1>4, TrackerKeeps
<1>6. IsOpen(c.stream)
    BY Zenon DEF FreshInv, Closed
<1> HIDE DEF t
<1>7. CoreInv(b) /\ SameLinks(c, b) /\ b.stream = c.stream
    BY <1>4, <1>5, OnlineKeeps
<1>8. Tells(c, b)
    BY <1>4, <1>5, BroadcastTells
<1> HIDE DEF b, d
<1>9. FreshInv(b, s)
    BY <1>8, TellsKeeps
<1>10. Reading(b, s)
    <2>1. b \in Client
        BY <1>7 DEF CoreInv
    <2> QED BY <1>6, <1>7, <1>9, <2>1, Zenon DEF Reading
<1>11. Linked(b)
    BY <1>7, LinkedStays
<1> DEFINE p == m.target
<1>12. CASE m.op = "rejected"
    <2>1. d = ProcessTargetError(b, p)
        BY <1>3, <1>12
    <2>2. FreshInv(d, Popped(s))
        BY <1>2, <1>10, <1>12, <2>1, ReadRejected, Zenon
    <2> QED BY <2>2 DEF d
<1>13. CASE m.op \in {"added", "removed"}
    <2>1. m \in Answers(p)
        BY <1>1, <1>13 DEF Answers
    <2>2. \/ d = [b EXCEPT !.agg = TargetAdded(@, p)]
          \/ d = [b EXCEPT !.agg = TargetRemoved(@, p)]
        BY <1>3, <1>13
    <2>3. FreshInv(d, Popped(s))
        BY <1>2, <1>10, <2>1, <2>2, ReadAnswer, Zenon
    <2> QED BY <2>3 DEF d
<1>14. CASE m.op = "documents"
    <2>1. m \in Docs(p)
        BY <1>1, <1>14 DEF Docs
    <2>2. d = [b EXCEPT !.agg = TargetDocuments(
                   @, b.targets, p, m.version, m.current)]
        BY <1>3, <1>14
    <2>3. FreshInv(d, Popped(s))
        BY <1>2, <1>10, <2>1, <2>2, ReadDocuments, Zenon
    <2> QED BY <2>3 DEF d
<1>15. CASE m.op = "snapshot"
    <2>1. PICK k : /\ k = [b EXCEPT !.agg = TargetTokens(@, b.targets)]
                   /\ d = RaiseWatchSnapshot(k, m.version) \/ d = k
        BY <1>3, <1>15
    <2>2. FreshInv(k, Popped(s))
        BY <1>10, <1>15, <2>1, TokensHold, Zenon
    <2>3. FreshInv(RaiseWatchSnapshot(k, m.version), Popped(s))
        BY <1>2, <1>10, <1>11, <1>15, <2>1, SnapshotHolds, Zenon
    <2>4. FreshInv(d, Popped(s))
        BY <2>1, <2>2, <2>3, Zenon
    <2> QED BY <2>4 DEF d
<1> QED BY <1>2, <1>12, <1>13, <1>14, <1>15

\* A view is opened: it is told nothing as yet, and what it is to follow is the
\* data of now, unless the target is current from an earlier view.
LEMMA OpenViewHolds ==
    ASSUME NEW c \in Client, NEW s \in Server, FreshInv(c, s),
           NEW q \in Queries, q \notin c.targets,
           NEW d, d.agg = c.agg, d.sent = c.sent, d.cache = c.cache,
           d.targets = c.targets, d.stream = c.stream, d.posted = c.posted,
           ~d.views[q].current,
           c.agg[q].current => d.views[q].followed = c.views[q].followed,
           ~c.agg[q].current => d.views[q].followed = s.version,
           \A p \in Queries \ {q} : d.views[p] = c.views[p]
    PROVE  FreshInv(d, s)
<1>1. ServerInv(s) /\ Told(c)
    BY Zenon DEF FreshInv
<1>2. Told(d)
    <2>1. ASSUME NEW p \in Queries, d.views[p].current
          PROVE  d.cache[p] >= d.views[p].followed
        <3>1. d.views[p] = c.views[p]
            BY <2>1
        <3> QED BY <1>1, <2>1, <3>1, Zenon DEF Told, ViewsFresh
    <2> QED BY <1>1, <2>1, Zenon DEF Told, ViewsFresh, PostedFresh
<1>3. ASSUME NEW p \in Queries
      PROVE  /\ d.views[p].followed <= s.version
             /\ CaughtUp(d.agg[p], d.views[p].followed, s)
    <2>1. CASE d.views[p].followed = c.views[p].followed
        BY <2>1, Zenon DEF FreshInv
    <2>2. CASE d.views[p].followed # c.views[p].followed
        <3>1. p = q /\ ~c.agg[q].current /\ d.views[p].followed = s.version
            BY <2>2
        <3>2. s.version <= s.version
            BY DEF Server, Versions
        <3> QED BY <3>1, <3>2, Zenon DEF CaughtUp, Synced
    <2> QED BY <2>1, <2>2
<1>4. ASSUME IsOpen(c.stream), NEW p \in Queries
      PROVE  TargetInv(d, s, p)
    <2>1. TargetInv(c, s, p)
        BY <1>4, Zenon DEF FreshInv
    <2>2. CASE p # q
        <3>1. d.views[p] = c.views[p]
            BY <2>2
        <3> QED BY <2>1, <3>1, Zenon DEF TargetInv
    <2>3. CASE p = q
        BY <2>1, <2>3, Zenon DEF TargetInv, Followed
    <2> QED BY <2>2, <2>3
<1>5. ASSUME ~IsOpen(c.stream) PROVE Closed(d, s)
    BY <1>5, Zenon DEF FreshInv, Closed
<1> QED BY <1>1, <1>2, <1>3, <1>4, <1>5, Zenon DEF FreshInv

LEMMA AddHolds ==
    ASSUME NEW c, ClientInv(c), Linked(c), NEW s \in Server, FreshInv(c, s),
           NEW g \in Gets \ c.listeners, c.posted[g] = << >>
    PROVE  FreshInv(AddQueryListener(c, g, s.version), s)
<1> DEFINE q == QueryOf[g]
           v == s.version
           added == [c EXCEPT !.listeners = @ \cup {g}]
           d == AddQueryListener(c, g, v)
<1>1. q \in Queries /\ c \in Client /\ c.ok /\ ClientInv(c)
    BY GetAssumption DEF ClientInv, CoreInv
<1>2. /\ added \in Client /\ added.listeners = c.listeners \cup {g}
      /\ added.posted = c.posted /\ added.targets = c.targets
      /\ added.views = c.views /\ added.stream = c.stream
      /\ added.online = c.online /\ added.ok /\ added.agg = c.agg
      /\ added.sent = c.sent /\ added.cache = c.cache
    BY <1>1 DEF Client
<1> HIDE DEF added, q
<1>3. ErrorsAreLast(added)
    <2>1. Len(c.posted[g]) = 0
        OBVIOUS
    <2> QED BY <1>1, <1>2, <2>1 DEF ErrorsAreLast, ClientInv, CoreInv
<1>4. Tells(c, added)
    BY <1>2, SameTells, Zenon
<1>5. CASE Listeners(c, q) # {}
    <2>1. d = IF ShouldRaiseInitialEvent(added, q)
              THEN Raise(added, {g}) ELSE added
        BY <1>5 DEF AddQueryListener, added, q
    <2>2. Tells(added, Raise(added, {g}))
        <3>1. {g} \in SUBSET added.listeners
            BY <1>2
        <3> QED BY <1>2, <3>1, RaiseTells
    <2> HIDE DEF d
    <2>3. Tells(c, d)
        BY <1>4, <2>1, <2>2, TellsTwice, Zenon
    <2> QED BY <2>3, TellsKeeps DEF d
<1>6. CASE Listeners(c, q) = {}
    <2> DEFINE w == OpenView(c, q, v)
               o == [HardAssert(added, ~c.views[q].open) EXCEPT !.views[q] = w]
               r == OnViewSnapshots(o, {q})
    <2>1. d = Listen(r, q)
        BY <1>6 DEF AddQueryListener, added, q
    <2>2. v \in Versions
        BY DEF Server
    <2>3. /\ w \in Views /\ ~w.current
          /\ w.followed = IF c.agg[q].current THEN c.views[q].followed ELSE v
        BY <1>1, <2>2 DEF OpenView, Views, Client
    <2>4. ~c.views[q].open /\ q \notin c.targets
        BY <1>1, <1>6 DEF Linked
    <2> HIDE DEF w
    <2>5. /\ o \in Client /\ o.ok /\ o.stream = c.stream
          /\ o.online = c.online /\ o.posted = c.posted /\ o.targets = c.targets
          /\ o.agg = c.agg /\ o.sent = c.sent /\ o.cache = c.cache
          /\ o.listeners = added.listeners /\ o.views[q] = w
          /\ \A p \in Queries \ {q} : o.views[p] = c.views[p]
        BY <1>1, <1>2, <2>3, <2>4 DEF Client, HardAssert
    <2> HIDE DEF o
    <2>6. CoreInv(o) /\ OnlineInv(o)
        BY <1>1, <1>2, <1>3, <2>5
        DEF ClientInv, CoreInv, StreamInv, ErrorsAreLast, OnlineInv
    <2>7. CoreInv(r) /\ EventsOnly(o, r)
        BY <2>6, SnapshotsKeep
    <2>8. Tells(o, r)
        BY <2>5, SnapshotsTell
    <2> HIDE DEF r
    <2>9. ClientInv(r) /\ q \notin r.targets
        BY <2>4, <2>5, <2>6, <2>7 DEF ClientInv, OnlineInv, EventsOnly
    <2>10. FreshInv(o, s)
        <3>1. /\ ~o.views[q].current
              /\ c.agg[q].current => o.views[q].followed = c.views[q].followed
              /\ ~c.agg[q].current => o.views[q].followed = s.version
            BY <2>3, <2>5
        <3> HIDE DEF v, q
        <3>2. /\ o.agg = c.agg /\ o.sent = c.sent /\ o.cache = c.cache
              /\ o.targets = c.targets /\ o.stream = c.stream /\ o.posted = c.posted
              /\ \A p \in Queries \ {q} : o.views[p] = c.views[p]
            BY <2>5
        <3>3. FreshInv(c, s) /\ q \in Queries /\ c \in Client /\ q \notin c.targets
            BY <1>1, <2>4
        <3> QED BY <3>1, <3>2, <3>3, OpenViewHolds, SMT
    <2>11. FreshInv(r, s)
        BY <2>8, <2>10, TellsKeeps
    <2>12. FreshInv(Listen(r, q), s)
        BY <1>1, <2>9, <2>11, ListenHolds
    <2> QED BY <2>1, <2>12
<1> QED BY <1>5, <1>6

LEMMA RemoveHolds ==
    ASSUME NEW c, ClientInv(c), Linked(c), NEW s \in Server, FreshInv(c, s),
           NEW g \in Gets
    PROVE  FreshInv(RemoveQueryListener(c, g), s)
<1> DEFINE q == QueryOf[g]
           removed == [c EXCEPT !.listeners = @ \ {g}]
           d == RemoveQueryListener(c, g)
<1>1. q \in Queries /\ c \in Client /\ c.ok
    BY GetAssumption DEF ClientInv, CoreInv
<1>2. /\ removed \in Client /\ removed.listeners = c.listeners \ {g}
      /\ removed.posted = c.posted /\ removed.targets = c.targets
      /\ removed.views = c.views /\ removed.stream = c.stream
      /\ removed.online = c.online /\ removed.ok /\ removed.agg = c.agg
      /\ removed.sent = c.sent /\ removed.cache = c.cache
    BY <1>1 DEF Client
<1> HIDE DEF removed, q
<1>3. Tells(c, removed)
    BY <1>2, SameTells, Zenon
<1>4. CASE g \notin c.listeners \/ Listeners(removed, q) # {}
    <2>1. d = removed
        BY <1>4 DEF RemoveQueryListener, removed, q
    <2> HIDE DEF d
    <2>2. FreshInv(removed, s)
        BY <1>3, TellsKeeps
    <2> QED BY <2>1, <2>2, Zenon DEF d
<1>5. CASE g \in c.listeners /\ Listeners(removed, q) = {}
    <2> DEFINE h == HardAssert(removed, c.views[q].open)
               o == CloseView(h, q)
    <2>1. d = StopListening(o, q)
        BY <1>5 DEF RemoveQueryListener, removed, q
    <2>2. q \in c.targets /\ c.views[q].open
        BY <1>1, <1>5 DEF Linked, Listeners, q
    <2>3. /\ h \in Client /\ h.ok /\ h.listeners = c.listeners \ {g}
          /\ h.posted = c.posted /\ h.targets = c.targets
          /\ h.views = c.views /\ h.stream = c.stream /\ h.online = c.online
          /\ h.agg = c.agg /\ h.sent = c.sent /\ h.cache = c.cache
        BY <1>2, <2>2 DEF Client, HardAssert
    <2> HIDE DEF h
    <2>4. Tells(c, h)
        BY <2>3, SameTells, Zenon
    <2>5. Tells(h, o)
        BY <1>1, <2>3, CloseViewTells
    <2>6. /\ o \in Client /\ o.listeners = h.listeners
          /\ o.posted = h.posted /\ o.targets = h.targets
          /\ o.stream = h.stream
        BY <1>1, <2>3, ClosedView
    <2>7. o.ok = h.ok /\ o.online = h.online
        BY <2>3 DEF CloseView, Client
    <2> HIDE DEF o
    <2>8. FreshInv(o, s)
        BY <2>4, <2>5, TellsTwice, TellsKeeps, Zenon
    <2>9. ClientInv(o)
        BY <2>3, <2>6, <2>7
        DEF ClientInv, CoreInv, StreamInv, OnlineInv, ErrorsAreLast
    <2>10. q \in o.targets
        BY <2>2, <2>3, <2>6
    <2>11. FreshInv(StopListening(o, q), s)
        BY <1>1, <2>8, <2>9, <2>10, StopHolds
    <2> QED BY <2>1, <2>11
<1> QED BY <1>4, <1>5

\* Another user: whatever the stream was doing, it is closed first.
LEMMA UserLoses ==
    ASSUME NEW c, ClientInv(c), ~IsOpen(c.stream) => c.sent = << >>
    PROVE  Loses(c, HandleCredentialChange(c))
<1> DEFINE n == [c EXCEPT !.network = FALSE]
           down == CloseWatchStream(n, TRUE)
           e == [down EXCEPT !.agg = NewAggregator(Queries)]
           t == UpdateState(down.online, "Unknown")
           y == Broadcast(e, t)
           up == [y EXCEPT !.network = TRUE]
           d == HandleCredentialChange(c)
<1>1. /\ ShouldStartWatchStream(up) => d = StartWatchStream(up)
      /\ ~ShouldStartWatchStream(up) =>
             d = Broadcast(up, UpdateState(up.online, "Unknown"))
    BY DEF HandleCredentialChange
<1>2. c \in Client /\ c.ok /\ StreamInv(c) /\ ErrorsAreLast(c) /\ OnlineInv(c)
    BY DEF ClientInv, CoreInv
<1>3. /\ n \in Client /\ n.ok /\ ~n.network /\ n.listeners = c.listeners
      /\ n.posted = c.posted /\ n.targets = c.targets
      /\ n.stream = c.stream /\ n.online = c.online /\ n.views = c.views
      /\ n.agg = c.agg /\ n.sent = c.sent /\ n.cache = c.cache
    BY <1>2 DEF Client
<1> HIDE DEF n
<1>4. ClientInv(n)
    BY <1>2, <1>3 DEF ClientInv, CoreInv, StreamInv, OnlineInv, ErrorsAreLast
<1>5. Tells(c, n)
    BY <1>3, SameTells, Zenon
<1>6. NewAggregator(Queries) \in [Queries -> TargetState(MaxVersion)]
    BY GetAssumption DEF NewAggregator, TargetState, NoTargetState
<1>7. ClientInv(down) /\ Loses(n, e)
    <2>1. CASE IsStarted(n.stream)
        <3>1. TrackerInv(n.online) /\ n.stream.ok /\ ErrorsAreLast(n)
            BY <1>4 DEF ClientInv, CoreInv, StreamInv, OnlineInv
        <3>2. ClientInv(down)
            BY <1>3, <2>1, <3>1, CloseKeeps
        <3>3. Loses(n, down)
            BY <1>3, <2>1, <3>1, CloseLoses
        <3> HIDE DEF down
        <3>4. /\ e.agg = NewAggregator(Queries) /\ e.sent = down.sent
              /\ e.cache = down.cache /\ e.targets = down.targets
              /\ e.stream = down.stream /\ e.views = down.views
              /\ e.posted = down.posted
            BY <3>2 DEF ClientInv, CoreInv, Client
        <3> HIDE DEF e
        <3>5. down.agg = NewAggregator(Queries)
            BY <3>3 DEF Loses
        <3>6. Tells(down, e)
            BY <3>4, <3>5, SameTells, Zenon
        <3>7. Loses(n, e)
            BY <3>3, <3>6, LosesAndTells
        <3> QED BY <3>2, <3>7 DEF down, e
    <2>2. CASE ~IsStarted(n.stream)
        <3>1. down = n
            BY <2>2 DEF CloseWatchStream, Closes
        <3> HIDE DEF down
        <3>2. /\ e.agg = NewAggregator(Queries) /\ e.sent = n.sent
              /\ e.cache = n.cache /\ e.targets = n.targets
              /\ e.stream = n.stream /\ e.views = n.views
              /\ e.posted = n.posted
            BY <1>3, <3>1 DEF Client
        <3> HIDE DEF e
        <3>3. ~IsOpen(n.stream)
            BY <2>2 DEF IsStarted, IsOpen
        <3>4. Told(n) => Told(e)
            BY <3>2, Zenon DEF Told, ViewsFresh, PostedFresh
        <3>5. n.sent = << >>
            BY <1>3, <3>3
        <3>6. Loses(n, e)
            BY <3>2, <3>3, <3>4, <3>5, Zenon DEF Loses
        <3> QED BY <1>4, <3>1, <3>6 DEF down, e
    <2> QED BY <2>1, <2>2
<1> HIDE DEF down
<1>8. t \in TrackerType /\ TrackerInv(t) /\ ~t.timer
    <2>1. down.online \in TrackerType /\ TrackerInv(down.online)
        BY <1>7 DEF ClientInv, CoreInv, Client, OnlineInv
    <2> QED BY <2>1, TrackerKeeps
<1>9. CoreInv(e)
    <2>1. /\ e \in Client /\ e.ok /\ e.listeners = down.listeners
          /\ e.posted = down.posted /\ e.targets = down.targets
          /\ e.stream = down.stream /\ e.online = down.online
          /\ e.views = down.views
        BY <1>6, <1>7 DEF ClientInv, CoreInv, Client
    <2> HIDE DEF e
    <2> QED BY <1>7, <2>1 DEF ClientInv, CoreInv, StreamInv, ErrorsAreLast
<1> HIDE DEF t, e
<1>10. CoreInv(y) /\ y.online = t
    BY <1>8, <1>9, OnlineKeeps
<1>11. Tells(e, y)
    BY <1>8, <1>9, BroadcastTells
<1> HIDE DEF y
<1>12. /\ up \in Client /\ up.ok /\ up.listeners = y.listeners
       /\ up.posted = y.posted /\ up.targets = y.targets
       /\ up.stream = y.stream /\ up.online = y.online /\ up.views = y.views
       /\ up.agg = y.agg /\ up.sent = y.sent /\ up.cache = y.cache
    BY <1>10 DEF CoreInv, Client
<1> HIDE DEF up, d
<1>13. CoreInv(up)
    BY <1>10, <1>12 DEF CoreInv, StreamInv, ErrorsAreLast
<1>14. Tells(y, up)
    BY <1>12, SameTells, Zenon
<1>15. Loses(c, up)
    BY <1>5, <1>7, <1>11, <1>14, LosesAndTells, TellsAndLoses, Zenon
<1>16. CASE ShouldStartWatchStream(up)
    <2>1. up.sent = << >>
        BY <1>15 DEF Loses
    <2>2. Loses(up, d)
        BY <1>1, <1>8, <1>10, <1>12, <1>13, <1>16, <2>1, StartLoses
    <2> QED BY <1>15, <2>2, LosesTwice, Zenon DEF d
<1>17. CASE ~ShouldStartWatchStream(up)
    <2> DEFINE u == UpdateState(t, "Unknown")
    <2>1. u \in TrackerType
        BY <1>8, TrackerKeeps
    <2>2. d = Broadcast(up, u)
        BY <1>1, <1>10, <1>12, <1>17
    <2> HIDE DEF u
    <2>3. Tells(up, d)
        BY <1>13, <2>1, <2>2, BroadcastTells
    <2> QED BY <1>15, <2>3, LosesAndTells, Zenon DEF d
<1> QED BY <1>16, <1>17

-----------------------------------------------------------------------------
(* The steps of the client and of the connection.                          *)

LEMMA LostHolds ==
    ASSUME NEW c, NEW s \in Server, FreshInv(c, s), NEW d, Loses(c, d)
    PROVE  FreshInv(d, Disconnected(s))
<1>1. {} \in SUBSET Queries
    OBVIOUS
<1> QED BY <1>1, LosesHolds, Zenon

\* d is c with the stream r.
Restreamed(c, d, r) ==
    /\ d \in Client /\ d.stream = r /\ d.ok /\ d.posted = c.posted
    /\ d.listeners = c.listeners /\ d.targets = c.targets
    /\ d.views = c.views /\ d.online = c.online
    /\ d.network = c.network /\ d.agg = c.agg /\ d.sent = c.sent
    /\ d.cache = c.cache

LEMMA ConnectionHolds ==
    ASSUME GetsIInv, FreshInv(client, server),
           \/ TokenArrives \/ TokenFails \/ StaleTokenArrives \/ BackoffTimer
           \/ IdleTimer \/ OnlineTimer \/ OnStreamRead \/ StreamFails
           \/ UserChanges
    PROVE  FreshInv(client', server')
<1> DEFINE c == client
           s == server
<1>1. /\ c \in Client /\ c.ok /\ StreamInv(c) /\ ErrorsAreLast(c) /\ OnlineInv(c)
      /\ CoreInv(c) /\ ClientInv(c) /\ Linked(c) /\ TrackerInv(c.online)
      /\ c.stream \in StreamType /\ c.online \in TrackerType
      /\ s \in Server
    BY DEF GetsIInv, GetsTypeOK, ClientInv, CoreInv, Client, OnlineInv
<1>2. ASSUME NEW r \in StreamType, NEW d, d = [c EXCEPT !.stream = r]
      PROVE  Restreamed(c, d, r)
    BY <1>1, <1>2 DEF Client, Restreamed
<1>3. ASSUME NEW r \in StreamType, NEW d, d = [c EXCEPT !.stream = r],
             IsOpen(r) <=> IsOpen(c.stream)
      PROVE  Tells(c, d)
    <2>1. Restreamed(c, d, r)
        BY <1>2, <1>3, Zenon
    <2> QED BY <1>3, <2>1, SameTells, Zenon DEF Restreamed
<1>4. CASE TokenArrives
    <2> DEFINE r == ResumeStartWithCredentials(c.stream)
               k == [c EXCEPT !.stream = r]
               d == OnWatchStreamOpen(k)
    <2>1. /\ c.stream.ok /\ c.stream.state = "Starting" /\ ~c.stream.idle
          /\ client' = d /\ server' = s
        BY <1>1, <1>4 DEF TokenArrives, StreamInv, Client
    <2>2. r = [state |-> "Open", asked |-> FALSE, stale |-> c.stream.stale,
               idle |-> FALSE, ok |-> TRUE]
          /\ r \in StreamType
        BY <1>1, <2>1, OpenStreamKeeps
    <2> HIDE DEF r
    <2>0. k = [c EXCEPT !.stream = r] /\ r \in StreamType
        BY <2>2
    <2> HIDE DEF k, d
    <2>3. /\ k \in Client /\ k.stream = r /\ k.ok /\ k.posted = c.posted
          /\ k.listeners = c.listeners /\ k.targets = c.targets
          /\ k.views = c.views /\ k.online = c.online
          /\ k.agg = c.agg /\ k.sent = c.sent /\ k.cache = c.cache
        <3>1. Restreamed(c, k, r)
            BY <1>2, <2>0, Zenon
        <3> QED BY <3>1 DEF Restreamed
    <2>4. CanSend(k)
        <3>1. ErrorsAreLast(k)
            BY <1>1, <2>3 DEF ErrorsAreLast
        <3>2. IsOpen(r) /\ IsStarted(r) /\ r.ok /\ ~r.asked
            BY <2>2 DEF IsOpen, IsStarted
        <3>3. OnlineInv(k)
            BY <1>1, <2>3, <3>2 DEF OnlineInv
        <3> QED BY <2>3, <3>1, <3>2, <3>3 DEF CanSend
    <2>5. ~IsOpen(c.stream)
        BY <2>1 DEF IsOpen
    <2>6. /\ ServerInv(s) /\ Closed(c, s) /\ Told(c)
          /\ \A q \in Queries : c.views[q].followed <= s.version
        BY <2>5, Zenon DEF FreshInv
    <2>7. Closed(k, s)
        BY <2>3, <2>6, Zenon DEF Closed
    <2>8. Told(k) /\ \A q \in Queries : k.views[q].followed <= s.version
        BY <2>3, <2>6, Zenon DEF Told, ViewsFresh, PostedFresh
    <2>9. FreshInv(d, s)
        BY <1>1, <2>4, <2>6, <2>7, <2>8, OpenHolds DEF d
    <2> QED BY <2>1, <2>9
<1>5. CASE TokenFails
    <2> DEFINE r == [c.stream EXCEPT !.asked = FALSE]
               k == [c EXCEPT !.stream = r]
               d == CloseWatchStream(k, FALSE)
    <2>1. /\ c.stream.ok /\ c.stream.state = "Starting"
          /\ client' = d /\ server' = s
        BY <1>1, <1>5 DEF TokenFails, StreamInv, Client
    <2>2. r \in StreamType /\ r.ok /\ r.state = "Starting"
        BY <1>1, <2>1 DEF StreamType
    <2> HIDE DEF r
    <2>0. k = [c EXCEPT !.stream = r]
        OBVIOUS
    <2>3. /\ k \in Client /\ k.stream = r /\ k.ok /\ k.posted = c.posted
          /\ k.listeners = c.listeners /\ k.online = c.online
        <3> HIDE DEF k
        <3>1. Restreamed(c, k, r)
            BY <1>2, <2>2, <2>0, Zenon
        <3> QED BY <3>1 DEF Restreamed
    <2>4. ~IsOpen(c.stream) /\ ~IsOpen(r)
        BY <2>1, <2>2 DEF IsOpen
    <2>5. Tells(c, k)
        BY <1>3, <2>2, <2>4
    <2> HIDE DEF k
    <2>6. ErrorsAreLast(k) /\ IsStarted(k.stream) /\ k.stream.ok
        BY <1>1, <2>2, <2>3 DEF ErrorsAreLast, IsStarted
    <2>7. Loses(k, d)
        BY <1>1, <2>3, <2>6, CloseLoses
    <2> HIDE DEF d
    <2>8. Loses(c, d)
        BY <2>5, <2>7, TellsAndLoses, Zenon
    <2> QED BY <2>1, <2>4, <2>8, LosesHolds
<1>6. CASE StaleTokenArrives
    <2> DEFINE r == IgnoreCredentials(c.stream)
    <2>1. /\ client' = [c EXCEPT !.stream = r] /\ c.stream.stale > 0
          /\ server' = s
        BY <1>1, <1>6 DEF StaleTokenArrives
    <2>2. r \in StreamType /\ (IsOpen(r) <=> IsOpen(c.stream))
        BY <1>1, <2>1 DEF IgnoreCredentials, StreamType, IsOpen
    <2> HIDE DEF r
    <2>3. Tells(c, client')
        BY <1>3, <2>1, <2>2
    <2> QED BY <2>1, <2>3, TellsKeeps
<1>7. CASE BackoffTimer
    <2> DEFINE r == BackoffElapsed(c.stream)
    <2>1. /\ client' = [c EXCEPT !.stream = r] /\ c.stream.state = "Backoff"
          /\ c.stream.ok /\ ~c.stream.asked /\ ~c.stream.idle /\ server' = s
        BY <1>1, <1>7 DEF BackoffTimer, StreamInv
    <2>2. r \in StreamType /\ IsStarted(r)
        BY <1>1, <2>1, StreamKeeps
    <2>3. r.state = "Starting"
        BY <1>1, <2>1 DEF BackoffElapsed, Start, RequestCredentials, StreamType
    <2>4. IsOpen(r) <=> IsOpen(c.stream)
        BY <2>1, <2>3 DEF IsOpen
    <2> HIDE DEF r
    <2>5. Tells(c, client')
        BY <1>3, <2>1, <2>2, <2>4
    <2> QED BY <2>1, <2>5, TellsKeeps
<1>8. CASE IdleTimer
    <2>1. /\ client' = CloseWatchStream(c, TRUE) /\ IsStarted(c.stream)
          /\ c.targets = {} /\ c.stream.ok /\ server' = Disconnected(s)
        BY <1>1, <1>8 DEF IdleTimer, StreamInv, IsStarted
    <2>2. Loses(c, client')
        BY <1>1, <2>1, CloseLoses
    <2> QED BY <1>1, <2>1, <2>2, LostHolds
<1>9. CASE OnlineTimer
    <2> DEFINE t == OnlineStateTimeout(c.online)
    <2>1. client' = Broadcast(c, t) /\ c.online.timer /\ server' = s
        BY <1>9 DEF OnlineTimer
    <2>2. t \in TrackerType
        BY <1>1, <2>1, TrackerKeeps
    <2> HIDE DEF t
    <2>3. Tells(c, client')
        BY <1>1, <2>1, <2>2, BroadcastTells
    <2> QED BY <2>1, <2>3, TellsKeeps
<1>10. CASE OnStreamRead
    <2>1. /\ client' = OnWatchStreamChange(c, Head(s.out)) /\ s.out # << >>
          /\ server' = Popped(s)
        BY <1>10 DEF OnStreamRead, Popped
    <2> QED BY <1>1, <2>1, ChangeHolds
<1>11. CASE StreamFails
    <2>1. /\ client' = CloseWatchStream(c, FALSE) /\ IsStarted(c.stream)
          /\ c.stream.ok /\ server' = Disconnected(s)
        BY <1>1, <1>11 DEF StreamFails, StreamInv, IsOpen, IsStarted
    <2>2. Loses(c, client')
        BY <1>1, <2>1, CloseLoses
    <2> QED BY <1>1, <2>1, <2>2, LostHolds
<1>12. CASE UserChanges
    <2>1. /\ client' = HandleCredentialChange(c)
          /\ \E D \in SUBSET Queries :
                server' = [Disconnected(s) EXCEPT !.denied = D]
        BY <1>12 DEF UserChanges
    <2>2. ~IsOpen(c.stream) => c.sent = << >>
        BY Zenon DEF FreshInv, Closed
    <2>3. Loses(c, client')
        BY <1>1, <2>1, <2>2, UserLoses
    <2> HIDE DEF c, s
    <2>4. \A D \in SUBSET Queries :
              FreshInv(client', [Disconnected(s) EXCEPT !.denied = D])
        BY <1>1, <2>3, LosesHolds, Zenon DEF c, s
    <2> QED BY <2>1, <2>4, Zenon
<1> QED BY <1>4, <1>5, <1>6, <1>7, <1>8, <1>9, <1>10, <1>11, <1>12

-----------------------------------------------------------------------------
(* The steps of the server.                                                *)

\* The server sends a message that is no answer to a request for q.
LEMMA AppendedWired ==
    ASSUME NEW s \in Server, NEW m \in Messages, NEW q, m \notin Answers(q),
           NEW t, t.out = Append(s.out, m),
           t.targets[q].watched = s.targets[q].watched,
           t.targets[q].asked = s.targets[q].asked,
           NEW a, NEW k, NEW o, Wired(a, k, o, s, q),
           m \in Docs(q) /\ m.current => m.version >= o,
           t.targets[q].docs = s.targets[q].docs \/ m \in Docs(q),
           m.op = "snapshot" => s.targets[q].docs # 0
    PROVE  Wired(a, k, o, t, q)
<1> DEFINE P == Present(s.out, q)
           n == Len(s.out) + 1
<1>1. s.out \in Seq(Messages)
    BY DEF Server
<1>2. /\ t.out[n] = m /\ Len(s.out) \in Nat
      /\ \A i \in 1 .. Len(s.out) : t.out[i] = s.out[i]
    BY <1>1, HitsOfAppend
<1>3. Present(t.out, q) = P \cup {n}
    BY <1>1, PresentOfAppend
<1>4. P \subseteq 1 .. Len(s.out)
    BY DEF Present
<1>5. \A i \in P : t.out[i] = s.out[i] /\ i < n
    BY <1>2, <1>4
<1> HIDE DEF P, n
<1>6. t.targets[q].watched /\ t.targets[q].asked >= o
    BY Zenon DEF Wired
<1>7. ASSUME NEW i \in Present(t.out, q),
             t.out[i] \in Docs(q) /\ t.out[i].current
      PROVE  t.out[i].version >= o
    <2>1. CASE i = n
        BY <1>2, <1>7, <2>1
    <2>2. CASE i \in P
        BY <1>5, <1>7, <2>2, Zenon DEF Wired, P
    <2> QED BY <1>3, <2>1, <2>2
<1>8. ASSUME Synced(a), ~Got(a, k, o)
      PROVE  /\ t.targets[q].docs # 0 =>
                    \E i \in Present(t.out, q) : t.out[i] \in Docs(q)
             /\ DocumentsFirst(t.out, q)
    <2>1. /\ s.targets[q].docs # 0 => \E i \in P : s.out[i] \in Docs(q)
          /\ \A l \in P : s.out[l].op = "snapshot" =>
                \E i \in P : i < l /\ s.out[i] \in Docs(q)
        BY <1>8, Zenon DEF Wired, DocumentsFirst, P
    <2>2. \A i \in P : s.out[i] \in Docs(q) =>
              i \in Present(t.out, q) /\ t.out[i] \in Docs(q)
        BY <1>3, <1>5
    <2>3. s.targets[q].docs # 0 =>
              \E i \in Present(t.out, q) : t.out[i] \in Docs(q)
        BY <2>1, <2>2, Zenon
    <2>4. m \in Docs(q) => \E i \in Present(t.out, q) : t.out[i] \in Docs(q)
        <3>1. n \in Present(t.out, q)
            BY <1>3
        <3> QED BY <1>2, <3>1, Zenon
    <2>5. ASSUME NEW l \in Present(t.out, q), t.out[l].op = "snapshot"
          PROVE  \E i \in Present(t.out, q) : i < l /\ t.out[i] \in Docs(q)
        <3>1. CASE l \in P
            BY <1>5, <2>1, <2>2, <2>5, <3>1, Zenon
        <3>2. CASE l = n
            <4>1. PICK i \in P : s.out[i] \in Docs(q)
                BY <1>2, <2>1, <2>5, <3>2
            <4> QED BY <1>5, <2>2, <3>2, <4>1, Zenon
        <3> QED BY <1>3, <2>5, <3>1, <3>2
    <2> QED BY <2>3, <2>4, <2>5, Zenon DEF DocumentsFirst
<1> QED BY <1>6, <1>7, <1>8, Zenon DEF Wired

LEMMA AtLeast ==
    ASSUME NEW x \in Nat, NEW y \in Nat, NEW z \in Nat, x >= y, y >= z
    PROVE  x >= z
OBVIOUS

\* A target the message is not about, or about which it is no answer.
LEMMA AppendedHolds ==
    ASSUME NEW c, c.sent \in Seq(Requests), NEW s \in Server,
           NEW q \in Queries, TargetInv(c, s, q),
           NEW m \in Messages, m \notin Answers(q),
           m \in Docs(q) => s.targets[q].watched,
           NEW t, t.out = Append(s.out, m), t.denied = s.denied,
           t.targets[q].watched = s.targets[q].watched,
           t.targets[q].asked = s.targets[q].asked,
           m \in Docs(q) /\ m.current => m.version >= s.targets[q].asked,
           t.targets[q].docs = s.targets[q].docs \/ m \in Docs(q),
           m.op = "snapshot" /\ s.targets[q].watched => s.targets[q].docs # 0,
           c.views[q].followed \in Nat
    PROVE  TargetInv(c, t, q)
<1> DEFINE a == c.agg[q]
           k == c.cache[q]
           o == c.views[q].followed
<1>1. s.out \in Seq(Messages)
    BY DEF Server
<1>2. CASE q \in s.denied
    <2>1. Refused(a, s, q)
        BY <1>2 DEF TargetInv
    <2>2. m \notin Answers(q) \cup Docs(q)
        BY <2>1 DEF Refused
    <2>3. Hits(t.out, Answers(q) \cup Docs(q))
              = Hits(s.out, Answers(q) \cup Docs(q))
        BY <1>1, <2>2, HitsOfAppend
    <2> QED BY <1>2, <2>1, <2>3, Zenon DEF TargetInv, Refused
<1>3. CASE q \notin s.denied
    <2> DEFINE w == q \in c.targets
    <2>1. Followed(a, k, o, w, c.sent, s, q)
        BY <1>3 DEF TargetInv
    <2>2. Hits(t.out, Answers(q)) = Hits(s.out, Answers(q))
        BY <1>1, HitsOfAppend
    <2>3. Counted(a, c.sent, t.out, q)
        BY <2>1, <2>2, Zenon DEF Followed, Counted
    <2>4. Alternates(c.sent, Asks(q), Watches, t.targets[q].watched, w)
        BY <2>1, Zenon DEF Followed
    <2>5. ASSUME w, Hits(c.sent, Asks(q)) = {}
          PROVE  Wired(a, k, o, t, q)
        <3>1. Wired(a, k, o, s, q)
            BY <2>1, <2>5 DEF Followed
        <3>2. s.targets[q].watched /\ s.targets[q].asked >= o
            BY <3>1 DEF Wired
        <3>3. m \in Docs(q) /\ m.current => m.version >= o
            <4>1. m.version \in Nat /\ s.targets[q].asked \in Nat
                BY GetAssumption DEF Messages, Server, Versions
            <4> DEFINE x == m.version
                       y == s.targets[q].asked
            <4>2. x \in Nat /\ y \in Nat /\ o \in Nat
                BY <4>1
            <4>3. y >= o /\ (m \in Docs(q) /\ m.current => x >= y)
                BY <3>2
            <4> HIDE DEF x, y, o
            <4>4. m \in Docs(q) /\ m.current => x >= o
                BY <4>2, <4>3
            <4> QED BY <4>4 DEF x, o
        <3>4. m.op = "snapshot" => s.targets[q].docs # 0
            BY <3>2
        <3> QED BY <3>1, <3>3, <3>4, AppendedWired, Zenon
    <2> QED BY <1>3, <2>3, <2>4, <2>5, Zenon DEF TargetInv, Followed
<1> QED BY <1>2, <1>3

\* What the stream brings is not older than what it brought.
LEMMA AppendedServer ==
    ASSUME NEW s \in Server, ServerInv(s), NEW m \in Messages,
           NEW t, t.out = Append(s.out, m), t.version = s.version,
           t.denied = s.denied, t.read \in s.read .. s.version,
           m.op = "rejected" => m.target \in s.denied,
           m.op = "documents" => m.version = t.read
    PROVE  /\ ServerInv(t)
           /\ \A a : \A o \in Nat : CaughtUp(a, o, s) => CaughtUp(a, o, t)
<1> DEFINE n == Len(s.out) + 1
<1>1. s.out \in Seq(Messages)
    BY DEF Server
<1>2. /\ t.out[n] = m /\ Len(s.out) \in Nat /\ Len(t.out) = n
      /\ \A i \in 1 .. Len(s.out) : t.out[i] = s.out[i]
    BY <1>1, HitsOfAppend
<1>3. /\ s.read \in Nat /\ s.version \in Nat /\ t.read \in Nat
      /\ s.read \in 1 .. s.version /\ s.read <= t.read /\ t.read <= s.version
    BY GetAssumption DEF ServerInv, Server, Versions
<1>4. \A i \in 1 .. Len(s.out) : s.out[i].version \in Nat
    <2>1. \A i \in 1 .. Len(s.out) : s.out[i] \in Messages
        BY <1>1
    <2> QED BY <2>1, GetAssumption DEF Messages, Versions
<1>5. \A i \in 1 .. Len(t.out) : i \in 1 .. Len(s.out) \/ i = n
    BY <1>2
<1>6. \A i \in 1 .. Len(s.out) : i < n
    BY <1>2
<1> HIDE DEF n
<1>7. t.read \in 1 .. t.version
    BY <1>3
<1>8. \A i \in 1 .. Len(s.out) :
          s.out[i].op = "documents" =>
              /\ 1 <= s.out[i].version /\ s.out[i].version <= s.read
              /\ s.out[i].version <= t.read
    <2>1. \A x, y, z \in Nat : x <= y /\ y <= z => x <= z
        OBVIOUS
    <2>2. \A i \in 1 .. Len(s.out) :
              s.out[i].op = "documents" =>
                  1 <= s.out[i].version /\ s.out[i].version <= s.read
        BY Zenon DEF ServerInv
    <2> QED BY <1>3, <1>4, <2>1, <2>2, Zenon
<1>9. ASSUME NEW i \in 1 .. Len(t.out)
      PROVE  /\ t.out[i].op = "rejected" => t.out[i].target \in t.denied
             /\ t.out[i].op = "documents" =>
                   1 <= t.out[i].version /\ t.out[i].version <= t.read
    <2>1. CASE i = n
        BY <1>2, <1>3, <1>7, <2>1
    <2>2. CASE i \in 1 .. Len(s.out)
        BY <1>2, <1>8, <2>2, Zenon DEF ServerInv
    <2> QED BY <1>5, <2>1, <2>2
<1>10. ASSUME NEW i \in 1 .. Len(t.out), NEW j \in 1 .. Len(t.out),
              i < j, t.out[i].op = "documents", t.out[j].op = "documents"
       PROVE  t.out[i].version <= t.out[j].version
    <2>1. CASE i \in 1 .. Len(s.out) /\ j \in 1 .. Len(s.out)
        BY <1>2, <1>10, <2>1, Zenon DEF ServerInv
    <2>2. CASE i \in 1 .. Len(s.out) /\ j = n
        BY <1>2, <1>8, <1>10, <2>2
    <2>3. CASE i = n
        <3>1. Len(t.out) = n /\ n \in Nat
            BY <1>2 DEF n
        <3> QED BY <1>10, <2>3, <3>1
    <2> QED BY <1>5, <2>1, <2>2, <2>3
<1>11. ASSUME NEW a, NEW o \in Nat, CaughtUp(a, o, s)
       PROVE  CaughtUp(a, o, t)
    <2> SUFFICES ASSUME Synced(a)
                 PROVE  CaughtUp(a, o, t)
        BY DEF CaughtUp
    <2>1. /\ s.read >= o /\ (a.docs # 0 => a.docs >= o)
          /\ \A i \in 1 .. Len(s.out) :
                s.out[i].op = "documents" => s.out[i].version >= o
        BY <1>11 DEF CaughtUp
    <2>2. t.read >= o
        BY <1>3, <2>1
    <2>3. ASSUME NEW i \in 1 .. Len(t.out), t.out[i].op = "documents"
          PROVE  t.out[i].version >= o
        <3>1. CASE i = n
            BY <1>2, <2>2, <2>3, <3>1
        <3>2. CASE i \in 1 .. Len(s.out)
            BY <1>2, <2>1, <2>3, <3>2
        <3> QED BY <1>5, <3>1, <3>2
    <2> QED BY <2>1, <2>2, <2>3, Zenon DEF CaughtUp
<1> QED BY <1>7, <1>9, <1>10, <1>11, Zenon DEF ServerInv

\* What the server does with a request.
AnswersTo(s, r, m, t) ==
    LET p == r.target
    IN /\ m \in Messages /\ m.target = p /\ t.out = Append(s.out, m)
       /\ t.version = s.version /\ t.read = s.read /\ t.denied = s.denied
       /\ \A q \in Queries : q # p => t.targets[q] = s.targets[q]
       /\ \/ r.op = "watch" /\ p \in s.denied /\ m.op = "rejected"
             /\ t.targets[p] = s.targets[p]
          \/ r.op = "watch" /\ p \notin s.denied /\ m.op = "added"
             /\ t.targets[p].watched /\ t.targets[p].asked = s.version
             /\ t.targets[p].docs = 0
          \/ r.op = "unwatch" /\ s.targets[p].watched /\ m.op = "removed"
             /\ ~t.targets[p].watched

LEMMA AnsweredAt ==
    ASSUME NEW s \in Server, NEW r \in Requests
    PROVE  LET t == Answered(s, r)
           IN \/ r.op = "unwatch" /\ ~s.targets[r.target].watched /\ t = s
              \/ \E m : AnswersTo(s, r, m, t)
<1> DEFINE p == r.target
           W == [watched : BOOLEAN, asked : Versions, docs : Versions]
           w == [watched |-> TRUE, docs |-> 0, asked |-> s.version]
           rejected == Message("rejected", p, 0, FALSE)
           added == Message("added", p, 0, FALSE)
           removed == Message("removed", p, 0, FALSE)
           k == [[s EXCEPT !.targets[p] = w] EXCEPT !.fresh = TRUE]
           u == [s EXCEPT !.targets[p] = Unwatched]
           t == Answered(s, r)
<1>1. p \in Queries /\ r.op \in {"watch", "unwatch"}
    BY DEF Requests
<1>2. 0 \in Versions
    BY GetAssumption DEF Versions
<1>3. /\ rejected \in Messages /\ rejected.op = "rejected" /\ rejected.target = p
      /\ added \in Messages /\ added.op = "added" /\ added.target = p
      /\ removed \in Messages /\ removed.op = "removed" /\ removed.target = p
    BY <1>1, <1>2 DEF Message, Messages
<1>4. s.targets \in [Queries -> W] /\ s.version \in Versions
    BY DEF Server
<1>5. /\ k.out = s.out /\ k.version = s.version /\ k.read = s.read
      /\ k.denied = s.denied /\ k.targets = [s.targets EXCEPT ![p] = w]
    BY DEF Server
<1>6. /\ u.out = s.out /\ u.version = s.version /\ u.read = s.read
      /\ u.denied = s.denied /\ u.targets = [s.targets EXCEPT ![p] = Unwatched]
    BY DEF Server
<1>7. /\ k.targets[p] = w /\ u.targets[p] = Unwatched
      /\ \A q \in Queries : q # p => /\ k.targets[q] = s.targets[q]
                                     /\ u.targets[q] = s.targets[q]
    BY <1>1, <1>4, <1>5, <1>6
<1>8. w.watched /\ w.asked = s.version /\ w.docs = 0 /\ ~Unwatched.watched
    BY DEF Unwatched
<1>9. k \in Server /\ u \in Server
    <2>1. w \in W /\ Unwatched \in W
        BY <1>2, <1>4 DEF Unwatched
    <2> HIDE DEF w
    <2>2. [s EXCEPT !.targets[p] = w] \in Server /\ u \in Server
        BY <1>1, <2>1 DEF Server
    <2> QED BY <2>2 DEF Server
<1>10. ASSUME NEW z \in Server, NEW m \in Messages
       PROVE  LET n == Reply(z, m)
              IN /\ n.out = Append(z.out, m) /\ n.version = z.version
                 /\ n.read = z.read /\ n.denied = z.denied
                 /\ n.targets = z.targets
    BY DEF Reply, Server
<1>11. CASE r.op = "watch" /\ p \in s.denied
    <2>1. t = Reply(s, rejected)
        BY <1>11 DEF Answered
    <2> HIDE DEF t, rejected, p
    <2>2. /\ t.out = Append(s.out, rejected) /\ t.version = s.version
          /\ t.read = s.read /\ t.denied = s.denied /\ t.targets = s.targets
        BY <1>3, <1>10, <2>1
    <2>3. AnswersTo(s, r, rejected, t)
        BY <1>3, <1>11, <2>2 DEF AnswersTo, p
    <2> QED BY <2>3 DEF t
<1>12. CASE r.op = "watch" /\ p \notin s.denied
    <2>1. t = Reply(k, added)
        BY <1>12 DEF Answered, Server
    <2> HIDE DEF t, added, p, k, w
    <2>2. /\ t.out = Append(s.out, added) /\ t.version = s.version
          /\ t.read = s.read /\ t.denied = s.denied /\ t.targets = k.targets
        BY <1>3, <1>5, <1>9, <1>10, <2>1
    <2>3. AnswersTo(s, r, added, t)
        BY <1>3, <1>7, <1>8, <1>12, <2>2 DEF AnswersTo, p
    <2> QED BY <2>3 DEF t
<1>13. CASE r.op = "unwatch" /\ s.targets[p].watched
    <2>1. t = Reply(u, removed)
        BY <1>13 DEF Answered
    <2> HIDE DEF t, removed, p, u
    <2>2. /\ t.out = Append(s.out, removed) /\ t.version = s.version
          /\ t.read = s.read /\ t.denied = s.denied /\ t.targets = u.targets
        BY <1>3, <1>6, <1>9, <1>10, <2>1
    <2>3. AnswersTo(s, r, removed, t)
        BY <1>3, <1>7, <1>8, <1>13, <2>2 DEF AnswersTo, p
    <2> QED BY <2>3 DEF t
<1>14. CASE r.op = "unwatch" /\ ~s.targets[p].watched
    BY <1>14 DEF Answered
<1> QED BY <1>1, <1>11, <1>12, <1>13, <1>14

\* The oldest request is about another target.
LEMMA AlternatesPass ==
    ASSUME NEW s \in Seq(Requests), s # << >>, NEW H, Head(s) \notin H,
           NEW W, NEW before \in BOOLEAN, NEW after \in BOOLEAN,
           Alternates(s, H, W, before, after)
    PROVE  Alternates(Tail(s), H, W, before, after)
BY AlternatesTail

\* The oldest request is taken: what follows switches back.
Switches(s, H, W, before, after) ==
    /\ Head(s) \in W <=> ~before
    /\ \A next \in BOOLEAN :
          (next <=> ~before) => Alternates(Tail(s), H, W, next, after)

LEMMA AlternatesTake ==
    ASSUME NEW s \in Seq(Requests), s # << >>, NEW H, Head(s) \in H,
           NEW W, NEW before \in BOOLEAN, NEW after \in BOOLEAN,
           Alternates(s, H, W, before, after)
    PROVE  Switches(s, H, W, before, after)
<1>1. /\ Head(s) \in W <=> ~before
      /\ Alternates(Tail(s), H, W, ~before, after)
    BY AlternatesTail
<1>2. \A next \in BOOLEAN : (next <=> ~before) => next = (~before)
    OBVIOUS
<1> QED BY <1>1, <1>2, Zenon DEF Switches

LEMMA PassedHolds ==
    ASSUME NEW c, c.sent \in Seq(Requests), c.sent # << >>,
           NEW q \in Queries, Head(c.sent) \notin Asks(q),
           NEW t, t.targets[q].watched \in BOOLEAN, TargetInv(c, t, q),
           NEW d, d.sent = Tail(c.sent), d.agg = c.agg, d.cache = c.cache,
           d.targets = c.targets, d.views = c.views
    PROVE  TargetInv(d, t, q)
<1>1. CASE q \in t.denied
    BY <1>1, Zenon DEF TargetInv
<1>2. CASE q \notin t.denied
    <2> DEFINE w == q \in c.targets
               v == t.targets[q].watched
               a == c.agg[q]
               k == c.cache[q]
               o == c.views[q].followed
               H == Hits(c.sent, Asks(q))
               T == Hits(Tail(c.sent), Asks(q))
    <2>1. Followed(a, k, o, w, c.sent, t, q)
        BY <1>2 DEF TargetInv
    <2>2. Tail(c.sent) \in Seq(Requests)
        BY HeadTailProperties
    <2>3. Cardinality(H) \in Nat /\ Cardinality(T) \in Nat
          /\ (Cardinality(H) = 0 <=> H = {}) /\ (Cardinality(T) = 0 <=> T = {})
        BY <2>2, HitsAreFinite
    <2>4. Cardinality(H) = Cardinality(T) + 0
        BY CountOfTail
    <2>5. Cardinality(H) = Cardinality(T) /\ (H = {} <=> T = {})
        BY <2>3, <2>4
    <2>6. Counted(a, Tail(c.sent), t.out, q)
        BY <2>1, <2>5, Zenon DEF Followed, Counted
    <2>7. Alternates(Tail(c.sent), Asks(q), Watches, v, w)
        <3>1. Alternates(c.sent, Asks(q), Watches, v, w)
            BY <2>1 DEF Followed
        <3>2. w \in BOOLEAN
            OBVIOUS
        <3> HIDE DEF w
        <3> QED BY <3>1, <3>2, AlternatesPass
    <2>8. Followed(a, k, o, w, Tail(c.sent), t, q)
        BY <2>1, <2>5, <2>6, <2>7, Zenon DEF Followed
    <2> QED BY <1>2, <2>8, Zenon DEF TargetInv
<1> QED BY <1>1, <1>2

\* The request is no longer on the wire, the answer is.
LEMMA AnsweredTarget ==
    ASSUME NEW c \in Client, NEW s \in Server, c.sent # << >>,
           NEW p \in Queries, Head(c.sent) \in Asks(p), TargetInv(c, s, p),
           c.views[p].followed <= s.version,
           NEW t \in Server, NEW m, AnswersTo(s, Head(c.sent), m, t),
           NEW d, d.sent = Tail(c.sent), d.agg = c.agg, d.cache = c.cache,
           d.targets = c.targets, d.views = c.views
    PROVE  TargetInv(d, t, p)
<1> DEFINE r == Head(c.sent)
           w == p \in c.targets
           v == s.targets[p].watched
           a == c.agg[p]
           k == c.cache[p]
           o == c.views[p].followed
<1>1. c.sent \in Seq(Requests) /\ s.out \in Seq(Messages)
    BY DEF Client, Server
<1>2. r \in Requests /\ r.target = p
    BY DEF Asks
<1>3. v \in BOOLEAN /\ w \in BOOLEAN
    BY DEF Server
<1>4. /\ m \in Messages /\ m.target = p /\ t.out = Append(s.out, m)
      /\ t.denied = s.denied
      /\ \/ r.op = "watch" /\ p \in s.denied /\ m.op = "rejected"
            /\ t.targets[p] = s.targets[p]
         \/ r.op = "watch" /\ p \notin s.denied /\ m.op = "added"
            /\ t.targets[p].watched /\ t.targets[p].asked = s.version
            /\ t.targets[p].docs = 0
         \/ r.op = "unwatch" /\ v /\ m.op = "removed"
            /\ ~t.targets[p].watched
    BY <1>2 DEF AnswersTo
<1>5. CASE p \in s.denied
    <2>1. Refused(a, s, p)
        BY <1>5 DEF TargetInv
    <2>2. m.op = "rejected" /\ t.targets[p] = s.targets[p]
        BY <1>4, <1>5, <2>1 DEF Refused
    <2>3. m \notin Answers(p) \cup Docs(p)
        BY <2>2 DEF Answers, Docs
    <2>4. Hits(t.out, Answers(p) \cup Docs(p))
              = Hits(s.out, Answers(p) \cup Docs(p))
        BY <1>1, <1>4, <2>3, HitsOfAppend
    <2> QED BY <1>4, <1>5, <2>1, <2>2, <2>4, Zenon DEF TargetInv, Refused
<1>6. CASE p \notin s.denied
    <2> DEFINE S == Cardinality(Hits(c.sent, Asks(p)))
               T == Cardinality(Hits(Tail(c.sent), Asks(p)))
               O == Cardinality(Hits(s.out, Answers(p)))
               N == Cardinality(Hits(t.out, Answers(p)))
    <2>1. Followed(a, k, o, w, c.sent, s, p)
        BY <1>6 DEF TargetInv
    <2>2. m \in Answers(p)
        BY <1>4, <1>6 DEF Answers
    <2>3. Tail(c.sent) \in Seq(Requests)
        BY <1>1, HeadTailProperties
    <2>4. S \in Nat /\ T \in Nat /\ O \in Nat
        BY <1>1, <2>3, HitsAreFinite
    <2>5. S = T + 1
        BY <1>1, CountOfTail
    <2>6. N = O + 1
        BY <1>1, <1>4, <2>2, CountOfAppend
    <2>7. Counted(a, Tail(c.sent), t.out, p)
        <3>1. (IF a.known THEN a.responses ELSE 0) = S + O
            BY <2>1 DEF Followed, Counted
        <3> HIDE DEF S, T, O, N
        <3>2. S + O = T + N
            BY <2>4, <2>5, <2>6
        <3> QED BY <3>1, <3>2 DEF Counted, T, N
    <2>8. Switches(c.sent, Asks(p), Watches, v, w)
        <3>1. Alternates(c.sent, Asks(p), Watches, v, w)
            BY <2>1 DEF Followed
        <3>2. v \in BOOLEAN /\ w \in BOOLEAN
            BY <1>3
        <3> HIDE DEF w, v
        <3> QED BY <1>1, <3>1, <3>2, AlternatesTake
    <2>9. r \in Watches <=> r.op = "watch"
        BY <1>2 DEF Watches
    <2>10. t.targets[p].watched \in BOOLEAN /\ (t.targets[p].watched <=> ~v)
        <3>1. t.targets[p].watched \in BOOLEAN
            BY DEF Server
        <3>2. CASE r.op = "watch"
            BY <1>4, <1>6, <2>8, <2>9, <3>1, <3>2 DEF Switches
        <3>3. CASE r.op # "watch"
            BY <1>4, <1>6, <3>1, <3>3
        <3> QED BY <3>1, <3>2, <3>3
    <2>11. Alternates(Tail(c.sent), Asks(p), Watches, t.targets[p].watched, w)
        BY <2>8, <2>10, Zenon DEF Switches
    <2>12. ASSUME w, Hits(Tail(c.sent), Asks(p)) = {}
           PROVE  Wired(a, k, o, t, p)
        <3>1. t.targets[p].watched
            BY <2>12, <2>11 DEF Alternates
        <3>2. /\ t.targets[p].watched /\ t.targets[p].asked = s.version
              /\ t.targets[p].docs = 0
            BY <1>4, <1>6, <2>10, <3>1
        <3>3. Present(t.out, p) = {}
            BY <1>1, <1>4, <2>2, PresentOfAppend
        <3>4. DocumentsFirst(t.out, p)
            BY <3>3, Zenon DEF DocumentsFirst
        <3>5. s.version >= o
            OBVIOUS
        <3> QED BY <3>2, <3>3, <3>4, <3>5, Zenon DEF Wired
    <2>13. Followed(a, k, o, w, Tail(c.sent), t, p)
        BY <2>7, <2>12, <2>11, Zenon DEF Followed
    <2> QED BY <1>4, <1>6, <2>13, Zenon DEF TargetInv
<1> QED BY <1>5, <1>6

\* What was followed and what the server watches, as numbers.
LEMMA OpenedAt ==
    ASSUME NEW c \in Client, NEW s \in Server, NEW q \in Queries
    PROVE  /\ c.views[q].followed \in Nat /\ c.agg[q] \in TargetState(MaxVersion)
           /\ s.targets[q].watched \in BOOLEAN /\ s.targets[q].asked \in Versions
           /\ s.targets[q].docs \in Versions
           /\ s.version \in Nat /\ s.read \in Nat
<1>1. c.views \in [Queries -> Views]
    BY DEF Client
<1>2. c.views[q] \in Views
    BY <1>1
<1>3. c.views[q].followed \in Versions
    BY <1>2 DEF Views
<1>4. c.agg \in [Queries -> TargetState(MaxVersion)]
    BY DEF Client
<1>5. s.targets \in [Queries -> [watched : BOOLEAN, asked : Versions,
                                 docs : Versions]]
      /\ s.version \in Versions /\ s.read \in Versions
    BY DEF Server
<1>6. \A v \in Versions : v \in Nat
    BY GetAssumption DEF Versions
<1> QED BY <1>3, <1>4, <1>5, <1>6

\* The oldest request was about another target.
LEMMA OtherTarget ==
    ASSUME NEW c \in Client, NEW s \in Server, c.sent # << >>,
           NEW q \in Queries, TargetInv(c, s, q),
           NEW r, r = Head(c.sent), r \in Requests, r.target # q,
           NEW t, t.denied = s.denied, t.targets[q] = s.targets[q],
           NEW m \in Messages, m.target = r.target, m.op # "documents",
           m.op # "snapshot", t.out = Append(s.out, m),
           NEW d, d.sent = Tail(c.sent), d.agg = c.agg, d.cache = c.cache,
           d.targets = c.targets, d.views = c.views
    PROVE  TargetInv(d, t, q)
<1>1. c.sent \in Seq(Requests)
    BY DEF Client
<1>2. m \notin Answers(q) /\ m \notin Docs(q)
    BY DEF Answers, Docs
<1>3. c.views[q].followed \in Nat /\ t.targets[q].watched \in BOOLEAN
    BY OpenedAt
<1>4. TargetInv(c, t, q)
    BY <1>1, <1>2, <1>3, AppendedHolds
<1>5. Head(c.sent) \notin Asks(q)
    BY DEF Asks
<1> QED BY <1>1, <1>3, <1>4, <1>5, PassedHolds

\* The server stops watching what it does not watch: that is never asked of it.
LEMMA NotAsked ==
    ASSUME NEW c \in Client, NEW s \in Server, c.sent # << >>,
           NEW p \in Queries, TargetInv(c, s, p), p \notin s.denied,
           NEW r, r = Head(c.sent), r \in Asks(p), r.op = "unwatch"
    PROVE  s.targets[p].watched
<1> DEFINE w == p \in c.targets
           v == s.targets[p].watched
<1>1. Alternates(c.sent, Asks(p), Watches, v, w)
    BY DEF TargetInv, Followed
<1>2. v \in BOOLEAN /\ w \in BOOLEAN
    BY OpenedAt
<1>3. c.sent \in Seq(Requests)
    BY DEF Client
<1> HIDE DEF w, v
<1>4. Switches(c.sent, Asks(p), Watches, v, w)
    BY <1>1, <1>2, <1>3, AlternatesTake
<1>5. Head(c.sent) \notin Watches
    BY DEF Watches
<1>6. v
    BY <1>4, <1>5, Zenon DEF Switches
<1> QED BY <1>6 DEF v

\* A request reaches the server.
LEMMA ReceiveHolds ==
    ASSUME NEW c \in Client, NEW s \in Server, FreshInv(c, s), c.sent # << >>
    PROVE  FreshInv([c EXCEPT !.sent = Tail(@)], Answered(s, Head(c.sent)))
<1> DEFINE d == [c EXCEPT !.sent = Tail(@)]
           r == Head(c.sent)
           p == r.target
           t == Answered(s, r)
<1>1. c.sent \in Seq(Requests)
    BY DEF Client
<1>2. r \in Requests
    BY <1>1, HeadIsFirst
<1>3. p \in Queries /\ r.op \in {"watch", "unwatch"} /\ r \in Asks(p)
    BY <1>2 DEF Requests, Asks
<1>4. /\ d.sent = Tail(c.sent) /\ d.agg = c.agg /\ d.cache = c.cache
      /\ d.targets = c.targets /\ d.views = c.views /\ d.posted = c.posted
      /\ d.stream = c.stream
    BY DEF Client
<1>5. IsOpen(c.stream)
    BY Zenon DEF FreshInv, Closed
<1>6. /\ ServerInv(s) /\ Told(c)
      /\ \A q \in Queries : /\ c.views[q].followed <= s.version
                            /\ CaughtUp(c.agg[q], c.views[q].followed, s)
                            /\ TargetInv(c, s, q)
    BY <1>5, Zenon DEF FreshInv
<1>7. t \in Server
    BY <1>2, ServerKeeps
<1>8. \/ r.op = "unwatch" /\ ~s.targets[p].watched /\ t = s
      \/ \E m : AnswersTo(s, r, m, t)
    BY <1>2, AnsweredAt
<1> HIDE DEF d, t, p, r
<1>9. Told(d)
    BY <1>4, <1>6, Zenon DEF Told, ViewsFresh, PostedFresh
<1>10. IsOpen(d.stream)
    BY <1>4, <1>5
<1>11. ASSUME r.op = "unwatch", ~s.targets[p].watched, t = s
       PROVE  FreshInv(d, t)
    <2>1. p \in s.denied
        BY <1>3, <1>6, <1>11, NotAsked DEF r
    <2>2. ASSUME NEW q \in Queries
          PROVE  TargetInv(d, s, q)
        <3>1. CASE q = p
            BY <1>4, <1>6, <2>1, <3>1, Zenon DEF TargetInv
        <3>2. CASE q # p
            <4>1. Head(c.sent) \notin Asks(q)
                BY <3>2 DEF Asks, p, r
            <4>2. s.targets[q].watched \in BOOLEAN
                BY OpenedAt
            <4> QED BY <1>1, <1>4, <1>6, <4>1, <4>2, PassedHolds
        <3> QED BY <3>1, <3>2
    <2>3. FreshInv(d, s)
        BY <1>4, <1>6, <1>9, <1>10, <2>2, Zenon DEF FreshInv
    <2> QED BY <1>11, <2>3
<1>12. ASSUME \E m : AnswersTo(s, r, m, t)
       PROVE  FreshInv(d, t)
    <2>1. PICK m : AnswersTo(s, r, m, t)
        BY <1>12
    <2>2. /\ m \in Messages /\ m.target = p /\ t.out = Append(s.out, m)
          /\ t.version = s.version /\ t.read = s.read /\ t.denied = s.denied
          /\ \A q \in Queries : q # p => t.targets[q] = s.targets[q]
          /\ m.op \in {"rejected", "added", "removed"}
          /\ m.op = "rejected" => p \in s.denied
        BY <2>1 DEF AnswersTo, p
    <2>3. t.read \in s.read .. s.version
        BY <1>6, <2>2 DEF ServerInv
    <2>4. /\ ServerInv(t)
          /\ \A a : \A o \in Nat : CaughtUp(a, o, s) => CaughtUp(a, o, t)
        BY <1>6, <2>2, <2>3, AppendedServer
    <2>5. ASSUME NEW q \in Queries
          PROVE  /\ d.views[q].followed <= t.version
                 /\ CaughtUp(d.agg[q], d.views[q].followed, t)
        <3>1. c.views[q].followed \in Nat
            BY OpenedAt
        <3> QED BY <1>4, <1>6, <2>2, <2>4, <3>1, Zenon
    <2>6. ASSUME NEW q \in Queries
          PROVE  TargetInv(d, t, q)
        <3>1. CASE q = p
            <4>1. AnswersTo(s, Head(c.sent), m, t) /\ Head(c.sent) \in Asks(p)
                BY <1>3, <2>1 DEF r
            <4>2. TargetInv(d, t, p)
                BY <1>3, <1>4, <1>6, <1>7, <4>1, AnsweredTarget
            <4> QED BY <3>1, <4>2
        <3>2. CASE q # p
            <4>1. r.target # q /\ t.targets[q] = s.targets[q]
                BY <2>2, <3>2 DEF p
            <4>2. m.target = r.target /\ m.op # "documents" /\ m.op # "snapshot"
                BY <2>2 DEF p
            <4> QED BY <1>2, <1>4, <1>6, <2>2, <4>1, <4>2, OtherTarget DEF r
        <3> QED BY <3>1, <3>2
    <2> QED BY <1>9, <1>10, <2>4, <2>5, <2>6, Zenon DEF FreshInv
<1>13. FreshInv(d, t)
    BY <1>8, <1>11, <1>12 DEF p
<1> QED BY <1>13 DEF d, t, r

-----------------------------------------------------------------------------
\* The server says something on a stream that is open.
LEMMA SentHolds ==
    ASSUME NEW c \in Client, NEW s \in Server, FreshInv(c, s), IsOpen(c.stream),
           NEW m \in Messages, m.op \in {"documents", "snapshot"},
           NEW t, t.out = Append(s.out, m), t.version = s.version,
           t.denied = s.denied, t.read \in s.read .. s.version,
           m.op = "documents" =>
               /\ m.version = t.read /\ s.targets[m.target].watched
               /\ m.current => m.version >= s.targets[m.target].asked,
           \A q \in Queries :
               /\ t.targets[q].watched = s.targets[q].watched
               /\ t.targets[q].asked = s.targets[q].asked
               /\ t.targets[q].docs = s.targets[q].docs \/ m \in Docs(q)
               /\ m.op = "snapshot" /\ s.targets[q].watched =>
                      s.targets[q].docs # 0
    PROVE  FreshInv(c, t)
<1>1. /\ ServerInv(s) /\ Told(c)
      /\ \A q \in Queries : /\ c.views[q].followed <= s.version
                            /\ CaughtUp(c.agg[q], c.views[q].followed, s)
                            /\ TargetInv(c, s, q)
    BY Zenon DEF FreshInv
<1>2. /\ ServerInv(t)
      /\ \A a : \A o \in Nat : CaughtUp(a, o, s) => CaughtUp(a, o, t)
    BY <1>1, AppendedServer
<1>3. ASSUME NEW q \in Queries
      PROVE  /\ c.views[q].followed <= t.version
             /\ CaughtUp(c.agg[q], c.views[q].followed, t)
    <2>1. c.views[q].followed \in Nat
        BY OpenedAt
    <2> QED BY <1>1, <1>2, <2>1, Zenon
<1>4. ASSUME NEW q \in Queries
      PROVE  TargetInv(c, t, q)
    <2>1. c.sent \in Seq(Requests) /\ c.views[q].followed \in Nat
        BY OpenedAt DEF Client
    <2>2. m \notin Answers(q)
        BY DEF Answers
    <2>3. m \in Docs(q) => m.op = "documents" /\ m.target = q
        BY DEF Docs
    <2>4. /\ m \in Docs(q) => s.targets[q].watched
          /\ m \in Docs(q) /\ m.current => m.version >= s.targets[q].asked
        BY <2>3
    <2> QED BY <1>1, <2>1, <2>2, <2>4, AppendedHolds
<1> QED BY <1>1, <1>2, <1>3, <1>4, Zenon DEF FreshInv

\* Only on an open stream is a target watched, or a snapshot due.
LEMMA WatchedIsOpen ==
    ASSUME NEW c, NEW s, FreshInv(c, s),
           s.fresh \/ \E q \in Queries : s.targets[q].watched
    PROVE  IsOpen(c.stream)
BY Zenon DEF FreshInv, Closed

\* A reply leaves the rest of the server alone.
LEMMA ReplyAt ==
    ASSUME NEW z \in Server, NEW m
    PROVE  LET n == Reply(z, m)
           IN /\ n.out = Append(z.out, m) /\ n.version = z.version
              /\ n.read = z.read /\ n.denied = z.denied
              /\ n.targets = z.targets
BY DEF Reply, Server

LEMMA DocumentsSent ==
    ASSUME NEW c \in Client, NEW s \in Server, FreshInv(c, s),
           NEW q \in Queries, s.targets[q].watched,
           NEW v \in s.read .. s.version
    PROVE  FreshInv(c, Documents(s, q, v))
<1> DEFINE W == [watched : BOOLEAN, asked : Versions, docs : Versions]
           w == [s.targets[q] EXCEPT !.docs = v]
           k == [s EXCEPT !.targets[q] = w]
           l == [[k EXCEPT !.read = v] EXCEPT !.fresh = TRUE]
           m == Message("documents", q, v, v >= s.targets[q].asked)
           t == Documents(s, q, v)
<1>1. /\ s.targets \in [Queries -> W] /\ s.targets[q] \in W
      /\ s.read \in Versions /\ s.version \in Versions
    BY DEF Server
<1>2. v \in Versions
    BY <1>1, GetAssumption DEF Versions
<1>3. w \in W /\ w.watched = s.targets[q].watched /\ w.asked = s.targets[q].asked
    BY <1>1, <1>2
<1>4. /\ m \in Messages /\ m.op = "documents" /\ m.target = q /\ m.version = v
      /\ m.current => v >= s.targets[q].asked
    <2>1. (v >= s.targets[q].asked) \in BOOLEAN
        BY <1>1 DEF Versions
    <2> QED BY <1>2, <2>1 DEF Message, Messages
<1>5. t = Reply(l, m)
    BY DEF Documents, Server
<1> HIDE DEF w, m, t
<1>6. /\ k \in Server /\ k.out = s.out /\ k.version = s.version
      /\ k.denied = s.denied /\ k.targets = [s.targets EXCEPT ![q] = w]
    BY <1>3 DEF Server
<1> HIDE DEF k
<1>7. /\ l \in Server /\ l.out = k.out /\ l.version = k.version
      /\ l.denied = k.denied /\ l.targets = k.targets /\ l.read = v
    BY <1>2, <1>6 DEF Server
<1> HIDE DEF l
<1>8. /\ t.out = Append(s.out, m) /\ t.version = s.version
      /\ t.denied = s.denied /\ t.read = v
      /\ t.targets = [s.targets EXCEPT ![q] = w]
    BY <1>5, <1>6, <1>7, ReplyAt
<1>9. ASSUME NEW p \in Queries
      PROVE  /\ t.targets[p].watched = s.targets[p].watched
             /\ t.targets[p].asked = s.targets[p].asked
             /\ t.targets[p].docs = s.targets[p].docs \/ m \in Docs(p)
             /\ m.op = "snapshot" /\ s.targets[p].watched =>
                    s.targets[p].docs # 0
    <2>1. CASE p = q
        <3>1. t.targets[p] = w
            BY <1>1, <1>8, <2>1
        <3>2. m \in Docs(p)
            BY <1>4, <2>1 DEF Docs
        <3> QED BY <1>3, <1>4, <2>1, <3>1, <3>2
    <2>2. CASE p # q
        <3>1. t.targets[p] = s.targets[p]
            BY <1>1, <1>8, <2>2
        <3> QED BY <1>4, <3>1
    <2> QED BY <2>1, <2>2
<1>10. IsOpen(c.stream)
    BY WatchedIsOpen
<1>11. /\ t.read \in s.read .. s.version
       /\ m.version = t.read /\ s.targets[m.target].watched
       /\ m.current => m.version >= s.targets[m.target].asked
    BY <1>4, <1>8
<1>12. m.op \in {"documents", "snapshot"}
    BY <1>4
<1>13. m.op = "documents" =>
          /\ m.version = t.read /\ s.targets[m.target].watched
          /\ m.current => m.version >= s.targets[m.target].asked
    BY <1>11, Zenon
<1>14. \A p \in Queries :
          /\ t.targets[p].watched = s.targets[p].watched
          /\ t.targets[p].asked = s.targets[p].asked
          /\ t.targets[p].docs = s.targets[p].docs \/ m \in Docs(p)
          /\ m.op = "snapshot" /\ s.targets[p].watched => s.targets[p].docs # 0
    BY <1>9, Zenon
<1>15. /\ m \in Messages /\ t.out = Append(s.out, m) /\ t.version = s.version
       /\ t.denied = s.denied /\ t.read \in s.read .. s.version
    BY <1>4, <1>8, <1>11, Zenon
<1>16. FreshInv(c, t)
    BY <1>10, <1>12, <1>13, <1>14, <1>15, SentHolds
<1> QED BY <1>16 DEF t

\* A snapshot speaks of targets that have their documents.
LEMMA SnapshotSent ==
    ASSUME NEW c \in Client, NEW s \in Server, FreshInv(c, s),
           s.fresh, IsConsistent(s)
    PROVE  FreshInv(c, Snapshot(s))
<1> DEFINE q == CHOOSE q \in Queries : TRUE
           k == [s EXCEPT !.fresh = FALSE]
           m == Message("snapshot", q, s.read, FALSE)
           t == Snapshot(s)
<1>1. q \in Queries
    BY GetAssumption
<1>2. t = Reply(k, m)
    BY DEF Snapshot, Server
<1> HIDE DEF q
<1>3. m \in Messages /\ m.op = "snapshot"
    BY <1>1 DEF Message, Messages, Server
<1>4. /\ k \in Server /\ k.out = s.out /\ k.version = s.version
      /\ k.denied = s.denied /\ k.targets = s.targets /\ k.read = s.read
    BY DEF Server
<1> HIDE DEF m, k, t
<1>5. /\ t.out = Append(s.out, m) /\ t.version = s.version
      /\ t.denied = s.denied /\ t.read = s.read /\ t.targets = s.targets
    BY <1>2, <1>4, ReplyAt
<1>6. s.read \in 1 .. s.version /\ s.read # 0
    <2>1. s.read \in 1 .. s.version
        BY Zenon DEF FreshInv, ServerInv
    <2> QED BY <2>1
<1>7. ASSUME NEW p \in Queries
      PROVE  /\ t.targets[p].watched = s.targets[p].watched
             /\ t.targets[p].asked = s.targets[p].asked
             /\ t.targets[p].docs = s.targets[p].docs \/ m \in Docs(p)
             /\ m.op = "snapshot" /\ s.targets[p].watched =>
                    s.targets[p].docs # 0
    BY <1>5, <1>6 DEF IsConsistent
<1>8. IsOpen(c.stream)
    BY WatchedIsOpen
<1>9. t.read \in s.read .. s.version
    BY <1>5, <1>6
<1>10. FreshInv(c, t)
    BY <1>3, <1>5, <1>7, <1>8, <1>9, SentHolds
<1> QED BY <1>10 DEF t

\* The data changes; the client and the stream do not.
LEMMA DataHolds ==
    ASSUME NEW c \in Client, NEW s \in Server, FreshInv(c, s)
    PROVE  FreshInv(c, [s EXCEPT !.version = @ + 1])
<1> DEFINE t == [s EXCEPT !.version = @ + 1]
<1>1. /\ t.version = s.version + 1 /\ t.out = s.out /\ t.denied = s.denied
      /\ t.targets = s.targets /\ t.read = s.read /\ t.fresh = s.fresh
    BY DEF Server
<1> HIDE DEF t
<1>2. /\ ServerInv(s) /\ Told(c)
      /\ \A q \in Queries : /\ c.views[q].followed <= s.version
                            /\ CaughtUp(c.agg[q], c.views[q].followed, s)
    BY Zenon DEF FreshInv
<1>3. s.version \in Nat
    BY GetAssumption DEF Server, Versions
<1>4. s.read \in 1 .. s.version
    BY <1>2 DEF ServerInv
<1>5. t.read \in 1 .. t.version
    BY <1>1, <1>3, <1>4
<1>6. ServerInv(t)
    BY <1>1, <1>2, <1>5, Zenon DEF ServerInv
<1>7. ASSUME NEW q \in Queries
      PROVE  /\ c.views[q].followed <= t.version
             /\ CaughtUp(c.agg[q], c.views[q].followed, t)
    <2>1. c.views[q].followed \in Nat
        BY OpenedAt
    <2>2. c.views[q].followed <= t.version
        BY <1>1, <1>2, <1>3, <2>1
    <2> QED BY <1>1, <1>2, <2>2, Zenon DEF CaughtUp
<1>8. ASSUME IsOpen(c.stream), NEW q \in Queries
      PROVE  TargetInv(c, t, q)
    <2>1. TargetInv(c, s, q)
        BY <1>8, Zenon DEF FreshInv
    <2> QED BY <1>1, <2>1, Zenon
            DEF TargetInv, Refused, Followed, Counted, Wired
<1>9. ASSUME ~IsOpen(c.stream) PROVE Closed(c, t)
    BY <1>1, <1>9, Zenon DEF FreshInv, Closed
<1>10. FreshInv(c, t)
    BY <1>2, <1>6, <1>7, <1>8, <1>9, Zenon DEF FreshInv
<1> QED BY <1>10 DEF t

-----------------------------------------------------------------------------
(* The inductive step.                                                     *)

\* A screen takes its oldest event.
LEMMA TakenEventHolds ==
    ASSUME GetsIInv, FreshInv(client, server), NEW g \in Gets, RunEvent(g)
    PROVE  FreshInv(client', server')
<1> DEFINE c == client
           s == c.posted[g]
           d == [c EXCEPT !.posted[g] = Tail(@)]
<1>1. /\ s # << >> /\ client' = d /\ server' = server
    BY DEF RunEvent
<1>2. c \in Client
    BY DEF GetsIInv, GetsTypeOK
<1>3. c.posted \in [Gets -> Seq(Events)]
    BY <1>2 DEF Client
<1>4. s \in Seq(Events)
    BY <1>3
<1>5. /\ d.agg = c.agg /\ d.sent = c.sent /\ d.cache = c.cache
      /\ d.targets = c.targets /\ d.stream = c.stream /\ d.views = c.views
      /\ d.posted = [c.posted EXCEPT ![g] = Tail(s)]
    BY <1>2 DEF Client
<1>6. /\ d.posted[g] = Tail(s)
      /\ \A h \in Gets : h # g => d.posted[h] = c.posted[h]
    BY <1>3, <1>5
<1>7. Told(c)
    BY Zenon DEF FreshInv
<1> HIDE DEF d
<1>8. \A i \in 1 .. Len(Tail(s)) : i + 1 \in 1 .. Len(s) /\ Tail(s)[i] = s[i + 1]
    BY <1>1, <1>4, HitsOfTail
<1>9. PostedFresh(d)
    <2> SUFFICES ASSUME NEW h \in Gets, NEW i \in 1 .. Len(d.posted[h])
                 PROVE  LET e == d.posted[h][i]
                        IN e.error \/ e.fromCache \/ e.version >= e.followed
        BY DEF PostedFresh
    <2>1. PostedFresh(c)
        BY <1>7 DEF Told
    <2>2. CASE h = g
        <3>1. d.posted[h][i] = c.posted[h][i + 1] /\ i + 1 \in 1 .. Len(c.posted[h])
            BY <1>6, <1>8, <2>2
        <3> QED BY <2>1, <3>1 DEF PostedFresh
    <2>3. CASE h # g
        BY <1>6, <2>1, <2>3 DEF PostedFresh
    <2> QED BY <2>2, <2>3
<1>10. Told(d) /\ Quiet(c, d)
    BY <1>5, <1>7, <1>9 DEF Told, ViewsFresh, Quiet
<1>11. FreshInv(d, server)
    BY <1>10, QuietKeeps
<1> QED BY <1>1, <1>11

LEMMA ListenerBlockHolds ==
    ASSUME GetsIInv, FreshInv(client, server), RunListenerBlock
    PROVE  FreshInv(client', server')
<1> DEFINE b == Head(workerQ)
<1>1. /\ workerQ \in Seq(Blocks) /\ server \in Server
      /\ ClientInv(client) /\ Linked(client)
    BY DEF GetsIInv, GetsTypeOK, Blocks
<1>2. /\ workerQ # << >> /\ server' = server
      /\ client' = IF b.op = "add"
                   THEN AddQueryListener(client, b.get, server.version)
                   ELSE RemoveQueryListener(client, b.get)
    BY DEF RunListenerBlock
<1>3. b \in Blocks /\ 1 \in 1 .. Len(workerQ) /\ workerQ[1] = b
    BY <1>1, <1>2
<1>4. b.get \in Gets /\ (b.op = "add" => b = AddOf(b.get))
    BY <1>3 DEF Blocks, AddOf
<1>5. b.op = "add" => Fresh(b.get)
    BY <1>3, <1>4 DEF GetsIInv, OnceInv, AddedOnce
<1> HIDE DEF b
<1>6. CASE b.op = "add"
    <2>1. b.get \in Gets \ client.listeners /\ client.posted[b.get] = << >>
        BY <1>4, <1>5, <1>6 DEF Fresh
    <2> QED BY <1>1, <1>2, <1>6, <2>1, AddHolds
<1>7. CASE b.op # "add"
    BY <1>1, <1>2, <1>4, <1>7, RemoveHolds
<1> QED BY <1>6, <1>7

LEMMA FreshInit == GetsInit => FreshInv(client, server)
<1> SUFFICES ASSUME GetsInit PROVE FreshInv(client, server)
    OBVIOUS
<1>1. /\ client = NewClient
      /\ server = [version |-> 1, read |-> 1, denied |-> {}, fresh |-> FALSE,
                   targets |-> [q \in Queries |-> Unwatched], out |-> << >>]
    BY DEF GetsInit
<1>2. /\ client.stream = NewStream /\ client.agg = NewAggregator(Queries)
      /\ client.views = [q \in Queries |-> NoView] /\ client.sent = << >>
      /\ client.posted = [g \in Gets |-> << >>]
    BY <1>1 DEF NewClient
<1>3. ~IsOpen(client.stream)
    BY <1>2 DEF IsOpen, NewStream
<1>4. Told(client)
    <2>1. ViewsFresh(client)
        BY <1>2 DEF ViewsFresh, NoView
    <2>2. \A g \in Gets : client.posted[g] = << >>
        BY <1>2
    <2>3. PostedFresh(client)
        BY <2>2 DEF PostedFresh
    <2> QED BY <2>1, <2>3 DEF Told
<1>5. ServerInv(server)
    BY <1>1 DEF ServerInv
<1>6. Closed(client, server)
    BY <1>1, <1>2 DEF Closed, Unwatched
<1>7. \A q \in Queries : client.views[q].followed <= server.version
    BY <1>1, <1>2 DEF NoView
<1> QED BY <1>3, <1>4, <1>5, <1>6, <1>7, ClosedHolds

LEMMA FreshNext ==
    GetsIInv /\ FreshInv(client, server) /\ [GetsNext]_getsVars
        => FreshInv(client', server')
<1> SUFFICES ASSUME GetsIInv, FreshInv(client, server), [GetsNext]_getsVars
             PROVE  FreshInv(client', server')
    OBVIOUS
<1>1. client \in Client /\ server \in Server
    BY DEF GetsIInv, GetsTypeOK
<1>2. CASE \E g \in Gets : GetDocuments(g)
    BY <1>2 DEF GetDocuments
<1>3. CASE \E g \in Gets : RunEvent(g)
    BY <1>3, TakenEventHolds
<1>4. CASE RunListenerBlock
    BY <1>4, ListenerBlockHolds
<1>5. CASE \/ TokenArrives \/ TokenFails \/ StaleTokenArrives \/ BackoffTimer
           \/ IdleTimer \/ OnlineTimer \/ OnStreamRead \/ StreamFails
           \/ UserChanges
    BY <1>5, ConnectionHolds
<1>6. CASE ServerReceives
    <2>1. /\ client.sent # << >> /\ client' = [client EXCEPT !.sent = Tail(@)]
          /\ server' = Answered(server, Head(client.sent))
        BY <1>6 DEF ServerReceives
    <2>2. FreshInv([client EXCEPT !.sent = Tail(@)],
                   Answered(server, Head(client.sent)))
        BY <1>1, <2>1, ReceiveHolds
    <2> QED BY <2>1, <2>2
<1>7. ASSUME NEW q \in Queries, ServerSendsDocuments(q)
      PROVE  FreshInv(client', server')
    <2>1. /\ server.targets[q].watched /\ client' = client
          /\ \E v \in server.read .. server.version :
                server' = Documents(server, q, v)
        BY <1>7 DEF ServerSendsDocuments
    <2>2. PICK v \in server.read .. server.version :
              server' = Documents(server, q, v)
        BY <2>1
    <2>3. FreshInv(client, Documents(server, q, v))
        BY <1>1, <2>1, DocumentsSent
    <2> QED BY <2>1, <2>2, <2>3
<1>8. CASE ServerSendsSnapshot
    <2>1. /\ server.fresh /\ IsConsistent(server)
          /\ server' = Snapshot(server) /\ client' = client
        BY <1>8 DEF ServerSendsSnapshot
    <2>2. FreshInv(client, Snapshot(server))
        BY <1>1, <2>1, SnapshotSent
    <2> QED BY <2>1, <2>2
<1>9. CASE DataChanges
    <2>1. FreshInv(client, [server EXCEPT !.version = @ + 1])
        BY <1>1, DataHolds
    <2> QED BY <1>9, <2>1 DEF DataChanges
<1>10. CASE UNCHANGED getsVars
    BY <1>10 DEF getsVars
<1> QED BY <1>2, <1>3, <1>4, <1>5, <1>6, <1>7, <1>8, <1>9, <1>10
        DEF GetsNext, ClientStep, ServerStep

\* However requests and answers cross on the wire, listeners come and go on one
\* stream, the connection breaks and the user changes: what a screen is told is
\* from the server and not from the cache is no older than the data of the moment
\* its view was opened, unless the target was still current then from a watch that
\* has been dropped; it is then no older than the data of the moment the view of
\* that watch was opened (OnWatchStreamChange of remote_store.cc, the pending
\* responses of remote_event.cc, View::ApplyChanges).
THEOREM FreshAnswers == GetsSpec => []SyncedIsCaughtUp
<1>1. GetsIInv /\ FreshInv(client, server) => SyncedIsCaughtUp
    <2> SUFFICES ASSUME GetsIInv, FreshInv(client, server),
                        NEW g \in Gets, NEW i \in 1 .. Len(client.posted[g])
                 PROVE  LET e == client.posted[g][i]
                        IN \/ e.error \/ e.fromCache
                           \/ e.version >= e.opened
                           \/ e.followed < e.opened /\ e.version >= e.followed
        BY DEF SyncedIsCaughtUp
    <2> DEFINE e == client.posted[g][i]
    <2>1. e \in Events
        <3>1. client.posted \in [Gets -> Seq(Events)]
            BY DEF GetsIInv, GetsTypeOK, Client
        <3>2. client.posted[g] \in Seq(Events)
            BY <3>1
        <3> QED BY <3>2
    <2>2. e.error \/ e.fromCache \/ e.version >= e.followed
        BY DEF FreshInv, Told, PostedFresh
    <2>3. e.version \in Nat /\ e.opened \in Nat /\ e.followed \in Nat
        BY <2>1, GetAssumption DEF Events, Versions
    <2> HIDE DEF e
    <2>4. \/ e.error \/ e.fromCache
          \/ e.version >= e.opened
          \/ e.followed < e.opened /\ e.version >= e.followed
        BY <2>2, <2>3
    <2> QED BY <2>4 DEF e
<1>2. GetsInit => GetsIInv /\ FreshInv(client, server)
    BY InitHolds, FreshInit
<1>3. GetsIInv /\ FreshInv(client, server) /\ [GetsNext]_getsVars
          => GetsIInv' /\ FreshInv(client, server)'
    BY NextHolds, FreshNext
<1> QED BY <1>1, <1>2, <1>3, PTL DEF GetsSpec
=============================================================================
