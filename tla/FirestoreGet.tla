---------------------------- MODULE FirestoreGet -----------------------------
(***************************************************************************)
(* How a getDocuments or getDocument call of the app is answered: the      *)
(* layers of the Firestore client between the call on the main queue and   *)
(* the watch stream.                                                       *)
(*                                                                         *)
(*   main queue     GetDocuments / ListenOnce        api/query_core.cc     *)
(*   worker queue   EventManager, QueryListener      core/event_manager.cc *)
(*                  SyncEngine, View                 core/sync_engine.cc   *)
(*                  RemoteStore (its watch half)     remote/remote_store.cc*)
(*   network        the Listen stream and the server                       *)
(*                                                                         *)
(* The two queues run one block at a time and interleave.  A call adds a   *)
(* listener that waits for the server unless the client is offline, and    *)
(* the first event removes it again.  All state of the worker queue is the *)
(* record `client`; a method is an operator from that record to the next,  *)
(* and an action of the module is one block of a queue.                    *)
(*                                                                         *)
(* A query is a target (the app uses no limitToLast); limbo documents and  *)
(* existence filters are not in the model.  The server is external: it     *)
(* answers requests in order, its stream may lag behind its data, and the  *)
(* connection may break at any time.                                       *)
(***************************************************************************)
EXTENDS Sequences, FiniteSets, SequencesExt, Stream, OnlineStateTracker,
        WatchChangeAggregator

CONSTANTS
    Gets,               \* the calls the app makes
    Queries,            \* the queries, each with the one target it has
    QueryOf,            \* the query of each call
    MaxVersion,         \* bound: versions of the server's data
    MaxFaults           \* bound: breaks of a connection that had worked, and
                        \* changes of the signed-in user

ASSUME GetAssumption ==
    /\ IsFiniteSet(Gets) /\ IsFiniteSet(Queries) /\ Queries # {}
    /\ QueryOf \in [Gets -> Queries]
    /\ MaxVersion \in Nat \ {0} /\ MaxFaults \in Nat

VARIABLES
    client,     \* the state the worker queue owns
    server,     \* the backend: data, what it watches, messages to the client
    workerQ,    \* AddQueryListener and RemoveQueryListener blocks, oldest first
    get,        \* per call: whether it was made and how it was answered
    faults      \* faults so far

getsVars == <<client, server, workerQ, get, faults>>

Versions == 0 .. MaxVersion

-----------------------------------------------------------------------------
(* Events, requests, messages.                                             *)

\* What AsyncEventListener posts on the main queue.
ViewEvent(c, q) == [error |-> FALSE, fromCache |-> ~c.views[q].current,
                    version |-> c.cache[q], opened |-> c.views[q].opened,
                    followed |-> c.views[q].followed]
ErrorEvent == [error |-> TRUE, fromCache |-> FALSE, version |-> 0,
               opened |-> 0, followed |-> 0]
Events == [error : BOOLEAN, fromCache : BOOLEAN, version : Versions,
           opened : Versions, followed : Versions]

Requests == [op : {"watch", "unwatch"}, target : Queries]

Message(op, q, v, current) == [op |-> op, target |-> q, version |-> v,
                               current |-> current]
Messages == [op : {"added", "removed", "rejected", "documents", "snapshot"},
             target : Queries, version : Versions, current : BOOLEAN]

Views == [open : BOOLEAN, current : BOOLEAN, opened : Versions,
          followed : Versions]
NoView == [open |-> FALSE, current |-> FALSE, opened |-> 0, followed |-> 0]

\* Each opening makes a new view and a new watch.  Auxiliary: the version of the
\* server's data when the view was opened, and when the view was for which the
\* target's current_ is earned: the flag outlives an unwatch and a new watch
\* while the aggregator keeps the target, so it may be that of an earlier view.
OpenView(c, q, v) ==
    [open |-> TRUE, current |-> FALSE, opened |-> v,
     followed |-> IF c.agg[q].current THEN c.views[q].followed ELSE v]
CloseView(c, q) == [c EXCEPT !.views[q].open = FALSE, !.views[q].current = FALSE]

-----------------------------------------------------------------------------
(* EventManager and QueryListener.                                         *)

Listeners(c, q) == {g \in c.listeners : QueryOf[g] = q}

\* The call listens with wait_for_sync_when_online.
ShouldRaiseInitialEvent(c, q) ==
    c.views[q].current \/ c.online.state = "Offline"

\* The events of the listeners in G; raised_initial_event_ becomes true.
Raise(c, G) ==
    [c EXCEPT !.raised = @ \cup G,
              !.posted = [g \in Gets |->
                  IF g \in G THEN Append(@[g], ViewEvent(c, QueryOf[g]))
                  ELSE @[g]]]

\* QueryListener::OnViewSnapshot for every listener of the queries in Q: the
\* first event if it is due, else one more (the call includes metadata changes).
OnViewSnapshots(c, Q) ==
    Raise(c, {g \in c.listeners :
                 /\ QueryOf[g] \in Q
                 /\ g \in c.raised \/ ShouldRaiseInitialEvent(c, QueryOf[g])})

\* QueryListener::OnOnlineStateChanged for every listener.
OnOnlineStateChanged(c) ==
    Raise(c, {g \in c.listeners \ c.raised :
                 ShouldRaiseInitialEvent(c, QueryOf[g])})

-----------------------------------------------------------------------------
(* SyncEngine::HandleOnlineStateChange, called by SetAndBroadcast.  The     *)
(* views hear of it before the listeners do.                               *)

HandleOnlineStateChange(c, tracker) ==
    LET stale == IF tracker.state = "Offline"
                 THEN {q \in Queries : c.views[q].current} ELSE {}
        viewed == OnViewSnapshots(
            [c EXCEPT !.views = [q \in Queries |->
                [c.views[q] EXCEPT !.current = @ /\ q \notin stale]]], stale)
    IN OnOnlineStateChanged([viewed EXCEPT !.online = tracker])

Broadcast(c, tracker) ==
    IF tracker.state = c.online.state
    THEN [c EXCEPT !.online = tracker]
    ELSE HandleOnlineStateChange(c, tracker)

-----------------------------------------------------------------------------
(* RemoteStore: the watch stream.                                          *)

HardAssert(c, condition) == [c EXCEPT !.ok = @ /\ condition]

Send(c, request) == [c EXCEPT !.stream = Write(@), !.sent = Append(@, request)]

SendWatchRequest(c, q) ==
    Send([c EXCEPT !.agg = RecordPendingTargetRequest(@, q)],
         [op |-> "watch", target |-> q])

SendUnwatchRequest(c, q) ==
    Send([c EXCEPT !.agg = RecordPendingTargetRequest(@, q)],
         [op |-> "unwatch", target |-> q])

ShouldStartWatchStream(c) ==
    c.network /\ ~IsStarted(c.stream) /\ c.targets # {}

StartWatchStream(c) ==
    LET started == [HardAssert(c, ShouldStartWatchStream(c)) EXCEPT
                        !.agg = NewAggregator(Queries), !.stream = Start(@)]
    IN Broadcast(started, HandleWatchStreamStart(started.online))

\* NotifyStreamOpen of the watch stream: SendWatchRequest for every target, in
\* the order of a hash map.
OnWatchStreamOpen(c) ==
    LET order == SetToSeq(c.targets)
        requests == [i \in DOMAIN order |-> [op |-> "watch",
                                             target |-> order[i]]]
        pending == [q \in Queries |->
                       IF q \in c.targets
                       THEN RecordPendingTargetRequest(c.agg, q)[q]
                       ELSE c.agg[q]]
    IN [c EXCEPT !.agg = pending, !.sent = @ \o requests,
                 !.stream = IF c.targets = {} THEN @ ELSE Write(@)]

OnWatchStreamClose(c, graceful) ==
    LET clean == [HardAssert(c, graceful => ~ShouldStartWatchStream(c)) EXCEPT
                      !.agg = NewAggregator(Queries)]
    IN IF ShouldStartWatchStream(clean)
       THEN StartWatchStream(
                Broadcast(clean, HandleWatchStreamFailure(clean.online)))
       ELSE Broadcast(clean, UpdateState(clean.online, "Unknown"))

\* Close of the watch stream; what was on the wire is lost with it.
CloseWatchStream(c, graceful) ==
    IF Closes(c.stream, graceful)
    THEN OnWatchStreamClose(
             [c EXCEPT !.stream = Close(@, graceful), !.sent = << >>], graceful)
    ELSE c

Listen(c, q) ==
    IF q \in c.targets
    THEN c
    ELSE LET listed == [c EXCEPT !.targets = @ \cup {q}]
         IN CASE ShouldStartWatchStream(listed) -> StartWatchStream(listed)
              [] IsOpen(listed.stream) -> SendWatchRequest(listed, q)
              [] OTHER -> listed

StopListening(c, q) ==
    LET dropped == [HardAssert(c, q \in c.targets) EXCEPT !.targets = @ \ {q}]
        told == IF IsOpen(dropped.stream)
                THEN SendUnwatchRequest(dropped, q) ELSE dropped
    IN CASE told.targets # {} -> told
         [] told.targets = {} /\ IsOpen(told.stream) ->
              [told EXCEPT !.stream = MarkIdle(@)]
         [] OTHER -> IF told.network
                     THEN Broadcast(told, UpdateState(told.online, "Unknown"))
                     ELSE told

-----------------------------------------------------------------------------
(* EventManager's two entries, with what SyncEngine does for them; v is    *)
(* the version of the server's data at this moment, kept for the           *)
(* properties.                                                             *)

AddQueryListener(c, g, v) ==
    LET q == QueryOf[g]
        added == [c EXCEPT !.listeners = @ \cup {g}]
    IN IF Listeners(c, q) # {}
       THEN IF ShouldRaiseInitialEvent(added, q) THEN Raise(added, {g}) ELSE added
       ELSE Listen(OnViewSnapshots(
                [HardAssert(added, ~c.views[q].open) EXCEPT
                    !.views[q] = OpenView(c, q, v)], {q}), q)

RemoveQueryListener(c, g) ==
    LET q == QueryOf[g]
        removed == [c EXCEPT !.listeners = @ \ {g}]
    IN IF g \notin c.listeners \/ Listeners(removed, q) # {}
       THEN removed
       ELSE StopListening(CloseView(HardAssert(removed, c.views[q].open), q), q)

-----------------------------------------------------------------------------
(* OnWatchStreamChange.                                                    *)

\* ProcessTargetError and HandleRejectedListen, for a target still wanted.
ProcessTargetError(c, q) ==
    IF q \notin c.targets
    THEN c
    ELSE [CloseView(c, q) EXCEPT
                   !.targets = @ \ {q},
                   !.agg = RemoveTarget(@, q),
                   !.listeners = @ \ Listeners(c, q),
                   !.posted = [g \in Gets |->
                       IF g \in Listeners(c, q) THEN Append(@[g], ErrorEvent)
                       ELSE @[g]]]

\* RaiseWatchSnapshot, SyncEngine::ApplyRemoteEvent and the views' ApplyChanges.
\* A view takes part if its documents or its sync state changed.
RaiseWatchSnapshot(c, v) ==
    LET changed == TargetChanges(c.agg, c.targets)
        arrived == {q \in changed : c.agg[q].docs # 0}
        cached == [q \in Queries |->
                      IF q \in arrived THEN c.agg[q].docs ELSE c.cache[q]]
        seen == {q \in changed : c.views[q].open
                    /\ \/ cached[q] # c.cache[q]
                       \/ c.agg[q].current # c.views[q].current}
    IN OnViewSnapshots(
           [c EXCEPT !.agg = AfterRemoteEvent(@, c.targets),
                     !.cache = cached,
                     !.last = v,
                     !.views = [q \in Queries |->
                         IF q \in changed /\ c.views[q].open
                         THEN [c.views[q] EXCEPT !.current = c.agg[q].current]
                         ELSE c.views[q]]],
           seen)

OnWatchStreamChange(c, m) ==
    LET online == Broadcast(c, UpdateState(c.online, "Online"))
    IN CASE m.op = "rejected" -> ProcessTargetError(online, m.target)
         [] m.op = "added" ->
              [online EXCEPT !.agg = TargetAdded(@, m.target)]
         [] m.op = "removed" ->
              [online EXCEPT !.agg = TargetRemoved(@, m.target)]
         [] m.op = "documents" ->
              [online EXCEPT !.agg = TargetDocuments(
                  @, online.targets, m.target, m.version, m.current)]
         [] m.op = "snapshot" ->
              LET tokens == [online EXCEPT
                                !.agg = TargetTokens(@, online.targets)]
              IN IF m.version >= tokens.last
                 THEN RaiseWatchSnapshot(tokens, m.version) ELSE tokens

\* HandleCredentialChange: both network flags go down and up in one block.
HandleCredentialChange(c) ==
    LET down == CloseWatchStream([c EXCEPT !.network = FALSE], TRUE)
        up == [Broadcast([down EXCEPT !.agg = NewAggregator(Queries)],
                         UpdateState(down.online, "Unknown"))
               EXCEPT !.network = TRUE]
    IN IF ShouldStartWatchStream(up)
       THEN StartWatchStream(up)
       ELSE Broadcast(up, UpdateState(up.online, "Unknown"))

-----------------------------------------------------------------------------
(* The server, external: what the Listen protocol lets it do.              *)

Unwatched == [watched |-> FALSE, asked |-> 0, docs |-> 0]

\* The connection is gone: the server forgets what was watched on it.
Disconnected(s) == [s EXCEPT !.targets = [q \in Queries |-> Unwatched],
                             !.out = << >>, !.fresh = FALSE]

Reply(s, m) == [s EXCEPT !.out = Append(@, m)]

Answered(s, request) ==
    LET q == request.target
    IN CASE request.op = "watch" /\ q \in s.denied ->
              Reply(s, Message("rejected", q, 0, FALSE))
         [] request.op = "watch" /\ q \notin s.denied ->
              Reply([s EXCEPT !.targets[q] = [watched |-> TRUE, docs |-> 0,
                                              asked |-> s.version],
                              !.fresh = TRUE],
                    Message("added", q, 0, FALSE))
         [] request.op = "unwatch" /\ s.targets[q].watched ->
              Reply([s EXCEPT !.targets[q] = Unwatched],
                    Message("removed", q, 0, FALSE))
         [] OTHER -> s

Documents(s, q, v) ==
    Reply([s EXCEPT !.targets[q].docs = v, !.read = v, !.fresh = TRUE],
          Message("documents", q, v, v >= s.targets[q].asked))

\* A global snapshot: every watched target is at the version of the stream.
IsConsistent(s) ==
    \A q \in Queries : s.targets[q].watched => s.targets[q].docs = s.read

Snapshot(s) ==
    Reply([s EXCEPT !.fresh = FALSE],
          Message("snapshot", CHOOSE q \in Queries : TRUE, s.read, FALSE))

-----------------------------------------------------------------------------
NewClient == [stream |-> NewStream, online |-> NewTracker, network |-> TRUE,
              targets |-> {}, agg |-> NewAggregator(Queries),
              views |-> [q \in Queries |-> NoView],
              cache |-> [q \in Queries |-> 0], last |-> 0,
              listeners |-> {}, raised |-> {},
              sent |-> << >>, posted |-> [g \in Gets |-> << >>], ok |-> TRUE]

NewGet == [called |-> FALSE, muted |-> FALSE, completions |-> 0]

GetsInit ==
    /\ client = NewClient
    /\ server = [version |-> 1, read |-> 1, denied |-> {}, fresh |-> FALSE,
                 targets |-> [q \in Queries |-> Unwatched], out |-> << >>]
    /\ workerQ = << >>
    /\ get = [g \in Gets |-> NewGet]
    /\ faults = 0

(* The main queue.                                                         *)

\* Query::GetDocuments and DocumentReference::GetDocument.
GetDocuments(g) ==
    /\ ~get[g].called
    /\ get' = [get EXCEPT ![g].called = TRUE]
    /\ workerQ' = Append(workerQ, [op |-> "add", get |-> g])
    /\ UNCHANGED <<client, server, faults>>

\* A variant of ListenOnce that removes its listener without muting it.
ListenOnceUnmuted(g) ==
    /\ client.posted[g] # << >>
    /\ client' = [client EXCEPT !.posted[g] = Tail(@)]
    /\ LET e == Head(client.posted[g])
       IN /\ get' = [get EXCEPT ![g].completions = @ + 1]
          /\ workerQ' = IF e.error THEN workerQ
                        ELSE Append(workerQ, [op |-> "remove", get |-> g])
    /\ UNCHANGED <<server, faults>>

\* AsyncEventListener's block for this call, and ListenOnce::OnEvent in it: an
\* event mutes the listener and asks for its removal, an error does neither.
\* Whether the completion gets documents or an error is left out.
RunEvent(g) ==
    /\ client.posted[g] # << >>
    /\ client' = [client EXCEPT !.posted[g] = Tail(@)]
    /\ IF get[g].muted
       THEN UNCHANGED <<get, workerQ>>
       ELSE LET e == Head(client.posted[g])
            IN /\ get' = [get EXCEPT ![g].completions = @ + 1,
                                     ![g].muted = ~e.error]
               /\ workerQ' = IF e.error THEN workerQ
                             ELSE Append(workerQ, [op |-> "remove", get |-> g])
    /\ UNCHANGED <<server, faults>>

(* The worker queue.                                                       *)

RunListenerBlock ==
    /\ workerQ # << >>
    /\ workerQ' = Tail(workerQ)
    /\ client' = IF Head(workerQ).op = "add"
                 THEN AddQueryListener(client, Head(workerQ).get, server.version)
                 ELSE RemoveQueryListener(client, Head(workerQ).get)
    /\ UNCHANGED <<server, get, faults>>

TokenArrives ==
    /\ client.stream.asked
    /\ client' = OnWatchStreamOpen(
                     [client EXCEPT !.stream = ResumeStartWithCredentials(@)])
    /\ UNCHANGED <<server, workerQ, get, faults>>

TokenFails ==
    /\ client.stream.asked
    /\ client' = CloseWatchStream([client EXCEPT !.stream.asked = FALSE], FALSE)
    /\ UNCHANGED <<server, workerQ, get, faults>>

StaleTokenArrives ==
    /\ client.stream.stale > 0
    /\ client' = [client EXCEPT !.stream = IgnoreCredentials(@)]
    /\ UNCHANGED <<server, workerQ, get, faults>>

BackoffTimer ==
    /\ client.stream.state = "Backoff"
    /\ client' = [client EXCEPT !.stream = BackoffElapsed(@)]
    /\ UNCHANGED <<server, workerQ, get, faults>>

IdleTimer ==
    /\ client.stream.idle
    /\ client' = CloseWatchStream(client, TRUE)
    /\ server' = Disconnected(server)
    /\ UNCHANGED <<workerQ, get, faults>>

OnlineTimer ==
    /\ client.online.timer
    /\ client' = Broadcast(client, OnlineStateTimeout(client.online))
    /\ UNCHANGED <<server, workerQ, get, faults>>

OnStreamRead ==
    /\ server.out # << >>
    /\ server' = [server EXCEPT !.out = Tail(@)]
    /\ client' = OnWatchStreamChange(client, Head(server.out))
    /\ UNCHANGED <<workerQ, get, faults>>

\* OnStreamFinish with an error.  A connection that never worked fails as often
\* as it is tried; one that did at most MaxFaults times.
StreamFails ==
    /\ IsOpen(client.stream)
    /\ IF client.online.state = "Online"
       THEN faults < MaxFaults /\ faults' = faults + 1
       ELSE UNCHANGED faults
    /\ client' = CloseWatchStream(client, FALSE)
    /\ server' = Disconnected(server)
    /\ UNCHANGED <<workerQ, get>>

\* The user signs in or out; the server may refuse other queries then.
UserChanges ==
    /\ faults < MaxFaults
    /\ faults' = faults + 1
    /\ client' = HandleCredentialChange(client)
    /\ \E D \in SUBSET Queries :
          server' = [Disconnected(server) EXCEPT !.denied = D]
    /\ UNCHANGED <<workerQ, get>>

(* The server.                                                             *)

ServerReceives ==
    /\ client.sent # << >>
    /\ client' = [client EXCEPT !.sent = Tail(@)]
    /\ server' = Answered(server, Head(client.sent))
    /\ UNCHANGED <<workerQ, get, faults>>

\* The stream need not be up to date with the data, but it never goes back.
ServerSendsDocuments(q) ==
    /\ server.targets[q].watched
    /\ \E v \in server.read .. server.version :
          /\ server.targets[q].docs < v
          /\ server' = Documents(server, q, v)
    /\ UNCHANGED <<client, workerQ, get, faults>>

ServerSendsSnapshot ==
    /\ server.fresh /\ IsConsistent(server)
    /\ server' = Snapshot(server)
    /\ UNCHANGED <<client, workerQ, get, faults>>

DataChanges ==
    /\ server.version < MaxVersion
    /\ server' = [server EXCEPT !.version = @ + 1]
    /\ UNCHANGED <<client, workerQ, get, faults>>

-----------------------------------------------------------------------------
ClientStep ==
    \/ RunListenerBlock \/ TokenArrives \/ TokenFails \/ StaleTokenArrives
    \/ BackoffTimer \/ IdleTimer \/ OnlineTimer \/ OnStreamRead

ServerStep ==
    \/ ServerReceives \/ ServerSendsSnapshot
    \/ \E q \in Queries : ServerSendsDocuments(q)

GetsNext ==
    \/ \E g \in Gets : GetDocuments(g) \/ RunEvent(g)
    \/ ClientStep \/ ServerStep
    \/ StreamFails \/ UserChanges \/ DataChanges

GetsSpec == GetsInit /\ [][GetsNext]_getsVars

\* The queues run their blocks (for the worker queue an action of the queue
\* alone, since what a block does never stops it), a token request is answered,
\* an armed timer runs out.
TakesBlock == workerQ # << >> /\ workerQ' = Tail(workerQ)

ClientFairness ==
    /\ WF_workerQ(TakesBlock)
    /\ \A g \in Gets : WF_getsVars(RunEvent(g))
    /\ WF_getsVars(TokenArrives \/ TokenFails)
    /\ WF_getsVars(BackoffTimer)
    /\ WF_getsVars(OnlineTimer)
    /\ WF_getsVars(OnStreamRead)

\* A server that can be reached goes on answering.
ServerFairness ==
    /\ WF_getsVars(ServerReceives)
    /\ WF_getsVars(ServerSendsSnapshot)
    /\ \A q \in Queries : WF_getsVars(ServerSendsDocuments(q))

GetsFairSpec == GetsSpec /\ ClientFairness /\ ServerFairness

\* The server may also stay silent for ever on a connection that stays up.
SilentServerSpec == GetsSpec /\ ClientFairness

-----------------------------------------------------------------------------
Client == [stream : StreamType, online : TrackerType, network : BOOLEAN,
           targets : SUBSET Queries, agg : [Queries -> TargetState(MaxVersion)],
           views : [Queries -> Views], cache : [Queries -> Versions],
           last : Versions, listeners : SUBSET Gets, raised : SUBSET Gets,
           sent : Seq(Requests), posted : [Gets -> Seq(Events)], ok : BOOLEAN]

Server == [version : Versions, read : Versions, denied : SUBSET Queries,
           fresh : BOOLEAN,
           targets : [Queries -> [watched : BOOLEAN, asked : Versions,
                                  docs : Versions]],
           out : Seq(Messages)]

GetsTypeOK ==
    /\ client \in Client
    /\ server \in Server
    /\ workerQ \in Seq([op : {"add", "remove"}, get : Gets])
    /\ get \in [Gets -> [called : BOOLEAN, muted : BOOLEAN, completions : Nat]]
    /\ faults \in Nat

\* Type correctness, and no assertion of the client fails: HARD_ASSERT of
\* stream.cc, online_state_tracker.cc, remote_store.cc, sync_engine.cc and
\* event_manager.cc aborts the process.  They speak of two parts at once (the
\* timer and the failures of the tracker against the state of the stream, a
\* listener against a view against a target), and every order of answers,
\* timers, breaks and blocks must respect them.
GetsInv ==
    /\ GetsTypeOK
    /\ client.ok /\ client.stream.ok /\ client.online.ok

\* A call of the app behaves as OneShotGet says: its completion is called, once,
\* whatever the connection and the server do, as long as the server goes on
\* answering while the connection stands.  Later events of the same listener are
\* on the main queue already when the first one mutes it, and the removal of the
\* listener is a block behind others.
Contract == INSTANCE OneShotGet WITH
    called <- {g \in Gets : get[g].called},
    completions <- [g \in Gets |-> get[g].completions]

ImplementsOneShotGet == Contract!GetContract

\* What a screen is told is from the server and not from the cache is no older
\* than the data of the moment its view was opened.  The one exception is a target
\* that was still current then from a watch dropped since: an answer may be as old
\* as the opening of that watch's view (of the first, if views followed each other
\* so), for TargetAdded clears what is pending and not current_.  Listeners come and
\* go on one stream, answers cross requests on the wire, the stream restarts and
\* the user changes.  A call that joins a listener is told what that one was.
SyncedIsCaughtUp ==
    \A g \in Gets : \A i \in 1 .. Len(client.posted[g]) :
        LET e == client.posted[g][i]
        IN \/ e.error \/ e.fromCache
           \/ e.version >= e.opened
           \/ e.followed < e.opened /\ e.version >= e.followed

\* The comment on kOnlineStateTimeout, online_state_tracker.cc:44-46: while a
\* stream is wanted, the state does not stay Unknown for ever.
OnlineStateSettles ==
    client.targets # {} /\ client.online.state = "Unknown"
        ~> client.targets = {} \/ client.online.state # "Unknown"
=============================================================================
