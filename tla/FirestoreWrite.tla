--------------------------- MODULE FirestoreWrite ----------------------------
(***************************************************************************)
(* How a setData call of the app reaches the server: SyncEngine's          *)
(* completions, the mutation queue on disk, RemoteStore's write pipeline   *)
(* and the write stream, with users that come and go, a connection that    *)
(* breaks and a process that dies.                                         *)
(*                                                                         *)
(* The record `writer` is what the worker queue owns, the disk included    *)
(* (the only part that outlives the process); a method is an operator from *)
(* that record to the next, and an action is one block of the worker       *)
(* queue.  Its field `net` is the gRPC call under the stream (requests on  *)
(* the wire and answers not read); the completions gRPC has put on the     *)
(* worker queue for it (remote/grpc_stream.cc) are a variable.             *)
(*                                                                         *)
(* The stream token is left out: it is stored and sent back, and no        *)
(* decision of the client looks at it.  The server is external: it stores  *)
(* writes in the order they come, answers in that order, and closes the    *)
(* stream at a write its rules refuse.                                     *)
(***************************************************************************)
EXTENDS Sequences, FiniteSets, SequencesExt, Stream

CONSTANTS
    MaxWrites,          \* bound: calls the app makes, numbered in their order
    Users,              \* signed-in users and the anonymous one
    Refused,            \* the writes the server's rules do not allow
    kMaxPendingWrites,  \* batches of the pipeline (10 in the code)
    MaxFaults           \* bound: breaks, failed tokens, deaths of the process
                        \* and changes of the user

ASSUME WriteAssumption ==
    /\ MaxWrites \in Nat /\ Refused \subseteq 1 .. MaxWrites
    /\ kMaxPendingWrites \in Nat \ {0} /\ MaxFaults \in Nat

VARIABLES
    writer,     \* the state the worker queue owns
    completions,\* of the call's operations: "read", "failed"
    store,      \* the server's data: the writes applied, and the latest
    workerQ,    \* blocks of setData calls and of user changes, oldest first
    made,       \* calls so far
    faults      \* faults so far

writeVars == <<writer, completions, store, workerQ, made, faults>>

Writes == 1 .. MaxWrites
Handshake == 0

-----------------------------------------------------------------------------
(* The mutation queue (local/leveldb_mutation_queue.cc): per user the       *)
(* batches in the order of their ids.                                       *)

Batches == [id : Nat \ {0}, write : Writes]

IdsOnDisk(disk) == UNION {{b.id : b \in ToSet(disk[u])} : u \in Users}

\* The next id follows the highest on disk, of any user, and is read again
\* whenever a user's queue starts: ids are used again once the disk is empty.
LoadNextBatchIdFromDb(disk) == Max(IdsOnDisk(disk) \cup {0}) + 1

\* The keys sort by id: those from the first one above.
NextBatchesAfter(c, id) ==
    LET queue == c.disk[c.user]
        above == {i \in DOMAIN queue : queue[i].id > id}
    IN IF above = {} THEN << >> ELSE SubSeq(queue, Min(above), Len(queue))

HardAssert(c, condition) == [c EXCEPT !.ok = @ /\ condition]

RemoveMutationBatch(c, b) ==
    IF Contains(c.disk[c.user], b)
    THEN [c EXCEPT !.disk[c.user] =
                       RemoveAt(@, CHOOSE i \in DOMAIN @ : @[i] = b)]
    ELSE HardAssert(c, FALSE)

-----------------------------------------------------------------------------
(* SyncEngine's completions, kept per user and batch id.                    *)

\* unordered_map::insert leaves an entry of the same key as it is.
RegisterCallback(c, b) ==
    IF \E k \in c.callbacks : k.user = c.user /\ k.id = b.id
    THEN c
    ELSE [c EXCEPT !.callbacks = @ \cup
             {[user |-> c.user, id |-> b.id, write |-> b.write]}]

NotifyUser(c, id, outcome) ==
    LET found == {k \in c.callbacks : k.user = c.user /\ k.id = id}
    IN [c EXCEPT !.callbacks = @ \ found,
                 !.told = [w \in Writes |->
                     IF \E k \in found : k.write = w
                     THEN Append(@[w], outcome) ELSE @[w]]]

-----------------------------------------------------------------------------
(* RemoteStore: the write pipeline.                                         *)

ShouldStartWriteStream(c) ==
    c.network /\ ~IsStarted(c.stream) /\ c.pipeline # << >>

StartWriteStream(c) ==
    [HardAssert(c, ShouldStartWriteStream(c)) EXCEPT !.stream = Start(@)]

\* WriteStream::WriteMutations, for each of some batches in their order.
WriteMutations(c, batches) ==
    IF batches = << >> THEN c
    ELSE [HardAssert(c, c.shaken) EXCEPT
             !.stream = Write(@),
             !.net.sent = @ \o [i \in DOMAIN batches |-> batches[i].write]]

AddToWritePipeline(c, batches) ==
    LET queued == [HardAssert(c, Len(c.pipeline) + Len(batches) <= kMaxPendingWrites)
                      EXCEPT !.pipeline = @ \o batches]
    IN IF IsOpen(queued.stream) /\ queued.shaken
       THEN WriteMutations(queued, batches) ELSE queued

\* The batches after those of the pipeline that still fit.
CanAddToWritePipeline(c) ==
    LET last == IF c.pipeline = << >> THEN 0 ELSE Last(c.pipeline).id
        next == NextBatchesAfter(c, last)
        room == IF c.network THEN kMaxPendingWrites - Len(c.pipeline) ELSE 0
    IN IF Len(next) <= room THEN next ELSE SubSeq(next, 1, room)

FillWritePipeline(c) ==
    LET filled == AddToWritePipeline(c, CanAddToWritePipeline(c))
        idle == IF filled.network /\ filled.pipeline = << >>
                THEN [filled EXCEPT !.stream = MarkIdle(@)] ELSE filled
    IN IF ShouldStartWriteStream(idle) THEN StartWriteStream(idle) ELSE idle

\* The first response of a stream; the whole pipeline goes out (again).
OnWriteStreamHandshakeComplete(c) ==
    WriteMutations([c EXCEPT !.shaken = TRUE], c.pipeline)

\* A response to a write, taken for one to the head of the pipeline;
\* SyncEngine::HandleSuccessfulWrite calls the completion before the disk knows.
OnWriteStreamMutationResult(c) ==
    LET batch == Head(c.pipeline)
    IN IF c.pipeline = << >>
       THEN HardAssert(c, FALSE)
       ELSE FillWritePipeline(RemoveMutationBatch(
                NotifyUser([c EXCEPT !.pipeline = Tail(@)],
                           batch.id, "success"), batch))

\* HandleWriteError for a permanent error: the head of the pipeline is to blame;
\* SyncEngine::HandleRejectedWrite takes it off the disk first.
HandleWriteError(c) ==
    LET batch == Head(c.pipeline)
        popped == [c EXCEPT !.pipeline = Tail(@),
                            !.stream = InhibitBackoff(@)]
    IN FillWritePipeline(
           NotifyUser(RemoveMutationBatch(popped, batch), batch.id, "failure"))

\* Variants: one that takes a refused handshake for a refused write, and one
\* that leaves it to the next write to start the stream again.
BlameAnyStage(c, graceful, permanent) ==
    LET handled == IF permanent /\ c.pipeline # << >>
                   THEN HandleWriteError(c) ELSE c
        restarted == IF ShouldStartWriteStream(handled)
                     THEN StartWriteStream(handled) ELSE handled
    IN [restarted EXCEPT !.shaken = FALSE]

RestartLater(c, graceful, permanent) ==
    LET handled == IF permanent /\ c.shaken /\ c.pipeline # << >>
                   THEN HandleWriteError(c) ELSE c
    IN [handled EXCEPT !.shaken = FALSE]

\* A permanent error of the handshake only forgets the stream token.
OnWriteStreamClose(c, graceful, permanent) ==
    LET checked == HardAssert(c, graceful => ~ShouldStartWriteStream(c))
        handled == IF permanent /\ c.shaken /\ c.pipeline # << >>
                   THEN HandleWriteError(checked) ELSE checked
        restarted == IF ShouldStartWriteStream(handled)
                     THEN StartWriteStream(handled) ELSE handled
    IN [restarted EXCEPT !.shaken = FALSE]

NewCall == [sent |-> << >>, out |-> << >>, closed |-> FALSE]

\* Close of the write stream; what the call had not delivered is lost with it.
CloseWriteStream(c, graceful, permanent) ==
    IF Closes(c.stream, graceful)
    THEN OnWriteStreamClose(
             [c EXCEPT !.stream = Close(@, graceful), !.net = NewCall],
             graceful, permanent)
    ELSE c

-----------------------------------------------------------------------------
(* SyncEngine's two entries.                                               *)

SyncEngineWriteMutations(c, w) ==
    LET b == [id |-> c.nextBatchId, write |-> w]
        local == [c EXCEPT !.disk[c.user] = Append(@, b), !.nextBatchId = @ + 1]
    IN FillWritePipeline(RegisterCallback(local, b))

\* A variant that keeps the pipeline of the user who left.
KeepPipeline(c, u) ==
    LET swapped == IF u = c.user THEN c
                   ELSE [c EXCEPT !.user = u,
                                  !.nextBatchId = LoadNextBatchIdFromDb(c.disk)]
        down == CloseWriteStream([swapped EXCEPT !.network = FALSE],
                                 TRUE, FALSE)
    IN FillWritePipeline([down EXCEPT !.network = TRUE])

\* LocalStore::HandleUserChange, then RemoteStore::HandleCredentialChange: both
\* flags of the network go down and up in one block.
HandleCredentialChange(c, u) ==
    LET swapped == IF u = c.user THEN c
                   ELSE [c EXCEPT !.user = u,
                                  !.nextBatchId = LoadNextBatchIdFromDb(c.disk)]
        down == [CloseWriteStream([swapped EXCEPT !.network = FALSE],
                                  TRUE, FALSE) EXCEPT !.pipeline = << >>]
    IN FillWritePipeline([down EXCEPT !.network = TRUE])

\* FirestoreClient::Initialize in a new process.
NewWriter(u, disk, told) ==
    FillWritePipeline(
        [stream |-> NewStream, shaken |-> FALSE, network |-> TRUE,
         pipeline |-> << >>, user |-> u, callbacks |-> {}, disk |-> disk,
         nextBatchId |-> LoadNextBatchIdFromDb(disk), net |-> NewCall,
         told |-> told, ok |-> TRUE])

-----------------------------------------------------------------------------
WriteInit ==
    /\ \E u \in Users :
          writer = NewWriter(u, [v \in Users |-> << >>], [w \in Writes |-> << >>])
    /\ store = [applied |-> {}, latest |-> 0]
    /\ completions = << >> /\ workerQ = << >> /\ made = 0 /\ faults = 0

HasFaults == faults < MaxFaults /\ faults' = faults + 1

(* The main queue.                                                         *)

SetData ==
    /\ made < MaxWrites
    /\ made' = made + 1
    /\ workerQ' = Append(workerQ, [op |-> "write", write |-> made + 1])
    /\ UNCHANGED <<writer, completions, store, faults>>

\* The credential listener runs at every notification, of another user or not.
UserChanges(u) ==
    /\ HasFaults
    /\ workerQ' = Append(workerQ, [op |-> "user", user |-> u])
    /\ UNCHANGED <<writer, completions, store, made>>

(* The worker queue.                                                       *)

\* The completions of a call are cancelled when its stream closes, those that
\* hold a message included (FastFinishCompletionsBlocking).
Surviving(queued) ==
    completions' = IF IsOpen(writer'.stream) THEN queued ELSE << >>

RunBlock ==
    /\ workerQ # << >>
    /\ workerQ' = Tail(workerQ)
    /\ writer' = IF Head(workerQ).op = "write"
                 THEN SyncEngineWriteMutations(writer, Head(workerQ).write)
                 ELSE HandleCredentialChange(writer, Head(workerQ).user)
    /\ Surviving(completions)
    /\ UNCHANGED <<store, made, faults>>

\* The stream opens, and OnWriteStreamOpen sends the handshake, the first of the
\* stream (WriteHandshake).
TokenArrives ==
    /\ writer.stream.asked
    /\ writer' = [HardAssert(writer, ~writer.shaken) EXCEPT
                     !.stream = Write(ResumeStartWithCredentials(@)),
                     !.net.sent = <<Handshake>>]
    /\ UNCHANGED <<completions, store, workerQ, made, faults>>

TokenFails ==
    /\ writer.stream.asked /\ HasFaults
    /\ writer' = CloseWriteStream([writer EXCEPT !.stream.asked = FALSE],
                                  FALSE, FALSE)
    /\ Surviving(completions)
    /\ UNCHANGED <<store, workerQ, made>>

StaleTokenArrives ==
    /\ writer.stream.stale > 0
    /\ writer' = [writer EXCEPT !.stream = IgnoreCredentials(@)]
    /\ UNCHANGED <<completions, store, workerQ, made, faults>>

BackoffTimer ==
    /\ writer.stream.state = "Backoff"
    /\ writer' = [writer EXCEPT !.stream = BackoffElapsed(@)]
    /\ UNCHANGED <<completions, store, workerQ, made, faults>>

IdleTimer ==
    /\ writer.stream.idle
    /\ writer' = CloseWriteStream(writer, TRUE, FALSE)
    /\ Surviving(completions)
    /\ UNCHANGED <<store, workerQ, made, faults>>

\* The server's refusal, as the first operation to fail brings it.
OnOperationFailed(c) == CloseWriteStream(c, FALSE, TRUE)

OnRead(c) ==
    LET read == [c EXCEPT !.net.out = Tail(@)]
    IN IF c.shaken THEN OnWriteStreamMutationResult(read)
       ELSE OnWriteStreamHandshakeComplete(read)

RunCompletion ==
    /\ completions # << >>
    /\ writer' = IF Head(completions) = "read"
                 THEN OnRead(writer) ELSE OnOperationFailed(writer)
    /\ Surviving(Tail(completions))
    /\ UNCHANGED <<store, workerQ, made, faults>>

\* The connection breaks; the server may also refuse a handshake for good.
StreamFails ==
    /\ IsOpen(writer.stream) /\ HasFaults
    /\ \E permanent \in BOOLEAN :
          /\ permanent => ~writer.shaken
          /\ writer' = CloseWriteStream(writer, FALSE, permanent)
    /\ Surviving(completions)
    /\ UNCHANGED <<store, workerQ, made>>

(* The process.                                                            *)

\* The user is remembered in the keychain, a change under way included.
SignedInUser ==
    LET changes == {i \in DOMAIN workerQ : workerQ[i].op = "user"}
    IN IF changes = {} THEN writer.user ELSE workerQ[Max(changes)].user

Restart(disk, told) ==
    /\ HasFaults
    /\ writer' = NewWriter(SignedInUser, disk, told)
    /\ workerQ' = << >> /\ completions' = << >>
    /\ UNCHANGED <<store, made>>

ProcessDies == Restart(writer.disk, writer.told)

\* In the middle of the block of an answer: after the completion and before the
\* disk for a success, after the disk and before the completion for a refusal.
DiesInAnswer ==
    /\ completions # << >> /\ writer.shaken
    /\ LET after == IF Head(completions) = "read"
                    THEN OnRead(writer) ELSE OnOperationFailed(writer)
       IN IF Head(completions) = "read"
          THEN Restart(writer.disk, after.told)
          ELSE Restart(after.disk, writer.told)

(* gRPC and the server.                                                    *)

\* One read is asked for at a time; the completion waits on the worker queue.
ReadCompletes ==
    /\ writer.net.out # << >> /\ completions = << >>
    /\ completions' = <<"read">>
    /\ UNCHANGED <<writer, store, workerQ, made, faults>>

\* The server has closed the stream: a write that is not out yet fails, behind
\* the read of one answer but with others unread; with none unread the read fails.
OperationFails ==
    /\ writer.net.closed /\ "failed" \notin ToSet(completions)
    /\ \/ writer.net.out = << >>
       \/ writer.net.sent # << >> /\ completions # << >>
    /\ completions' = Append(completions, "failed")
    /\ UNCHANGED <<writer, store, workerQ, made, faults>>

ServerReceives ==
    /\ writer.net.sent # << >> /\ ~writer.net.closed
    /\ LET request == Head(writer.net.sent)
           taken == [writer EXCEPT !.net.sent = Tail(@)]
       IN IF request \in Refused
          THEN /\ writer' = [taken EXCEPT !.net.closed = TRUE]
               /\ UNCHANGED store
          ELSE /\ writer' = [taken EXCEPT !.net.out = Append(@, "answer")]
               /\ store' = IF request = Handshake THEN store
                           ELSE [applied |-> store.applied \cup {request},
                                 latest |-> request]
    /\ UNCHANGED <<completions, workerQ, made, faults>>

-----------------------------------------------------------------------------
WriterStep ==
    \/ RunBlock \/ RunCompletion
    \/ TokenArrives \/ TokenFails \/ StaleTokenArrives
    \/ BackoffTimer \/ IdleTimer

NetworkStep == ReadCompletes \/ OperationFails \/ ServerReceives

WriteNext ==
    \/ SetData \/ \E u \in Users : UserChanges(u)
    \/ WriterStep \/ NetworkStep
    \/ StreamFails \/ ProcessDies \/ DiesInAnswer

WriteSpec == WriteInit /\ [][WriteNext]_writeVars

\* The worker queue takes the blocks and the completions it holds (an action of
\* the queue alone, since what the block does never stops it), a token request is
\* answered, a backoff ends, and a server that can be reached takes what it is
\* sent.
TakesBlock == workerQ # << >> /\ workerQ' = Tail(workerQ)
TakesCompletion ==
    completions # << >> /\ completions' \in {Tail(completions), << >>}

WriteFairness ==
    /\ WF_workerQ(TakesBlock) /\ WF_completions(TakesCompletion)
    /\ WF_writeVars(TokenArrives) /\ WF_writeVars(BackoffTimer)
    /\ WF_writeVars(ReadCompletes) /\ WF_writeVars(OperationFails)
    /\ WF_writeVars(ServerReceives)

WriteFairSpec == WriteSpec /\ WriteFairness

-----------------------------------------------------------------------------
WriterTypeOK ==
    /\ writer.stream \in StreamType
    /\ writer.shaken \in BOOLEAN /\ writer.network \in BOOLEAN
    /\ writer.user \in Users
    /\ writer.disk \in [Users -> Seq(Batches)]
    /\ writer.pipeline \in Seq(Batches)
    /\ writer.callbacks \subseteq
           [user : Users, id : Nat \ {0}, write : Writes]

\* Type correctness; no assertion of stream.cc, write_stream.cc, remote_store.cc
\* or the mutation queue fails; the pipeline is the beginning of the user's queue
\* on disk, so that an answer and the batch it is taken for stay together; and
\* every completion that waits belongs to a batch on disk with that id, although
\* ids are used again after a change of the user or a restart.
WriterInv ==
    /\ WriterTypeOK
    /\ writer.ok /\ writer.stream.ok
    /\ IsPrefix(writer.pipeline, writer.disk[writer.user])
    /\ Len(writer.pipeline) <= kMaxPendingWrites
    /\ \A k \in writer.callbacks :
          [id |-> k.id, write |-> k.write] \in ToSet(writer.disk[k.user])

\* The client implements DurableWrites: through breaks, deaths in the middle of
\* an answer and changes of the user, a write leaves its user's queue only as
\* its head, after the server has stored it or has refused one of the queue; no
\* write that is done with is stored again over a newer one; and each completion
\* is called at most once.
Contract == INSTANCE DurableWrites WITH
    pending <- [u \in Users |-> [i \in 1 .. Len(writer.disk[u]) |->
                                    writer.disk[u][i].write]],
    applied <- store.applied, latest <- store.latest, told <- writer.told

ImplementsDurableWrites == Contract!WritesContract

\* A write on the disk of a user who stays signed in does not stay there for
\* ever: each break, refusal and restart leaves a stream started or a timer.
PendingWritesDrain ==
    \A u \in Users :
        writer.user = u /\ writer.disk[u] # << >>
            ~> writer.user # u \/ writer.disk[u] = << >>

\* The comment in HandleWriteError, remote_store.cc:494-495: "If this was a
\* permanent error, the request itself was the problem": who is told of a
\* failure sent a write that the server refuses.
FailureMeansRefused ==
    \A w \in Writes : "failure" \in ToSet(writer.told[w]) => w \in Refused
==============================================================================
