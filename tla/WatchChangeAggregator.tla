------------------------ MODULE WatchChangeAggregator ------------------------
(***************************************************************************)
(* What the client has been told of each watched target since the last     *)
(* consistent snapshot (remote/remote_event.cc, .h).  Requests to watch    *)
(* and to stop watching one target cross the server's messages on the      *)
(* wire, and a target may be dropped and watched again on one stream; the  *)
(* count of unanswered requests tells the messages of the present watch    *)
(* from those of the one before.                                           *)
(*                                                                         *)
(* The aggregator is a function from targets to records.  The documents of *)
(* a target are abstracted to the version of the server's data they come   *)
(* from, 0 when none came.                                                 *)
(***************************************************************************)
EXTENDS Integers

\* No TargetState: the key is not in target_states_.
NoTargetState == [known |-> FALSE, responses |-> 0, current |-> FALSE,
                  changed |-> FALSE, docs |-> 0]

\* The default-constructed TargetState.
FreshTargetState == [known |-> TRUE, responses |-> 0, current |-> FALSE,
                     changed |-> TRUE, docs |-> 0]

TargetState(MaxVersion) ==
    [known : BOOLEAN, responses : Int, current : BOOLEAN, changed : BOOLEAN,
     docs : 0 .. MaxVersion]

NewAggregator(T) == [t \in T |-> NoTargetState]

EnsureTargetState(ts) == IF ts.known THEN ts ELSE FreshTargetState

IsPending(ts) == ts.known /\ ts.responses # 0

RecordPendingTargetRequest(agg, t) ==
    LET ts == EnsureTargetState(agg[t])
    IN [agg EXCEPT ![t] = [ts EXCEPT !.responses = @ + 1]]

\* A variant that does not ask whether requests are unanswered.
IsListenedTarget(agg, listening, t) == t \in listening

\* TargetDataForActiveTarget(t) is not empty, listening the keys of
\* listen_targets_.
IsActiveTarget(agg, listening, t) == t \in listening /\ ~IsPending(agg[t])

ClearPendingChanges(ts) == [ts EXCEPT !.changed = FALSE, !.docs = 0]

RemoveTarget(agg, t) == [agg EXCEPT ![t] = NoTargetState]

\* HandleTargetChange, Added.  What was pending is cleared, current_ is not.
TargetAdded(agg, t) ==
    LET counted == [EnsureTargetState(agg[t]) EXCEPT !.responses = @ - 1]
    IN [agg EXCEPT ![t] = IF counted.responses # 0
                          THEN counted ELSE ClearPendingChanges(counted)]

\* HandleTargetChange, Removed without a cause.
TargetRemoved(agg, t) ==
    LET counted == [EnsureTargetState(agg[t]) EXCEPT !.responses = @ - 1]
    IN [agg EXCEPT ![t] = IF counted.responses # 0
                          THEN counted ELSE NoTargetState]

\* A variant that takes the first documents for all of them.
DocumentsMeanCurrent(agg, listening, t, v, isCurrent) ==
    IF IsActiveTarget(agg, listening, t)
    THEN [agg EXCEPT ![t] = [EnsureTargetState(agg[t]) EXCEPT
             !.changed = TRUE, !.current = TRUE, !.docs = v]]
    ELSE agg

\* HandleDocumentChange for the documents of version v, followed by
\* HandleTargetChange Current if the server says so with them.
TargetDocuments(agg, listening, t, v, isCurrent) ==
    LET ts == EnsureTargetState(agg[t])
    IN CASE IsActiveTarget(agg, listening, t) ->
              [agg EXCEPT ![t] = [ts EXCEPT !.changed = TRUE,
                                            !.current = @ \/ isCurrent,
                                            !.docs = v]]
         [] ~IsActiveTarget(agg, listening, t) ->
              [agg EXCEPT ![t] = IF isCurrent THEN ts ELSE @]

\* HandleTargetChange, NoChange for all targets: the resume token that comes
\* with a global snapshot.
TargetTokens(agg, listening) ==
    [t \in DOMAIN agg |->
        IF agg[t].known /\ IsActiveTarget(agg, listening, t)
        THEN [agg[t] EXCEPT !.changed = TRUE] ELSE agg[t]]

\* The keys of CreateRemoteEvent's target_changes, and what it leaves behind.
TargetChanges(agg, listening) ==
    {t \in DOMAIN agg : agg[t].known /\ agg[t].changed
                            /\ IsActiveTarget(agg, listening, t)}

AfterRemoteEvent(agg, listening) ==
    [t \in DOMAIN agg |-> IF t \in TargetChanges(agg, listening)
                          THEN ClearPendingChanges(agg[t]) ELSE agg[t]]
==============================================================================
