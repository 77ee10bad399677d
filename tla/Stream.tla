------------------------------- MODULE Stream --------------------------------
(***************************************************************************)
(* One gRPC stream of the Firestore client, as the client's own state      *)
(* machine sees it (remote/stream.cc): the watch stream and the write      *)
(* stream are both of this kind.  A stream is a record and every method of *)
(* the class an operator from the record before to the record after; all   *)
(* of them run on the client's worker queue.                               *)
(*                                                                         *)
(* `ok` is TRUE as long as no HARD_ASSERT of the class has failed (one     *)
(* that fails aborts the process).  How long a delay lasts is left out: an *)
(* armed timer may run at any time until it is cancelled.                  *)
(***************************************************************************)
EXTENDS Naturals

States == {"Initial", "Starting", "Open", "Error", "Backoff"}

NewStream == [state |-> "Initial",
              asked |-> FALSE,     \* a GetToken of this attempt is unanswered
              stale |-> 0,         \* GetToken calls of attempts since closed
              idle |-> FALSE,      \* idleness_timer_ is armed
              ok |-> TRUE]

StreamType == [state : States, asked : BOOLEAN, stale : Nat, idle : BOOLEAN,
               ok : BOOLEAN]

IsOpen(s) == s.state = "Open"
IsStarted(s) == s.state \in {"Starting", "Backoff", "Open"}

\* The closure compares close_count_ with its value at the call: an attempt
\* that was closed leaves a request behind that will be ignored.
RequestCredentials(s) == [s EXCEPT !.asked = TRUE]

BackoffAndTryRestarting(s) ==
    [s EXCEPT !.state = "Backoff", !.ok = @ /\ s.state = "Error"]

Start(s) ==
    IF s.state = "Error"
    THEN BackoffAndTryRestarting(s)
    ELSE RequestCredentials([s EXCEPT !.state = "Starting",
                                      !.ok = @ /\ s.state = "Initial"])

\* The delayed operation of BackoffAndTryRestarting.
BackoffElapsed(s) ==
    LET restarted == Start([s EXCEPT !.state = "Initial",
                                     !.ok = @ /\ s.state = "Backoff"])
    IN [restarted EXCEPT !.ok = @ /\ IsStarted(restarted)]

\* ResumeStartWithCredentials with a token: GrpcStream::Start calls
\* OnStreamStart before it returns, so the stream is open before anything is
\* known of the connection.
ResumeStartWithCredentials(s) ==
    [s EXCEPT !.state = "Open", !.asked = FALSE,
              !.ok = @ /\ s.state = "Starting"]

\* ResumeStartWithCredentials of an attempt closed in between.
IgnoreCredentials(s) == [s EXCEPT !.stale = @ - 1]

InhibitBackoff(s) ==
    [s EXCEPT !.state = "Initial", !.ok = @ /\ ~IsStarted(s)]

MarkIdle(s) == [s EXCEPT !.idle = @ \/ IsOpen(s)]

Write(s) == [s EXCEPT !.idle = FALSE, !.ok = @ /\ IsOpen(s)]

\* Whether Close does anything: a graceful stop of a stopped stream does not.
Closes(s, graceful) == ~graceful \/ IsStarted(s)

\* Close up to the call of NotifyStreamClose, which the owner makes.
Close(s, graceful) ==
    [s EXCEPT !.state = IF graceful THEN "Initial" ELSE "Error",
              !.stale = @ + (IF s.asked THEN 1 ELSE 0),
              !.asked = FALSE,
              !.idle = FALSE,
              !.ok = @ /\ IsStarted(s)]
==============================================================================
