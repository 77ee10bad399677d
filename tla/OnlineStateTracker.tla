------------------------- MODULE OnlineStateTracker --------------------------
(***************************************************************************)
(* The client's opinion of whether it is connected                         *)
(* (remote/online_state_tracker.cc).  The state stays Unknown while the    *)
(* watch stream is tried, for as many failures as the constant             *)
(* kMaxWatchStreamFailures or until a timer runs out; then it is Offline   *)
(* and reads are answered from the cache.                                  *)
(*                                                                         *)
(* A tracker is a record and each method an operator on it; the owner      *)
(* calls online_state_handler_ when the state of the result differs.  The  *)
(* failures are only compared with zero and with the maximum, and the      *)
(* count stops there (saturation is the bound of the counter).             *)
(***************************************************************************)
EXTENDS Naturals

kMaxWatchStreamFailures == 1

NewTracker == [state |-> "Unknown",
               failures |-> 0,      \* watch_stream_failures_
               timer |-> FALSE,     \* online_state_timer_ is armed
               ok |-> TRUE]         \* no HARD_ASSERT has failed

TrackerType == [state : {"Unknown", "Online", "Offline"},
                failures : 0 .. kMaxWatchStreamFailures,
                timer : BOOLEAN, ok : BOOLEAN]

HandleWatchStreamStart(t) ==
    IF t.failures # 0
    THEN t
    ELSE [t EXCEPT !.state = "Unknown", !.timer = TRUE, !.ok = @ /\ ~t.timer]

\* The delayed operation of HandleWatchStreamStart.
OnlineStateTimeout(t) ==
    [t EXCEPT !.timer = FALSE, !.state = "Offline",
              !.ok = @ /\ t.state = "Unknown"]

\* A variant of a failure that leaves the timer running.
FailureKeepsTimer(t) ==
    IF t.state = "Online"
    THEN [t EXCEPT !.state = "Unknown",
                   !.ok = @ /\ t.failures = 0 /\ ~t.timer]
    ELSE [t EXCEPT !.failures = kMaxWatchStreamFailures, !.state = "Offline"]

HandleWatchStreamFailure(t) ==
    IF t.state = "Online"
    THEN [t EXCEPT !.state = "Unknown",
                   !.ok = @ /\ t.failures = 0 /\ ~t.timer]
    ELSE IF t.failures + 1 >= kMaxWatchStreamFailures
         THEN [t EXCEPT !.failures = kMaxWatchStreamFailures,
                        !.timer = FALSE, !.state = "Offline"]
         ELSE [t EXCEPT !.failures = @ + 1]

UpdateState(t, newState) ==
    [t EXCEPT !.timer = FALSE, !.failures = 0, !.state = newState]
==============================================================================
