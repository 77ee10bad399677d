--------------------------- MODULE HistoryContract ---------------------------
(***************************************************************************)
(* What the search history promises: a set of remembered searches, and the *)
(* set that would survive if the process died now.                         *)
(***************************************************************************)
CONSTANT Names

VARIABLES remembered, durable

vars == <<remembered, durable>>

Init == remembered = {} /\ durable = {}

Remember(n) == remembered' = remembered \cup {n} /\ UNCHANGED durable

ForgetAll == remembered' = {} /\ UNCHANGED durable

Sync == durable' = remembered /\ UNCHANGED remembered

Crash == remembered' = durable /\ UNCHANGED durable

Next == (\E n \in Names : Remember(n)) \/ ForgetAll \/ Sync \/ Crash

Spec == Init /\ [][Next]_vars

=============================================================================
