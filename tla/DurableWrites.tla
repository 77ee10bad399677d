--------------------------- MODULE DurableWrites -----------------------------
(***************************************************************************)
(* What a setData call is promised: once accepted, the write stays queued  *)
(* for its user through anything, is offered to the server until that has  *)
(* stored or refused it, in the order of the calls, and its completion is  *)
(* called at most once.                                                    *)
(***************************************************************************)
EXTENDS Naturals, Sequences, SequencesExt

CONSTANTS MaxWrites, Users,
          Refused      \* the writes the server's rules do not allow

VARIABLES pending,     \* per user: the writes queued, oldest first
          applied,     \* the writes the server has stored at least once
          latest,      \* the write it has stored last, 0 for none
          told         \* per write: what its completion was called with

writesVars == <<pending, applied, latest, told>>

WritesInit ==
    /\ pending = [u \in Users |-> << >>]
    /\ applied = {} /\ latest = 0
    /\ told = [w \in 1 .. MaxWrites |-> << >>]

Accept(u, w) ==
    /\ \A v \in Users : w \notin ToSet(pending[v])
    /\ told[w] = << >> /\ w \notin applied
    /\ pending' = [pending EXCEPT ![u] = Append(@, w)]
    /\ UNCHANGED <<applied, latest, told>>

\* Only a write that is still queued is stored, so that nothing goes back to an
\* older write once a newer one of the same user is done with.
Apply(u, w) ==
    /\ w \in ToSet(pending[u]) /\ w \notin Refused
    /\ applied' = applied \cup {w} /\ latest' = w
    /\ UNCHANGED <<pending, told>>

\* The process may die between the completion and the removal, or the other way
\* round; after a restart nobody waits for the completion any more.
Tell(w, outcome) ==
    /\ told[w] = << >>
    /\ told' = [told EXCEPT ![w] = <<outcome>>]

Succeed(u) ==
    /\ pending[u] # << >> /\ Head(pending[u]) \in applied
    /\ \/ pending' = [pending EXCEPT ![u] = Tail(@)]
       \/ UNCHANGED pending
    /\ Tell(Head(pending[u]), "success") \/ UNCHANGED told
    /\ UNCHANGED <<applied, latest>>

\* A write is given up only after the server has refused one of its queue.
GiveUp(u) ==
    /\ pending[u] # << >> /\ ToSet(pending[u]) \cap Refused # {}
    /\ pending' = [pending EXCEPT ![u] = Tail(@)]
    /\ Tell(Head(pending[u]), "failure") \/ UNCHANGED told
    /\ UNCHANGED <<applied, latest>>

WritesNext ==
    \E u \in Users : \/ Succeed(u) \/ GiveUp(u)
                     \/ \E w \in 1 .. MaxWrites : Accept(u, w) \/ Apply(u, w)

WritesContract == WritesInit /\ [][WritesNext]_writesVars
==============================================================================
