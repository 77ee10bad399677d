-------------------------- MODULE PersistenceManager --------------------------
(***************************************************************************)
(* PersistenceManager: the search history kept in UserDefaults.  A         *)
(* SearchTag is represented by its name, which is all its == compares.     *)
(*                                                                         *)
(* UserDefaults is outside the program: set() changes the value the        *)
(* process sees at once and reaches the disk later, so a process that dies *)
(* in between comes back with an earlier value.                            *)
(***************************************************************************)
EXTENDS Naturals, Sequences, Functions

CONSTANT Names

VARIABLES
    defaults,   \* the history the running process reads, newest first
    disk        \* the history the next process would read

historyVars == <<defaults, disk>>

\* retrieveHistories, decoded: no value under the key reads as no history.
retrieveHistories == defaults

\* saveHistories
saveHistories(h) == defaults' = h /\ UNCHANGED disk

\* Variant: a name already there goes to the front.
MoveToFront(h, n) == <<n>> \o SelectSeq(h, LAMBDA x : x # n)

\* .add: a name already there stays where it is.
Inserted(h, n) == IF n \in Range(h) THEN h ELSE <<n>> \o h

\* updateWith(history:actionType:completed:), the two action types.
add(n) == saveHistories(Inserted(retrieveHistories, n))

\* Variant: only the oldest entry goes.
removeLast == saveHistories(IF retrieveHistories = << >> THEN << >>
                            ELSE SubSeq(retrieveHistories, 1,
                                        Len(retrieveHistories) - 1))

remove == saveHistories(<< >>)

\* UserDefaults writes its values out.
Flush == disk' = defaults /\ UNCHANGED defaults

\* The process dies and another one reads what was written out.
LoseUnflushed == defaults' = disk /\ UNCHANGED disk

HistoryInit == defaults = << >> /\ disk = << >>

HistoryNext ==
    \/ \E n \in Names : add(n)
    \/ remove
    \/ Flush
    \/ LoseUnflushed

HistorySpec == HistoryInit /\ [][HistoryNext]_historyVars

-----------------------------------------------------------------------------
HistoryTypeOK == defaults \in Seq(Names) /\ disk \in Seq(Names)

(***************************************************************************)
(* No name is kept twice, in the process or across its death.              *)
(***************************************************************************)
UniqueNames == IsInjective(defaults) /\ IsInjective(disk)

\* x was searched for after y.
Newer(h, x, y) == \E i, j \in DOMAIN h : h[i] = x /\ h[j] = y /\ i < j

(***************************************************************************)
(* Two names keep their order as long as the process remembers both: a     *)
(* repeated search does not move its name to the front.                    *)
(***************************************************************************)
OrderKept ==
    [][LoseUnflushed \/ \A x, y \in Range(defaults) \cap Range(defaults') :
           Newer(defaults, x, y) <=> Newer(defaults', x, y)]_historyVars

(***************************************************************************)
(* The list implements the set of remembered searches: a search is         *)
(* remembered until all are cleared, and a crash restores one earlier      *)
(* state of the whole set, never a mixture.                                *)
(***************************************************************************)
Contract ==
    INSTANCE HistoryContract
    WITH remembered <- Range(defaults), durable <- Range(disk)

ImplementsContract == Contract!Spec

=============================================================================
