----------------------------- MODULE OneShotGet ------------------------------
(***************************************************************************)
(* What the screens of the app take for granted of a getDocuments or       *)
(* getDocument call: its completion is called, and called once.            *)
(***************************************************************************)
EXTENDS Naturals

CONSTANT Gets
VARIABLES called,       \* the calls made
          completions   \* how often each completion was called

getVars == <<called, completions>>

GetInit == called = {} /\ completions = [g \in Gets |-> 0]

Call(g) ==
    /\ g \notin called
    /\ called' = called \cup {g}
    /\ UNCHANGED completions

Complete(g) ==
    /\ g \in called /\ completions[g] = 0
    /\ completions' = [completions EXCEPT ![g] = 1]
    /\ UNCHANGED called

GetNext == \E g \in Gets : Call(g) \/ Complete(g)

GetContract ==
    /\ GetInit /\ [][GetNext]_getVars
    /\ \A g \in Gets : WF_getVars(Complete(g))
==============================================================================
