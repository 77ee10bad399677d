--------------------------- MODULE MCFirestoreGet ----------------------------
(* Two calls for one query: the second may join the listener of the first,  *)
(* come while that one is being removed, or open the view again.            *)
EXTENDS FirestoreGet, TLC

CONSTANTS g1, g2, feed

MCGets == {g1, g2}
MCQueries == {feed}
MCQueryOf == [g \in MCGets |-> feed]
==============================================================================
