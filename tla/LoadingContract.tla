--------------------------- MODULE LoadingContract ---------------------------
(***************************************************************************)
(* What the loading overlay promises the user, whatever screen shows it:   *)
(* the screen is covered exactly while some load that was begun has not    *)
(* been ended.  It is the abstract specification the screens implement.    *)
(***************************************************************************)
EXTENDS Naturals

VARIABLES
    pending,    \* loads begun and not ended
    covered     \* an overlay is over the screen

vars == <<pending, covered>>

Init == pending = 0 /\ covered = FALSE

Begin == pending' = pending + 1 /\ covered' = TRUE

End ==
    /\ pending > 0
    /\ pending' = pending - 1
    /\ covered' = (pending' > 0)

\* The process dies and is launched again.
Restart == pending' = 0 /\ covered' = FALSE

Next == Begin \/ End \/ Restart

Spec == Init /\ [][Next]_vars

FairSpec == Spec /\ WF_vars(End)

(***************************************************************************)
(* The user is not locked out for ever.                                    *)
(***************************************************************************)
Released == [](covered => <>(~covered))

=============================================================================
