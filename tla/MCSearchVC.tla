------------------------------ MODULE MCSearchVC ------------------------------
(* TLC instance of SearchVC: what the server knows of popular searches,    *)
(* and the symmetry of the overlay views.                                  *)
EXTENDS SearchVC, TLC

Symmetry == Permutations(Views)
MCHotSearches == {<< >>, <<"a">>}
=============================================================================
