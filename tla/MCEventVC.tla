------------------------------ MODULE MCEventVC ------------------------------
(* A load may bring the list again, or with the items in another order and *)
(* another image, or nothing; a shop cell and a row share an address.      *)
EXTENDS EventVC

a == [id |-> "a", url |-> "u"]
b == [id |-> "b", url |-> "v"]
bNew == [id |-> "b", url |-> "bad"]

MCItems == {a, b, bNew}
MCLists == {<< >>, <<a, b>>, <<bNew, a>>}
===============================================================================
