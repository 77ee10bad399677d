------------------------------- MODULE MCShopVC -------------------------------
(* Five shops over the four categories, three of them with the same score; *)
(* a catalogue that stocks every category and two that do not.             *)
EXTENDS ShopVC

MCShops == 1 .. 5
MCCategoryOf == <<"food", "fresh", "fun", "travel", "food">>
MCScoreOf == <<4, 5, 4, 3, 4>>
MCCatalogues == {<< >>, <<1, 2, 3, 4, 5>>, <<5, 2>>}
=============================================================================
