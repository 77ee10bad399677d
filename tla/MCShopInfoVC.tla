----------------------------- MODULE MCShopInfoVC -----------------------------
(* Shop 2 is the page's; with two shops wanted, its kind has none, one or  *)
(* enough others, and its category overlaps its kind.                      *)
EXTENDS ShopInfoVC

MCKindDocs == {<<2>>, <<1, 2>>, <<1, 2, 3>>, <<3, 4, 5>>}
MCCategoryDocs == {<<2>>, <<1, 3, 4>>, <<2, 3, 4, 5>>}
===============================================================================
