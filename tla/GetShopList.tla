----------------------------- MODULE GetShopList -----------------------------
(***************************************************************************)
(* FirestoreManager.getShopList as the shop page calls it: up to six shops *)
(* to recommend beside one shop, taken first among the shops of its kind,  *)
(* then, by a second query made when the first has answered, among those   *)
(* of its category.  What a query may answer is a sequence of shops, in    *)
(* the "priority" order of the collection; a shop is a number.             *)
(*                                                                         *)
(* Wanted is the literal 6 of the code, a parameter so that small          *)
(* databases reach both of its sides.                                      *)
(***************************************************************************)
EXTENDS Naturals, SequencesExt

CONSTANT Wanted

ASSUME WantedAssumption == Wanted \in Nat \ {0}

\* limit(to: n)
Page(docs, n) == IF Len(docs) <= n THEN docs ELSE SubSeq(docs, 1, n)

\* The loop of both completions over the documents: kept[i] is what it has
\* appended of the first i.
Others(docs, own) ==
    LET kept[i \in 0 .. Len(docs)] ==
            IF i = 0 THEN << >>
            ELSE IF docs[i] # own THEN Append(kept[i - 1], docs[i])
            ELSE kept[i - 1]
    IN kept[Len(docs)]

\* The first query: the shops of the kind, without the shop itself.
SameKind(docs, own) == Others(Page(docs, Wanted + 1), own)

\* The second query is made only while shops are missing; there is no other
\* completion of a first query that succeeded.
AsksCategory(found) == Len(found) < Wanted

\* Variant: the loop does not stop at the number of missing shops.
SameCategoryAll(docs, own, togo) == Others(Page(docs, togo + 1), own)

\* The second query: the loop leaves at the shopsToGo-th other shop.
SameCategory(docs, own, togo) ==
    Page(Others(Page(docs, togo + 1), own), togo)

=============================================================================
