----------------------------- MODULE ShopVC_proofs -----------------------------
(***************************************************************************)
(* Proofs about ShopVC, for every set of shops, every catalogue the server *)
(* may answer with and every instance, with or without a category.  Most   *)
(* leave what a filter computes abstract and only use that it does not     *)
(* depend on the filter before; the last follows its loop shop by shop.    *)
(***************************************************************************)
EXTENDS ShopVC, FiniteSetTheorems, SequenceTheorems, WellFoundedInduction,
        TLAPS

-----------------------------------------------------------------------------
\* The lists a filter may make of a catalogue.
Produced(s) == UNION {Filtered(<< >>, o, s) : o \in Options}

Ops == {"dismissLoadingView", "apply", "presentFLAlert"}

Block == [op : Ops, list : {<< >>} \cup UNION {Produced(c) : c \in Catalogues}]

\* The new list owes nothing to the list of the filter before.
LEMMA FilterFromWhole ==
    ASSUME NEW old, NEW s, NEW o \in Options, NEW t \in Filtered(old, o, s)
    PROVE  t \in Produced(s)
<1>1. t \in Filtered(<< >>, o, s)
    BY DEF Filtered, Options
<1> QED BY <1>1 DEF Produced

LEMMA WholeIsProduced == \A s : s \in Produced(s)
<1> TAKE s
<1>1. "recommended" \in Options /\ s \in Filtered(<< >>, "recommended", s)
    BY DEF Options, Categories, Filtered
<1> QED BY <1>1 DEF Produced

-----------------------------------------------------------------------------
(* The inductive invariant.                                                *)

TypeInv ==
    /\ category \in Categories \cup {NoCategory}
    /\ screen \in {"new", "alive", "popped"}
    /\ inFlight \in {0, 1}
    /\ hasSections \in BOOLEAN
    /\ shopList \in Catalogues \/ ~hasSections
    /\ mainQ \in Seq(Block)
    /\ crash \in {"no", "scroll", "select"}

\* Nothing is on display, held or posted until the answer.
Blank == mainQ = << >> /\ ~hasSections /\ shown = << >> /\ list = << >>

OneLoad ==
    /\ screen = "new" \/ inFlight = 1 => Blank
    /\ screen = "new" => inFlight = 0 /\ crash = "no"
    /\ \A i, j \in Dismissals(mainQ) : i = j

\* An overlay is up, and referred to, exactly as long as the load is owed a
\* dismissal.
Covered ==
    IF inFlight = 1 \/ Dismissals(mainQ) # {}
    THEN overlay.container # NoView /\ overlay.subviews = {overlay.container}
    ELSE overlay.container = NoView /\ overlay.subviews = {}

\* What is displayed, now or by a block, is a filter's list of the catalogue.
DisplayedIsProduced ==
    /\ hasSections => shown \in Produced(shopList)
    /\ ~hasSections => shown = << >>
    /\ \A i \in DOMAIN mainQ :
           mainQ[i].op = "apply" =>
               shopList \in Catalogues /\ mainQ[i].list \in Produced(shopList)

\* The list held is the one displayed last, or by the last block that will.
HeldIsLast ==
    /\ (\A i \in DOMAIN mainQ : mainQ[i].op # "apply") => shown = list
    /\ \A i \in DOMAIN mainQ :
           mainQ[i].op = "apply"
               /\ (\A j \in DOMAIN mainQ : j > i => mainQ[j].op # "apply")
           => mainQ[i].list = list

TrapsNamed ==
    /\ crash = "scroll" => << >> \in Produced(shopList)
    /\ crash = "select" => \E i \in DOMAIN mainQ : mainQ[i].op = "apply"

ShopIInv ==
    /\ TypeInv /\ OneLoad /\ Covered
    /\ DisplayedIsProduced /\ HeldIsLast /\ TrapsNamed

-----------------------------------------------------------------------------
(* Blocks and queues.                                                      *)

LEMMA BlockTypes ==
    /\ DismissOverlay \in Block /\ DismissOverlay.op = "dismissLoadingView"
    /\ ShowAlert \in Block /\ ShowAlert.op = "presentFLAlert"
    /\ \A c \in Catalogues : \A l \in Produced(c) :
           ApplyList(l) \in Block /\ ApplyList(l).op = "apply"
               /\ ApplyList(l).list = l
BY DEF DismissOverlay, ShowAlert, ApplyList, Block, Ops

LEMMA TwoBlocks ==
    ASSUME NEW a \in Block, NEW b \in Block
    PROVE  /\ << >> \o <<a, b>> \in Seq(Block)
           /\ DOMAIN (<< >> \o <<a, b>>) = {1, 2}
           /\ (<< >> \o <<a, b>>)[1] = a /\ (<< >> \o <<a, b>>)[2] = b
<1>1. << >> \o <<a, b>> = <<a, b>>
    OBVIOUS
<1>2. <<a, b>> \in Seq(Block) /\ DOMAIN <<a, b>> = 1 .. 2 /\ 1 .. 2 = {1, 2}
    OBVIOUS
<1> QED BY <1>1, <1>2

LEMMA OneMore ==
    ASSUME NEW q \in Seq(Block), NEW b \in Block
    PROVE  /\ Append(q, b) \in Seq(Block)
           /\ DOMAIN q = 1 .. Len(q) /\ Len(q) \in Nat
           /\ DOMAIN Append(q, b) = 1 .. Len(q) + 1
           /\ Append(q, b)[Len(q) + 1] = b
           /\ \A i \in 1 .. Len(q) : Append(q, b)[i] = q[i]
OBVIOUS

LEMMA OneLess ==
    ASSUME NEW q \in Seq(Block), q # << >>
    PROVE  /\ Tail(q) \in Seq(Block) /\ Head(q) = q[1] /\ Head(q) \in Block
           /\ DOMAIN q = 1 .. Len(q) /\ Len(q) \in Nat /\ Len(q) >= 1
           /\ DOMAIN Tail(q) = 1 .. Len(q) - 1
           /\ \A i \in 1 .. Len(q) - 1 : Tail(q)[i] = q[i + 1]
BY HeadTailProperties, EmptySeq

\* With one dismissal at most, a queue owes one or none.
LEMMA DismissalsCount ==
    ASSUME NEW q, \A i, j \in Dismissals(q) : i = j
    PROVE  Cardinality(Dismissals(q)) = IF Dismissals(q) = {} THEN 0 ELSE 1
<1>1. CASE Dismissals(q) = {}
    BY <1>1, FS_EmptySet
<1>2. CASE Dismissals(q) # {}
    <2>1. PICK i : Dismissals(q) = {i}
        BY <1>2
    <2> QED BY <2>1, <1>2, FS_Singleton
<1> QED BY <1>1, <1>2

-----------------------------------------------------------------------------
(* One lemma for each handler.                                             *)

LEMMA InitInv == Init => ShopIInv
<1> SUFFICES ASSUME Init PROVE ShopIInv
    OBVIOUS
<1>1. Dismissals(mainQ) = {} /\ DOMAIN mainQ = {} /\ mainQ \in Seq(Block)
    <2>1. mainQ = << >>
        BY DEF Init
    <2>2. DOMAIN << >> = {} /\ << >> \in Seq(Block)
        OBVIOUS
    <2> QED BY <2>1, <2>2 DEF Dismissals
<1>2. ~hasSections /\ crash = "no" /\ shown = << >> /\ list = << >>
    BY DEF Init
<1>3. TypeInv
    BY <1>1, <1>2 DEF Init, TypeInv
<1>4. OneLoad
    BY <1>1, <1>2 DEF Init, OneLoad, Blank
<1>5. Covered
    BY <1>1 DEF Init, Covered, NoOverlay
<1>6. DisplayedIsProduced /\ HeldIsLast /\ TrapsNamed
    BY <1>1, <1>2 DEF DisplayedIsProduced, HeldIsLast, TrapsNamed
<1> QED BY <1>3, <1>4, <1>5, <1>6 DEF ShopIInv

\* The only load of the instance.
LEMMA LoadKeeps ==
    ASSUME ShopIInv, viewDidLoad, UNCHANGED category
    PROVE  ShopIInv'
<1>1. Blank /\ inFlight = 0 /\ crash = "no" /\ screen' = "alive"
    BY DEF viewDidLoad, ShopIInv, OneLoad
<1>2. /\ inFlight' = 1
      /\ UNCHANGED <<category, shopList, list, hasSections, shown, mainQ, crash>>
    BY <1>1 DEF viewDidLoad
<1>3. PICK v \in FreshViews(overlay) : overlay' = showLoadingView(overlay, v)
    BY DEF viewDidLoad
<1>4. overlay'.container = v /\ overlay'.subviews = {v} /\ v # NoView
    <2>1. Dismissals(mainQ) = {}
        BY <1>1 DEF Blank, Dismissals
    <2>2. overlay.subviews = {}
        BY <1>1, <2>1 DEF ShopIInv, Covered
    <2> QED BY <1>3, <2>2, NoViewAssumption DEF FreshViews, showLoadingView
<1>5. TypeInv'
    BY <1>1, <1>2 DEF ShopIInv, TypeInv
<1>6. OneLoad'
    BY <1>1, <1>2 DEF ShopIInv, OneLoad, Blank, Dismissals
<1>7. Covered'
    BY <1>2, <1>4 DEF Covered
<1>8. DisplayedIsProduced' /\ HeldIsLast' /\ TrapsNamed'
    BY <1>1, <1>2 DEF ShopIInv, DisplayedIsProduced, HeldIsLast, TrapsNamed
<1> QED BY <1>5, <1>6, <1>7, <1>8 DEF ShopIInv

\* The screen is popped, an alert confirmed, or a cell taps past the list:
\* the load and its blocks stay as they are.
LEMMA QuietKeeps ==
    ASSUME ShopIInv, screen' = screen \/ (screen = "alive" /\ screen' = "popped"),
           UNCHANGED <<category, overlay, inFlight, shopList, list, hasSections,
                       shown, mainQ>>,
           \/ crash' = crash
           \/ crash' = "select" /\ screen # "new" /\ shown # list
    PROVE  ShopIInv'
<1>1. TypeInv'
    BY DEF ShopIInv, TypeInv
<1>2. OneLoad'
    BY DEF ShopIInv, OneLoad, Blank, Dismissals
<1>3. Covered'
    BY DEF ShopIInv, Covered, Dismissals
<1>4. DisplayedIsProduced' /\ HeldIsLast'
    BY DEF ShopIInv, DisplayedIsProduced, HeldIsLast
<1>5. TrapsNamed'
    <2>1. shown # list => \E i \in DOMAIN mainQ : mainQ[i].op = "apply"
        BY DEF ShopIInv, HeldIsLast
    <2> QED BY <2>1 DEF ShopIInv, TrapsNamed
<1> QED BY <1>1, <1>2, <1>3, <1>4, <1>5 DEF ShopIInv

\* Both answers turn the load into one dismissal, behind another block.
LEMMA AnswerKeeps ==
    ASSUME ShopIInv, GetShopsAnswer, UNCHANGED category
    PROVE  ShopIInv'
<1>1. PICK b \in Block :
          /\ mainQ' = << >> \o <<b, DismissOverlay>>
          /\ b.op # "dismissLoadingView"
          /\ b.op = "apply" =>
                 /\ shopList' \in Catalogues /\ list' \in Produced(shopList')
                 /\ b.list = list'
          /\ b.op # "apply" => UNCHANGED <<shopList, list>>
          /\ Running /\ inFlight = 1 /\ inFlight' = 0
          /\ UNCHANGED <<screen, overlay, hasSections, shown, crash>>
          /\ Blank
    <2>1. inFlight > 0 => inFlight = 1
        BY DEF ShopIInv, TypeInv
    <2>2. inFlight = 1 => Blank /\ mainQ = << >>
        BY DEF ShopIInv, OneLoad, Blank
    <2>3. CASE GetShopsFailure
        <3>1. /\ Running /\ inFlight = 1 /\ inFlight' = 0 /\ Blank
              /\ UNCHANGED <<screen, overlay, hasSections, shown, crash,
                             shopList, list>>
              /\ mainQ' = << >> \o <<ShowAlert, DismissOverlay>>
            BY <2>1, <2>2, <2>3 DEF GetShopsFailure
        <3> QED BY <3>1, BlockTypes
    <2>4. CASE \E c \in Catalogues : GetShopsSuccess(c)
        <3>1. PICK c \in Catalogues : GetShopsSuccess(c)
            BY <2>4
        <3>2. /\ Running /\ inFlight = 1 /\ inFlight' = 0 /\ Blank
              /\ UNCHANGED <<screen, overlay, hasSections, shown, crash>>
              /\ mainQ' = << >> \o <<ApplyList(list'), DismissOverlay>>
              /\ shopList' = c
            BY <2>1, <2>2, <3>1 DEF GetShopsSuccess
        <3>3. list' \in Produced(c)
            <4>1. CASE category = NoCategory
                BY <3>1, <4>1, WholeIsProduced DEF GetShopsSuccess
            <4>2. CASE category # NoCategory
                <5>1. category \in Options
                    BY <4>2 DEF ShopIInv, TypeInv, Options
                <5>2. list' \in Filtered(filterShopList, category, c)
                    BY <3>1, <4>2 DEF GetShopsSuccess, filterShop
                <5> QED BY <5>1, <5>2, FilterFromWhole
            <4> QED BY <4>1, <4>2
        <3> QED BY <3>2, <3>3, BlockTypes
    <2> QED BY <2>3, <2>4 DEF GetShopsAnswer
<1>2. /\ mainQ' \in Seq(Block) /\ DOMAIN mainQ' = {1, 2}
      /\ mainQ'[1] = b /\ mainQ'[2] = DismissOverlay
      /\ DismissOverlay.op = "dismissLoadingView"
    BY <1>1, TwoBlocks, BlockTypes
<1>3. Dismissals(mainQ') = {2}
    BY <1>1, <1>2 DEF Dismissals
<1>4. ~hasSections' /\ shown' = << >> /\ screen' = "alive" /\ crash' = "no"
    BY <1>1 DEF Running, Blank
<1>5. TypeInv'
    BY <1>1, <1>2, <1>4 DEF ShopIInv, TypeInv
<1>6. OneLoad'
    BY <1>1, <1>3, <1>4 DEF OneLoad
<1>7. Covered'
    BY <1>1, <1>3 DEF ShopIInv, Covered
<1>8. DisplayedIsProduced'
    BY <1>1, <1>2, <1>4 DEF DisplayedIsProduced
<1>9. HeldIsLast'
    <2>1. CASE b.op = "apply"
        BY <1>1, <1>2, <2>1 DEF HeldIsLast
    <2>2. CASE b.op # "apply"
        BY <1>1, <1>2, <1>4, <2>2 DEF HeldIsLast, Blank
    <2> QED BY <2>1, <2>2
<1>10. TrapsNamed'
    BY <1>4 DEF TrapsNamed
<1> QED BY <1>5, <1>6, <1>7, <1>8, <1>9, <1>10 DEF ShopIInv

\* A filter, before which a snapshot was displayed: the answer is in.
LEMMA FilterKeeps ==
    ASSUME ShopIInv, NEW o \in Options, didRequestToUpdateShops(o),
           UNCHANGED category
    PROVE  ShopIInv'
<1>1. /\ Running /\ hasSections /\ mainQ' = Append(mainQ, ApplyList(list'))
      /\ crash' = (IF shown = << >> THEN "scroll" ELSE "no")
      /\ UNCHANGED <<category, screen, overlay, inFlight, shopList, hasSections,
                     shown>>
    BY DEF didRequestToUpdateShops, Touchable
<1>2. /\ list' \in Produced(shopList) /\ shopList \in Catalogues
      /\ ApplyList(list') \in Block /\ ApplyList(list').op = "apply"
      /\ ApplyList(list').list = list'
    <2>1. list' \in Filtered(filterShopList, o, shopList)
        BY DEF didRequestToUpdateShops, filterShop
    <2>2. list' \in Produced(shopList) /\ shopList \in Catalogues
        BY <1>1, <2>1, FilterFromWhole DEF ShopIInv, TypeInv
    <2> QED BY <2>2, BlockTypes
<1> DEFINE n == Len(mainQ)
           b == ApplyList(list')
<1>3. /\ mainQ' \in Seq(Block) /\ DOMAIN mainQ = 1 .. n /\ n \in Nat
      /\ DOMAIN mainQ' = 1 .. n + 1
      /\ mainQ'[n + 1] = b /\ \A i \in 1 .. n : mainQ'[i] = mainQ[i]
    BY <1>1, <1>2, OneMore DEF ShopIInv, TypeInv
<1> HIDE DEF n, b
<1>4. Dismissals(mainQ') = Dismissals(mainQ)
    BY <1>2, <1>3 DEF Dismissals, b
<1>5. screen = "alive" /\ inFlight = 0
    BY <1>1 DEF Running, ShopIInv, OneLoad, Blank, TypeInv
<1>6. TypeInv'
    BY <1>1, <1>3, <1>5 DEF ShopIInv, TypeInv
<1>7. OneLoad'
    BY <1>1, <1>4, <1>5 DEF ShopIInv, OneLoad
<1>8. Covered'
    BY <1>1, <1>4 DEF ShopIInv, Covered
<1>9. DisplayedIsProduced'
    BY <1>1, <1>2, <1>3 DEF ShopIInv, DisplayedIsProduced, b
<1>10. HeldIsLast'
    BY <1>2, <1>3 DEF HeldIsLast, b
<1>11. TrapsNamed'
    BY <1>1 DEF ShopIInv, DisplayedIsProduced, TrapsNamed
<1> QED BY <1>6, <1>7, <1>8, <1>9, <1>10, <1>11 DEF ShopIInv

\* The oldest block runs.  A dismissal finds the overlay of the only load.
LEMMA BlockKeeps ==
    ASSUME ShopIInv, RunBlock, UNCHANGED category
    PROVE  ShopIInv'
<1> DEFINE n == Len(mainQ)
<1>1. /\ Running /\ mainQ # << >> /\ mainQ' = Tail(mainQ)
      /\ UNCHANGED <<category, screen, inFlight, shopList, list>>
    BY DEF RunBlock
<1>2. /\ mainQ' \in Seq(Block) /\ Head(mainQ) = mainQ[1] /\ mainQ[1] \in Block
      /\ DOMAIN mainQ = 1 .. n /\ n \in Nat /\ n >= 1
      /\ DOMAIN mainQ' = 1 .. n - 1
      /\ \A i \in 1 .. n - 1 : mainQ'[i] = mainQ[i + 1]
    BY <1>1, OneLess DEF ShopIInv, TypeInv
<1> HIDE DEF n
<1>3. screen = "alive" /\ crash = "no" /\ inFlight = 0
    BY <1>1 DEF Running, ShopIInv, OneLoad, Blank, TypeInv
<1>4. /\ \A i \in Dismissals(mainQ') : i + 1 \in Dismissals(mainQ)
      /\ \A i \in Dismissals(mainQ) : i = 1 \/ i - 1 \in Dismissals(mainQ')
      /\ \A i \in Dismissals(mainQ') : i \in Nat \ {0}
      /\ \A i, j \in Dismissals(mainQ) : i = j
    BY <1>2 DEF Dismissals, ShopIInv, OneLoad
<1>5. \A i, j \in Dismissals(mainQ') : i = j
    BY <1>4
<1>6. OneLoad'
    BY <1>1, <1>3, <1>5 DEF OneLoad
<1>7. ASSUME mainQ[1].op # "apply", UNCHANGED <<hasSections, shown>>
      PROVE  DisplayedIsProduced' /\ HeldIsLast'
    <2>1. DisplayedIsProduced'
        BY <1>1, <1>2, <1>7 DEF ShopIInv, DisplayedIsProduced
    <2>2. (\A i \in DOMAIN mainQ' : mainQ'[i].op # "apply") => shown' = list'
        <3> SUFFICES ASSUME \A i \in DOMAIN mainQ' : mainQ'[i].op # "apply"
                     PROVE  \A i \in DOMAIN mainQ : mainQ[i].op # "apply"
            BY <1>1, <1>7 DEF ShopIInv, HeldIsLast
        <3> TAKE i \in DOMAIN mainQ
        <3>1. CASE i = 1
            BY <1>7, <3>1
        <3>2. CASE i # 1
            <4>1. i - 1 \in DOMAIN mainQ' /\ mainQ'[i - 1] = mainQ[i]
                BY <1>2, <3>2
            <4> QED BY <4>1
        <3> QED BY <3>1, <3>2
    <2>3. ASSUME NEW i \in DOMAIN mainQ', mainQ'[i].op = "apply",
                 \A j \in DOMAIN mainQ' : j > i => mainQ'[j].op # "apply"
          PROVE  mainQ'[i].list = list'
        <3>1. i + 1 \in DOMAIN mainQ /\ mainQ[i + 1] = mainQ'[i] /\ i \in Nat
            BY <1>2
        <3>2. ASSUME NEW j \in DOMAIN mainQ, j > i + 1
              PROVE  mainQ[j].op # "apply"
            <4>1. j - 1 \in DOMAIN mainQ' /\ mainQ'[j - 1] = mainQ[j] /\ j - 1 > i
                BY <1>2, <3>1, <3>2
            <4> QED BY <2>3, <4>1
        <3> QED BY <1>1, <2>3, <3>1, <3>2 DEF ShopIInv, HeldIsLast
    <2> QED BY <2>1, <2>2, <2>3 DEF HeldIsLast
<1>8. CASE RunDismiss
    <2>1. mainQ[1].op = "dismissLoadingView" /\ UNCHANGED <<hasSections, shown>>
        BY <1>2, <1>8 DEF RunDismiss
    <2>2. 1 \in Dismissals(mainQ) /\ Dismissals(mainQ') = {}
        <3>1. 1 \in Dismissals(mainQ)
            BY <1>2, <2>1 DEF Dismissals
        <3> QED BY <1>4, <3>1
    <2>3. overlay.container # NoView /\ overlay.subviews = {overlay.container}
        BY <2>2 DEF ShopIInv, Covered
    <2>4. /\ overlay' = DismissBlock(overlay) /\ crash' = crash
        BY <1>8, <2>3 DEF RunDismiss, CanDismiss
    <2>5. Covered'
        BY <1>1, <1>3, <2>2, <2>3, <2>4 DEF Covered, DismissBlock
    <2>6. TypeInv' /\ TrapsNamed'
        BY <1>1, <1>2, <1>3, <2>1, <2>4 DEF ShopIInv, TypeInv, TrapsNamed
    <2> QED BY <1>6, <1>7, <2>1, <2>5, <2>6 DEF ShopIInv
<1>9. ASSUME mainQ[1].op # "dismissLoadingView"
      PROVE  (Dismissals(mainQ') = {}) = (Dismissals(mainQ) = {})
    <2>1. 1 \notin Dismissals(mainQ)
        BY <1>9 DEF Dismissals
    <2> QED BY <1>4, <2>1
<1>10. CASE RunAlert
    <2>1. mainQ[1].op = "presentFLAlert"
              /\ UNCHANGED <<overlay, hasSections, shown, crash>>
        BY <1>2, <1>10 DEF RunAlert
    <2>2. Covered'
        BY <1>1, <1>9, <2>1 DEF ShopIInv, Covered
    <2>3. TypeInv' /\ TrapsNamed'
        BY <1>1, <1>2, <1>3, <2>1 DEF ShopIInv, TypeInv, TrapsNamed
    <2> QED BY <1>6, <1>7, <2>1, <2>2, <2>3 DEF ShopIInv
<1>11. CASE RunApply
    <2>1. /\ mainQ[1].op = "apply" /\ hasSections' /\ hasSections' = TRUE
          /\ shown' = mainQ[1].list
          /\ UNCHANGED <<overlay, crash>>
        BY <1>2, <1>11 DEF RunApply
    <2>2. Covered'
        BY <1>1, <1>9, <2>1 DEF ShopIInv, Covered
    <2>3. shown' \in Produced(shopList) /\ shopList \in Catalogues
        BY <1>2, <2>1 DEF ShopIInv, DisplayedIsProduced
    <2>4. TypeInv' /\ TrapsNamed'
        BY <1>1, <1>2, <1>3, <2>1, <2>3 DEF ShopIInv, TypeInv, TrapsNamed
    <2>5. DisplayedIsProduced'
        BY <1>1, <1>2, <2>1, <2>3 DEF ShopIInv, DisplayedIsProduced
    <2>6. (\A i \in DOMAIN mainQ' : mainQ'[i].op # "apply") => shown' = list'
        <3> SUFFICES ASSUME \A i \in DOMAIN mainQ' : mainQ'[i].op # "apply"
                     PROVE  shown' = list'
            OBVIOUS
        <3>1. ASSUME NEW j \in DOMAIN mainQ, j > 1
              PROVE  mainQ[j].op # "apply"
            <4>1. j - 1 \in DOMAIN mainQ' /\ mainQ'[j - 1] = mainQ[j]
                BY <1>2, <3>1
            <4> QED BY <4>1
        <3>2. 1 \in DOMAIN mainQ
            BY <1>2
        <3> QED BY <1>1, <2>1, <3>1, <3>2 DEF ShopIInv, HeldIsLast
    <2>7. ASSUME NEW i \in DOMAIN mainQ', mainQ'[i].op = "apply",
                 \A j \in DOMAIN mainQ' : j > i => mainQ'[j].op # "apply"
          PROVE  mainQ'[i].list = list'
        <3>1. i + 1 \in DOMAIN mainQ /\ mainQ[i + 1] = mainQ'[i] /\ i \in Nat
            BY <1>2
        <3>2. ASSUME NEW j \in DOMAIN mainQ, j > i + 1
              PROVE  mainQ[j].op # "apply"
            <4>1. j - 1 \in DOMAIN mainQ' /\ mainQ'[j - 1] = mainQ[j] /\ j - 1 > i
                BY <1>2, <3>1, <3>2
            <4> QED BY <2>7, <4>1
        <3> QED BY <1>1, <2>7, <3>1, <3>2 DEF ShopIInv, HeldIsLast
    <2>8. HeldIsLast'
        BY <2>6, <2>7 DEF HeldIsLast
    <2> QED BY <1>6, <2>2, <2>4, <2>5, <2>8 DEF ShopIInv
<1> QED BY <1>8, <1>10, <1>11 DEF RunBlock

LEMMA NextInv == ShopIInv /\ [Next]_vars => ShopIInv'
<1> SUFFICES ASSUME ShopIInv, [Next]_vars PROVE ShopIInv'
    OBVIOUS
<1>1. CASE backToHome /\ UNCHANGED category
    BY <1>1, QuietKeeps DEF backToHome, Running
<1>2. CASE ConfirmAlert /\ UNCHANGED category
    BY <1>2, QuietKeeps DEF ConfirmAlert
<1>3. ASSUME NEW i \in 1 .. Len(shown), didSelectItemAt(i), UNCHANGED category
      PROVE  ShopIInv'
    <2>1. shown # list /\ crash' = "select" /\ screen # "new"
        BY <1>3 DEF didSelectItemAt, Touchable, Running
    <2> QED BY <1>3, <2>1, QuietKeeps DEF didSelectItemAt
<1>4. CASE UNCHANGED vars
    BY <1>4, QuietKeeps DEF vars
<1> QED BY <1>1, <1>2, <1>3, <1>4, LoadKeeps, AnswerKeeps, FilterKeeps, BlockKeeps
        DEF Next, Step

LEMMA Invariance == Spec => []ShopIInv
BY InitInv, NextInv, PTL DEF Spec

-----------------------------------------------------------------------------
(* The theorems.                                                           *)

(***************************************************************************)
(* On a screen that loads once the dismissal never traps                   *)
(* (FLDataLoadingVC:41); a filter traps on its scroll (ShopVC:269) only if *)
(* some filter of the catalogue is empty, and a tapped cell (ShopVC:284)   *)
(* only while a new list waits to be displayed.                            *)
(***************************************************************************)
THEOREM ShopTrapsExplained == Spec => []TrapsExplained
<1>1. ShopIInv => TrapsExplained
    <2> SUFFICES ASSUME ShopIInv PROVE TrapsExplained
        OBVIOUS
    <2>1. crash = "scroll" => \E o \in Options : << >> \in Filtered(<< >>, o, shopList)
        BY DEF ShopIInv, TrapsNamed, Produced
    <2> QED BY <2>1 DEF ShopIInv, TypeInv, TrapsNamed, TrapsExplained
<1> QED BY <1>1, Invariance, PTL

\* Covered while the load is outstanding, and only then.
CoveredIsOwed ==
    /\ Outstanding \in {0, 1}
    /\ (screen # "popped" /\ overlay.subviews # {}) = (Outstanding = 1)

LEMMA ShopCovered == ShopIInv => CoveredIsOwed
<1> SUFFICES ASSUME ShopIInv PROVE CoveredIsOwed
    OBVIOUS
<1>1. inFlight = 1 => Dismissals(mainQ) = {}
    BY DEF ShopIInv, OneLoad, Blank, Dismissals
<1>2. inFlight \in {0, 1}
    BY DEF ShopIInv, TypeInv
<1>3. Cardinality(Dismissals(mainQ)) = IF Dismissals(mainQ) = {} THEN 0 ELSE 1
    BY DismissalsCount DEF ShopIInv, OneLoad
<1> QED BY <1>1, <1>2, <1>3 DEF CoveredIsOwed, Outstanding, ShopIInv, Covered

(***************************************************************************)
(* The safety half of the loading contract: the screen is covered exactly  *)
(* while its load, or the dismissal the answer posts, is outstanding.      *)
(***************************************************************************)
THEOREM ShopKeepsContract == Spec => Contract!Spec
<1>1. Init => Contract!Init
    <2> SUFFICES ASSUME Init PROVE Contract!Init
        OBVIOUS
    <2>1. Cardinality(Dismissals(mainQ)) = 0
        BY FS_EmptySet DEF Init, Dismissals
    <2> QED BY <2>1 DEF Init, NoOverlay, Contract!Init, Outstanding
<1>2. CoveredIsOwed /\ CoveredIsOwed' => [Contract!Next]_(Contract!vars)
    BY DEF CoveredIsOwed, Contract!Next, Contract!Begin, Contract!End,
           Contract!vars
<1>3. Spec => []CoveredIsOwed
    BY Invariance, ShopCovered, PTL
<1> QED BY <1>1, <1>2, <1>3, PTL DEF Spec, Contract!Spec

-----------------------------------------------------------------------------
(* What a filter makes of a catalogue.                                     *)

\* The least member of a set that some n belongs to.
LEMMA LeastExists ==
    ASSUME NEW S, S \subseteq Nat, S # {}
    PROVE  \E x \in S : \A y \in S : x <= y
<1> DEFINE R == {p \in Nat \X Nat : p[1] < p[2]}
<1>1. \E x \in S : \A y \in S : ~(<<y, x>> \in R)
    BY NatLessThanWellFounded, WFMin DEF OpToRel
<1>2. \A x \in S, y \in S : y < x => <<y, x>> \in R
    OBVIOUS
<1>3. \A x \in S, y \in S : ~(y < x) => x <= y
    OBVIOUS
<1> QED BY <1>1, <1>2, <1>3

\* Induction up to n, as a statement about the set of the numbers reached.
LEMMA UpTo ==
    ASSUME NEW n \in Nat, NEW G, 0 \in G,
           \A i \in 1 .. n : i - 1 \in G => i \in G
    PROVE  0 .. n \subseteq G
<1> DEFINE S == (0 .. n) \ G
<1> SUFFICES ASSUME S # {} PROVE FALSE
    OBVIOUS
<1>1. S \subseteq Nat
    OBVIOUS
<1>2. PICK x \in S : \A y \in S : x <= y
    <2> HIDE DEF S
    <2> QED BY <1>1, LeastExists
<1>3. x \in 1 .. n /\ x - 1 \in 0 .. n /\ ~(x <= x - 1)
    BY <1>2
<1>4. x - 1 \in G
    BY <1>2, <1>3
<1> QED BY <1>2, <1>3, <1>4

\* What the loop does with shop i of the catalogue.
Kept(o, s, before, i) ==
    IF CategoryOf[s[i]] = o THEN Append(before, s[i]) ELSE before

\* The lists of the loop on its way.
Loop(o, s, f) ==
    /\ f[0] = << >>
    /\ \A i \in 1 .. Len(s) : f[i] = Kept(o, s, f[i - 1], i)

\* A function that follows the loop exists, whatever the catalogue is.
LEMMA LoopExists ==
    ASSUME NEW o, NEW s, Len(s) \in Nat
    PROVE  \E f : /\ DOMAIN f = 0 .. Len(s) /\ f[0] = << >>
                  /\ \A i \in 1 .. Len(s) : f[i] = Kept(o, s, f[i - 1], i)
                  /\ f = [i \in 0 .. Len(s) |-> f[i]]
<1> DEFINE n == Len(s)
           Good(f, m) == /\ DOMAIN f = 0 .. m /\ f[0] = << >>
                         /\ \A i \in 1 .. m : f[i] = Kept(o, s, f[i - 1], i)
                         /\ f = [i \in 0 .. m |-> f[i]]
           G == {m \in 0 .. n : \E f : Good(f, m)}
<1>1. 0 \in G
    <2> DEFINE g == [i \in 0 .. 0 |-> << >>]
    <2>1. DOMAIN g = 0 .. 0 /\ g[0] = << >> /\ g = [i \in 0 .. 0 |-> g[i]]
        OBVIOUS
    <2> HIDE DEF g
    <2>2. Good(g, 0)
        BY <2>1
    <2> QED BY <2>2
<1>2. ASSUME NEW i \in 1 .. n, i - 1 \in G
      PROVE  i \in G
    <2>1. PICK f : Good(f, i - 1)
        BY <1>2
    <2> DEFINE k == Kept(o, s, f[i - 1], i)
               g == [j \in 0 .. i |-> IF j = i THEN k ELSE f[j]]
    <2> HIDE DEF k
    <2>2. DOMAIN g = 0 .. i /\ g = [j \in 0 .. i |-> g[j]]
        OBVIOUS
    <2>3. g[i] = k /\ \A j \in 0 .. i - 1 : g[j] = f[j]
        OBVIOUS
    <2> HIDE DEF g
    <2>4. g[0] = << >>
        BY <2>1, <2>3
    <2>5. ASSUME NEW j \in 1 .. i
          PROVE  g[j] = Kept(o, s, g[j - 1], j)
        <3>1. g[j - 1] = f[j - 1]
            BY <2>3
        <3>2. CASE j = i
            BY <2>3, <3>1, <3>2 DEF k
        <3>3. CASE j # i
            <4>1. j \in 1 .. i - 1 /\ j \in 0 .. i - 1
                BY <3>3
            <4> QED BY <2>1, <2>3, <3>1, <4>1
        <3> QED BY <3>2, <3>3
    <2>6. Good(g, i)
        BY <2>2, <2>4, <2>5
    <2> QED BY <2>6
<1>3. 0 .. n \subseteq G
    <2> HIDE DEF G
    <2> QED BY <1>1, <1>2, UpTo
<1>4. n \in G
    BY <1>3
<1> QED BY <1>4

\* OfCategory is the last list of such a function.
LEMMA OfCategoryIs ==
    ASSUME NEW o, NEW s, Len(s) \in Nat
    PROVE  \E f : Loop(o, s, f) /\ OfCategory(o, s) = f[Len(s)]
<1> DEFINE n == Len(s)
           E(f) == f = [i \in 0 .. n |->
                           IF i = 0 THEN << >>
                           ELSE IF CategoryOf[s[i]] = o
                                THEN Append(f[i - 1], s[i]) ELSE f[i - 1]]
           k == CHOOSE f : E(f)
<1>1. \E f : E(f)
    <2>1. PICK f : /\ DOMAIN f = 0 .. n /\ f[0] = << >>
                   /\ \A i \in 1 .. n : f[i] = Kept(o, s, f[i - 1], i)
                   /\ f = [i \in 0 .. n |-> f[i]]
        BY LoopExists
    <2>2. ASSUME NEW i \in 0 .. n
          PROVE  f[i] = IF i = 0 THEN << >>
                        ELSE IF CategoryOf[s[i]] = o
                             THEN Append(f[i - 1], s[i]) ELSE f[i - 1]
        <3>1. i = 0 \/ i \in 1 .. n
            OBVIOUS
        <3> QED BY <2>1, <3>1 DEF Kept
    <2>3. E(f)
        BY <2>1, <2>2
    <2> QED BY <2>3
<1>2. E(k)
    BY <1>1
<1>3. OfCategory(o, s) = k[n]
    BY DEF OfCategory
<1> HIDE DEF k
<1>4. \A i \in 0 .. n : k[i] = IF i = 0 THEN << >>
                               ELSE IF CategoryOf[s[i]] = o
                                    THEN Append(k[i - 1], s[i]) ELSE k[i - 1]
    BY <1>2
<1>5. Loop(o, s, k)
    BY <1>4 DEF Loop, Kept
<1> QED BY <1>3, <1>5

\* The lists a screen may hold: no shop is in them twice.
Lists == {l \in Seq(Shops) : IsInjective(l)}

\* The shops of t are in the order of s.
InOrder(s, t) ==
    \A k, l \in 1 .. Len(t) : \A m, j \in 1 .. Len(s) :
        k < l /\ s[m] = t[k] /\ s[j] = t[l] => m < j

\* t has the shops of category o among the first i of s, in their order.
Selects(o, s, t, i) ==
    /\ t \in Seq(Shops)
    /\ \A k \in 1 .. Len(t) :
          CategoryOf[t[k]] = o /\ \E m \in 1 .. i : s[m] = t[k]
    /\ \A m \in 1 .. i : CategoryOf[s[m]] = o => \E k \in 1 .. Len(t) : t[k] = s[m]
    /\ InOrder(s, t)

\* A list has its shops at the positions 1 to Len.
LEMMA ListAt ==
    ASSUME NEW l \in Lists
    PROVE  /\ l \in Seq(Shops) /\ Len(l) \in Nat /\ DOMAIN l = 1 .. Len(l)
           /\ \A i \in 1 .. Len(l) : l[i] \in Shops
           /\ \A i, j \in 1 .. Len(l) : l[i] = l[j] => i = j
BY DEF Lists, IsInjective

\* A shop at the end of a list.
LEMMA OneShopMore ==
    ASSUME NEW t \in Seq(Shops), NEW x \in Shops
    PROVE  LET u == Append(t, x)
           IN /\ u \in Seq(Shops) /\ Len(t) \in Nat /\ Len(u) = Len(t) + 1
              /\ u[Len(t) + 1] = x
              /\ \A k \in 1 .. Len(t) : u[k] = t[k]
              /\ \A k \in 1 .. Len(u) : k \in 1 .. Len(t) \/ k = Len(t) + 1
              /\ Len(t) + 1 \in 1 .. Len(u)
              /\ \A k \in 1 .. Len(t) : k \in 1 .. Len(u)
              /\ \A k, l \in 1 .. Len(u) :
                    k < l => /\ k \in 1 .. Len(t)
                             /\ l \in 1 .. Len(t) \/ l = Len(t) + 1
OBVIOUS

LEMMA LoopSelects ==
    ASSUME NEW o, NEW s \in Lists, NEW f, Loop(o, s, f)
    PROVE  Selects(o, s, f[Len(s)], Len(s))
<1> DEFINE n == Len(s)
           G == {i \in 0 .. n : Selects(o, s, f[i], i)}
<1>1. /\ n \in Nat /\ \A i \in 1 .. n : s[i] \in Shops
      /\ \A i, j \in 1 .. n : s[i] = s[j] => i = j
    BY ListAt
<1>2. 0 \in G
    <2>1. f[0] = << >> /\ << >> \in Seq(Shops) /\ Len(<< >>) = 0
        BY DEF Loop
    <2>2. InOrder(s, << >>)
        BY <2>1 DEF InOrder
    <2>3. Selects(o, s, << >>, 0)
        BY <2>1, <2>2 DEF Selects
    <2> QED BY <1>1, <2>1, <2>3
<1>3. ASSUME NEW i \in 1 .. n, i - 1 \in G
      PROVE  i \in G
    <2> DEFINE t == f[i - 1]
               u == f[i]
    <2>1. u = Kept(o, s, t, i)
        BY DEF Loop
    <2>2. Selects(o, s, t, i - 1)
        BY <1>3
    <2>3. s[i] \in Shops /\ t \in Seq(Shops)
        BY <1>1, <2>2 DEF Selects
    <2>4. \A m \in 1 .. i : m \in 1 .. i - 1 \/ m = i
        BY <1>1
    <2>5. \A m \in 1 .. i - 1 : m \in 1 .. n /\ m < i /\ m \in 1 .. i
        BY <1>1
    <2>6. i \in 1 .. i
        BY <1>1
    <2> HIDE DEF t, u
    <2>7. CASE CategoryOf[s[i]] # o
        <3>1. u = t
            BY <2>1, <2>7 DEF Kept
        <3>2. \A k \in 1 .. Len(t) :
                  CategoryOf[t[k]] = o /\ \E m \in 1 .. i : s[m] = t[k]
            BY <2>2, <2>5, Zenon DEF Selects
        <3>3. \A m \in 1 .. i :
                  CategoryOf[s[m]] = o => \E k \in 1 .. Len(t) : t[k] = s[m]
            BY <2>2, <2>4, <2>7, Zenon DEF Selects
        <3>4. Selects(o, s, u, i)
            BY <2>2, <3>1, <3>2, <3>3, Zenon DEF Selects
        <3> QED BY <3>4 DEF u
    <2>8. CASE CategoryOf[s[i]] = o
        <3> DEFINE e == Len(t) + 1
        <3>1. u = Append(t, s[i])
            BY <2>1, <2>8 DEF Kept
        <3>2. /\ u \in Seq(Shops) /\ u[e] = s[i] /\ e \in 1 .. Len(u)
              /\ \A k \in 1 .. Len(t) : u[k] = t[k] /\ k \in 1 .. Len(u)
              /\ \A k \in 1 .. Len(u) : k \in 1 .. Len(t) \/ k = e
              /\ \A k, l \in 1 .. Len(u) :
                    k < l => k \in 1 .. Len(t) /\ (l \in 1 .. Len(t) \/ l = e)
            BY <2>3, <3>1, OneShopMore
        <3> HIDE DEF e
        <3>3. ASSUME NEW k \in 1 .. Len(u)
              PROVE  CategoryOf[u[k]] = o /\ \E m \in 1 .. i : s[m] = u[k]
            <4>1. CASE k = e
                BY <2>6, <2>8, <3>2, <4>1
            <4>2. CASE k \in 1 .. Len(t)
                <5>1. u[k] = t[k]
                    BY <3>2, <4>2, Zenon
                <5>2. /\ CategoryOf[t[k]] = o
                      /\ \E m \in 1 .. i - 1 : s[m] = t[k]
                    BY <2>2, <4>2, Zenon DEF Selects
                <5> QED BY <2>5, <5>1, <5>2, Zenon
            <4> QED BY <3>2, <4>1, <4>2
        <3>4. ASSUME NEW m \in 1 .. i, CategoryOf[s[m]] = o
              PROVE  \E k \in 1 .. Len(u) : u[k] = s[m]
            <4>1. CASE m = i
                BY <3>2, <4>1
            <4>2. CASE m \in 1 .. i - 1
                <5>1. PICK k \in 1 .. Len(t) : t[k] = s[m]
                    BY <2>2, <3>4, <4>2, Zenon DEF Selects
                <5> QED BY <3>2, <5>1
            <4> QED BY <2>4, <4>1, <4>2
        <3>5. ASSUME NEW k \in 1 .. Len(u), NEW l \in 1 .. Len(u), k < l,
                     NEW m \in 1 .. n, NEW j \in 1 .. n, s[m] = u[k], s[j] = u[l]
              PROVE  m < j
            <4>1. k \in 1 .. Len(t) /\ (l \in 1 .. Len(t) \/ l = e)
                BY <3>2, <3>5
            <4>2. CASE l \in 1 .. Len(t)
                <5>1. s[m] = t[k] /\ s[j] = t[l]
                    BY <3>2, <3>5, <4>1, <4>2
                <5>2. InOrder(s, t)
                    BY <2>2 DEF Selects
                <5> QED BY <3>5, <4>1, <4>2, <5>1, <5>2, Zenon DEF InOrder
            <4>3. CASE l = e
                <5>1. PICK p \in 1 .. i - 1 : s[p] = t[k]
                    BY <2>2, <4>1, Zenon DEF Selects
                <5>2. j = i
                    BY <1>1, <3>2, <3>5, <4>3
                <5>3. m = p
                    BY <1>1, <2>5, <3>2, <3>5, <4>1, <5>1
                <5> QED BY <2>5, <5>2, <5>3
            <4> QED BY <4>1, <4>2, <4>3
        <3>6. InOrder(s, u)
            BY <3>5, Zenon DEF InOrder
        <3>7. Selects(o, s, u, i)
            BY <3>2, <3>3, <3>4, <3>6, Zenon DEF Selects
        <3> QED BY <3>7 DEF u
    <2> QED BY <2>7, <2>8
<1>4. 0 .. n \subseteq G
    <2> HIDE DEF G
    <2> QED BY <1>1, <1>2, <1>3, UpTo
<1> QED BY <1>1, <1>4

\* What one shop of a list is and where.
LEMMA CategoryFits ==
    ASSUME NEW o, NEW s \in Lists
    PROVE  Selects(o, s, OfCategory(o, s), Len(s))
<1>1. Len(s) \in Nat
    BY ListAt
<1>2. PICK f : Loop(o, s, f) /\ OfCategory(o, s) = f[Len(s)]
    BY <1>1, OfCategoryIs
<1> QED BY <1>2, LoopSelects

LEMMA SelectedList ==
    ASSUME NEW o, NEW s \in Lists, NEW t, Selects(o, s, t, Len(s))
    PROVE  /\ t \in Lists
           /\ ToSet(t) = {x \in ToSet(s) : CategoryOf[x] = o}
<1>1. /\ Len(s) \in Nat /\ DOMAIN s = 1 .. Len(s)
      /\ t \in Seq(Shops) /\ DOMAIN t = 1 .. Len(t)
    BY ListAt DEF Selects
<1>2. ASSUME NEW k \in 1 .. Len(t), NEW l \in 1 .. Len(t), t[k] = t[l]
      PROVE  k = l
    <2>1. k < l \/ l < k \/ k = l
        BY <1>1
    <2>2. PICK m \in 1 .. Len(s) : s[m] = t[k]
        BY Zenon DEF Selects
    <2>3. ~(m < m)
        BY <2>2
    <2>4. ~(k < l) /\ ~(l < k)
        BY <1>2, <2>2, <2>3, Zenon DEF Selects, InOrder
    <2> QED BY <2>1, <2>4
<1>3. IsInjective(t)
    BY <1>1, <1>2 DEF IsInjective
<1>4. ToSet(t) = {x \in ToSet(s) : CategoryOf[x] = o}
    <2>1. ASSUME NEW x \in ToSet(t)
          PROVE  x \in ToSet(s) /\ CategoryOf[x] = o
        <3>1. PICK k \in 1 .. Len(t) : x = t[k]
            BY <1>1 DEF ToSet
        <3>2. /\ CategoryOf[x] = o
              /\ \E m \in 1 .. Len(s) : s[m] = x
            BY <3>1, Zenon DEF Selects
        <3> QED BY <1>1, <3>2 DEF ToSet
    <2>2. ASSUME NEW x \in ToSet(s), CategoryOf[x] = o
          PROVE  x \in ToSet(t)
        <3>1. PICK m \in 1 .. Len(s) : x = s[m]
            BY <1>1 DEF ToSet
        <3>2. \E k \in 1 .. Len(t) : t[k] = x
            BY <2>2, <3>1, Zenon DEF Selects
        <3> QED BY <1>1, <3>2 DEF ToSet
    <2> QED BY <2>1, <2>2
<1> QED BY <1>1, <1>3, <1>4 DEF Lists

\* A list sorted step by step is sorted.
LEMMA SortedFits ==
    ASSUME NEW t \in Seq(Shops),
           \A i \in 1 .. Len(t) - 1 : ScoreOf[t[i]] >= ScoreOf[t[i + 1]]
    PROVE  \A i, j \in 1 .. Len(t) : i < j => ScoreOf[t[i]] >= ScoreOf[t[j]]
<1> SUFFICES ASSUME NEW i \in 1 .. Len(t)
             PROVE  \A j \in 1 .. Len(t) : i < j => ScoreOf[t[i]] >= ScoreOf[t[j]]
    OBVIOUS
<1> DEFINE n == Len(t)
           Score(j) == ScoreOf[t[j]]
           G == {j \in 0 .. n : j > i => Score(i) >= Score(j)}
<1>1. n \in Nat /\ \A j \in 1 .. n : t[j] \in Shops
    OBVIOUS
<1>2. \A j \in 1 .. n : Score(j) \in Int
    BY <1>1, ShopAssumption
<1>3. \A j \in 1 .. n - 1 : Score(j) >= Score(j + 1)
    OBVIOUS
<1> HIDE DEF n, Score
<1>4. 0 \in G
    BY <1>1 DEF n
<1>5. ASSUME NEW j \in 1 .. n, j - 1 \in G
      PROVE  j \in G
    <2>1. CASE j > i /\ j - 1 > i
        <3>1. j - 1 \in 1 .. n - 1 /\ (j - 1) + 1 = j /\ j - 1 \in 1 .. n
            BY <1>1, <2>1 DEF n
        <3>2. Score(i) >= Score(j - 1) /\ Score(j - 1) >= Score(j)
            BY <1>3, <1>5, <2>1, <3>1
        <3>3. Score(i) \in Int /\ Score(j - 1) \in Int /\ Score(j) \in Int
            BY <1>2, <3>1 DEF n
        <3> QED BY <1>1, <3>2, <3>3
    <2>2. CASE j > i /\ ~(j - 1 > i)
        <3>1. i = j - 1 /\ i \in 1 .. n - 1 /\ i + 1 = j
            BY <1>1, <2>2 DEF n
        <3> QED BY <1>1, <1>3, <3>1
    <2>3. CASE ~(j > i)
        BY <1>1, <2>3
    <2> QED BY <2>1, <2>2, <2>3
<1>6. 0 .. n \subseteq G
    <2> HIDE DEF G
    <2> QED BY <1>1, <1>4, <1>5, UpTo
<1> QED BY <1>1, <1>6 DEF n, Score

\* A list of as many different shops as there are has them all.
LEMMA RankingFits ==
    ASSUME NEW s \in Lists, NEW t \in SetToSeqs(ToSet(s))
    PROVE  t \in Lists /\ ToSet(t) = ToSet(s)
<1> DEFINE S == ToSet(s)
           n == Cardinality(S)
<1>1. /\ s \in Seq(Shops) /\ Len(s) \in Nat /\ DOMAIN s = 1 .. Len(s)
      /\ \A i \in 1 .. Len(s) : s[i] \in Shops
      /\ \A i, j \in 1 .. Len(s) : s[i] = s[j] => i = j
    BY ListAt
<1>2. S = {s[i] : i \in 1 .. Len(s)} /\ S \subseteq Shops
    BY <1>1 DEF ToSet
<1> HIDE DEF S
<1>3. IsFiniteSet(S) /\ n \in Nat
    <2>1. s \in [1 .. Len(s) -> S]
        BY <1>1, <1>2
    <2>2. s \in Bijection(1 .. Len(s), S)
        BY <1>1, <1>2, <2>1, Zenon DEF Bijection, Injection, Surjection, IsInjective
    <2>3. IsFiniteSet(1 .. Len(s))
        BY <1>1, FS_Interval
    <2> QED BY <2>2, <2>3, FS_Bijection, FS_CardinalityType, Zenon DEF ExistsBijection
<1>4. /\ t \in [1 .. n -> S]
      /\ \A i, j \in 1 .. n : i # j => t[i] # t[j]
    BY DEF SetToSeqs, S
<1> HIDE DEF n
<1>5. t \in Seq(Shops) /\ Len(t) = n /\ DOMAIN t = 1 .. n
    BY <1>2, <1>3, <1>4
<1>6. IsInjective(t)
    BY <1>4, <1>5 DEF IsInjective
<1>7. t \in Injection(1 .. n, S)
    BY <1>4, <1>6, Zenon DEF Injection
<1>8. Cardinality(1 .. n) = n
    BY <1>3, FS_Interval
<1>9. t \in Surjection(1 .. n, S)
    BY <1>3, <1>7, <1>8, FS_Injection, Zenon DEF n
<1>10. \A x \in S : \E i \in 1 .. n : t[i] = x
    BY <1>9, Zenon DEF Surjection
<1>11. ToSet(t) = S
    BY <1>4, <1>5, <1>10 DEF ToSet
<1> QED BY <1>5, <1>6, <1>11 DEF Lists, S

\* Whatever the filter, the list it makes of a catalogue fits it.
Fits(o, s, t) ==
    /\ o \in Categories => ToSet(t) = {x \in ToSet(s) : CategoryOf[x] = o}
    /\ o \notin Categories => ToSet(t) = ToSet(s)
    /\ o = "ranking" =>
           \A i, j \in DOMAIN t : i < j => ScoreOf[t[i]] >= ScoreOf[t[j]]
    /\ o # "ranking" => InOrder(s, t)

LEMMA FilteredFits ==
    ASSUME NEW s \in Lists, NEW o \in Options, NEW old,
           NEW t \in Filtered(old, o, s)
    PROVE  t \in Lists /\ Fits(o, s, t)
<1>1. CASE o = "recommended"
    <2>1. t = s /\ o \notin Categories /\ o # "ranking"
        BY <1>1 DEF Filtered, Categories
    <2>2. InOrder(s, s)
        BY ListAt DEF InOrder
    <2> QED BY <2>1, <2>2 DEF Fits
<1>2. CASE o \in Categories
    <2>1. t = OfCategory(o, s) /\ o # "ranking"
        BY <1>2 DEF Filtered, Categories
    <2>2. Selects(o, s, t, Len(s))
        BY <2>1, CategoryFits
    <2>3. t \in Lists /\ ToSet(t) = {x \in ToSet(s) : CategoryOf[x] = o}
        BY <2>2, SelectedList
    <2>4. InOrder(s, t)
        BY <2>2 DEF Selects
    <2> QED BY <1>2, <2>1, <2>3, <2>4 DEF Fits
<1>3. CASE o = "ranking"
    <2>1. /\ t \in SetToSeqs(ToSet(s)) /\ o \notin Categories
          /\ \A i \in 1 .. Len(t) - 1 : ScoreOf[t[i]] >= ScoreOf[t[i + 1]]
        BY <1>3 DEF Filtered, Categories
    <2>2. t \in Lists /\ ToSet(t) = ToSet(s)
        BY <2>1, RankingFits
    <2>3. t \in Seq(Shops) /\ DOMAIN t = 1 .. Len(t)
        BY <2>2, ListAt
    <2>4. \A i, j \in DOMAIN t : i < j => ScoreOf[t[i]] >= ScoreOf[t[j]]
        BY <2>1, <2>3, SortedFits
    <2> QED BY <1>3, <2>1, <2>2, <2>4 DEF Fits
<1> QED BY <1>1, <1>2, <1>3 DEF Options

\* In lists without repetition, the order of positions is the order of shops.
Place(l, x) == CHOOSE i \in DOMAIN l : l[i] = x

LEMMA SameOrder ==
    ASSUME NEW s \in Lists, NEW t \in Lists, ToSet(t) \subseteq ToSet(s),
           InOrder(s, t), NEW x \in ToSet(t), NEW y \in ToSet(t)
    PROVE  Place(t, x) < Place(t, y) <=> Place(s, x) < Place(s, y)
<1> DEFINE k == Place(t, x)
           l == Place(t, y)
           m == Place(s, x)
           j == Place(s, y)
<1>1. ASSUME NEW u \in Lists, NEW z \in ToSet(u)
      PROVE  Place(u, z) \in 1 .. Len(u) /\ u[Place(u, z)] = z
    <2>1. \E i \in DOMAIN u : u[i] = z
        BY DEF ToSet
    <2>2. Place(u, z) \in DOMAIN u /\ u[Place(u, z)] = z
        BY <2>1 DEF Place
    <2> QED BY <2>2, ListAt
<1>2. /\ k \in 1 .. Len(t) /\ l \in 1 .. Len(t) /\ t[k] = x /\ t[l] = y
      /\ m \in 1 .. Len(s) /\ j \in 1 .. Len(s) /\ s[m] = x /\ s[j] = y
    BY <1>1
<1> HIDE DEF k, l, m, j
<1>3. k < l => m < j
    BY <1>2, Zenon DEF InOrder
<1>4. l < k => j < m
    BY <1>2, Zenon DEF InOrder
<1>5. k = l => m = j
    BY <1>2, ListAt
<1>6. k \in Int /\ l \in Int /\ m \in Int /\ j \in Int
    BY <1>2, ListAt
<1>7. k < l <=> m < j
    BY <1>3, <1>4, <1>5, <1>6
<1> QED BY <1>7 DEF k, l, m, j

-----------------------------------------------------------------------------
(* The list a screen holds.                                                *)

\* The list held is the one the last filter makes of the catalogue, and until
\* the answer nobody has asked for a filter.
HeldInv ==
    /\ overlay \in Overlay /\ modal \in Modal /\ option \in Options
    /\ shopList \in Lists /\ filterShopList \in Lists
    /\ list \in Filtered(<< >>, option, shopList)
    /\ screen = "new" \/ inFlight = 1 => option = "recommended"

LEMMA FilterHolds ==
    ASSUME NEW o \in Options, NEW s \in Lists, filterShop(o, s), shopList' = s
    PROVE  /\ option' \in Options /\ filterShopList' \in Lists
           /\ list' \in Filtered(<< >>, option', shopList')
<1>1. /\ option' = o /\ list' = filterShopList'
      /\ filterShopList' \in Filtered(filterShopList, o, s)
    BY DEF filterShop
<1>2. Filtered(filterShopList, o, s) = Filtered(<< >>, o, s)
    BY DEF Filtered, Options
<1> QED BY <1>1, <1>2, FilteredFits

LEMMA HeldInit == Init => HeldInv
<1> SUFFICES ASSUME Init PROVE HeldInv
    OBVIOUS
<1>1. << >> \in Lists
    BY DEF Lists, IsInjective
<1>2. << >> \in Filtered(<< >>, "recommended", << >>) /\ "recommended" \in Options
    BY DEF Filtered, Options, Categories
<1> QED BY <1>1, <1>2 DEF Init, HeldInv, Overlay, NoOverlay, Modal

LEMMA HeldNext == ShopIInv /\ HeldInv /\ [Next]_vars => HeldInv'
<1> SUFFICES ASSUME ShopIInv, HeldInv, [Next]_vars PROVE HeldInv'
    OBVIOUS
<1>1. ASSUME UNCHANGED <<option, shopList, filterShopList, list>>,
             overlay' \in Overlay, modal' \in Modal,
             screen' = "new" => screen = "new",
             inFlight' = 1 => screen = "new" \/ inFlight = 1
      PROVE  HeldInv'
    BY <1>1 DEF HeldInv
<1>2. overlay \in Overlay /\ modal \in Modal
    BY DEF HeldInv
<1>3. CASE viewDidLoad
    <2>1. PICK v \in FreshViews(overlay) : overlay' = showLoadingView(overlay, v)
        BY <1>3 DEF viewDidLoad
    <2>2. overlay' \in Overlay
        BY <1>2, <2>1 DEF Overlay, showLoadingView, FreshViews
    <2> QED BY <1>1, <1>2, <1>3, <2>2 DEF viewDidLoad
<1>4. CASE backToHome
    BY <1>1, <1>2, <1>4 DEF backToHome
<1>5. CASE GetShopsFailure
    BY <1>1, <1>2, <1>5 DEF GetShopsFailure, Running, ShopIInv, TypeInv
<1>6. ASSUME NEW c \in Catalogues, GetShopsSuccess(c)
      PROVE  HeldInv'
    <2>1. /\ screen' = "alive" /\ inFlight' = 0 /\ shopList' = c
          /\ UNCHANGED <<overlay, modal>> /\ inFlight = 1
        BY <1>6 DEF GetShopsSuccess, Running, ShopIInv, TypeInv
    <2>2. c \in Lists
        BY ShopAssumption DEF Lists
    <2>3. option = "recommended"
        BY <2>1 DEF HeldInv
    <2>4. CASE category = NoCategory
        <3>1. list' = c /\ option' = option /\ filterShopList' = filterShopList
            BY <1>6, <2>4 DEF GetShopsSuccess
        <3>2. c \in Filtered(<< >>, "recommended", c)
            BY DEF Filtered, Categories
        <3> QED BY <1>2, <2>1, <2>2, <2>3, <3>1, <3>2 DEF HeldInv
    <2>5. CASE category # NoCategory
        <3>1. category \in Options
            BY <2>5 DEF ShopIInv, TypeInv, Options
        <3>2. filterShop(category, c)
            BY <1>6, <2>5 DEF GetShopsSuccess
        <3>3. /\ option' \in Options /\ filterShopList' \in Lists
              /\ list' \in Filtered(<< >>, option', shopList')
            BY <2>1, <2>2, <3>1, <3>2, FilterHolds
        <3> QED BY <1>2, <2>1, <2>2, <3>3 DEF HeldInv
    <2> QED BY <2>4, <2>5
<1>7. ASSUME NEW o \in Options, didRequestToUpdateShops(o)
      PROVE  HeldInv'
    <2>1. /\ screen' = "alive" /\ inFlight' = inFlight /\ inFlight # 1
          /\ shopList' = shopList /\ filterShop(o, shopList)
          /\ UNCHANGED <<overlay, modal>>
        BY <1>7 DEF didRequestToUpdateShops, Touchable, Running, ShopIInv,
                    OneLoad, Blank
    <2>2. shopList \in Lists
        BY DEF HeldInv
    <2>3. /\ option' \in Options /\ filterShopList' \in Lists
          /\ list' \in Filtered(<< >>, option', shopList')
        BY <2>1, <2>2, FilterHolds
    <2> QED BY <1>2, <2>1, <2>2, <2>3 DEF HeldInv
<1>8. ASSUME NEW i \in 1 .. Len(shown), didSelectItemAt(i)
      PROVE  HeldInv'
    BY <1>1, <1>2, <1>8 DEF didSelectItemAt
<1>9. CASE RunBlock
    <2>1. overlay' \in Overlay /\ modal' \in Modal
        <3>1. CASE RunDismiss
            BY <1>2, <3>1 DEF RunDismiss, Overlay, DismissBlock
        <3>2. CASE RunApply
            BY <1>2, <3>2 DEF RunApply
        <3>3. CASE RunAlert
            BY <1>2, <3>3 DEF RunAlert, Present, Modal
        <3> QED BY <1>9, <3>1, <3>2, <3>3 DEF RunBlock
    <2> QED BY <1>1, <1>9, <2>1 DEF RunBlock
<1>10. CASE ConfirmAlert
    BY <1>1, <1>2, <1>10 DEF ConfirmAlert, Modal
<1>11. CASE UNCHANGED vars
    BY <1>1, <1>2, <1>11 DEF vars
<1> QED BY <1>3, <1>4, <1>5, <1>6, <1>7, <1>8, <1>9, <1>10, <1>11
        DEF Next, Step, GetShopsAnswer

(***************************************************************************)
(* The list is always the one the last filter asked for (ShopVC:231-253),  *)
(* made of the whole catalogue and not of what an earlier filter left:     *)
(* the shops of the category, or all of them, in the order of the          *)
(* catalogue or by score; and every part of the screen keeps its type.     *)
(***************************************************************************)
THEOREM ShopListFits == Spec => []ShopInv
<1>1. Spec => [](ShopIInv /\ HeldInv)
    BY InitInv, NextInv, HeldInit, HeldNext, PTL DEF Spec
<1>2. ShopIInv /\ HeldInv => ShopInv
    <2> SUFFICES ASSUME ShopIInv, HeldInv PROVE ShopInv
        OBVIOUS
    <2>1. shopList \in Lists /\ option \in Options
        BY DEF HeldInv
    <2>2. list \in Lists /\ Fits(option, shopList, list)
        BY <2>1, FilteredFits DEF HeldInv
    <2>3. shown \in Lists
        <3>1. CASE hasSections
            <4>1. PICK o \in Options : shown \in Filtered(<< >>, o, shopList)
                BY <3>1 DEF ShopIInv, DisplayedIsProduced, Produced
            <4> QED BY <2>1, <4>1, FilteredFits
        <3>2. CASE ~hasSections
            <4>1. shown = << >>
                BY <3>2 DEF ShopIInv, DisplayedIsProduced
            <4> QED BY <4>1 DEF Lists, IsInjective
        <3> QED BY <3>1, <3>2
    <2>4. \A i \in DOMAIN mainQ :
              mainQ[i].op \in {"dismissLoadingView", "apply", "presentFLAlert"}
        <3>1. mainQ \in Seq(Block)
            BY DEF ShopIInv, TypeInv
        <3>2. \A i \in DOMAIN mainQ : mainQ[i] \in Block
            BY <3>1
        <3> QED BY <3>2 DEF Block, Ops
    <2>5. TypeOK
        <3>1. \A l \in {shopList, filterShopList, list, shown} :
                  l \in Seq(Shops) /\ IsInjective(l)
            BY <2>1, <2>2, <2>3 DEF HeldInv, Lists
        <3> QED BY <2>4, <3>1 DEF TypeOK, HeldInv, ShopIInv, TypeInv
    <2>6. ListFitsOption
        <3>1. option \in Categories =>
                  ToSet(list) = {x \in ToSet(shopList) : CategoryOf[x] = option}
            BY <2>2 DEF Fits
        <3>2. option \notin Categories => ToSet(list) = ToSet(shopList)
            BY <2>2 DEF Fits
        <3>3. ASSUME option # "ranking", NEW x \in ToSet(list), NEW y \in ToSet(list)
              PROVE  (CHOOSE i \in DOMAIN list : list[i] = x)
                         < (CHOOSE i \in DOMAIN list : list[i] = y)
                     <=> (CHOOSE i \in DOMAIN shopList : shopList[i] = x)
                         < (CHOOSE i \in DOMAIN shopList : shopList[i] = y)
            <4>1. InOrder(shopList, list) /\ ToSet(list) \subseteq ToSet(shopList)
                BY <2>2, <3>1, <3>2, <3>3 DEF Fits
            <4>2. Place(list, x) < Place(list, y)
                      <=> Place(shopList, x) < Place(shopList, y)
                BY <2>1, <2>2, <4>1, SameOrder
            <4> QED BY <4>2 DEF Place
        <3> QED BY <2>2, <3>1, <3>2, <3>3 DEF ListFitsOption, Fits
    <2> QED BY <2>5, <2>6 DEF ShopInv
<1> QED BY <1>1, <1>2, PTL

=============================================================================
