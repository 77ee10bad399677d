--------------------------- MODULE ShopInfoVC_proofs ---------------------------
(***************************************************************************)
(* Proofs about ShopInfoVC, for every set of overlays, any number of       *)
(* chains under way or completed, and whatever the collections answer.     *)
(* The first part leaves abstract what the two queries for recommendations *)
(* compute; the last follows their loop document by document.              *)
(***************************************************************************)
EXTENDS ShopInfoVC, FiniteSetTheorems, SequenceTheorems, WellFoundedInduction,
        TLAPS

-----------------------------------------------------------------------------
(* What chains, sections and blocks are made of.                           *)

Founds == {<< >>} \cup {SameKind(docs, Own) : docs \in KindDocs}

ChainState == [id : LoadIds, at : {"events", "products", "kind", "category"},
               products : 0 .. Rows, found : Founds]

Shops == {f \o SameCategory(docs, Own, Wanted - Len(f)) :
             f \in Founds, docs \in CategoryDocs}

AnySection == {Section(n, p, s) :
                   n \in {1, Rows} \cup {Len(s) : s \in Shops},
                   p \in 0 .. Rows, s \in Shops}

Ops == {"dismissLoadingView", "apply", "presentFLAlert", "presentAddToCart"}

Block == [op : Ops,
          data : {<< >>} \cup {SubSeq(d, 1, 5) : d \in Seq(AnySection)}]

-----------------------------------------------------------------------------
(* The inductive invariant.                                                *)

TypeInv ==
    /\ overlay \in Overlay /\ IsFiniteSet(overlay.subviews)
    /\ loads \subseteq ChainState /\ IsFiniteSet(loads)
    /\ \A l, m \in loads : l.id = m.id => l = m
    /\ stranded \in Nat
    /\ dataList \in Seq(AnySection)
    /\ mainQ \in Seq(Block)

Owing == Cardinality(loads) + Cardinality(Dismissals(mainQ)) + stranded

\* As long as no dismissal has trapped, each overlay is owed to somebody, and
\* a reference is to an overlay that is on the screen.
OverlayInv ==
    /\ trap # "containerview" => Cardinality(overlay.subviews) = Owing
    /\ overlay.container # NoView => overlay.container \in overlay.subviews
    /\ ContainerTrapsOnOverlap

\* What is displayed, now or by a block, is the first chain's five sections.
DisplayInv ==
    /\ Len(dataList) = 0 \/ Len(dataList) >= 5
    /\ shown = << >> \/ (Len(dataList) >= 5 /\ shown = SubSeq(dataList, 1, 5))
    /\ \A i \in DOMAIN mainQ :
           mainQ[i].op = "apply" =>
               Len(dataList) >= 5 /\ mainQ[i].data = SubSeq(dataList, 1, 5)
    /\ Len(dataList) = 5 => dataList[5].shops = recommendationShops

PageIInv == TypeInv /\ OverlayInv /\ DisplayInv

-----------------------------------------------------------------------------
(* Queues.                                                                 *)

LEMMA BlockTypes ==
    /\ DismissOverlay \in Block /\ DismissOverlay.op = "dismissLoadingView"
    /\ ShowAlert \in Block /\ ShowAlert.op = "presentFLAlert"
    /\ ShowToast \in Block /\ ShowToast.op = "presentAddToCart"
    /\ \A d \in Seq(AnySection) :
           Apply(d) \in Block /\ Apply(d).op = "apply"
               /\ Apply(d).data = SubSeq(d, 1, 5)
BY DEF DismissOverlay, ShowAlert, ShowToast, Apply, Block, Ops

LEMMA DismissalsFinite ==
    ASSUME NEW q \in Seq(Block)
    PROVE  /\ IsFiniteSet(Dismissals(q))
           /\ Cardinality(Dismissals(q)) \in Nat
<1>1. Len(q) \in Nat /\ Dismissals(q) \in SUBSET (1 .. Len(q))
    BY DEF Dismissals
<1>2. IsFiniteSet(1 .. Len(q))
    BY <1>1, FS_Interval
<1> QED BY <1>1, <1>2, FS_Subset, FS_CardinalityType

\* Posting a block keeps what is in the queue, and owes a dismissal more
\* exactly when the block is one.
LEMMA Posting ==
    ASSUME NEW q \in Seq(Block), NEW b \in Block
    PROVE  /\ Append(q, b) \in Seq(Block)
           /\ \A i \in DOMAIN Append(q, b) :
                  \/ i \in DOMAIN q /\ Append(q, b)[i] = q[i]
                  \/ Append(q, b)[i] = b
           /\ Cardinality(Dismissals(Append(q, b))) =
                  Cardinality(Dismissals(q))
                      + (IF b.op = "dismissLoadingView" THEN 1 ELSE 0)
<1> DEFINE a == Append(q, b)
           n == Len(q) + 1
<1>1. /\ a \in Seq(Block) /\ DOMAIN a = 1 .. n /\ Len(q) \in Nat
      /\ DOMAIN q = 1 .. Len(q)
      /\ a[n] = b /\ \A i \in 1 .. Len(q) : a[i] = q[i]
    OBVIOUS
<1> HIDE DEF a
<1>2. \A i \in DOMAIN a : (i \in DOMAIN q /\ a[i] = q[i]) \/ a[i] = b
    BY <1>1
<1>3. CASE b.op = "dismissLoadingView"
    <2>1. Dismissals(a) = Dismissals(q) \cup {n} /\ n \notin Dismissals(q)
        BY <1>1, <1>3 DEF Dismissals
    <2> QED BY <1>1, <1>2, <1>3, <2>1, DismissalsFinite, FS_AddElement DEF a
<1>4. CASE b.op # "dismissLoadingView"
    <2>1. Dismissals(a) = Dismissals(q)
        BY <1>1, <1>4 DEF Dismissals
    <2> QED BY <1>1, <1>2, <1>4, <2>1, DismissalsFinite DEF a
<1> QED BY <1>3, <1>4

LEMMA PostingTwo ==
    ASSUME NEW q \in Seq(Block), NEW b \in Block, NEW c \in Block
    PROVE  q \o <<b, c>> = Append(Append(q, b), c)
OBVIOUS

\* Running the oldest block.
LEMMA Running1 ==
    ASSUME NEW q \in Seq(Block), q # << >>
    PROVE  /\ Tail(q) \in Seq(Block) /\ Head(q) \in Block /\ Head(q) = q[1]
           /\ 1 \in DOMAIN q
           /\ \A i \in DOMAIN Tail(q) : i + 1 \in DOMAIN q /\ Tail(q)[i] = q[i + 1]
           /\ Cardinality(Dismissals(Tail(q))) =
                  Cardinality(Dismissals(q))
                      - (IF Head(q).op = "dismissLoadingView" THEN 1 ELSE 0)
<1> DEFINE t == Tail(q)
           rest == Dismissals(q) \ {1}
           shift == [i \in Dismissals(t) |-> i + 1]
<1>1. /\ t \in Seq(Block) /\ Len(q) \in Nat \ {0} /\ Len(t) = Len(q) - 1
      /\ DOMAIN q = 1 .. Len(q) /\ DOMAIN t = 1 .. Len(q) - 1
      /\ Head(q) = q[1] /\ Head(q) \in Block
      /\ \A i \in 1 .. Len(q) - 1 : t[i] = q[i + 1]
    BY HeadTailProperties, EmptySeq
<1> HIDE DEF t
<1>2. shift \in Bijection(Dismissals(t), rest)
    <2>1. \A i \in Dismissals(t) : i \in Nat /\ i + 1 \in rest
        BY <1>1 DEF Dismissals
    <2>2. \A j \in rest : j - 1 \in Dismissals(t) /\ shift[j - 1] = j
        BY <1>1 DEF Dismissals
    <2>3. \A i, j \in Dismissals(t) : shift[i] = shift[j] => i = j
        BY <2>1
    <2> QED BY <2>1, <2>2, <2>3
            DEF Bijection, Injection, Surjection, IsInjective
<1> HIDE DEF shift
<1>3. Cardinality(rest) = Cardinality(Dismissals(t))
    BY <1>1, <1>2, DismissalsFinite, FS_Bijection DEF ExistsBijection
<1>4. 1 \in Dismissals(q) <=> Head(q).op = "dismissLoadingView"
    BY <1>1 DEF Dismissals
<1>5. /\ Cardinality(Dismissals(q)) \in Nat
      /\ Cardinality(rest) = IF 1 \in Dismissals(q)
                             THEN Cardinality(Dismissals(q)) - 1
                             ELSE Cardinality(Dismissals(q))
    <2> HIDE DEF rest
    <2>1. IsFiniteSet(Dismissals(q)) /\ Cardinality(Dismissals(q)) \in Nat
        BY DismissalsFinite
    <2> QED BY <2>1, FS_RemoveElement DEF rest
<1> HIDE DEF rest
<1>6. \A i \in DOMAIN t : i + 1 \in DOMAIN q /\ t[i] = q[i + 1]
    BY <1>1
<1>7. CASE Head(q).op = "dismissLoadingView"
    BY <1>1, <1>3, <1>4, <1>5, <1>6, <1>7 DEF t
<1>8. CASE Head(q).op # "dismissLoadingView"
    BY <1>1, <1>3, <1>4, <1>5, <1>6, <1>8 DEF t
<1> QED BY <1>7, <1>8

-----------------------------------------------------------------------------
(* Chains and sections.                                                    *)

\* A chain that ends, and one that goes on to its next query.
LEMMA ChainEnds ==
    ASSUME TypeInv, NEW l \in loads
    PROVE  /\ loads \ {l} \subseteq ChainState /\ IsFiniteSet(loads \ {l})
           /\ Cardinality(loads \ {l}) = Cardinality(loads) - 1
           /\ Cardinality(loads) \in Nat /\ Cardinality(loads) > 0
<1>1. IsFiniteSet(loads) /\ loads \subseteq ChainState
    BY DEF TypeInv
<1>2. /\ IsFiniteSet(loads \ {l})
      /\ Cardinality(loads \ {l}) = Cardinality(loads) - 1
    BY <1>1, FS_RemoveElement
<1>3. Cardinality(loads) \in Nat /\ Cardinality(loads \ {l}) \in Nat
    BY <1>1, <1>2, FS_CardinalityType
<1> QED BY <1>1, <1>2, <1>3

LEMMA ChainGoesOn ==
    ASSUME TypeInv, NEW l \in loads, NEW m \in ChainState, m.id = l.id,
           loads' = (loads \ {l}) \cup {m}
    PROVE  /\ loads' \subseteq ChainState /\ IsFiniteSet(loads')
           /\ \A j, k \in loads' : j.id = k.id => j = k
           /\ Cardinality(loads') = Cardinality(loads)
<1>1. \A j, k \in loads : j.id = k.id => j = k
    BY DEF TypeInv
<1>2. m \notin loads \ {l}
    BY <1>1
<1>3. IsFiniteSet(loads') /\ Cardinality(loads') = Cardinality(loads \ {l}) + 1
    BY <1>2, ChainEnds, FS_AddElement
<1>4. Cardinality(loads') = Cardinality(loads)
    BY <1>3, ChainEnds
<1>5. loads' \subseteq ChainState
    BY ChainEnds
<1>6. \A j, k \in loads' : j.id = k.id => j = k
    BY <1>1
<1> QED BY <1>3, <1>4, <1>5, <1>6

LEMMA FiveMore ==
    ASSUME NEW S, NEW d \in Seq(S), NEW five \in Seq(S), Len(five) = 5
    PROVE  /\ d \o five \in Seq(S) /\ Len(d \o five) = Len(d) + 5
           /\ \A i \in 1 .. Len(d) : (d \o five)[i] = d[i]
           /\ (d \o five)[Len(d) + 5] = five[5]
<1> DEFINE c == d \o five
<1>1. Len(d) \in Nat /\ c \in Seq(S) /\ Len(c) = Len(d) + Len(five)
    <2>1. Len(d) \in Nat
        OBVIOUS
    <2>2. c \in Seq(S)
        OBVIOUS
    <2>3. Len(c) = Len(d) + Len(five)
        BY ConcatProperties, Zenon
    <2> QED BY <2>1, <2>2, <2>3
<1>6. \A i \in 1 .. Len(d) : c[i] = d[i]
    OBVIOUS
<1>2. \A i \in 1 .. Len(d) + Len(five) :
          c[i] = IF i <= Len(d) THEN d[i] ELSE five[i - Len(d)]
    BY ConcatProperties, Zenon
<1> HIDE DEF c
<1>3. c[Len(d) + 5] = five[(Len(d) + 5) - Len(d)]
    <2>1. Len(d) + 5 \in 1 .. Len(d) + Len(five) /\ ~(Len(d) + 5 <= Len(d))
        BY <1>1
    <2> QED BY <1>2, <2>1, Zenon
<1>4. (Len(d) + 5) - Len(d) = 5
    BY <1>1
<1>5. c \in Seq(S) /\ Len(c) = Len(d) + 5
    BY <1>1
<1> QED BY <1>1, <1>3, <1>4, <1>5, <1>6 DEF c

LEMMA SameFirstFive ==
    ASSUME NEW S, NEW d \in Seq(S), NEW e \in Seq(S), Len(d) >= 5, Len(e) >= 5,
           \A i \in 1 .. 5 : e[i] = d[i]
    PROVE  SubSeq(e, 1, 5) = SubSeq(d, 1, 5)
<1>1. /\ SubSeq(e, 1, 5) \in Seq(S) /\ Len(SubSeq(e, 1, 5)) = 5
      /\ \A i \in 1 .. 5 : SubSeq(e, 1, 5)[i] = e[i]
    BY SubSeqProperties
<1>2. /\ SubSeq(d, 1, 5) \in Seq(S) /\ Len(SubSeq(d, 1, 5)) = 5
      /\ \A i \in 1 .. 5 : SubSeq(d, 1, 5)[i] = d[i]
    BY SubSeqProperties
<1>3. \A i \in 1 .. 5 : SubSeq(e, 1, 5)[i] = SubSeq(d, 1, 5)[i]
    BY <1>1, <1>2
<1> QED BY <1>1, <1>2, <1>3, SeqEqual

\* Five sections are appended; those of the first chain stay the first five,
\* and the fifth says which shops it recommends.
LEMMA SectionsAppended ==
    ASSUME NEW d \in Seq(AnySection), Len(d) = 0 \/ Len(d) >= 5,
           NEW p \in 0 .. Rows, NEW s \in Shops,
           NEW e, e = d \o Sections(p, s)
    PROVE  /\ e \in Seq(AnySection) /\ Len(e) >= 5
           /\ Len(d) >= 5 => Len(e) > 5 /\ SubSeq(e, 1, 5) = SubSeq(d, 1, 5)
           /\ Len(d) = 0 => e[5].shops = s
<1> DEFINE five == Sections(p, s)
<1>1. five \in Seq(AnySection) /\ Len(five) = 5 /\ five[5].shops = s
    <2>1. ASSUME NEW n \in {1, Rows} \cup {Len(r) : r \in Shops}
          PROVE  Section(n, p, s) \in AnySection
        <3>1. \E m \in {1, Rows} \cup {Len(r) : r \in Shops},
                 q \in 0 .. Rows, r \in Shops : Section(n, p, s) = Section(m, q, r)
            BY Zenon
        <3> QED BY <3>1, SMTT(30) DEF AnySection
    <2>4. /\ 1 \in {1, Rows} \cup {Len(r) : r \in Shops}
          /\ Rows \in {1, Rows} \cup {Len(r) : r \in Shops}
          /\ Len(s) \in {1, Rows} \cup {Len(r) : r \in Shops}
        BY Zenon
    <2>5. /\ Section(1, p, s) \in AnySection /\ Section(Rows, p, s) \in AnySection
          /\ Section(Len(s), p, s) \in AnySection
        BY <2>1, <2>4, Zenon
    <2>2. Section(Len(s), p, s).shops = s
        BY DEF Section
    <2> HIDE DEF five
    <2>3. five = <<Section(1, p, s), Section(1, p, s), Section(Rows, p, s),
                   Section(1, p, s), Section(Len(s), p, s)>>
        BY DEF five, Sections
    <2> QED BY <2>2, <2>3, <2>5
<1>2. e = d \o five
    OBVIOUS
<1> HIDE DEF five
<1>3. /\ e \in Seq(AnySection) /\ Len(e) = Len(d) + 5 /\ Len(d) \in Nat
      /\ \A i \in 1 .. Len(d) : e[i] = d[i]
      /\ e[Len(d) + 5] = five[5]
    BY <1>1, <1>2, FiveMore
<1>4. ASSUME Len(d) >= 5 PROVE SubSeq(e, 1, 5) = SubSeq(d, 1, 5)
    <2>1. Len(e) >= 5 /\ \A i \in 1 .. 5 : e[i] = d[i]
        BY <1>3, <1>4
    <2> QED BY <1>3, <1>4, <2>1, SameFirstFive
<1>5. ASSUME Len(d) = 0 PROVE e[5].shops = s
    <2>1. Len(d) + 5 = 5
        BY <1>5
    <2> QED BY <1>1, <1>3, <2>1
<1>6. Len(e) >= 5 /\ (Len(d) >= 5 => Len(e) > 5)
    BY <1>3
<1> QED BY <1>3, <1>4, <1>5, <1>6

-----------------------------------------------------------------------------
(* One lemma for each handler.                                             *)

LEMMA InitInv == Init => PageIInv
<1> SUFFICES ASSUME Init PROVE PageIInv
    OBVIOUS
<1>1. << >> \in Seq(Block) /\ << >> \in Seq(AnySection) /\ Len(<< >>) = 0
          /\ DOMAIN << >> = {} /\ Dismissals(<< >>) = {}
    BY DEF Dismissals
<1>2. Cardinality({}) = 0 /\ IsFiniteSet({})
    BY FS_EmptySet
<1>3. /\ overlay.container = NoView /\ overlay.subviews = {}
      /\ overlay \in Overlay
    BY DEF Init, NoOverlay, Overlay
<1>4. loads = {} /\ stranded = 0 /\ trap = "no" /\ shown = << >>
    BY DEF Init
<1>5. mainQ \in Seq(Block) /\ DOMAIN mainQ = {} /\ Dismissals(mainQ) = {}
    BY <1>1 DEF Init
<1>6. dataList \in Seq(AnySection) /\ Len(dataList) = 0
    BY <1>1 DEF Init
<1>7. TypeInv
    BY <1>2, <1>3, <1>4, <1>5, <1>6 DEF TypeInv
<1>8. OverlayInv
    BY <1>2, <1>3, <1>4, <1>5 DEF OverlayInv, Owing, ContainerTrapsOnOverlap
<1>9. DisplayInv
    BY <1>4, <1>5, <1>6 DEF DisplayInv
<1> QED BY <1>7, <1>8, <1>9 DEF PageIInv

\* One overlay and one chain more.
LEMMA AppearKeeps ==
    ASSUME PageIInv, viewWillAppear
    PROVE  PageIInv'
<1>1. PICK v \in FreshViews(overlay) : overlay' = showLoadingView(overlay, v)
    BY DEF viewWillAppear
<1>2. /\ v \in Views /\ v \notin overlay.subviews /\ v # NoView
      /\ overlay'.container = v
      /\ overlay'.subviews = overlay.subviews \cup {v}
      /\ overlay' \in Overlay
    BY <1>1, NoViewAssumption
       DEF PageIInv, TypeInv, Overlay, FreshViews, showLoadingView
<1>3. PICK i \in LoadIds \ {l.id : l \in loads} : loads' = loads \cup {NewLoad(i)}
    BY DEF viewWillAppear
<1>4. NewLoad(i) \in ChainState /\ NewLoad(i).id = i /\ NewLoad(i) \notin loads
    BY DEF NewLoad, ChainState, Founds, Rows
<1>5. /\ trap = "no"
      /\ UNCHANGED <<stranded, recommendationShops, dataList, shown, mainQ, trap>>
    BY DEF viewWillAppear, Running
<1>6. /\ IsFiniteSet(overlay'.subviews)
      /\ Cardinality(overlay'.subviews) = Cardinality(overlay.subviews) + 1
    <2>1. IsFiniteSet(overlay.subviews)
        BY DEF PageIInv, TypeInv
    <2>2. /\ IsFiniteSet(overlay.subviews \cup {v})
          /\ Cardinality(overlay.subviews \cup {v})
                 = Cardinality(overlay.subviews) + 1
        BY <1>2, <2>1, FS_AddElement
    <2> QED BY <1>2, <2>2
<1>7. /\ IsFiniteSet(loads') /\ Cardinality(loads') = Cardinality(loads) + 1
      /\ Cardinality(loads) \in Nat
    BY <1>3, <1>4, FS_AddElement, FS_CardinalityType DEF PageIInv, TypeInv
<1>8. \A l, m \in loads' : l.id = m.id => l = m
    BY <1>3, <1>4 DEF PageIInv, TypeInv
<1>9. TypeInv'
    BY <1>2, <1>3, <1>4, <1>5, <1>6, <1>7, <1>8 DEF PageIInv, TypeInv
<1>10. Owing' = Owing + 1
    <2>1. Cardinality(Dismissals(mainQ)) \in Nat /\ stranded \in Nat
        BY DismissalsFinite DEF PageIInv, TypeInv
    <2> QED BY <1>5, <1>7, <2>1 DEF Owing
<1>11. OverlayInv'
    BY <1>2, <1>5, <1>6, <1>10 DEF PageIInv, OverlayInv, ContainerTrapsOnOverlap
<1>12. DisplayInv'
    BY <1>5 DEF PageIInv, DisplayInv
<1> QED BY <1>9, <1>11, <1>12 DEF PageIInv

\* Taps, alerts, timers and the layout pass leave overlays, chains and
\* sections alone.
LEMMA QuietKeeps ==
    ASSUME PageIInv,
           trap' = trap \/ (trap # "containerview" /\ trap' # "containerview"),
           UNCHANGED <<overlay, loads, stranded, recommendationShops, dataList,
                       shown, mainQ>>
    PROVE  PageIInv'
<1>1. TypeInv'
    BY DEF PageIInv, TypeInv
<1>2. OverlayInv'
    BY DEF PageIInv, OverlayInv, Owing, ContainerTrapsOnOverlap, Dismissals
<1>3. DisplayInv'
    BY DEF PageIInv, DisplayInv
<1> QED BY <1>1, <1>2, <1>3 DEF PageIInv

\* What an answer or a tap has to show: the same total owed, and blocks that
\* display the first chain.
LEMMA BalanceKeeps ==
    ASSUME PageIInv, TypeInv', Owing' = Owing, DisplayInv',
           UNCHANGED <<overlay, trap>>
    PROVE  PageIInv'
BY DEF PageIInv, OverlayInv, ContainerTrapsOnOverlap

LEMMA CartKeeps ==
    ASSUME PageIInv, didRequestToAddToCart
    PROVE  PageIInv'
<1>1. /\ mainQ' = Append(mainQ, ShowToast)
      /\ UNCHANGED <<overlay, loads, stranded, recommendationShops, dataList,
                     shown, trap>>
    BY DEF didRequestToAddToCart
<1>2. /\ mainQ' \in Seq(Block)
      /\ Cardinality(Dismissals(mainQ')) = Cardinality(Dismissals(mainQ)) + 0
      /\ Cardinality(Dismissals(mainQ)) \in Nat
      /\ \A i \in DOMAIN mainQ' : (i \in DOMAIN mainQ /\ mainQ'[i] = mainQ[i])
                                      \/ mainQ'[i].op # "apply"
    BY <1>1, Posting, BlockTypes, DismissalsFinite DEF PageIInv, TypeInv
<1>3. TypeInv'
    BY <1>1, <1>2 DEF PageIInv, TypeInv
<1>4. Owing' = Owing
    BY <1>1, <1>2 DEF Owing
<1>5. DisplayInv'
    BY <1>1, <1>2 DEF PageIInv, DisplayInv
<1> QED BY <1>1, <1>3, <1>4, <1>5, BalanceKeeps

\* An answer of Firestore to one chain: it ends and posts a dismissal, ends
\* stranded, or goes on.
LEMMA AnswerKeeps ==
    ASSUME PageIInv, NEW i \in LoadIds, Answer(i)
    PROVE  PageIInv'
<1>1. PICK l \in loads : \/ FailsEarly(l) \/ FailsLate(l)
                         \/ Events(l) \/ Products(l) \/ Kind(l) \/ Category(l)
    BY DEF Answer
<1>2. UNCHANGED <<overlay, shown, trap>>
    BY DEF Answer
<1> DEFINE C == Cardinality(loads)
           D == Cardinality(Dismissals(mainQ))
<1>3. /\ TypeInv /\ DisplayInv /\ stranded \in Nat /\ D \in Nat /\ C \in Nat
      /\ l \in ChainState /\ mainQ \in Seq(Block) /\ dataList \in Seq(AnySection)
    <2>1. TypeInv /\ DisplayInv
        BY DEF PageIInv
    <2>2. stranded \in Nat /\ mainQ \in Seq(Block) /\ dataList \in Seq(AnySection)
        BY <2>1 DEF TypeInv
    <2>3. l \in ChainState
        BY <2>1 DEF TypeInv
    <2> QED BY <2>1, <2>2, <2>3, DismissalsFinite, ChainEnds
\* The steps that do not append sections.
<1>4. ASSUME UNCHANGED <<dataList, recommendationShops>>,
             \/ mainQ' = mainQ
             \/ \E b \in Block : b.op # "apply" /\ mainQ' = Append(mainQ, b)
             \/ \E b, c \in Block : /\ b.op # "apply" /\ c.op # "apply"
                                    /\ mainQ' = Append(Append(mainQ, b), c)
      PROVE  mainQ' \in Seq(Block) /\ DisplayInv'
    <2> DEFINE Kept == /\ mainQ' \in Seq(Block)
                       /\ \A j \in DOMAIN mainQ' :
                              \/ j \in DOMAIN mainQ /\ mainQ'[j] = mainQ[j]
                              \/ mainQ'[j].op # "apply"
    <2>1. Kept
        <3>1. CASE mainQ' = mainQ
            BY <1>3, <3>1
        <3>2. ASSUME NEW b \in Block, b.op # "apply", mainQ' = Append(mainQ, b)
              PROVE  Kept
            BY <1>3, <3>2, Posting
        <3>3. ASSUME NEW b \in Block, NEW c \in Block,
                     b.op # "apply", c.op # "apply",
                     mainQ' = Append(Append(mainQ, b), c)
              PROVE  Kept
            BY <1>3, <3>3, Posting
        <3> QED BY <1>4, <3>1, <3>2, <3>3
    <2> QED BY <1>2, <1>3, <1>4, <2>1 DEF DisplayInv
\* The chain is over.
<1>5. ASSUME Finish(l)
      PROVE  /\ loads' \subseteq ChainState /\ IsFiniteSet(loads')
             /\ \A j, k \in loads' : j.id = k.id => j = k
             /\ Cardinality(loads') = C - 1
    BY <1>3, <1>5, ChainEnds DEF Finish, TypeInv
<1>6. CASE FailsEarly(l)
    <2>1. /\ Finish(l) /\ stranded' = stranded + 1
          /\ mainQ' = Append(mainQ, ShowAlert)
          /\ UNCHANGED <<dataList, recommendationShops>>
        BY <1>6 DEF FailsEarly
    <2>2. mainQ' \in Seq(Block) /\ DisplayInv'
        BY <1>4, <2>1, BlockTypes
    <2>3. Cardinality(Dismissals(mainQ')) = D
        <3>1. ShowAlert \in Block /\ ShowAlert.op # "dismissLoadingView"
            BY BlockTypes
        <3>2. Cardinality(Dismissals(Append(mainQ, ShowAlert)))
                  = D + (IF ShowAlert.op = "dismissLoadingView" THEN 1 ELSE 0)
            BY <1>3, <3>1, Posting, Zenon
        <3> QED BY <1>3, <2>1, <3>1, <3>2
    <2>4. TypeInv'
        BY <1>2, <1>3, <1>5, <2>1, <2>2 DEF TypeInv
    <2>5. Owing' = Owing
        BY <1>3, <1>5, <2>1, <2>3 DEF Owing
    <2> QED BY <1>2, <2>2, <2>4, <2>5, BalanceKeeps
<1>7. CASE FailsLate(l)
    <2>1. /\ Finish(l) /\ stranded' = stranded
          /\ mainQ' = Append(Append(mainQ, DismissOverlay), ShowAlert)
          /\ UNCHANGED <<dataList, recommendationShops>>
        BY <1>3, <1>7, PostingTwo, BlockTypes DEF FailsLate
    <2>2. mainQ' \in Seq(Block) /\ DisplayInv'
        BY <1>4, <2>1, BlockTypes
    <2>3. Cardinality(Dismissals(mainQ')) = D + 1
        <3>1. /\ Append(mainQ, DismissOverlay) \in Seq(Block)
              /\ Cardinality(Dismissals(Append(mainQ, DismissOverlay))) = D + 1
            BY <1>3, Posting, BlockTypes
        <3>2. Cardinality(Dismissals(mainQ')) = D + 1 + 0
            BY <2>1, <3>1, Posting, BlockTypes
        <3> QED BY <1>3, <3>2
    <2>4. TypeInv'
        BY <1>2, <1>3, <1>5, <2>1, <2>2 DEF TypeInv
    <2>5. Owing' = Owing
        BY <1>3, <1>5, <2>1, <2>3 DEF Owing
    <2> QED BY <1>2, <2>2, <2>4, <2>5, BalanceKeeps
<1>8. ASSUME NEW m \in ChainState, m.id = l.id, Become(l, m),
             UNCHANGED <<stranded, mainQ, dataList, recommendationShops>>
      PROVE  PageIInv'
    <2>1. /\ loads' \subseteq ChainState /\ IsFiniteSet(loads')
          /\ \A j, k \in loads' : j.id = k.id => j = k
          /\ Cardinality(loads') = C
        BY <1>3, <1>8, ChainGoesOn DEF Become
    <2>2. mainQ' \in Seq(Block) /\ DisplayInv'
        BY <1>4, <1>8
    <2>3. TypeInv'
        BY <1>2, <1>3, <1>8, <2>1, <2>2 DEF TypeInv
    <2>4. Owing' = Owing
        BY <1>8, <2>1 DEF Owing, Dismissals
    <2> QED BY <1>2, <2>2, <2>3, <2>4, BalanceKeeps
<1>9. CASE Events(l)
    <2>1. CASE Finish(l) /\ mainQ' = Append(mainQ, DismissOverlay)
        <3>1. UNCHANGED <<stranded, dataList, recommendationShops>>
            BY <1>9 DEF Events
        <3>2. mainQ' \in Seq(Block) /\ DisplayInv'
            BY <1>4, <2>1, <3>1, BlockTypes
        <3>3. Cardinality(Dismissals(mainQ')) = D + 1
            BY <1>3, <2>1, Posting, BlockTypes
        <3>4. TypeInv'
            BY <1>2, <1>3, <1>5, <2>1, <3>1, <3>2 DEF TypeInv
        <3>5. Owing' = Owing
            BY <1>3, <1>5, <2>1, <3>1, <3>3 DEF Owing
        <3> QED BY <1>2, <3>2, <3>4, <3>5, BalanceKeeps
    <2>2. CASE Become(l, [l EXCEPT !.at = "products"]) /\ mainQ' = mainQ
        <3>1. /\ [l EXCEPT !.at = "products"] \in ChainState
              /\ [l EXCEPT !.at = "products"].id = l.id
            BY <1>3 DEF ChainState
        <3> QED BY <1>8, <1>9, <2>2, <3>1 DEF Events
    <2> QED BY <1>9, <2>1, <2>2 DEF Events
<1>10. CASE Products(l)
    <2>1. PICK p \in 0 .. Rows : Become(l, [l EXCEPT !.at = "kind", !.products = p])
        BY <1>10 DEF Products
    <2>2. /\ [l EXCEPT !.at = "kind", !.products = p] \in ChainState
          /\ [l EXCEPT !.at = "kind", !.products = p].id = l.id
        BY <1>3 DEF ChainState
    <2> QED BY <1>8, <1>10, <2>1, <2>2 DEF Products
<1>11. CASE Kind(l)
    <2>1. PICK docs \in KindDocs :
              IF AsksCategory(SameKind(docs, Own))
              THEN Become(l, [l EXCEPT !.at = "category",
                                       !.found = SameKind(docs, Own)])
                       /\ UNCHANGED stranded
              ELSE Finish(l) /\ stranded' = stranded + 1
        BY <1>11 DEF Kind
    <2>2. UNCHANGED <<dataList, recommendationShops, mainQ>>
        BY <1>11 DEF Kind
    <2>3. CASE AsksCategory(SameKind(docs, Own))
        <3> DEFINE m == [l EXCEPT !.at = "category", !.found = SameKind(docs, Own)]
        <3>1. m \in ChainState /\ m.id = l.id
            BY <1>3 DEF ChainState, Founds
        <3>2. Become(l, m) /\ UNCHANGED stranded
            BY <2>1, <2>3
        <3> HIDE DEF m
        <3> QED BY <1>8, <2>2, <3>1, <3>2
    <2>4. CASE ~AsksCategory(SameKind(docs, Own))
        <3>1. Finish(l) /\ stranded' = stranded + 1
            BY <2>1, <2>4
        <3>2. mainQ' \in Seq(Block) /\ DisplayInv'
            BY <1>4, <2>2
        <3>3. TypeInv'
            BY <1>2, <1>3, <1>5, <2>2, <3>1, <3>2 DEF TypeInv
        <3>4. Owing' = Owing
            BY <1>3, <1>5, <2>2, <3>1 DEF Owing
        <3> QED BY <1>2, <3>2, <3>3, <3>4, BalanceKeeps
    <2> QED BY <2>3, <2>4
<1>12. CASE Category(l)
    <2> DEFINE s == recommendationShops'
    <2>1. PICK docs \in CategoryDocs :
              s = l.found \o SameCategory(docs, Own, Wanted - Len(l.found))
        BY <1>12 DEF Category
    <2>2. s \in Shops /\ l.products \in 0 .. Rows
        <3>1. l.found \in Founds /\ l.products \in 0 .. Rows
            BY <1>3 DEF ChainState
        <3> HIDE DEF s
        <3>2. \E f \in Founds, c \in CategoryDocs :
                  s = f \o SameCategory(c, Own, Wanted - Len(f))
            BY <2>1, <3>1, Zenon
        <3> QED BY <3>1, <3>2 DEF Shops
    <2>3. /\ Finish(l) /\ stranded' = stranded
          /\ dataList' = dataList \o Sections(l.products, s)
          /\ mainQ' = mainQ \o <<DismissOverlay, Apply(dataList')>>
        BY <1>12 DEF Category
    <2> HIDE DEF s
    <2>4. Len(dataList) = 0 \/ Len(dataList) >= 5
        BY <1>3 DEF DisplayInv
    <2>5. /\ dataList' \in Seq(AnySection) /\ Len(dataList') >= 5
          /\ Len(dataList) >= 5 => /\ Len(dataList') > 5
                                   /\ SubSeq(dataList', 1, 5) = SubSeq(dataList, 1, 5)
          /\ Len(dataList) = 0 => dataList'[5].shops = s
        <3>1. \A e : e = dataList \o Sections(l.products, s) =>
                  /\ e \in Seq(AnySection) /\ Len(e) >= 5
                  /\ Len(dataList) >= 5 =>
                         Len(e) > 5 /\ SubSeq(e, 1, 5) = SubSeq(dataList, 1, 5)
                  /\ Len(dataList) = 0 => e[5].shops = s
            BY <1>3, <2>2, <2>4, SectionsAppended, Zenon
        <3>2. dataList' = dataList \o Sections(l.products, s)
            BY <2>3
        <3> QED BY <3>1, <3>2, Zenon
    <2> DEFINE b == Apply(dataList')
    <2>6. b \in Block /\ b.op = "apply" /\ b.data = SubSeq(dataList', 1, 5)
        BY <2>5, BlockTypes
    <2> HIDE DEF b
    <2>7. mainQ' = Append(Append(mainQ, DismissOverlay), b)
        BY <1>3, <2>3, <2>6, PostingTwo, BlockTypes DEF b
    <2>8. /\ Append(mainQ, DismissOverlay) \in Seq(Block)
          /\ Cardinality(Dismissals(Append(mainQ, DismissOverlay))) = D + 1
          /\ \A j \in DOMAIN Append(mainQ, DismissOverlay) :
                 \/ /\ j \in DOMAIN mainQ
                    /\ Append(mainQ, DismissOverlay)[j] = mainQ[j]
                 \/ Append(mainQ, DismissOverlay)[j].op # "apply"
        BY <1>3, Posting, BlockTypes
    <2>9. /\ mainQ' \in Seq(Block)
          /\ Cardinality(Dismissals(mainQ')) = D + 1
          /\ \A j \in DOMAIN mainQ' :
                 \/ j \in DOMAIN mainQ /\ mainQ'[j] = mainQ[j]
                 \/ mainQ'[j].op # "apply"
                 \/ mainQ'[j] = b
        <3>1. /\ mainQ' \in Seq(Block)
              /\ Cardinality(Dismissals(mainQ')) = D + 1 + 0
              /\ \A j \in DOMAIN mainQ' :
                     \/ /\ j \in DOMAIN Append(mainQ, DismissOverlay)
                        /\ mainQ'[j] = Append(mainQ, DismissOverlay)[j]
                     \/ mainQ'[j] = b
            BY <2>6, <2>7, <2>8, Posting
        <3> QED BY <1>3, <2>8, <3>1
    <2>10. TypeInv'
        BY <1>2, <1>3, <1>5, <2>3, <2>5, <2>9 DEF TypeInv
    <2>11. Owing' = Owing
        BY <1>3, <1>5, <2>3, <2>9 DEF Owing
    <2>12. DisplayInv'
        <3>1. shown' = << >> \/ shown' = SubSeq(dataList', 1, 5)
            BY <1>2, <1>3, <2>5 DEF DisplayInv
        <3>2. \A j \in DOMAIN mainQ' :
                  mainQ'[j].op = "apply" => mainQ'[j].data = SubSeq(dataList', 1, 5)
            BY <1>3, <2>5, <2>6, <2>9 DEF DisplayInv
        <3>3. Len(dataList') = 5 => dataList'[5].shops = recommendationShops'
            BY <2>4, <2>5 DEF s
        <3> QED BY <2>5, <3>1, <3>2, <3>3 DEF DisplayInv
    <2> QED BY <1>2, <2>10, <2>11, <2>12, BalanceKeeps
<1> QED BY <1>1, <1>6, <1>7, <1>9, <1>10, <1>11, <1>12

\* A block of the main queue: a dismissal takes one overlay and one dismissal
\* away, or traps and leaves an orphan behind.
LEMMA BlockKeeps ==
    ASSUME PageIInv, RunBlock
    PROVE  PageIInv'
<1> DEFINE h == Head(mainQ)
           D == Cardinality(Dismissals(mainQ))
           O == Cardinality(overlay.subviews)
<1>1. /\ mainQ # << >> /\ mainQ' = Tail(mainQ) /\ trap = "no"
      /\ UNCHANGED <<loads, stranded, recommendationShops, dataList>>
      /\ RunDismiss \/ RunApply \/ RunAlert \/ RunToast
    BY DEF RunBlock, Running
<1>2. TypeInv /\ OverlayInv /\ DisplayInv
    BY DEF PageIInv
<1>3. /\ mainQ \in Seq(Block) /\ stranded \in Nat /\ overlay \in Overlay
      /\ IsFiniteSet(overlay.subviews) /\ IsFiniteSet(loads)
    BY <1>2 DEF TypeInv
<1>4. /\ mainQ' \in Seq(Block) /\ h = mainQ[1] /\ 1 \in DOMAIN mainQ
      /\ \A i \in DOMAIN mainQ' : i + 1 \in DOMAIN mainQ /\ mainQ'[i] = mainQ[i + 1]
      /\ Cardinality(Dismissals(mainQ')) =
             D - (IF h.op = "dismissLoadingView" THEN 1 ELSE 0)
    BY <1>1, <1>3, Running1
<1>5. /\ D \in Nat /\ Cardinality(Dismissals(mainQ')) \in Nat
      /\ O \in Nat /\ Cardinality(loads) \in Nat
    BY <1>3, <1>4, DismissalsFinite, FS_CardinalityType
<1>6. O = Cardinality(loads) + D + stranded
    BY <1>1, <1>2 DEF OverlayInv, Owing
<1>7. /\ \A i \in DOMAIN mainQ' :
             mainQ'[i].op = "apply" =>
                 Len(dataList') >= 5 /\ mainQ'[i].data = SubSeq(dataList', 1, 5)
      /\ h.op = "apply" => Len(dataList) >= 5 /\ h.data = SubSeq(dataList, 1, 5)
    BY <1>1, <1>2, <1>4 DEF DisplayInv
<1> HIDE DEF h
<1>8. CASE RunDismiss /\ CanDismiss(overlay)
    <2>1. /\ h.op = "dismissLoadingView" /\ overlay' = DismissBlock(overlay)
          /\ UNCHANGED <<shown, trap>>
        BY <1>8 DEF RunDismiss, h
    <2> DEFINE v == overlay.container
    <2>2. v \in overlay.subviews
        BY <1>2, <1>8 DEF OverlayInv, CanDismiss
    <2>3. /\ overlay'.container = NoView /\ overlay'.subviews = overlay.subviews \ {v}
          /\ overlay' \in Overlay
        BY <1>3, <2>1 DEF DismissBlock, Overlay
    <2> HIDE DEF v
    <2>4. /\ IsFiniteSet(overlay.subviews \ {v})
          /\ Cardinality(overlay.subviews \ {v}) = O - 1
        BY <1>3, <2>2, FS_RemoveElement
    <2>5. TypeInv'
        BY <1>1, <1>2, <1>4, <2>3, <2>4 DEF TypeInv
    <2>6. Owing' = Cardinality(loads) + (D - 1) + stranded
        BY <1>1, <1>4, <2>1 DEF Owing
    <2>7. Cardinality(overlay'.subviews) = Owing'
        BY <1>3, <1>5, <1>6, <2>3, <2>4, <2>6
    <2>8. OverlayInv'
        BY <1>1, <2>1, <2>3, <2>7 DEF OverlayInv, ContainerTrapsOnOverlap
    <2>9. DisplayInv'
        BY <1>1, <1>2, <1>7, <2>1 DEF DisplayInv
    <2> QED BY <2>5, <2>8, <2>9 DEF PageIInv
<1>9. CASE RunDismiss /\ ~CanDismiss(overlay)
    <2>1. /\ h.op = "dismissLoadingView" /\ trap' = "containerview"
          /\ UNCHANGED <<overlay, shown>>
        BY <1>9 DEF RunDismiss, h
    <2>2. overlay.container = NoView
        BY <1>9 DEF CanDismiss
    <2>3. D >= 1
        BY <1>4, <1>5, <2>1
    <2>4. O # 0
        BY <1>3, <1>5, <1>6, <2>3
    <2>5. overlay.subviews # {} /\ NoView \notin overlay.subviews
        BY <1>3, <2>4, FS_EmptySet, NoViewAssumption DEF Overlay
    <2>6. Orphans(overlay) # {}
        BY <2>2, <2>5 DEF Orphans
    <2>7. TypeInv'
        BY <1>1, <1>2, <1>4, <2>1 DEF TypeInv
    <2>8. OverlayInv'
        BY <2>1, <2>2, <2>6 DEF OverlayInv, ContainerTrapsOnOverlap
    <2>9. DisplayInv'
        BY <1>1, <1>2, <1>7, <2>1 DEF DisplayInv
    <2> QED BY <2>7, <2>8, <2>9 DEF PageIInv
<1>10. CASE RunApply \/ RunAlert \/ RunToast
    <2>1. /\ h.op # "dismissLoadingView"
          /\ UNCHANGED <<overlay, trap>>
          /\ shown' = shown \/ (h.op = "apply" /\ shown' = h.data)
        BY <1>10 DEF RunApply, RunAlert, RunToast, h
    <2>2. Cardinality(Dismissals(mainQ')) = D
        BY <1>4, <1>5, <2>1
    <2>3. TypeInv'
        BY <1>1, <1>2, <1>4, <2>1 DEF TypeInv
    <2>4. Owing' = Owing
        BY <1>1, <2>2 DEF Owing
    <2>5. DisplayInv'
        BY <1>1, <1>2, <1>7, <2>1 DEF DisplayInv
    <2> QED BY <2>1, <2>3, <2>4, <2>5, BalanceKeeps
<1> QED BY <1>1, <1>8, <1>9, <1>10

-----------------------------------------------------------------------------
(* The invariant, and what follows from it.                                *)

LEMMA NextInv ==
    ASSUME PageIInv, [Next]_vars
    PROVE  PageIInv'
<1>1. CASE Leave \/ backToHome \/ ConfirmAlert \/ ToastTimer
    BY <1>1, QuietKeeps DEF Leave, backToHome, ConfirmAlert, ToastTimer
<1>2. CASE didSelectItemAt \/ LayOut
    BY <1>2, QuietKeeps DEF didSelectItemAt, LayOut, Touchable, Running
<1>3. CASE UNCHANGED vars
    BY <1>3, QuietKeeps DEF vars
<1> QED BY <1>1, <1>2, <1>3, AppearKeeps, CartKeeps, AnswerKeeps, BlockKeeps
        DEF Next

LEMMA Invariance == Spec => []PageIInv
BY InitInv, NextInv, PTL DEF Spec

(***************************************************************************)
(* However the chains overlap and fail, each overlay on the page is owed   *)
(* to a chain under way, to a queued dismissal, or to a chain that ended   *)
(* without one.                                                            *)
(***************************************************************************)
THEOREM OverlaysOwed == Spec => []OverlaysAreOwed
<1>1. PageIInv => OverlaysAreOwed
    BY DEF PageIInv, OverlayInv, Owing, OverlaysAreOwed, Running
<1> QED BY <1>1, Invariance, PTL

(***************************************************************************)
(* The unwrap in dismissLoadingView (FLDataLoadingVC:41) traps only with   *)
(* the overlay of another chain still on the page, out of reach.           *)
(***************************************************************************)
THEOREM DismissTrapsOnOverlap == Spec => []ContainerTrapsOnOverlap
<1>1. PageIInv => ContainerTrapsOnOverlap
    BY DEF PageIInv, OverlayInv
<1> QED BY <1>1, Invariance, PTL

(***************************************************************************)
(* With one completed chain the array a tap indexes (ShopInfoVC:361) is    *)
(* the one on display.                                                     *)
(***************************************************************************)
THEOREM FirstChainIndexed == Spec => []IndexMatchesFirstChain
<1>1. PageIInv => IndexMatchesFirstChain
    <2> SUFFICES ASSUME PageIInv, shown # << >>, Len(dataList) = 5
                 PROVE  recommendationShops = shown[5].shops
        BY DEF IndexMatchesFirstChain
    <2>1. /\ shown = SubSeq(dataList, 1, 5) /\ dataList \in Seq(AnySection)
          /\ dataList[5].shops = recommendationShops
        BY DEF PageIInv, DisplayInv, TypeInv
    <2>2. SubSeq(dataList, 1, 5)[5] = dataList[5]
        BY <2>1, SubSeqProperties
    <2> QED BY <2>1, <2>2
<1> QED BY <1>1, Invariance, PTL

(***************************************************************************)
(* updateData (ShopInfoVC:328) never replaces what the page displays: the  *)
(* sections later chains append are out of its reach.                      *)
(***************************************************************************)
THEOREM ShownStays == Spec => FirstChainStays
<1>1. ASSUME PageIInv, PageIInv', [Next]_vars, shown # << >>
      PROVE  shown' = shown
    <2>1. /\ Len(dataList) >= 5 /\ shown = SubSeq(dataList, 1, 5)
          /\ dataList \in Seq(AnySection)
        BY <1>1 DEF PageIInv, DisplayInv, TypeInv
    <2>2. shown' = shown \/ RunBlock
        BY <1>1 DEF Next, vars, viewWillAppear, Leave, backToHome,
                    didSelectItemAt, didRequestToAddToCart, ConfirmAlert, Answer,
                    LayOut, ToastTimer
    <2>3. CASE RunBlock
        <3>1. UNCHANGED dataList
            BY <2>3 DEF RunBlock
        <3>2. shown' = shown \/ (Head(mainQ).op = "apply" /\ shown' = Head(mainQ).data)
            BY <2>3 DEF RunBlock, RunDismiss, RunApply, RunAlert, RunToast
        <3>3. Head(mainQ) = mainQ[1] /\ 1 \in DOMAIN mainQ
            BY <1>1, <2>3, Running1 DEF RunBlock, PageIInv, TypeInv
        <3> QED BY <1>1, <2>1, <3>2, <3>3 DEF PageIInv, DisplayInv
    <2> QED BY <2>2, <2>3
<1>2. PageIInv /\ PageIInv' /\ [Next]_vars => [shown # << >> => shown' = shown]_vars
    BY <1>1
<1> QED BY <1>2, Invariance, PTL DEF Spec, FirstChainStays

-----------------------------------------------------------------------------
(* The loop of getShopList.                                                *)

LEMMA LeastExists ==
    ASSUME NEW S, S \subseteq Nat, S # {}
    PROVE  \E x \in S : \A y \in S : x <= y
<1> DEFINE R == {p \in Nat \X Nat : p[1] < p[2]}
<1>1. \E x \in S : \A y \in S : ~(<<y, x>> \in R)
    BY NatLessThanWellFounded, WFMin DEF OpToRel
<1>2. \A x \in S, y \in S : y < x => <<y, x>> \in R
    OBVIOUS
<1>3. \A x \in S, y \in S : ~(y < x) => x <= y
    OBVIOUS
<1> QED BY <1>1, <1>2, <1>3

\* Induction up to n, as a statement about the set of the numbers reached.
LEMMA UpTo ==
    ASSUME NEW n \in Nat, NEW G, 0 \in G,
           \A i \in 1 .. n : i - 1 \in G => i \in G
    PROVE  0 .. n \subseteq G
<1> DEFINE S == (0 .. n) \ G
<1> SUFFICES ASSUME S # {} PROVE FALSE
    OBVIOUS
<1>1. S \subseteq Nat
    OBVIOUS
<1>2. PICK x \in S : \A y \in S : x <= y
    <2> HIDE DEF S
    <2> QED BY <1>1, LeastExists
<1>3. x \in 1 .. n /\ x - 1 \in 0 .. n /\ ~(x <= x - 1)
    BY <1>2
<1>4. x - 1 \in G
    BY <1>2, <1>3
<1> QED BY <1>2, <1>3, <1>4

\* What the loop does with document i.
Kept(docs, own, before, i) ==
    IF docs[i] # own THEN Append(before, docs[i]) ELSE before

\* The lists of the loop on its way.
Loop(docs, own, f) ==
    /\ f[0] = << >>
    /\ \A i \in 1 .. Len(docs) : f[i] = Kept(docs, own, f[i - 1], i)

\* A function that follows the loop exists, whatever the documents are.
LEMMA LoopExists ==
    ASSUME NEW own, NEW docs, Len(docs) \in Nat
    PROVE  \E f : /\ DOMAIN f = 0 .. Len(docs) /\ f[0] = << >>
                  /\ \A i \in 1 .. Len(docs) :
                         f[i] = Kept(docs, own, f[i - 1], i)
                  /\ f = [i \in 0 .. Len(docs) |-> f[i]]
<1> DEFINE n == Len(docs)
           Good(f, m) == /\ DOMAIN f = 0 .. m /\ f[0] = << >>
                         /\ \A i \in 1 .. m : f[i] = Kept(docs, own, f[i - 1], i)
                         /\ f = [i \in 0 .. m |-> f[i]]
           G == {m \in 0 .. n : \E f : Good(f, m)}
<1>1. 0 \in G
    <2> DEFINE g == [i \in 0 .. 0 |-> << >>]
    <2>1. DOMAIN g = 0 .. 0 /\ g[0] = << >> /\ g = [i \in 0 .. 0 |-> g[i]]
        OBVIOUS
    <2> HIDE DEF g
    <2>2. Good(g, 0)
        BY <2>1
    <2> QED BY <2>2
<1>2. ASSUME NEW i \in 1 .. n, i - 1 \in G
      PROVE  i \in G
    <2>1. PICK f : Good(f, i - 1)
        BY <1>2
    <2> DEFINE k == Kept(docs, own, f[i - 1], i)
               g == [j \in 0 .. i |-> IF j = i THEN k ELSE f[j]]
    <2> HIDE DEF k
    <2>2. DOMAIN g = 0 .. i /\ g = [j \in 0 .. i |-> g[j]]
        OBVIOUS
    <2>3. g[i] = k /\ \A j \in 0 .. i - 1 : g[j] = f[j]
        OBVIOUS
    <2> HIDE DEF g
    <2>4. g[0] = << >>
        BY <2>1, <2>3
    <2>5. ASSUME NEW j \in 1 .. i
          PROVE  g[j] = Kept(docs, own, g[j - 1], j)
        <3>1. g[j - 1] = f[j - 1]
            BY <2>3
        <3>2. CASE j = i
            BY <2>3, <3>1, <3>2 DEF k
        <3>3. CASE j # i
            <4>1. j \in 1 .. i - 1 /\ j \in 0 .. i - 1
                BY <3>3
            <4> QED BY <2>1, <2>3, <3>1, <4>1
        <3> QED BY <3>2, <3>3
    <2>6. Good(g, i)
        BY <2>2, <2>4, <2>5
    <2> QED BY <2>6
<1>3. 0 .. n \subseteq G
    <2> HIDE DEF G
    <2> QED BY <1>1, <1>2, UpTo
<1>4. n \in G
    BY <1>3
<1> QED BY <1>4

\* Others is the last list of such a function.
LEMMA OthersIs ==
    ASSUME NEW own, NEW docs, Len(docs) \in Nat
    PROVE  \E f : Loop(docs, own, f) /\ Others(docs, own) = f[Len(docs)]
<1> DEFINE n == Len(docs)
           E(f) == f = [i \in 0 .. n |->
                           IF i = 0 THEN << >>
                           ELSE IF docs[i] # own
                                THEN Append(f[i - 1], docs[i]) ELSE f[i - 1]]
           k == CHOOSE f : E(f)
<1>1. \E f : E(f)
    <2>1. PICK f : /\ DOMAIN f = 0 .. n /\ f[0] = << >>
                   /\ \A i \in 1 .. n : f[i] = Kept(docs, own, f[i - 1], i)
                   /\ f = [i \in 0 .. n |-> f[i]]
        BY LoopExists
    <2>2. ASSUME NEW i \in 0 .. n
          PROVE  f[i] = IF i = 0 THEN << >>
                        ELSE IF docs[i] # own
                             THEN Append(f[i - 1], docs[i]) ELSE f[i - 1]
        <3>1. i = 0 \/ i \in 1 .. n
            OBVIOUS
        <3> QED BY <2>1, <3>1 DEF Kept
    <2>3. E(f)
        BY <2>1, <2>2
    <2> QED BY <2>3
<1>2. E(k)
    BY <1>1
<1>3. Others(docs, own) = k[n]
    BY DEF Others
<1> HIDE DEF k
<1>4. \A i \in 0 .. n : k[i] = IF i = 0 THEN << >>
                               ELSE IF docs[i] # own
                                    THEN Append(k[i - 1], docs[i]) ELSE k[i - 1]
    BY <1>2
<1>5. Loop(docs, own, k)
    BY <1>4 DEF Loop, Kept
<1> QED BY <1>3, <1>5

\* A list of shops, none of them the shop of the page.
Beside(t, own) == t \in Seq(Nat) /\ \A k \in 1 .. Len(t) : t[k] # own

LEMMA OthersBeside ==
    ASSUME NEW own, NEW docs \in Seq(Nat)
    PROVE  Beside(Others(docs, own), own)
<1> DEFINE n == Len(docs)
<1>1. n \in Nat /\ \A i \in 1 .. n : docs[i] \in Nat
    OBVIOUS
<1>2. PICK f : Loop(docs, own, f) /\ Others(docs, own) = f[n]
    BY <1>1, OthersIs
<1> DEFINE G == {i \in 0 .. n : Beside(f[i], own)}
<1>3. 0 \in G
    <2>1. f[0] = << >> /\ << >> \in Seq(Nat) /\ 1 .. Len(<< >>) = {}
        BY <1>2 DEF Loop
    <2>2. Beside(f[0], own)
        BY <2>1 DEF Beside
    <2> QED BY <1>1, <2>2
<1>4. ASSUME NEW i \in 1 .. n, i - 1 \in G
      PROVE  i \in G
    <2> DEFINE t == f[i - 1]
               u == f[i]
    <2>1. u = Kept(docs, own, t, i) /\ Beside(t, own) /\ docs[i] \in Nat
        BY <1>1, <1>2, <1>4 DEF Loop
    <2> HIDE DEF t, u
    <2>2. CASE docs[i] = own
        BY <2>1, <2>2 DEF Kept, u
    <2>3. CASE docs[i] # own
        <3>1. u = Append(t, docs[i]) /\ t \in Seq(Nat)
            BY <2>1, <2>3 DEF Kept, Beside
        <3>2. /\ u \in Seq(Nat) /\ Len(u) = Len(t) + 1 /\ Len(t) \in Nat
              /\ u[Len(t) + 1] = docs[i]
              /\ \A k \in 1 .. Len(t) : u[k] = t[k]
            BY <2>1, <3>1
        <3>3. \A k \in 1 .. Len(u) : k \in 1 .. Len(t) \/ k = Len(t) + 1
            BY <3>2
        <3>4. \A k \in 1 .. Len(u) : u[k] # own
            BY <2>1, <2>3, <3>2, <3>3, Zenon DEF Beside
        <3>5. Beside(u, own)
            BY <3>2, <3>4 DEF Beside
        <3> QED BY <3>5 DEF u
    <2> QED BY <2>2, <2>3
<1>5. 0 .. n \subseteq G
    <2> HIDE DEF G
    <2> QED BY <1>1, <1>3, <1>4, UpTo
<1>6. n \in G
    BY <1>1, <1>5
<1> QED BY <1>2, <1>6

\* What a limit leaves of a list.
LEMMA PageFits ==
    ASSUME NEW s \in Seq(Nat), NEW n \in Nat
    PROVE  /\ Page(s, n) \in Seq(Nat) /\ Len(Page(s, n)) <= n
           /\ \A own : Beside(s, own) => Beside(Page(s, n), own)
<1>1. CASE Len(s) <= n
    BY <1>1 DEF Page
<1>2. CASE ~(Len(s) <= n)
    <2> DEFINE t == SubSeq(s, 1, n)
    <2>1. /\ t \in Seq(Nat) /\ Len(t) = n /\ n <= Len(s) /\ Len(s) \in Nat
          /\ \A k \in 1 .. n : t[k] = s[k] /\ k \in 1 .. Len(s)
        BY <1>2, SubSeqProperties
    <2>2. Page(s, n) = t
        BY <1>2 DEF Page
    <2> HIDE DEF t
    <2> QED BY <2>1, <2>2 DEF Beside
<1> QED BY <1>1, <1>2

LEMMA KindFits ==
    ASSUME NEW docs \in KindDocs
    PROVE  Beside(SameKind(docs, Own), Own)
<1>1. docs \in Seq(Nat) /\ Wanted + 1 \in Nat
    BY DocsAssumption, WantedAssumption
<1>2. Page(docs, Wanted + 1) \in Seq(Nat)
    BY <1>1, PageFits
<1> QED BY <1>2, OthersBeside DEF SameKind

LEMMA CategoryFits ==
    ASSUME NEW docs \in CategoryDocs, NEW togo \in Nat
    PROVE  /\ Beside(SameCategory(docs, Own, togo), Own)
           /\ Len(SameCategory(docs, Own, togo)) <= togo
<1> DEFINE o == Others(Page(docs, togo + 1), Own)
<1>1. docs \in Seq(Nat) /\ togo + 1 \in Nat
    BY DocsAssumption
<1>2. Page(docs, togo + 1) \in Seq(Nat)
    BY <1>1, PageFits
<1>3. Beside(o, Own)
    BY <1>2, OthersBeside
<1>4. SameCategory(docs, Own, togo) = Page(o, togo)
    BY DEF SameCategory
<1> HIDE DEF o
<1>5. o \in Seq(Nat)
    BY <1>3 DEF Beside
<1> QED BY <1>3, <1>4, <1>5, PageFits

\* Two such lists make one.
LEMMA BesideBoth ==
    ASSUME NEW own, NEW s, NEW t, Beside(s, own), Beside(t, own)
    PROVE  Beside(s \o t, own) /\ Len(s \o t) = Len(s) + Len(t)
<1> DEFINE u == s \o t
<1>1. /\ s \in Seq(Nat) /\ t \in Seq(Nat) /\ Len(s) \in Nat /\ Len(t) \in Nat
      /\ u \in Seq(Nat)
    BY DEF Beside
<1>2. /\ Len(u) = Len(s) + Len(t)
      /\ \A i \in 1 .. Len(s) + Len(t) :
             u[i] = IF i <= Len(s) THEN s[i] ELSE t[i - Len(s)]
    BY <1>1, ConcatProperties, Zenon
<1> HIDE DEF u
<1>3. ASSUME NEW i \in 1 .. Len(u)
      PROVE  u[i] # own
    <2>1. i \in 1 .. Len(s) + Len(t)
        BY <1>2
    <2>2. CASE i <= Len(s)
        <3>1. i \in 1 .. Len(s) /\ u[i] = s[i]
            BY <1>1, <1>2, <2>1, <2>2
        <3> QED BY <3>1 DEF Beside
    <2>3. CASE ~(i <= Len(s))
        <3>1. i - Len(s) \in 1 .. Len(t) /\ u[i] = t[i - Len(s)]
            BY <1>1, <1>2, <2>1, <2>3
        <3> QED BY <3>1 DEF Beside
    <2> QED BY <2>2, <2>3
<1> QED BY <1>1, <1>2, <1>3 DEF Beside, u

-----------------------------------------------------------------------------
(* The rest of the state: what kind of values it holds, what is            *)
(* recommended, and what the traps say of the sections.                    *)

SectionRecord == [rows : Nat, products : 0 .. Rows, shops : Seq(Nat)]

DetailType ==
    /\ screen \in {"away", "onScreen", "popped"}
    /\ emptyState \in BOOLEAN /\ dirty \in BOOLEAN
    /\ dataList \in Seq(SectionRecord)
    /\ modal \in Modal
    /\ timers \subseteq Toasts
    /\ trap \in {"no", "containerview", "productImageURLs", "activeArray"}

\* A chain that asks a second time has found other shops, but not enough.
Chains ==
    \A l \in loads :
        Beside(l.found, Own) /\ (l.at = "category" => AsksCategory(l.found))

Recommended ==
    Beside(recommendationShops, Own) /\ Len(recommendationShops) <= Wanted

\* The first five sections are those of one chain.
FirstFive ==
    Len(dataList) >= 5 =>
        \E p \in 0 .. Rows, s \in Seq(Nat) : SubSeq(dataList, 1, 5) = Sections(p, s)

TapTraps == trap = "activeArray" => Len(dataList) > 5

CellTraps ==
    shown # << >> /\ ~dirty =>
        (trap = "productImageURLs" <=> shown[3].products < Rows)

DetailInv ==
    DetailType /\ Chains /\ Recommended /\ FirstFive /\ TapTraps /\ CellTraps

\* The rows of the sections that a cell or a tap indexes.
LEMMA SectionsRows ==
    ASSUME NEW p, NEW s
    PROVE  /\ Sections(p, s)[3].rows = Rows /\ Sections(p, s)[3].products = p
           /\ Sections(p, s)[5].rows = Len(s) /\ Sections(p, s)[5].shops = s
BY DEF Sections, Section

LEMMA SectionsTyped ==
    ASSUME NEW p \in 0 .. Rows, NEW s \in Seq(Nat)
    PROVE  Sections(p, s) \in Seq(SectionRecord) /\ Len(Sections(p, s)) = 5
<1>1. \A n \in Nat : Section(n, p, s) \in SectionRecord
    BY DEF Section, SectionRecord
<1>2. 1 \in Nat /\ Rows \in Nat /\ Len(s) \in Nat
    BY DEF Rows
<1> QED BY <1>1, <1>2 DEF Sections

LEMMA AllFive ==
    ASSUME NEW S, NEW five \in Seq(S), Len(five) = 5
    PROVE  SubSeq(five, 1, 5) = five
<1>1. /\ SubSeq(five, 1, 5) \in Seq(S) /\ Len(SubSeq(five, 1, 5)) = 5
      /\ \A k \in 1 .. 5 : SubSeq(five, 1, 5)[k] = five[k]
    BY SubSeqProperties
<1> QED BY <1>1, SeqEqual

LEMMA ShownIsFirst ==
    ASSUME PageIInv, DetailInv, shown # << >>
    PROVE  /\ Len(dataList) >= 5 /\ shown = SubSeq(dataList, 1, 5)
           /\ \E p \in 0 .. Rows, s \in Seq(Nat) : shown = Sections(p, s)
BY DEF PageIInv, DisplayInv, DetailInv, FirstFive

LEMMA DetailInit == Init => DetailInv
<1> SUFFICES ASSUME Init PROVE DetailInv
    OBVIOUS
<1>1. << >> \in Seq(SectionRecord) /\ << >> \in Seq(Nat) /\ Len(<< >>) = 0
    OBVIOUS
<1>2. DetailType
    BY <1>1 DEF Init, DetailType, Modal
<1>3. Chains
    BY DEF Init, Chains
<1>4. Recommended
    <2>1. 1 .. Len(<< >>) = {} /\ 0 <= Wanted
        BY <1>1, WantedAssumption
    <2> QED BY <1>1, <2>1 DEF Init, Recommended, Beside
<1>5. FirstFive
    <2>1. ~(0 >= 5)
        OBVIOUS
    <2> QED BY <1>1, <2>1 DEF Init, FirstFive
<1>6. TapTraps /\ CellTraps
    BY DEF Init, TapTraps, CellTraps
<1> QED BY <1>2, <1>3, <1>4, <1>5, <1>6 DEF DetailInv

\* A step that leaves chains, sections and traps alone.
LEMMA DetailKept ==
    ASSUME DetailInv,
           screen' \in {"away", "onScreen", "popped"},
           modal' \in Modal, timers' \subseteq Toasts,
           UNCHANGED <<emptyState, recommendationShops, dataList, shown, dirty,
                       trap>>,
           Chains'
    PROVE  DetailInv'
<1>1. DetailType'
    BY DEF DetailInv, DetailType
<1>2. Recommended' /\ FirstFive'
    BY DEF DetailInv, Recommended, FirstFive
<1>3. TapTraps' /\ CellTraps'
    BY DEF DetailInv, TapTraps, CellTraps
<1> QED BY <1>1, <1>2, <1>3 DEF DetailInv

\* The index of a recommendation is out of range only if the sections on
\* display are not those of the last completed chain.
LEMMA TapDetail ==
    ASSUME PageIInv, DetailInv, didSelectItemAt
    PROVE  DetailInv'
<1>1. /\ trap = "no" /\ trap' = "activeArray" /\ shown # << >> /\ ~dirty
      /\ UNCHANGED <<screen, overlay, loads, stranded, emptyState,
                     recommendationShops, dataList, shown, dirty, mainQ, modal,
                     timers>>
    BY DEF didSelectItemAt, Touchable, Running
<1>2. PICK i \in 1 .. shown[5].rows : i \notin DOMAIN recommendationShops
    BY DEF didSelectItemAt
<1>3. Len(dataList) >= 5 /\ shown = SubSeq(dataList, 1, 5)
    BY <1>1, ShownIsFirst
<1>4. PICK p \in 0 .. Rows, s \in Seq(Nat) : shown = Sections(p, s)
    BY <1>1, ShownIsFirst
<1>5. shown[5].rows = Len(s) /\ shown[5].shops = s
    BY <1>4, SectionsRows
<1>6. dataList \in Seq(SectionRecord) /\ Len(dataList) \in Nat
    BY DEF DetailInv, DetailType
<1>7. Len(dataList) # 5
    <2> SUFFICES ASSUME Len(dataList) = 5 PROVE FALSE
        OBVIOUS
    <2>1. shown[5] = dataList[5]
        BY <1>3, <1>6, SubSeqProperties
    <2>2. dataList[5].shops = recommendationShops
        BY DEF PageIInv, DisplayInv
    <2>3. recommendationShops = s
        BY <1>5, <2>1, <2>2
    <2>4. DOMAIN recommendationShops = 1 .. Len(s)
        BY <2>3
    <2> QED BY <1>2, <1>5, <2>4
<1>8. Len(dataList) > 5
    <2>1. \A n \in Nat : n >= 5 /\ n # 5 => n > 5
        OBVIOUS
    <2> QED BY <1>3, <1>6, <1>7, <2>1, Zenon
<1>9. DetailType'
    BY <1>1 DEF DetailInv, DetailType
<1>10. Chains' /\ Recommended' /\ FirstFive'
    BY <1>1 DEF DetailInv, Chains, Recommended, FirstFive
<1>11. TapTraps' /\ CellTraps'
    BY <1>1, <1>8 DEF DetailInv, TapTraps, CellTraps
<1> QED BY <1>9, <1>10, <1>11 DEF DetailInv

\* The cells trap exactly on fewer products than rows.
LEMMA LayOutDetail ==
    ASSUME PageIInv, DetailInv, LayOut
    PROVE  DetailInv'
<1>1. /\ trap = "no" /\ dirty' = FALSE /\ trap' \in {"no", "productImageURLs"}
      /\ UNCHANGED <<screen, loads, emptyState, recommendationShops, dataList,
                     shown, modal, timers>>
    BY DEF LayOut, Running
<1>2. CellTraps'
    <2> SUFFICES ASSUME shown # << >>
                 PROVE  trap' = "productImageURLs" <=> shown[3].products < Rows
        BY <1>1 DEF CellTraps
    <2>1. PICK p \in 0 .. Rows, s \in Seq(Nat) : shown = Sections(p, s)
        BY ShownIsFirst
    <2>2. /\ shown[3].rows = Rows /\ shown[3].products = p
          /\ shown[5].rows = Len(s) /\ shown[5].shops = s
        BY <2>1, SectionsRows
    <2>3. /\ Len(s) <= Len(s) /\ (Rows <= p <=> ~(p < Rows))
        BY DEF Rows
    <2>4. trap' = IF Rows <= p /\ Len(s) <= Len(s) THEN "no" ELSE "productImageURLs"
        BY <2>2 DEF LayOut
    <2>5. "no" # "productImageURLs"
        OBVIOUS
    <2> QED BY <2>2, <2>3, <2>4, <2>5
<1>3. DetailType'
    BY <1>1 DEF DetailInv, DetailType
<1>4. Chains' /\ Recommended' /\ FirstFive' /\ TapTraps'
    BY <1>1 DEF DetailInv, Chains, Recommended, FirstFive, TapTraps
<1> QED BY <1>2, <1>3, <1>4 DEF DetailInv

\* A block shows the first sections, presents, or dismisses.
LEMMA BlockDetail ==
    ASSUME PageIInv, DetailInv, RunBlock
    PROVE  DetailInv'
<1>1. /\ trap = "no" /\ trap' \in {"no", "containerview"}
      /\ UNCHANGED <<screen, loads, emptyState, recommendationShops, dataList>>
    BY DEF RunBlock, Running, RunDismiss, RunApply, RunAlert, RunToast
<1>2. modal' \in Modal /\ timers' \subseteq Toasts
    <2>1. modal \in Modal /\ timers \subseteq Toasts
        BY DEF DetailInv, DetailType
    <2>2. CASE RunDismiss \/ RunApply
        BY <2>1, <2>2 DEF RunDismiss, RunApply
    <2>3. CASE RunAlert
        BY <2>1, <2>3 DEF RunAlert, Present, Modal
    <2>4. CASE RunToast
        BY <2>1, <2>4 DEF RunToast, Present, Modal
    <2> QED BY <2>2, <2>3, <2>4 DEF RunBlock
<1>3. (shown' = shown /\ dirty' = dirty) \/ dirty' = TRUE
    BY DEF RunBlock, RunDismiss, RunApply, RunAlert, RunToast
<1>4. DetailType'
    BY <1>1, <1>2, <1>3 DEF DetailInv, DetailType
<1>5. Chains' /\ Recommended' /\ FirstFive' /\ TapTraps'
    BY <1>1 DEF DetailInv, Chains, Recommended, FirstFive, TapTraps
<1>6. CellTraps'
    BY <1>1, <1>3 DEF DetailInv, CellTraps
<1> QED BY <1>4, <1>5, <1>6 DEF DetailInv

\* An answer: a chain ends, goes on with what its query found, or completes.
LEMMA AnswerDetail ==
    ASSUME PageIInv, DetailInv, NEW i \in LoadIds, Answer(i)
    PROVE  DetailInv'
<1>1. PICK l \in loads : \/ FailsEarly(l) \/ FailsLate(l)
                         \/ Events(l) \/ Products(l) \/ Kind(l) \/ Category(l)
    BY DEF Answer
<1>2. /\ trap = "no"
      /\ UNCHANGED <<screen, shown, dirty, modal, timers, trap>>
    BY DEF Answer, Running
<1>3. /\ l \in ChainState /\ Chains /\ Beside(l.found, Own)
      /\ l.at = "category" => AsksCategory(l.found)
    BY DEF PageIInv, TypeInv, DetailInv, Chains
<1>4. emptyState' \in BOOLEAN
    BY <1>1 DEF DetailInv, DetailType, FailsEarly, FailsLate, Events, Products,
                Kind, Category
<1>5. ASSUME Finish(l) PROVE Chains'
    BY <1>3, <1>5 DEF Finish, Chains
<1>6. ASSUME NEW m, Become(l, m), Beside(m.found, Own),
             m.at = "category" => AsksCategory(m.found)
      PROVE  Chains'
    BY <1>3, <1>6 DEF Become, Chains
<1>7. Chains'
    <2>1. CASE FailsEarly(l) \/ FailsLate(l) \/ Category(l)
        BY <1>5, <2>1 DEF FailsEarly, FailsLate, Category
    <2>2. CASE Events(l)
        <3> DEFINE m == [l EXCEPT !.at = "products"]
        <3>1. m.found = l.found /\ m.at # "category"
            BY <1>3 DEF ChainState
        <3>2. Finish(l) \/ Become(l, m)
            BY <2>2 DEF Events
        <3> HIDE DEF m
        <3> QED BY <1>3, <1>5, <1>6, <3>1, <3>2
    <2>3. CASE Products(l)
        <3>1. PICK p \in 0 .. Rows : Become(l, [l EXCEPT !.at = "kind", !.products = p])
            BY <2>3 DEF Products
        <3> DEFINE m == [l EXCEPT !.at = "kind", !.products = p]
        <3>2. m.found = l.found /\ m.at # "category" /\ Become(l, m)
            BY <1>3, <3>1 DEF ChainState
        <3> HIDE DEF m
        <3> QED BY <1>3, <1>6, <3>2
    <2>4. CASE Kind(l)
        <3>1. PICK docs \in KindDocs :
                  IF AsksCategory(SameKind(docs, Own))
                  THEN Become(l, [l EXCEPT !.at = "category",
                                           !.found = SameKind(docs, Own)])
                  ELSE Finish(l)
            BY <2>4 DEF Kind
        <3> DEFINE f == SameKind(docs, Own)
                   m == [l EXCEPT !.at = "category", !.found = f]
        <3>2. Beside(f, Own)
            BY KindFits
        <3>3. m.found = f
            BY <1>3 DEF ChainState
        <3>4. IF AsksCategory(f) THEN Become(l, m) ELSE Finish(l)
            BY <3>1
        <3> HIDE DEF f, m
        <3> QED BY <1>5, <1>6, <3>2, <3>3, <3>4
    <2> QED BY <1>1, <2>1, <2>2, <2>3, <2>4
<1>8. CASE ~Category(l)
    <2>1. UNCHANGED <<recommendationShops, dataList>>
        BY <1>1, <1>8 DEF FailsEarly, FailsLate, Events, Products, Kind
    <2>2. DetailType'
        BY <1>2, <1>4, <2>1 DEF DetailInv, DetailType
    <2>3. Recommended' /\ FirstFive' /\ TapTraps' /\ CellTraps'
        BY <1>2, <2>1 DEF DetailInv, Recommended, FirstFive, TapTraps, CellTraps
    <2> QED BY <1>7, <2>2, <2>3 DEF DetailInv
<1>9. CASE Category(l)
    <2> DEFINE s == recommendationShops'
               p == l.products
    <2>1. PICK docs \in CategoryDocs :
              s = l.found \o SameCategory(docs, Own, Wanted - Len(l.found))
        BY <1>9 DEF Category
    <2>2. p \in 0 .. Rows /\ l.at = "category"
        BY <1>3, <1>9 DEF ChainState, Category
    <2>3. dataList' = dataList \o Sections(p, s)
        BY <1>9 DEF Category
    <2> DEFINE togo == Wanted - Len(l.found)
               more == SameCategory(docs, Own, togo)
    <2>4. togo \in Nat /\ Len(l.found) + togo = Wanted /\ Len(l.found) \in Nat
        BY <1>3, <2>2, WantedAssumption DEF AsksCategory, Beside
    <2>5. s = l.found \o more
        BY <2>1
    <2> HIDE DEF togo
    <2>6. Beside(more, Own) /\ Len(more) <= togo /\ Len(more) \in Nat
        <3>1. Beside(more, Own) /\ Len(more) <= togo
            BY <2>4, CategoryFits
        <3> HIDE DEF more
        <3> QED BY <3>1 DEF Beside
    <2> HIDE DEF more, s, p
    <2>7. Beside(s, Own) /\ Len(s) = Len(l.found) + Len(more)
        BY <1>3, <2>5, <2>6, BesideBoth
    <2>8. Len(s) <= Wanted /\ s \in Seq(Nat)
        BY <2>4, <2>6, <2>7 DEF Beside
    <2>9. Recommended'
        BY <2>7, <2>8 DEF Recommended, s
    <2> DEFINE five == Sections(p, s)
    <2>10. five \in Seq(SectionRecord) /\ Len(five) = 5
        BY <2>2, <2>8, SectionsTyped
    <2>11. dataList \in Seq(SectionRecord) /\ dataList' = dataList \o five
        BY <2>3 DEF DetailInv, DetailType
    <2>12. Len(dataList) = 0 \/ Len(dataList) >= 5
        BY DEF PageIInv, DisplayInv
    <2> HIDE DEF five
    <2>13. /\ dataList' \in Seq(SectionRecord) /\ Len(dataList') = Len(dataList) + 5
           /\ \A k \in 1 .. Len(dataList) : dataList'[k] = dataList[k]
        <3>1. /\ dataList \o five \in Seq(SectionRecord)
              /\ Len(dataList \o five) = Len(dataList) + 5
              /\ \A k \in 1 .. Len(dataList) : (dataList \o five)[k] = dataList[k]
            BY <2>10, <2>11, FiveMore, Zenon
        <3> QED BY <2>11, <3>1, Zenon
    <2>14. DetailType'
        BY <1>2, <1>4, <2>13 DEF DetailInv, DetailType
    <2>15. FirstFive'
        <3>1. CASE Len(dataList) = 0
            <4>1. dataList = << >>
                BY <2>11, <3>1, EmptySeq
            <4>2. dataList' = five
                BY <2>10, <2>11, <4>1
            <4>3. SubSeq(five, 1, 5) = five
                BY <2>10, AllFive, Zenon
            <4> QED BY <2>2, <2>8, <4>2, <4>3 DEF FirstFive, five
        <3>2. CASE Len(dataList) >= 5
            <4>1. /\ Len(dataList') >= 5
                  /\ \A k \in 1 .. 5 : dataList'[k] = dataList[k]
                BY <2>11, <2>13, <3>2
            <4>2. SubSeq(dataList', 1, 5) = SubSeq(dataList, 1, 5)
                BY <2>11, <2>13, <3>2, <4>1, SameFirstFive
            <4> QED BY <3>2, <4>2 DEF DetailInv, FirstFive
        <3> QED BY <2>12, <3>1, <3>2
    <2>16. TapTraps' /\ CellTraps'
        BY <1>2 DEF DetailInv, TapTraps, CellTraps
    <2> QED BY <1>7, <2>9, <2>14, <2>15, <2>16 DEF DetailInv
<1> QED BY <1>8, <1>9

LEMMA DetailNext ==
    ASSUME PageIInv, DetailInv, [Next]_vars
    PROVE  DetailInv'
<1>1. /\ modal \in Modal /\ timers \subseteq Toasts /\ Chains
      /\ screen \in {"away", "onScreen", "popped"}
    BY DEF DetailInv, DetailType
<1>2. CASE viewWillAppear
    <2>1. PICK i \in LoadIds : loads' = loads \cup {NewLoad(i)}
        BY <1>2 DEF viewWillAppear
    <2>2. Beside(NewLoad(i).found, Own) /\ NewLoad(i).at # "category"
        <3>1. << >> \in Seq(Nat) /\ 1 .. Len(<< >>) = {}
            OBVIOUS
        <3> QED BY <3>1 DEF NewLoad, Beside
    <2>3. Chains'
        BY <1>1, <2>1, <2>2 DEF Chains
    <2> QED BY <1>1, <1>2, <2>3, DetailKept DEF viewWillAppear
<1>3. CASE \/ Leave \/ backToHome \/ didRequestToAddToCart \/ ConfirmAlert
           \/ ToastTimer \/ UNCHANGED vars
    <2>1. UNCHANGED <<loads, emptyState, recommendationShops, dataList, shown,
                      dirty, trap>>
        BY <1>3 DEF Leave, backToHome, didRequestToAddToCart, ConfirmAlert,
                    ToastTimer, vars
    <2>2. Chains'
        BY <1>1, <2>1 DEF Chains
    <2>3. screen' \in {"away", "onScreen", "popped"}
        BY <1>1, <1>3 DEF Leave, backToHome, didRequestToAddToCart, ConfirmAlert,
                          ToastTimer, vars
    <2>4. modal' \in Modal /\ timers' \subseteq Toasts
        BY <1>1, <1>3 DEF Leave, backToHome, didRequestToAddToCart, ConfirmAlert,
                          ToastTimer, vars, Modal, Dismiss
    <2> QED BY <2>1, <2>2, <2>3, <2>4, DetailKept
<1> QED BY <1>2, <1>3, TapDetail, LayOutDetail, BlockDetail, AnswerDetail DEF Next

LEMMA DetailInvariance == Spec => [](PageIInv /\ DetailInv)
<1>1. Init => PageIInv /\ DetailInv
    BY InitInv, DetailInit
<1>2. PageIInv /\ DetailInv /\ [Next]_vars => PageIInv' /\ DetailInv'
    BY NextInv, DetailNext
<1> QED BY <1>1, <1>2, PTL DEF Spec

(***************************************************************************)
(* What the page holds keeps its type, and each overlay on it is owed: to  *)
(* a chain of queries under way (ShopInfoVC:83), to a dismissal in the     *)
(* queue, or to a chain that ended without one.                            *)
(***************************************************************************)
THEOREM PageKept == Spec => []PageInv
<1>1. ASSUME PageIInv, DetailInv PROVE PageInv
    <2>1. loads \subseteq Load
        <3> SUFFICES ASSUME NEW l \in loads PROVE l \in Load
            OBVIOUS
        <3>1. l \in ChainState /\ l.found \in Seq(Nat)
            BY <1>1 DEF PageIInv, TypeInv, DetailInv, Chains, Beside
        <3> QED BY <3>1 DEF ChainState, Load
    <2>2. recommendationShops \in Seq(Nat)
        BY <1>1 DEF DetailInv, Recommended, Beside
    <2>3. \A k \in DOMAIN dataList :
              dataList[k] \in [rows : Nat, products : 0 .. Rows, shops : Seq(Nat)]
        <3>1. dataList \in Seq(SectionRecord)
            BY <1>1 DEF DetailInv, DetailType
        <3>2. \A k \in DOMAIN dataList : dataList[k] \in SectionRecord
            BY <3>1
        <3> QED BY <3>2 DEF SectionRecord
    <2>4. Len(shown) \in {0, 5}
        <3>1. CASE shown = << >>
            BY <3>1
        <3>2. CASE shown # << >>
            <4>1. PICK p \in 0 .. Rows, s \in Seq(Nat) : shown = Sections(p, s)
                BY <1>1, <3>2, ShownIsFirst
            <4> QED BY <4>1, SectionsTyped
        <3> QED BY <3>1, <3>2
    <2>5. TypeOK
        BY <1>1, <2>1, <2>2, <2>3, <2>4
           DEF TypeOK, PageIInv, TypeInv, DetailInv, DetailType
    <2>6. OverlaysAreOwed
        BY <1>1 DEF PageIInv, OverlayInv, Owing, OverlaysAreOwed, Running
    <2> QED BY <2>5, <2>6 DEF PageInv
<1> QED BY <1>1, DetailInvariance, PTL

(***************************************************************************)
(* The index of a recommendation (ShopInfoVC:361) is out of range only     *)
(* after a second chain has completed, the product cells (ShopInfoVC:246)  *)
(* trap exactly on a first chain with fewer than three products, and the   *)
(* dismissal only on overlapping chains.                                   *)
(***************************************************************************)
THEOREM PageTrapsExplained == Spec => []TrapsExplained
<1>1. ASSUME PageIInv, DetailInv PROVE TrapsExplained
    BY <1>1 DEF PageIInv, OverlayInv, DetailInv, TapTraps, CellTraps,
                TrapsExplained
<1> QED BY <1>1, DetailInvariance, PTL

(***************************************************************************)
(* getShopList (FirestoreManager:121 and 158) hands over at most as many   *)
(* shops as are wanted, and never the shop of the page, whatever its two   *)
(* queries find.                                                           *)
(***************************************************************************)
THEOREM OthersRecommended == Spec => []RecommendsOthers
<1>1. ASSUME DetailInv PROVE RecommendsOthers
    <2>1. /\ recommendationShops \in Seq(Nat)
          /\ \A k \in 1 .. Len(recommendationShops) : recommendationShops[k] # Own
          /\ Len(recommendationShops) <= Wanted
        BY <1>1 DEF DetailInv, Recommended, Beside
    <2>2. DOMAIN recommendationShops = 1 .. Len(recommendationShops)
        BY <2>1
    <2> QED BY <2>1, <2>2 DEF RecommendsOthers, ToSet
<1> QED BY <1>1, DetailInvariance, PTL

=============================================================================
