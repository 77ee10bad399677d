------------------------------ MODULE ShopInfoVC ------------------------------
(***************************************************************************)
(* ShopInfoVC, the page of one shop.  Every appearance starts a chain of   *)
(* queries, each made in the completion of the one before it: events,      *)
(* products, (reviews, answered on the spot), shops of the same kind,      *)
(* shops of the same category.  A chain that ends early does not always    *)
(* take down the overlay it put up, and every chain that ends well appends *)
(* five sections to the same list.                                         *)
(***************************************************************************)
EXTENDS FiniteSets, GetShopList, FLDataLoadingVC, PresentationSlot

CONSTANTS
    Own,            \* the shop of the page
    KindDocs,       \* what the kind query may find, by priority
    CategoryDocs,   \* what the category query may find, by priority
    LoadIds,        \* bound: chains of queries under way at the same time
    MaxLists        \* bound: chains that may end well

ASSUME DocsAssumption ==
    KindDocs \subseteq Seq(Nat) /\ CategoryDocs \subseteq Seq(Nat)

Rows == 3           \* rows of the product section, and limit of its query

VARIABLES
    screen,         \* "away", "onScreen", "popped"
    overlay,
    loads,          \* the chains under way
    stranded,       \* auxiliary: chains that ended and dismissed nothing
    emptyState,     \* an FLEmptyStateView lies over the page
    recommendationShops,
    dataList,       \* the sections, five more per completed chain
    shown,          \* the five sections of the snapshot applied last
    dirty,          \* the cells of shown have not been configured yet
    mainQ, modal, timers,
    trap            \* "no", or what trapped

vars == <<screen, overlay, loads, stranded, emptyState, recommendationShops,
          dataList, shown, dirty, mainQ, modal, timers, trap>>

Running == screen # "popped" /\ trap = "no"

-----------------------------------------------------------------------------
\* A chain is waiting for the answer to one of its queries.
Load == [id : LoadIds, at : {"events", "products", "kind", "category"},
         products : 0 .. Rows, found : Seq(Nat)]

NewLoad(i) == [id |-> i, at |-> "events", products |-> 0, found |-> << >>]

\* The part of a ShopInfo the cells index, and the sections built from it.
Section(n, p, shops) == [rows |-> n, products |-> p, shops |-> shops]

Sections(p, shops) ==
    <<Section(1, p, shops), Section(1, p, shops), Section(Rows, p, shops),
      Section(1, p, shops), Section(Len(shops), p, shops)>>

DismissOverlay == [op |-> "dismissLoadingView", data |-> << >>]
ShowAlert      == [op |-> "presentFLAlert", data |-> << >>]
ShowToast      == [op |-> "presentAddToCart", data |-> << >>]
\* Variant: the snapshot is built from the newest five sections.
ApplyNewest(d) == [op |-> "apply", data |-> SubSeq(d, Len(d) - 4, Len(d))]

\* updateData: the loop over SectionKind takes the entries 0 to 4 of the list.
Apply(d)       == [op |-> "apply", data |-> SubSeq(d, 1, 5)]

Init ==
    /\ screen = "away"
    /\ overlay = NoOverlay
    /\ loads = {} /\ stranded = 0
    /\ emptyState = FALSE
    /\ recommendationShops = << >> /\ dataList = << >>
    /\ shown = << >> /\ dirty = FALSE
    /\ mainQ = << >> /\ modal = NoModal /\ timers = {}
    /\ trap = "no"

-----------------------------------------------------------------------------
(* The user.                                                               *)

\* The page is pushed, or uncovered by a pop or a change of tab.
viewWillAppear ==
    /\ Running /\ screen = "away" /\ modal = NoModal
    /\ Len(dataList) + 5 * Cardinality(loads) < 5 * MaxLists
    /\ screen' = "onScreen"
    /\ \E v \in FreshViews(overlay) : overlay' = showLoadingView(overlay, v)
    /\ \E i \in LoadIds \ {l.id : l \in loads} :
           loads' = loads \cup {NewLoad(i)}
    /\ UNCHANGED <<stranded, emptyState, recommendationShops, dataList, shown,
                   dirty, mainQ, modal, timers, trap>>

\* Another tab, or a push from a header button, the shop cell or a
\* recommendation that is in range.
Leave ==
    /\ Running /\ screen = "onScreen" /\ modal = NoModal
    /\ screen' = "away"
    /\ UNCHANGED <<overlay, loads, stranded, emptyState, recommendationShops,
                   dataList, shown, dirty, mainQ, modal, timers, trap>>

backToHome ==
    /\ Running /\ screen = "onScreen" /\ modal = NoModal
    /\ screen' = "popped"
    /\ UNCHANGED <<overlay, loads, stranded, emptyState, recommendationShops,
                   dataList, shown, dirty, mainQ, modal, timers, trap>>

\* The user can touch a cell.
Touchable ==
    /\ Running /\ screen = "onScreen" /\ modal = NoModal
    /\ overlay.subviews = {} /\ ~emptyState /\ shown # << >> /\ ~dirty

\* A recommendation on display is tapped and the index is not one of
\* recommendationShops.
didSelectItemAt ==
    /\ Touchable
    /\ \E i \in 1 .. shown[5].rows : i \notin DOMAIN recommendationShops
    /\ trap' = "activeArray"
    /\ UNCHANGED <<screen, overlay, loads, stranded, emptyState,
                   recommendationShops, dataList, shown, dirty, mainQ, modal,
                   timers>>

didRequestToAddToCart ==
    /\ Touchable
    /\ Toasts \ timers # {} /\ mainQ = << >>
    /\ mainQ' = Append(mainQ, ShowToast)
    /\ UNCHANGED <<screen, overlay, loads, stranded, emptyState,
                   recommendationShops, dataList, shown, dirty, modal, timers,
                   trap>>

ConfirmAlert ==
    /\ Running /\ modal = Alert
    /\ modal' = NoModal
    /\ UNCHANGED <<screen, overlay, loads, stranded, emptyState,
                   recommendationShops, dataList, shown, dirty, mainQ, timers,
                   trap>>

-----------------------------------------------------------------------------
(* The answers of Firestore, each to the query a chain is waiting for.     *)

Become(l, m) == loads' = (loads \ {l}) \cup {m}
Finish(l) == loads' = loads \ {l}

\* A failure of the first two queries: an alert, and the overlay stays.
FailsEarly(l) ==
    /\ l.at \in {"events", "products"}
    /\ Finish(l)
    /\ stranded' = stranded + 1
    /\ mainQ' = Append(mainQ, ShowAlert)
    /\ UNCHANGED <<emptyState, recommendationShops, dataList>>

\* Variants: the alert comes without the dismissal, or between two of them.
FailsLateNoDismiss(l) ==
    /\ l.at \in {"kind", "category"}
    /\ Finish(l)
    /\ mainQ' = Append(mainQ, ShowAlert)
    /\ UNCHANGED <<stranded, emptyState, recommendationShops, dataList>>

FailsLateTwice(l) ==
    /\ l.at \in {"kind", "category"}
    /\ Finish(l)
    /\ mainQ' = mainQ \o <<DismissOverlay, ShowAlert, DismissOverlay>>
    /\ UNCHANGED <<stranded, emptyState, recommendationShops, dataList>>

\* A failure of getShopList: the overlay is dismissed before the switch.
FailsLate(l) ==
    /\ l.at \in {"kind", "category"}
    /\ Finish(l)
    /\ mainQ' = mainQ \o <<DismissOverlay, ShowAlert>>
    /\ UNCHANGED <<stranded, emptyState, recommendationShops, dataList>>

\* getEvents, .success
Events(l) ==
    /\ l.at = "events"
    /\ \/ /\ Finish(l)                             \* events.isEmpty
          /\ mainQ' = Append(mainQ, DismissOverlay)
          /\ emptyState' = TRUE
       \/ /\ Become(l, [l EXCEPT !.at = "products"])
          /\ UNCHANGED <<mainQ, emptyState>>
    /\ UNCHANGED <<stranded, recommendationShops, dataList>>

\* getProducts, .success; getReviews answers [] before it returns.
Products(l) ==
    /\ l.at = "products"
    /\ \E p \in 0 .. Rows : Become(l, [l EXCEPT !.at = "kind", !.products = p])
    /\ UNCHANGED <<stranded, emptyState, recommendationShops, dataList, mainQ>>

\* The kind query of getShopList: without a second query the completion is
\* never called.
Kind(l) ==
    /\ l.at = "kind"
    /\ \E docs \in KindDocs :
           LET found == SameKind(docs, Own)
           IN  IF AsksCategory(found)
               THEN Become(l, [l EXCEPT !.at = "category", !.found = found])
                        /\ UNCHANGED stranded
               ELSE Finish(l) /\ stranded' = stranded + 1
    /\ UNCHANGED <<emptyState, recommendationShops, dataList, mainQ>>

\* Variant: the list is started afresh by every completion.
CategoryFresh(l) ==
    /\ l.at = "category"
    /\ \E docs \in CategoryDocs :
           recommendationShops' =
               l.found \o SameCategory(docs, Own, Wanted - Len(l.found))
    /\ Finish(l)
    /\ dataList' = Sections(l.products, recommendationShops')
    /\ mainQ' = mainQ \o <<DismissOverlay, Apply(dataList')>>
    /\ UNCHANGED <<stranded, emptyState>>

\* The category query: getShopList completes and the page is built.
Category(l) ==
    /\ l.at = "category"
    /\ \E docs \in CategoryDocs :
           recommendationShops' =
               l.found \o SameCategory(docs, Own, Wanted - Len(l.found))
    /\ Finish(l)
    /\ dataList' = dataList \o Sections(l.products, recommendationShops')
    /\ mainQ' = mainQ \o <<DismissOverlay, Apply(dataList')>>
    /\ UNCHANGED <<stranded, emptyState>>

Answer(i) ==
    /\ Running
    /\ \E l \in loads :
           /\ l.id = i
           /\ \/ FailsEarly(l) \/ FailsLate(l)
              \/ Events(l) \/ Products(l) \/ Kind(l) \/ Category(l)
    /\ UNCHANGED <<screen, overlay, shown, dirty, modal, timers, trap>>

-----------------------------------------------------------------------------
(* The main run loop.                                                      *)

RunDismiss ==
    /\ Head(mainQ).op = "dismissLoadingView"
    /\ IF CanDismiss(overlay)
       THEN overlay' = DismissBlock(overlay) /\ UNCHANGED trap
       ELSE trap' = "containerview" /\ UNCHANGED overlay
    /\ UNCHANGED <<shown, dirty, modal, timers>>

RunApply ==
    /\ Head(mainQ).op = "apply"
    /\ shown' = Head(mainQ).data /\ dirty' = TRUE
    /\ UNCHANGED <<overlay, modal, timers, trap>>

RunAlert ==
    /\ Head(mainQ).op = "presentFLAlert"
    /\ modal' \in Present(modal, Alert, screen = "onScreen")
    /\ UNCHANGED <<overlay, shown, dirty, timers, trap>>

RunToast ==
    /\ Head(mainQ).op = "presentAddToCart"
    /\ \E t \in Toasts \ timers :
           /\ modal' \in Present(modal, t, screen = "onScreen")
           /\ timers' = timers \cup {t}
    /\ UNCHANGED <<overlay, shown, dirty, trap>>

RunBlock ==
    /\ Running /\ mainQ # << >>
    /\ mainQ' = Tail(mainQ)
    /\ RunDismiss \/ RunApply \/ RunAlert \/ RunToast
    /\ UNCHANGED <<screen, loads, stranded, emptyState, recommendationShops,
                   dataList>>

\* The layout pass of a page on display asks for the cells; ProductCell.set
\* and RecommendationCell.set index the arrays of their ShopInfo by row.
LayOut ==
    /\ Running /\ screen = "onScreen" /\ dirty
    /\ dirty' = FALSE
    /\ trap' = IF shown[3].rows <= shown[3].products
                  /\ shown[5].rows <= Len(shown[5].shops)
               THEN "no" ELSE "productImageURLs"
    /\ UNCHANGED <<screen, overlay, loads, stranded, emptyState,
                   recommendationShops, dataList, shown, mainQ, modal, timers>>

ToastTimer ==
    /\ Running
    /\ \E t \in timers : timers' = timers \ {t} /\ modal' = Dismiss(modal, t)
    /\ UNCHANGED <<screen, overlay, loads, stranded, emptyState,
                   recommendationShops, dataList, shown, dirty, mainQ, trap>>

Next ==
    \/ viewWillAppear \/ Leave \/ backToHome
    \/ didSelectItemAt \/ didRequestToAddToCart \/ ConfirmAlert
    \/ \E i \in LoadIds : Answer(i)
    \/ RunBlock \/ LayOut \/ ToastTimer

Spec == Init /\ [][Next]_vars

\* Firestore answers every query and the main run loop drains its queue.
FairSpec ==
    /\ Spec
    /\ \A i \in LoadIds : WF_vars(Answer(i))
    /\ WF_vars(RunBlock) /\ WF_vars(ToastTimer)

-----------------------------------------------------------------------------
TypeOK ==
    /\ screen \in {"away", "onScreen", "popped"}
    /\ overlay \in Overlay
    /\ loads \subseteq Load
    /\ \A l, m \in loads : l.id = m.id => l = m
    /\ stranded \in Nat
    /\ emptyState \in BOOLEAN /\ dirty \in BOOLEAN
    /\ recommendationShops \in Seq(Nat)
    /\ \A k \in DOMAIN dataList :
           dataList[k] \in [rows : Nat, products : 0 .. Rows, shops : Seq(Nat)]
    /\ Len(shown) \in {0, 5}
    /\ modal \in Modal
    /\ timers \subseteq Toasts
    /\ trap \in {"no", "containerview", "productImageURLs", "activeArray"}

\* The positions of the dismissals in a queue.
Dismissals(q) == {i \in DOMAIN q : q[i].op = "dismissLoadingView"}

(***************************************************************************)
(* An overlay on the page is owed to a chain under way, to a dismissal in  *)
(* the queue, or to a chain that ended without one: a failed events or     *)
(* products query, or a kind query that found enough shops by itself.      *)
(***************************************************************************)
OverlaysAreOwed ==
    Running => Cardinality(overlay.subviews)
                   = Cardinality(loads) + Cardinality(Dismissals(mainQ)) + stranded

PageInv == TypeOK /\ OverlaysAreOwed

(***************************************************************************)
(* The page never displays anything but its first completed chain: later   *)
(* ones append sections that updateData does not reach.                    *)
(***************************************************************************)
FirstChainStays == [][shown # << >> => shown' = shown]_vars

(***************************************************************************)
(* A recommendation opens the shop its cell shows as long as one chain     *)
(* completed; only a second completion separates the array that is indexed *)
(* from the one on display.                                                *)
(***************************************************************************)
IndexMatchesFirstChain ==
    shown # << >> /\ Len(dataList) = 5 => recommendationShops = shown[5].shops

(***************************************************************************)
(* The unwrap in dismissLoadingView leaves behind the overlay of another   *)
(* chain, which no reference reaches any more.                             *)
(***************************************************************************)
ContainerTrapsOnOverlap ==
    trap = "containerview" =>
        overlay.container = NoView /\ Orphans(overlay) # {}

(***************************************************************************)
(* What each trap needs: the unwrap of the overlay, that of another chain; *)
(* the index of a recommendation is out of range only after a second       *)
(* completion; the product cells trap exactly on a first chain with fewer  *)
(* than three products.                                                    *)
(***************************************************************************)
TrapsExplained ==
    /\ ContainerTrapsOnOverlap
    /\ trap = "activeArray" => Len(dataList) > 5
    /\ shown # << >> /\ ~dirty =>
           (trap = "productImageURLs" <=> shown[3].products < Rows)

(***************************************************************************)
(* The recommendations are at most Wanted shops and never the shop of the  *)
(* page, whatever happened to the collection between the two queries.      *)
(***************************************************************************)
RecommendsOthers ==
    /\ Len(recommendationShops) <= Wanted
    /\ Own \notin ToSet(recommendationShops)

(***************************************************************************)
(* A user who stays on the page gets it back, unless a chain was stranded. *)
(* One who keeps coming back has no such promise: overlapping chains leave *)
(* overlays behind without a trap as long as a new one is begun in time.   *)
(***************************************************************************)
ReleasedOrStranded ==
    <>[](screen = "onScreen") =>
        <>[](overlay.subviews = {} \/ stranded > 0 \/ ~Running)

=============================================================================
