-------------------------------- MODULE ShopVC --------------------------------
(***************************************************************************)
(* ShopVC: the list of shops with a bar of filters, as the second tab      *)
(* (category = nil) or pushed from HomeVC for one category.  One instance  *)
(* is modelled, from viewDidLoad until it is popped.  The list the         *)
(* controller holds (dataList[1]) changes in the handler; the collection   *)
(* view changes one main-queue block later.                                *)
(***************************************************************************)
EXTENDS Integers, SequencesExt, FLDataLoadingVC, PresentationSlot

CONSTANTS
    Shops,
    CategoryOf, ScoreOf,    \* fields of a shop: functions on Shops
    Catalogues,             \* lists the server may answer with, by priority
    NoCategory              \* nil

\* The options of ShopFilterView; "recommended" is the whole list and
\* "ranking" the list by score.
Categories == {"food", "fresh", "fun", "travel"}
Options == Categories \cup {"recommended", "ranking"}

ASSUME ShopAssumption ==
    /\ NoCategory \notin Categories
    /\ \A c \in Catalogues : c \in Seq(Shops) /\ IsInjective(c)
    /\ ScoreOf \in [Shops -> Int]

VARIABLES
    category,       \* category of the instance, NoCategory for the tab
    screen,         \* "new" before viewDidLoad, "alive", "popped"
    overlay,
    inFlight,       \* calls of getShopList not answered
    shopList, filterShopList,
    list,           \* dataList[1]; dataList[0] is always empty
    hasSections,    \* a snapshot was applied, so the filter bar is on display
    shown,          \* section 1 of the snapshot applied last
    mainQ, modal,
    option,         \* auxiliary: the filter the user asked for last
    crash           \* "no", or the handler that trapped

vars == <<category, screen, overlay, inFlight, shopList, filterShopList, list,
          hasSections, shown, mainQ, modal, option, crash>>

Running == screen = "alive" /\ crash = "no"

-----------------------------------------------------------------------------
\* The loop of filterShop over the catalogue: kept[i] is what it has appended
\* of the first i shops.
OfCategory(o, s) ==
    LET kept[i \in 0 .. Len(s)] ==
            IF i = 0 THEN << >>
            ELSE IF CategoryOf[s[i]] = o THEN Append(kept[i - 1], s[i])
            ELSE kept[i - 1]
    IN kept[Len(s)]

\* Variant: the filter forgets to clear the list it appends to.
FilteredOnto(old, o, s) ==
    IF o \in Categories THEN {old \o OfCategory(o, s)} ELSE {s}

\* The lists filterShop may leave in filterShopList.  Swift's sort(by:) does
\* not promise the order of equal scores.
Filtered(old, o, s) ==
    CASE o = "recommended" -> {s}
      [] o \in Categories -> {OfCategory(o, s)}
      [] o = "ranking" ->
           {t \in SetToSeqs(ToSet(s)) : \A i \in 1 .. Len(t) - 1 :
                ScoreOf[t[i]] >= ScoreOf[t[i + 1]]}
      [] OTHER -> {old}

filterShop(o, s) ==
    /\ filterShopList' \in Filtered(filterShopList, o, s)
    /\ list' = filterShopList'
    /\ option' = o

DismissOverlay == [op |-> "dismissLoadingView", list |-> << >>]
ApplyList(l)   == [op |-> "apply", list |-> l]
ShowAlert      == [op |-> "presentFLAlert", list |-> << >>]

-----------------------------------------------------------------------------
Init ==
    /\ category \in Categories \cup {NoCategory}
    /\ screen = "new"
    /\ overlay = NoOverlay
    /\ inFlight = 0
    /\ shopList = << >> /\ filterShopList = << >> /\ list = << >>
    /\ hasSections = FALSE
    /\ shown = << >>
    /\ mainQ = << >>
    /\ modal = NoModal
    /\ option = "recommended"
    /\ crash = "no"

\* viewDidLoad calls getShopItems once; no later appearance does.
viewDidLoad ==
    /\ screen = "new"
    /\ screen' = "alive"
    /\ \E v \in FreshViews(overlay) : overlay' = showLoadingView(overlay, v)
    /\ inFlight' = inFlight + 1
    /\ UNCHANGED <<shopList, filterShopList, list, hasSections, shown, mainQ,
                   modal, option, crash>>

\* Variant: the overlay is dismissed on both ends of the completion.
GetShopsSuccessTwice(c) ==
    /\ Running /\ inFlight > 0
    /\ inFlight' = inFlight - 1
    /\ shopList' = c
    /\ IF category = NoCategory
       THEN list' = c /\ UNCHANGED <<filterShopList, option>>
       ELSE filterShop(category, c)
    /\ mainQ' = mainQ \o <<DismissOverlay, ApplyList(list'), DismissOverlay>>
    /\ UNCHANGED <<screen, overlay, hasSections, shown, modal, crash>>

\* The completion of getShopItems, .success.
GetShopsSuccess(c) ==
    /\ Running /\ inFlight > 0
    /\ inFlight' = inFlight - 1
    /\ shopList' = c
    /\ IF category = NoCategory
       THEN list' = c /\ UNCHANGED <<filterShopList, option>>
       ELSE filterShop(category, c)
    /\ mainQ' = mainQ \o <<ApplyList(list'), DismissOverlay>>
    /\ UNCHANGED <<screen, overlay, hasSections, shown, modal, crash>>

\* Variant: the failure path returns without dismissing the overlay.
GetShopsFailureStuck ==
    /\ Running /\ inFlight > 0
    /\ inFlight' = inFlight - 1
    /\ mainQ' = Append(mainQ, ShowAlert)
    /\ UNCHANGED <<screen, overlay, shopList, filterShopList, list,
                   hasSections, shown, modal, option, crash>>

\* The completion of getShopItems, .failure.
GetShopsFailure ==
    /\ Running /\ inFlight > 0
    /\ inFlight' = inFlight - 1
    /\ mainQ' = mainQ \o <<ShowAlert, DismissOverlay>>
    /\ UNCHANGED <<screen, overlay, shopList, filterShopList, list,
                   hasSections, shown, modal, option, crash>>

\* The user can touch the collection view.
Touchable == Running /\ modal = NoModal /\ overlay.subviews = {}

\* Variant: the new contents are not handed to the collection view.
didRequestToUpdateShopsLazy(o) ==
    /\ Touchable /\ hasSections
    /\ filterShop(o, shopList)
    /\ mainQ' = mainQ
    /\ crash' = IF shown = << >> THEN "scroll" ELSE "no"
    /\ UNCHANGED <<screen, overlay, inFlight, shopList, hasSections, shown,
                   modal>>

\* A filter is tapped: the new list is posted, and then the collection view,
\* which still has the old one, is scrolled to item 0 of section 1.  UIKit
\* raises an exception when there is no such item.
didRequestToUpdateShops(o) ==
    /\ Touchable /\ hasSections /\ Len(mainQ) < 2
    /\ filterShop(o, shopList)
    /\ mainQ' = Append(mainQ, ApplyList(list'))
    /\ crash' = IF shown = << >> THEN "scroll" ELSE "no"
    /\ UNCHANGED <<screen, overlay, inFlight, shopList, hasSections, shown,
                   modal>>

\* A cell is tapped; the index is taken in the controller's list.  When it is
\* in range ShopInfoVC is pushed, which changes nothing of this screen.
didSelectItemAt(i) ==
    /\ Touchable /\ i \in DOMAIN shown
    /\ i \notin DOMAIN list
    /\ crash' = "select"
    /\ UNCHANGED <<screen, overlay, inFlight, shopList, filterShopList, list,
                   hasSections, shown, mainQ, modal, option>>

\* The back button or gesture; the blocks still queued act on no one's screen.
backToHome ==
    /\ Running /\ category # NoCategory /\ modal = NoModal
    /\ screen' = "popped"
    /\ UNCHANGED <<overlay, inFlight, shopList, filterShopList, list,
                   hasSections, shown, mainQ, modal, option, crash>>

RunDismiss ==
    /\ Head(mainQ).op = "dismissLoadingView"
    /\ IF CanDismiss(overlay)
       THEN overlay' = DismissBlock(overlay) /\ UNCHANGED crash
       ELSE crash' = "dismiss" /\ UNCHANGED overlay
    /\ UNCHANGED <<hasSections, shown, modal>>

RunApply ==
    /\ Head(mainQ).op = "apply"
    /\ hasSections' = TRUE
    /\ shown' = Head(mainQ).list
    /\ UNCHANGED <<overlay, modal, crash>>

RunAlert ==
    /\ Head(mainQ).op = "presentFLAlert"
    /\ modal' \in Present(modal, Alert, TRUE)
    /\ UNCHANGED <<overlay, hasSections, shown, crash>>

RunBlock ==
    /\ Running /\ mainQ # << >>
    /\ mainQ' = Tail(mainQ)
    /\ RunDismiss \/ RunApply \/ RunAlert
    /\ UNCHANGED <<screen, inFlight, shopList, filterShopList, list, option>>

ConfirmAlert ==
    /\ Running /\ modal = Alert
    /\ modal' = NoModal
    /\ UNCHANGED <<screen, overlay, inFlight, shopList, filterShopList, list,
                   hasSections, shown, mainQ, option, crash>>

GetShopsAnswer == GetShopsFailure \/ \E c \in Catalogues : GetShopsSuccess(c)

Step ==
    \/ viewDidLoad \/ backToHome
    \/ GetShopsAnswer
    \/ \E o \in Options : didRequestToUpdateShops(o)
    \/ \E i \in 1 .. Len(shown) : didSelectItemAt(i)
    \/ RunBlock \/ ConfirmAlert

\* The category is given to init(category:) and never changes.
Next == Step /\ UNCHANGED category

Spec == Init /\ [][Next]_vars

\* Firestore answers every query and the main run loop drains its queue.
FairSpec ==
    /\ Spec
    /\ WF_vars(GetShopsAnswer /\ UNCHANGED category)
    /\ WF_vars(RunBlock /\ UNCHANGED category)

-----------------------------------------------------------------------------
TypeOK ==
    /\ category \in Categories \cup {NoCategory}
    /\ screen \in {"new", "alive", "popped"}
    /\ overlay \in Overlay
    /\ inFlight \in 0 .. 1
    /\ \A l \in {shopList, filterShopList, list, shown} :
           l \in Seq(Shops) /\ IsInjective(l)
    /\ hasSections \in BOOLEAN
    /\ \A i \in DOMAIN mainQ :
           mainQ[i].op \in {"dismissLoadingView", "apply", "presentFLAlert"}
    /\ modal \in Modal
    /\ option \in Options
    /\ crash \in {"no", "dismiss", "scroll", "select"}

(***************************************************************************)
(* The list is always the one the last filter asked for, computed from the *)
(* whole catalogue and not from what an earlier filter left.               *)
(***************************************************************************)
ListFitsOption ==
    /\ option \in Categories =>
           ToSet(list) = {x \in ToSet(shopList) : CategoryOf[x] = option}
    /\ option \notin Categories => ToSet(list) = ToSet(shopList)
    /\ option = "ranking" =>
           \A i, j \in DOMAIN list :
               i < j => ScoreOf[list[i]] >= ScoreOf[list[j]]
    /\ option # "ranking" =>
           \A x, y \in ToSet(list) :
               (CHOOSE i \in DOMAIN list : list[i] = x)
                   < (CHOOSE i \in DOMAIN list : list[i] = y)
               <=> (CHOOSE i \in DOMAIN shopList : shopList[i] = x)
                   < (CHOOSE i \in DOMAIN shopList : shopList[i] = y)

ShopInv == TypeOK /\ ListFitsOption

(***************************************************************************)
(* What each trap needs.  The unwrap in dismissLoadingView never fails on  *)
(* this screen, which loads once, unlike on those that load at every       *)
(* appearance; the scroll to the first shop (ShopVC:269) only if some      *)
(* category of the catalogue is empty, the list on display being that of   *)
(* the previous filter; a tap on a displayed cell only in the window       *)
(* between a filter and the block that shows its list.                     *)
(***************************************************************************)
TrapsExplained ==
    /\ crash # "dismiss"
    /\ crash = "scroll" =>
           \E o \in Options : << >> \in Filtered(<< >>, o, shopList)
    /\ crash = "select" => \E i \in DOMAIN mainQ : mainQ[i].op = "apply"

\* The positions of the dismissals in a queue.
Dismissals(q) == {i \in DOMAIN q : q[i].op = "dismissLoadingView"}

Outstanding ==
    IF screen = "popped" THEN 0 ELSE inFlight + Cardinality(Dismissals(mainQ))

(***************************************************************************)
(* The screen implements the loading contract, fairness included: covered  *)
(* exactly while its load is outstanding, and released in the end.         *)
(***************************************************************************)
Contract ==
    INSTANCE LoadingContract
    WITH pending <- Outstanding,
         covered <- screen # "popped" /\ overlay.subviews # {}

ImplementsContract == Contract!FairSpec

=============================================================================
