-------------------------------- MODULE EventVC --------------------------------
(***************************************************************************)
(* EventVC and ProductVC, the lists of everything a shop offers, with the  *)
(* image views of their cells.  Both load at every appearance.  An answer  *)
(* appends to section 0, the row of the shop, a copy of its first item     *)
(* under the identifier "#", and puts the items themselves in section 1.   *)
(***************************************************************************)
EXTENDS FLRegularImageView, PresentationSlot, Functions, SequencesExt

CONSTANTS
    Items,          \* documents, [id, url]
    Lists,          \* the lists the collection may answer with
    ShopURL,        \* the image of the shop
    ShopCells,      \* the cells of section 0
    MaxLoads,       \* bound: answers of the collection
    MaxRequests,    \* bound: requests of all image views
    MaxBlocks       \* bound: blocks the user's and the network's steps add to

ASSUME EventAssumption ==
    /\ Items \subseteq [id : STRING \ {"#"}, url : URLs \cup InvalidURLs]
    /\ Lists \subseteq Seq(Items)
    /\ ShopURL \in URLs \cup InvalidURLs
    /\ ShopCells \subseteq Cells

VARIABLES
    kind,           \* which of the two screens this one is
    screen,         \* "away", "onScreen", "popped"
    inFlight,       \* queries without an answer
    dataList,       \* the two sections; section 1 is also the eventList
    shown,          \* the sections on display
    modal, timers

listVars == <<kind, screen, inFlight, dataList, shown, modal, timers>>
vars == <<mainQ, trap, imageVars, listVars>>

Running == screen # "popped" /\ trap = "no"

HasRoom == Len(mainQ) < MaxBlocks

Placeholder(item) == [item EXCEPT !.id = "#"]

NoSections == [shop |-> << >>, items |-> << >>]

ShowAlert   == [op |-> "presentFLAlert"]
ShowToast   == [op |-> "presentAddToCart"]
Apply(data) == [op |-> "apply", data |-> data]

\* updateData: EventVC posts inside its loop over the two sections, a block
\* that reads the snapshot after the loop; ProductVC posts after it.
Posts(data) ==
    IF kind = "event" THEN <<Apply(data), Apply(data)>> ELSE <<Apply(data)>>

Init ==
    /\ mainQ = << >> /\ trap = "no"
    /\ ImageInit
    /\ kind \in {"event", "product"}
    /\ screen = "away"
    /\ inFlight = 0
    /\ dataList = NoSections /\ shown = NoSections
    /\ modal = NoModal /\ timers = {}

-----------------------------------------------------------------------------
(* The user.                                                               *)

\* The screen is pushed, or its tab is chosen again.
viewWillAppear ==
    /\ Running /\ screen = "away" /\ modal = NoModal
    /\ Len(dataList.shop) + inFlight < MaxLoads
    /\ screen' = "onScreen"
    /\ inFlight' = inFlight + 1
    /\ UNCHANGED <<mainQ, trap, imageVars, kind, dataList, shown, modal, timers>>

Leave(to) ==
    /\ Running /\ screen = "onScreen" /\ modal = NoModal
    /\ screen' = to
    /\ UNCHANGED <<mainQ, trap, imageVars, kind, inFlight, dataList, shown,
                   modal, timers>>

goBack == Leave("popped")

\* The list scrolls, or is laid out: the data source sets a cell, taken from
\* the reusable ones, for a row of the sections on display.
cellForItem ==
    /\ Running /\ screen = "onScreen" /\ shown # NoSections
    /\ HasRoom /\ FoldFunction(+, 0, asked) < MaxRequests
    /\ \/ \E c \in ShopCells : downloadImage(c, ShopURL)
       \/ \E c \in Cells \ ShopCells, item \in ToSet(shown.items) :
              downloadImage(c, item.url)
    /\ UNCHANGED <<trap, listVars>>

\* A row's cart button; every cell of section 1 has the screen as delegate.
didRequestToAddToCart ==
    /\ Running /\ screen = "onScreen" /\ modal = NoModal
    /\ shown # NoSections
    /\ HasRoom /\ Cardinality(timers) + Cardinality({i \in DOMAIN mainQ :
           mainQ[i] = ShowToast}) < Cardinality(Toasts)
    /\ mainQ' = Append(mainQ, ShowToast)
    /\ UNCHANGED <<trap, imageVars, listVars>>

ConfirmAlert ==
    /\ Running /\ modal = Alert
    /\ modal' = NoModal
    /\ UNCHANGED <<mainQ, trap, imageVars, kind, screen, inFlight, dataList,
                   shown, timers>>

-----------------------------------------------------------------------------
(* The answers of Firestore.                                               *)

\* Variant: section 0 is replaced.
AddedAfresh(list) ==
    [shop |-> <<Placeholder(Head(list))>>, items |-> list]

Added(list) ==
    [shop |-> Append(dataList.shop, Placeholder(Head(list))), items |-> list]

\* .success: the first item of no items traps, and so does appendItems when
\* a snapshot would have the same item twice.
EventList(list) ==
    IF list = << >>
    THEN trap' = "eventList[0]" /\ UNCHANGED <<mainQ, dataList>>
    ELSE /\ dataList' = Added(list)
         /\ IF IsInjective(dataList'.shop)
            THEN mainQ' = mainQ \o Posts(dataList') /\ UNCHANGED trap
            ELSE trap' = "appendItems" /\ UNCHANGED mainQ

Failure ==
    /\ mainQ' = Append(mainQ, ShowAlert)
    /\ UNCHANGED <<trap, dataList>>

getEventList ==
    /\ Running /\ inFlight > 0 /\ HasRoom
    /\ inFlight' = inFlight - 1
    /\ Failure \/ \E list \in Lists : EventList(list)
    /\ UNCHANGED <<imageVars, kind, screen, shown, modal, timers>>

-----------------------------------------------------------------------------
(* The main run loop, and the timer of a toast.                            *)

RunApply ==
    /\ Head(mainQ).op = "apply"
    /\ shown' = Head(mainQ).data
    /\ UNCHANGED <<modal, timers>>

RunAlert ==
    /\ Head(mainQ).op = "presentFLAlert"
    /\ modal' \in Present(modal, Alert, screen = "onScreen")
    /\ UNCHANGED <<shown, timers>>

RunToast ==
    /\ Head(mainQ).op = "presentAddToCart"
    /\ \E t \in Toasts \ timers :
           /\ modal' \in Present(modal, t, screen = "onScreen")
           /\ timers' = timers \cup {t}
    /\ UNCHANGED shown

RunBlock ==
    /\ Running /\ mainQ # << >>
    /\ \/ /\ RunImageBlock
          /\ UNCHANGED listVars
       \/ /\ RunApply \/ RunAlert \/ RunToast
          /\ mainQ' = Tail(mainQ)
          /\ UNCHANGED <<trap, imageVars, kind, screen, inFlight, dataList>>

Network ==
    /\ Running /\ HasRoom
    /\ TaskFails \/ TaskStores \/ TaskPosts \/ Evict
    /\ UNCHANGED listVars

ToastTimer ==
    /\ Running
    /\ \E t \in timers : timers' = timers \ {t} /\ modal' = Dismiss(modal, t)
    /\ UNCHANGED <<mainQ, trap, imageVars, kind, screen, inFlight, dataList,
                   shown>>

Next ==
    \/ viewWillAppear \/ Leave("away") \/ goBack
    \/ cellForItem \/ didRequestToAddToCart \/ ConfirmAlert
    \/ getEventList \/ RunBlock \/ Network \/ ToastTimer

Spec == Init /\ [][Next]_vars

-----------------------------------------------------------------------------
Placeholders == {Placeholder(item) : item \in Items}
Sections == [shop : Seq(Placeholders), items : Seq(Items)]

Block == ImageBlock \cup {ShowAlert, ShowToast}
             \cup [op : {"apply"}, data : Sections]

TypeOK ==
    /\ ImageTypeOK
    /\ mainQ \in Seq(Block)
    /\ kind \in {"event", "product"}
    /\ screen \in {"away", "onScreen", "popped"}
    /\ inFlight \in Nat
    /\ dataList \in Sections /\ shown \in Sections
    /\ modal \in Modal /\ timers \subseteq Toasts
    /\ trap \in {"no", "avatar-placeholder", "eventList[0]", "appendItems"}

\* The sections came from one answer: the last row of the shop is a copy of
\* the first item.
FromOneAnswer(s) == s # NoSections =>
    s.items # << >> /\ s.shop # << >> /\ Last(s.shop) = Placeholder(s.items[1])

\* s is what the screen held after some answer.
Coherent(s) == FromOneAnswer(s) /\ IsPrefix(s.shop, dataList.shop)

ListsCoherent ==
    /\ Coherent(dataList) /\ Coherent(shown)
    /\ \A i \in DOMAIN mainQ :
           mainQ[i].op = "apply" => Coherent(mainQ[i].data)

FirstsDiffer == trap # "appendItems" => IsInjective(dataList.shop)

(***************************************************************************)
(* The inductive invariant.  What is displayed, and what a block is about  *)
(* to display, belongs together and is what the screen held some answers   *)
(* ago; a screen that has not trapped never had two answers that began     *)
(* with the same item; and nothing overtakes a request on its way out of   *)
(* the cache.                                                              *)
(***************************************************************************)
EventInv == TypeOK /\ ListsCoherent /\ FirstsDiffer /\ CachedInOrder

(***************************************************************************)
(* A view may go back to the image of an earlier request only because a    *)
(* download was late: an image out of the cache never overwrites the image *)
(* of a later request, whatever happens to the cache in between.           *)
(***************************************************************************)
OnlyDownloadsOvertake ==
    [][\A c \in Cells : GoesBack(c) =>
           /\ mainQ # << >> /\ Head(mainQ).op = "setImage"
           /\ ~Head(mainQ).request.cached]_vars

=============================================================================
