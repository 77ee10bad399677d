-------------------------------- MODULE HomeVC --------------------------------
(***************************************************************************)
(* HomeVC, the first tab: the group-buying (tuanGo) feed.  Every           *)
(* appearance of the screen starts a load of the feed, whether or not the  *)
(* previous one has answered, and a completion posts two blocks on the     *)
(* main queue: the dismissal of the overlay and the new contents (or an    *)
(* alert).  The main thread runs one handler or one queued block at a      *)
(* time; a Firestore answer arrives between any two of them.               *)
(*                                                                         *)
(* The location half of the class is module HomeLocation; here it is the   *)
(* action LocationAlert, which posts an alert at any time.                 *)
(***************************************************************************)
EXTENDS Naturals, Sequences, FiniteSets, FLDataLoadingVC, PresentationSlot

CONSTANTS
    TuanGoLists,    \* the lists the server may answer with
    EmptyList,      \* [], the list before the first answer
    MaxBlocks       \* bound: blocks waiting on the main queue

ASSUME HomeAssumption ==
    /\ EmptyList \in TuanGoLists
    /\ IsFiniteSet(Views)
    /\ MaxBlocks \in Nat

VARIABLES
    onScreen,       \* viewWillAppear has run and the screen was not left since
    overlay,        \* the loading overlay, a record of FLDataLoadingVC
    inFlight,       \* calls of getTuanGoList that have not answered
    tuanGoList,     \* the feed the controller holds
    shown,          \* the feed in the last snapshot applied to the collection view
    mainQ,          \* blocks posted with DispatchQueue.main.async, oldest first
    modal,          \* the presented controller
    timers,         \* toasts whose one-second dismissal timer is running
    crashed         \* the process trapped on an unwrapped nil

homeVars == <<onScreen, overlay, inFlight, tuanGoList, shown, mainQ, modal,
              timers, crashed>>

-----------------------------------------------------------------------------
(* The blocks a handler of this class posts on the main queue.             *)

DismissOverlay == [op |-> "dismissLoadingView", list |-> EmptyList]
ApplyFeed(l)   == [op |-> "applyTuanGo", list |-> l]
ShowAlert      == [op |-> "presentFLAlert", list |-> EmptyList]
ShowToast      == [op |-> "presentAddToCart", list |-> EmptyList]

Block == [op : {"dismissLoadingView", "applyTuanGo", "presentFLAlert",
                "presentAddToCart"},
          list : TuanGoLists]

\* The positions of the dismissals in a queue.
Dismissals(q) == {i \in 1 .. Len(q) : q[i].op = "dismissLoadingView"}

-----------------------------------------------------------------------------
HomeInit ==
    /\ onScreen = FALSE
    /\ overlay = NoOverlay
    /\ inFlight = 0
    /\ tuanGoList = EmptyList
    /\ shown = EmptyList
    /\ mainQ = << >>
    /\ modal = NoModal
    /\ timers = {}
    /\ crashed = FALSE

\* The user comes (back) to the tab, or pops the screen pushed over it.
viewWillAppear ==
    /\ ~crashed /\ ~onScreen /\ modal = NoModal
    /\ onScreen' = TRUE
    /\ \E v \in FreshViews(overlay) : overlay' = showLoadingView(overlay, v)
    /\ inFlight' = inFlight + 1
    /\ UNCHANGED <<tuanGoList, shown, mainQ, modal, timers, crashed>>

\* A category is tapped (push of ShopVC) or another tab is selected.
Leave ==
    /\ ~crashed /\ onScreen /\ modal = NoModal
    /\ onScreen' = FALSE
    /\ UNCHANGED <<overlay, inFlight, tuanGoList, shown, mainQ, modal, timers,
                   crashed>>

\* Variants of the completion a plausible bug would give; the properties below
\* are each checked to fail under one of them.
TuanGoFailureNoDismiss ==
    /\ ~crashed /\ inFlight > 0 /\ Len(mainQ) + 2 <= MaxBlocks
    /\ inFlight' = inFlight - 1
    /\ mainQ' = Append(mainQ, ShowAlert)
    /\ UNCHANGED <<onScreen, overlay, tuanGoList, shown, modal, timers, crashed>>

TuanGoFailureTwice ==
    /\ ~crashed /\ inFlight > 0 /\ Len(mainQ) + 3 <= MaxBlocks
    /\ inFlight' = inFlight - 1
    /\ mainQ' = mainQ \o <<DismissOverlay, ShowAlert, DismissOverlay>>
    /\ UNCHANGED <<onScreen, overlay, tuanGoList, shown, modal, timers, crashed>>

\* The completion of getTuanGoItems, .success.
TuanGoSuccess(l) ==
    /\ ~crashed /\ inFlight > 0 /\ Len(mainQ) + 2 <= MaxBlocks
    /\ inFlight' = inFlight - 1
    /\ tuanGoList' = l
    /\ mainQ' = Append(Append(mainQ, DismissOverlay), ApplyFeed(l))
    /\ UNCHANGED <<onScreen, overlay, shown, modal, timers, crashed>>

\* The completion of getTuanGoItems, .failure.
TuanGoFailure ==
    /\ ~crashed /\ inFlight > 0 /\ Len(mainQ) + 2 <= MaxBlocks
    /\ inFlight' = inFlight - 1
    /\ mainQ' = Append(Append(mainQ, DismissOverlay), ShowAlert)
    /\ UNCHANGED <<onScreen, overlay, tuanGoList, shown, modal, timers, crashed>>

\* The add-to-cart button of a feed cell; not pressed in an instance without
\* toasts (a bound).
didRequestToAddToCart ==
    /\ ~crashed /\ onScreen /\ modal = NoModal /\ overlay.subviews = {}
    /\ Len(mainQ) < MaxBlocks /\ Toasts # {}
    /\ mainQ' = Append(mainQ, ShowToast)
    /\ UNCHANGED <<onScreen, overlay, inFlight, tuanGoList, shown, modal,
                   timers, crashed>>

\* checkLocationSevices and checkLocationAuthorization post their alerts.
LocationAlert ==
    /\ ~crashed /\ Len(mainQ) < MaxBlocks
    /\ mainQ' = Append(mainQ, ShowAlert)
    /\ UNCHANGED <<onScreen, overlay, inFlight, tuanGoList, shown, modal,
                   timers, crashed>>

-----------------------------------------------------------------------------
(* The main queue runs its oldest block.                                   *)

RunDismiss ==
    /\ Head(mainQ).op = "dismissLoadingView"
    /\ IF CanDismiss(overlay)
       THEN overlay' = DismissBlock(overlay) /\ mainQ' = Tail(mainQ)
                /\ UNCHANGED crashed
       ELSE crashed' = TRUE /\ UNCHANGED <<overlay, mainQ>>
    /\ UNCHANGED <<onScreen, inFlight, tuanGoList, shown, modal, timers>>

RunApply ==
    /\ Head(mainQ).op = "applyTuanGo"
    /\ mainQ' = Tail(mainQ)
    /\ shown' = Head(mainQ).list
    /\ UNCHANGED <<onScreen, overlay, inFlight, tuanGoList, modal, timers,
                   crashed>>

RunAlert ==
    /\ Head(mainQ).op = "presentFLAlert"
    /\ mainQ' = Tail(mainQ)
    /\ modal' \in Present(modal, Alert, onScreen)
    /\ UNCHANGED <<onScreen, overlay, inFlight, tuanGoList, shown, timers,
                   crashed>>

RunToast ==
    /\ Head(mainQ).op = "presentAddToCart"
    /\ mainQ' = Tail(mainQ)
    /\ \E t \in Toasts \ timers :
           modal' \in Present(modal, t, onScreen) /\ timers' = timers \cup {t}
    /\ UNCHANGED <<onScreen, overlay, inFlight, tuanGoList, shown, crashed>>

RunBlock ==
    /\ ~crashed /\ mainQ # << >>
    /\ RunDismiss \/ RunApply \/ RunAlert \/ RunToast

\* Variant: the timer fires and forgets the toast.
ToastTimerIdle ==
    /\ ~crashed
    /\ \E t \in timers : timers' = timers \ {t} /\ UNCHANGED modal
    /\ UNCHANGED <<onScreen, overlay, inFlight, tuanGoList, shown, mainQ,
                   crashed>>

\* One second after the toast: successVC.dismiss(animated: true).
ToastTimer ==
    /\ ~crashed
    /\ \E t \in timers : timers' = timers \ {t} /\ modal' = Dismiss(modal, t)
    /\ UNCHANGED <<onScreen, overlay, inFlight, tuanGoList, shown, mainQ,
                   crashed>>

\* The only button of FLAlertVC.
ConfirmAlert ==
    /\ ~crashed /\ modal = Alert
    /\ modal' = NoModal
    /\ UNCHANGED <<onScreen, overlay, inFlight, tuanGoList, shown, mainQ,
                   timers, crashed>>

\* The user starts the app again after a crash; nothing of this is persistent.
Relaunch ==
    /\ crashed
    /\ onScreen' = FALSE /\ overlay' = NoOverlay /\ inFlight' = 0
    /\ tuanGoList' = EmptyList /\ shown' = EmptyList /\ mainQ' = << >>
    /\ modal' = NoModal /\ timers' = {} /\ crashed' = FALSE

TuanGoAnswer == TuanGoFailure \/ \E l \in TuanGoLists : TuanGoSuccess(l)

FeedNext ==
    \/ viewWillAppear \/ Leave
    \/ TuanGoAnswer
    \/ didRequestToAddToCart
    \/ RunBlock \/ ToastTimer
    \/ ConfirmAlert

HomeNext == FeedNext \/ LocationAlert \/ Relaunch

HomeSpec == HomeInit /\ [][HomeNext]_homeVars

\* Firestore calls every completion back (with an error when it must), the
\* main run loop drains its queue, and a timer fires.
HomeFairSpec ==
    /\ HomeSpec
    /\ WF_homeVars(TuanGoAnswer)
    /\ WF_homeVars(RunBlock)
    /\ WF_homeVars(ToastTimer)

-----------------------------------------------------------------------------
HomeTypeOK ==
    /\ onScreen \in BOOLEAN
    /\ overlay \in Overlay
    /\ inFlight \in Nat
    /\ tuanGoList \in TuanGoLists
    /\ shown \in TuanGoLists
    /\ mainQ \in Seq(Block)
    /\ modal \in Modal
    /\ timers \in SUBSET Toasts
    /\ crashed \in BOOLEAN

\* Loads begun by showLoadingView whose dismissal has not run yet.
Outstanding == inFlight + Cardinality(Dismissals(mainQ))

(***************************************************************************)
(* What the declaration of containerview as UIView! asserts: whenever the  *)
(* dismissal block runs there is a view to unwrap.                         *)
(***************************************************************************)
ContainerIsThere == ~crashed

(***************************************************************************)
(* Every overlay on the screen is owed exactly one dismissal: the number   *)
(* of overlays equals the answers still to come plus the dismissals still  *)
(* queued, however appearances, answers and blocks interleave.             *)
(***************************************************************************)
OverlaysAreOwed == Cardinality(overlay.subviews) = Outstanding

(***************************************************************************)
(* The unwrap of containerview (FLDataLoadingVC:41) fails only after two   *)
(* loads overlapped: a crash leaves behind an overlay that the second      *)
(* showLoadingView cut off from the class.  A load that overlaps no other  *)
(* never crashes.                                                          *)
(***************************************************************************)
CrashMeansOverlap == crashed => overlay.container = NoView /\ Orphans(overlay) # {}

(***************************************************************************)
(* A presented add-to-cart toast always has its own dismissal timer, so a  *)
(* toast dropped by the slot, or the timer of another, cannot strand it.   *)
(***************************************************************************)
ToastHasTimer == modal \in Toasts => modal \in timers

(***************************************************************************)
(* The inductive invariant of HomeVC_proofs: the properties above hold     *)
(* because the class's reference, when it is there, is to an overlay that  *)
(* is on the screen, and because the block that trapped, which is never    *)
(* taken off the queue, still owes a dismissal.                            *)
(***************************************************************************)
ContainerOnScreen == overlay.container # NoView => overlay.container \in overlay.subviews

CrashKeepsDismissal ==
    crashed => /\ overlay.container = NoView
               /\ mainQ # << >> /\ Head(mainQ).op = "dismissLoadingView"

HomeInv ==
    /\ HomeTypeOK
    /\ OverlaysAreOwed
    /\ ContainerOnScreen
    /\ CrashKeepsDismissal
    /\ ToastHasTimer

(***************************************************************************)
(* An overlay cut off from the class stays on the screen for the life of   *)
(* the process: no answer, dismissal or later load removes it.             *)
(***************************************************************************)
OrphansStay ==
    [][crashed \/ Orphans(overlay) \subseteq Orphans(overlay')]_homeVars

(***************************************************************************)
(* The overlay implements the loading contract on this screen even when    *)
(* loads overlap: the screen is covered exactly while a load is            *)
(* outstanding, and only a crash breaks it off.                            *)
(***************************************************************************)
Contract ==
    INSTANCE LoadingContract
    WITH pending <- Outstanding, covered <- overlay.subviews # {}

ImplementsContract == Contract!Spec

(***************************************************************************)
(* A toast leaves the screen by itself.                                    *)
(***************************************************************************)
ToastEnds == (modal \in Toasts) ~> (modal \notin Toasts \/ crashed)

=============================================================================
