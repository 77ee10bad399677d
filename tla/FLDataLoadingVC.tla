--------------------------- MODULE FLDataLoadingVC ---------------------------
(***************************************************************************)
(* FLDataLoadingVC, the base class of every screen that loads data: a      *)
(* half-opaque overlay with a spinner is laid over the screen by           *)
(* showLoadingView and removed by dismissLoadingView.                      *)
(*                                                                         *)
(* The class keeps ONE reference to the overlay (containerview) while      *)
(* UIKit keeps every overlay that was added to the view (subviews), so an  *)
(* overlay state is a record of the two.  The screens own the state; this  *)
(* module gives the operations on it.                                      *)
(***************************************************************************)
CONSTANTS
    Views,      \* the overlay views that can be alive at the same time
    NoView      \* nil

ASSUME NoViewAssumption == NoView \notin Views

Overlay == [container : Views \cup {NoView}, subviews : SUBSET Views]

NoOverlay == [container |-> NoView, subviews |-> {}]

\* A view allocated by UIView(frame:) is none of those still referenced.
FreshViews(o) == Views \ (o.subviews \cup {o.container})

\* containerview = UIView(...); view.addSubview(containerview)
showLoadingView(o, v) ==
    [container |-> v, subviews |-> o.subviews \cup {v}]

\* The main-queue block of dismissLoadingView can unwrap containerview.
CanDismiss(o) == o.container # NoView

\* Variants a plausible bug would give, used to test the properties.
DismissAll(o) == NoOverlay
ForgetOverlay(o) == [o EXCEPT !.container = NoView]

\* containerview.removeFromSuperview(); containerview = nil
DismissBlock(o) ==
    [container |-> NoView, subviews |-> o.subviews \ {o.container}]

\* Overlays on the screen that no reference of the class reaches any more.
Orphans(o) == o.subviews \ {o.container}

=============================================================================
