--------------------------- MODULE PresentationSlot ---------------------------
(***************************************************************************)
(* The modal presentations of UIViewController+Ext.swift.  UIKit has one   *)
(* slot for a modally presented controller: a present() while one is up is *)
(* dropped, and one made from a screen that is not on display may be.      *)
(***************************************************************************)
CONSTANTS
    Toasts,     \* the FLAddToCartSuccessVC objects alive at the same time
    NoModal,    \* nothing is presented
    Alert       \* an FLAlertVC is presented

ASSUME SlotAssumption ==
    NoModal \notin Toasts /\ Alert \notin Toasts /\ NoModal # Alert

Modal == Toasts \cup {NoModal, Alert}

\* The contents of the slot after self.present(vc, animated: true).
Present(modal, vc, onScreen) ==
    IF modal # NoModal THEN {modal}
    ELSE IF onScreen THEN {vc} ELSE {vc, NoModal}

\* vc.dismiss(animated: true) on a controller that is presented or not.
Dismiss(modal, vc) == IF modal = vc THEN NoModal ELSE modal

=============================================================================
