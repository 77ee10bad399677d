-------------------------- MODULE FLAdvertVC_proofs --------------------------
(***************************************************************************)
(* Proofs about the home screen, first its feed alone (HomeVC), for every  *)
(* set of overlays, toasts and feeds and every bound on the main queue;    *)
(* then the screen put together from its three parts, the feed, the        *)
(* location (HomeLocation) and the carousel (FLAdvertVC), for every set of *)
(* places and every number of images.  The lemmas about the steps of the   *)
(* feed carry over, because the other two parts only post alerts to it.    *)
(***************************************************************************)
EXTENDS FLAdvertVC, FiniteSetTheorems, SequenceTheorems, TLAPS

-----------------------------------------------------------------------------
(* Counting the dismissals of a queue.                                     *)

\* A queue has finitely many dismissals.
LEMMA DismissalsFinite ==
    ASSUME NEW q \in Seq(Block)
    PROVE  /\ IsFiniteSet(Dismissals(q))
           /\ Cardinality(Dismissals(q)) \in Nat
<1>1. Len(q) \in Nat /\ Dismissals(q) \in SUBSET (1 .. Len(q))
    BY DEF Dismissals
<1>2. IsFiniteSet(1 .. Len(q))
    BY <1>1, FS_Interval
<1> QED BY <1>1, <1>2, FS_Subset, FS_CardinalityType

\* Posting a block adds a dismissal exactly when the block is one.
LEMMA DismissalsAppend ==
    ASSUME NEW q \in Seq(Block), NEW b \in Block
    PROVE  /\ Append(q, b) \in Seq(Block)
           /\ Cardinality(Dismissals(Append(q, b))) =
                  Cardinality(Dismissals(q))
                      + (IF b.op = "dismissLoadingView" THEN 1 ELSE 0)
<1> DEFINE a == Append(q, b)
           n == Len(q) + 1
<1>1. /\ a \in Seq(Block) /\ Len(a) = n /\ Len(q) \in Nat
      /\ a[n] = b /\ \A i \in 1 .. Len(q) : a[i] = q[i]
    OBVIOUS
<1>2. CASE b.op = "dismissLoadingView"
    <2>1. Dismissals(a) = Dismissals(q) \cup {n} /\ n \notin Dismissals(q)
        BY <1>1, <1>2 DEF Dismissals
    <2> QED BY <1>1, <1>2, <2>1, DismissalsFinite, FS_AddElement
<1>3. CASE b.op # "dismissLoadingView"
    <2>1. Dismissals(a) = Dismissals(q)
        BY <1>1, <1>3 DEF Dismissals
    <2> QED BY <1>1, <1>3, <2>1, DismissalsFinite
<1> QED BY <1>2, <1>3

\* Running the oldest block removes a dismissal exactly when the block is one.
LEMMA DismissalsTail ==
    ASSUME NEW q \in Seq(Block), q # << >>
    PROVE  /\ Tail(q) \in Seq(Block)
           /\ Cardinality(Dismissals(Tail(q))) =
                  Cardinality(Dismissals(q))
                      - (IF Head(q).op = "dismissLoadingView" THEN 1 ELSE 0)
<1> DEFINE t == Tail(q)
           rest == Dismissals(q) \ {1}
           shift == [i \in Dismissals(t) |-> i + 1]
<1>1. /\ t \in Seq(Block) /\ Len(q) \in Nat \ {0} /\ Len(t) = Len(q) - 1
      /\ Head(q) = q[1] /\ \A i \in 1 .. Len(t) : t[i] = q[i + 1]
    BY HeadTailProperties, EmptySeq
<1>2. shift \in Bijection(Dismissals(t), rest)
    <2>1. \A i \in Dismissals(t) : i \in Nat /\ i + 1 \in rest
        BY <1>1 DEF Dismissals
    <2>2. \A j \in rest : j - 1 \in Dismissals(t) /\ shift[j - 1] = j
        BY <1>1 DEF Dismissals
    <2>3. \A i, j \in Dismissals(t) : shift[i] = shift[j] => i = j
        BY <2>1
    <2> QED BY <2>1, <2>2, <2>3
            DEF Bijection, Injection, Surjection, IsInjective
<1>3. Cardinality(rest) = Cardinality(Dismissals(t))
    BY <1>1, <1>2, DismissalsFinite, FS_Bijection DEF ExistsBijection
<1>4. 1 \in Dismissals(q) <=> Head(q).op = "dismissLoadingView"
    BY <1>1 DEF Dismissals
<1>5. /\ Cardinality(Dismissals(q)) \in Nat
      /\ Cardinality(rest) = IF 1 \in Dismissals(q)
                             THEN Cardinality(Dismissals(q)) - 1
                             ELSE Cardinality(Dismissals(q))
    <2> HIDE DEF rest
    <2>1. IsFiniteSet(Dismissals(q)) /\ Cardinality(Dismissals(q)) \in Nat
        BY DismissalsFinite
    <2> QED BY <2>1, FS_RemoveElement DEF rest
<1> HIDE DEF rest, shift
<1>6. CASE Head(q).op = "dismissLoadingView"
    BY <1>1, <1>3, <1>4, <1>5, <1>6
<1>7. CASE Head(q).op # "dismissLoadingView"
    BY <1>1, <1>3, <1>4, <1>5, <1>7
<1> QED BY <1>6, <1>7

-----------------------------------------------------------------------------
(* Facts about single blocks and queues.                                   *)

LEMMA BlockTypes ==
    /\ DismissOverlay \in Block /\ DismissOverlay.op = "dismissLoadingView"
    /\ \A l \in TuanGoLists :
           ApplyFeed(l) \in Block /\ ApplyFeed(l).op = "applyTuanGo"
    /\ ShowAlert \in Block /\ ShowAlert.op = "presentFLAlert"
    /\ ShowToast \in Block /\ ShowToast.op = "presentAddToCart"
BY HomeAssumption DEF DismissOverlay, ApplyFeed, ShowAlert, ShowToast, Block

\* An answer posts one dismissal and one other block.
LEMMA AnswerQueue ==
    ASSUME NEW q \in Seq(Block), NEW b \in Block,
           b.op # "dismissLoadingView"
    PROVE  /\ Append(Append(q, DismissOverlay), b) \in Seq(Block)
           /\ Cardinality(Dismissals(Append(Append(q, DismissOverlay), b)))
                  = Cardinality(Dismissals(q)) + 1
<1>1. /\ Append(q, DismissOverlay) \in Seq(Block)
      /\ Cardinality(Dismissals(Append(q, DismissOverlay)))
             = Cardinality(Dismissals(q)) + 1
    BY BlockTypes, DismissalsAppend
<1>2. /\ Append(Append(q, DismissOverlay), b) \in Seq(Block)
      /\ Cardinality(Dismissals(Append(Append(q, DismissOverlay), b)))
             = Cardinality(Dismissals(Append(q, DismissOverlay))) + 0
    BY <1>1, DismissalsAppend
<1> QED BY <1>1, <1>2, DismissalsFinite

LEMMA EmptyQueue == << >> \in Seq(Block) /\ Cardinality(Dismissals(<< >>)) = 0
<1>1. Dismissals(<< >>) = {}
    BY DEF Dismissals
<1> QED BY <1>1, FS_EmptySet

-----------------------------------------------------------------------------
(* The inductive invariant.                                                *)

LEMMA HomeInitInv == HomeInit => HomeInv
<1> SUFFICES ASSUME HomeInit PROVE HomeInv
    OBVIOUS
<1> USE DEF HomeInit, NoOverlay
<1>1. HomeTypeOK
    BY HomeAssumption, EmptyQueue DEF HomeTypeOK, Overlay, Modal
<1>2. OverlaysAreOwed
    BY EmptyQueue, FS_EmptySet DEF OverlaysAreOwed, Outstanding
<1>3. ContainerOnScreen /\ CrashKeepsDismissal /\ ToastHasTimer
    BY SlotAssumption DEF ContainerOnScreen, CrashKeepsDismissal, ToastHasTimer
<1> QED BY <1>1, <1>2, <1>3 DEF HomeInv

\* viewWillAppear puts one more overlay on the screen for one more load.
LEMMA AppearInv == HomeInv /\ viewWillAppear => HomeInv' /\ Outstanding' = Outstanding + 1
<1> SUFFICES ASSUME HomeInv, viewWillAppear
             PROVE  HomeInv' /\ Outstanding' = Outstanding + 1
    OBVIOUS
<1>1. PICK v \in FreshViews(overlay) : overlay' = showLoadingView(overlay, v)
    BY DEF viewWillAppear
<1>2. /\ v \in Views /\ v # NoView /\ v \notin overlay.subviews
      /\ overlay'.container = v
      /\ overlay'.subviews = overlay.subviews \cup {v}
      /\ overlay' \in Overlay
    BY <1>1, NoViewAssumption
       DEF HomeInv, HomeTypeOK, Overlay, FreshViews, showLoadingView
<1>3. HomeTypeOK'
    BY <1>2 DEF HomeInv, HomeTypeOK, viewWillAppear
<1>4. Outstanding' = Outstanding + 1
    <2>1. Cardinality(Dismissals(mainQ)) \in Nat
        BY DismissalsFinite DEF HomeInv, HomeTypeOK
    <2> QED BY <2>1 DEF HomeInv, HomeTypeOK, viewWillAppear, Outstanding
<1>5. Cardinality(overlay'.subviews) = Cardinality(overlay.subviews) + 1
    <2>1. IsFiniteSet(overlay.subviews)
        BY HomeAssumption, FS_Subset DEF HomeInv, HomeTypeOK, Overlay
    <2> QED BY <1>2, <2>1, FS_AddElement
<1>6. OverlaysAreOwed'
    BY <1>4, <1>5 DEF HomeInv, OverlaysAreOwed
<1>7. ContainerOnScreen' /\ CrashKeepsDismissal' /\ ToastHasTimer'
    BY <1>2 DEF HomeInv, viewWillAppear, ContainerOnScreen,
                CrashKeepsDismissal, ToastHasTimer
<1> QED BY <1>3, <1>4, <1>6, <1>7 DEF HomeInv

\* An answer turns a load in flight into a queued dismissal.
LEMMA AnswerInv == HomeInv /\ TuanGoAnswer => HomeInv' /\ Outstanding' = Outstanding
<1> SUFFICES ASSUME HomeInv, TuanGoAnswer
             PROVE  HomeInv' /\ Outstanding' = Outstanding
    OBVIOUS
<1>1. PICK b \in Block :
          /\ b.op # "dismissLoadingView"
          /\ mainQ' = Append(Append(mainQ, DismissOverlay), b)
          /\ tuanGoList' \in TuanGoLists
    <2>1. CASE TuanGoFailure
        BY <2>1, BlockTypes DEF TuanGoFailure, HomeInv, HomeTypeOK
    <2>2. CASE \E l \in TuanGoLists : TuanGoSuccess(l)
        BY <2>2, BlockTypes DEF TuanGoSuccess
    <2> QED BY <2>1, <2>2 DEF TuanGoAnswer
<1>2. /\ ~crashed /\ inFlight > 0 /\ inFlight' = inFlight - 1
      /\ UNCHANGED <<onScreen, overlay, shown, modal, timers, crashed>>
    BY DEF TuanGoAnswer, TuanGoFailure, TuanGoSuccess
<1>3. /\ mainQ' \in Seq(Block)
      /\ Cardinality(Dismissals(mainQ')) = Cardinality(Dismissals(mainQ)) + 1
    BY <1>1, AnswerQueue DEF HomeInv, HomeTypeOK
<1>4. HomeTypeOK'
    BY <1>1, <1>2, <1>3 DEF HomeInv, HomeTypeOK
<1>5. Outstanding' = Outstanding
    <2>1. Cardinality(Dismissals(mainQ)) \in Nat /\ inFlight \in Nat
        BY DismissalsFinite DEF HomeInv, HomeTypeOK
    <2> QED BY <1>2, <1>3, <2>1 DEF Outstanding
<1>6. OverlaysAreOwed'
    BY <1>2, <1>5 DEF HomeInv, OverlaysAreOwed
<1>7. ContainerOnScreen' /\ CrashKeepsDismissal' /\ ToastHasTimer'
    BY <1>2 DEF HomeInv, ContainerOnScreen, CrashKeepsDismissal, ToastHasTimer
<1> QED BY <1>4, <1>5, <1>6, <1>7 DEF HomeInv

\* A step that leaves the overlay, the loads and the queue alone.
LEMMA QuietInv ==
    HomeInv /\ (Leave \/ ToastTimer \/ ConfirmAlert \/ UNCHANGED homeVars)
        => HomeInv' /\ Outstanding' = Outstanding
<1> SUFFICES ASSUME HomeInv,
                    Leave \/ ToastTimer \/ ConfirmAlert \/ UNCHANGED homeVars
             PROVE  HomeInv' /\ Outstanding' = Outstanding
    OBVIOUS
<1>1. UNCHANGED <<overlay, inFlight, tuanGoList, shown, mainQ, crashed>>
    BY DEF Leave, ToastTimer, ConfirmAlert, homeVars
<1>2. HomeTypeOK' /\ ToastHasTimer'
    <2>1. CASE Leave
        BY <1>1, <2>1 DEF Leave, HomeInv, HomeTypeOK, ToastHasTimer
    <2>2. CASE ToastTimer
        BY <1>1, <2>2, SlotAssumption
           DEF ToastTimer, Dismiss, Modal, HomeInv, HomeTypeOK, ToastHasTimer
    <2>3. CASE ConfirmAlert
        BY <1>1, <2>3, SlotAssumption
           DEF ConfirmAlert, Modal, HomeInv, HomeTypeOK, ToastHasTimer
    <2>4. CASE UNCHANGED homeVars
        BY <2>4 DEF homeVars, HomeInv, HomeTypeOK, ToastHasTimer
    <2> QED BY <2>1, <2>2, <2>3, <2>4
<1>3. Outstanding' = Outstanding /\ OverlaysAreOwed'
    BY <1>1 DEF Outstanding, OverlaysAreOwed, HomeInv
<1>4. ContainerOnScreen' /\ CrashKeepsDismissal'
    BY <1>1 DEF HomeInv, ContainerOnScreen, CrashKeepsDismissal
<1> QED BY <1>2, <1>3, <1>4 DEF HomeInv

\* The handlers that post a toast or an alert.
LEMMA PostInv ==
    HomeInv /\ (didRequestToAddToCart \/ LocationAlert)
        => HomeInv' /\ Outstanding' = Outstanding
<1> SUFFICES ASSUME HomeInv, didRequestToAddToCart \/ LocationAlert
             PROVE  HomeInv' /\ Outstanding' = Outstanding
    OBVIOUS
<1>1. PICK b \in Block :
          b.op # "dismissLoadingView" /\ mainQ' = Append(mainQ, b)
    BY BlockTypes DEF didRequestToAddToCart, LocationAlert
<1>2. ~crashed /\ UNCHANGED <<onScreen, overlay, inFlight, tuanGoList, shown,
                              modal, timers, crashed>>
    BY DEF didRequestToAddToCart, LocationAlert
<1>3. /\ mainQ' \in Seq(Block)
      /\ Cardinality(Dismissals(mainQ')) = Cardinality(Dismissals(mainQ)) + 0
      /\ Cardinality(Dismissals(mainQ)) \in Nat
    BY <1>1, DismissalsAppend, DismissalsFinite DEF HomeInv, HomeTypeOK
<1>4. HomeTypeOK'
    BY <1>2, <1>3 DEF HomeInv, HomeTypeOK
<1>5. Outstanding' = Outstanding /\ OverlaysAreOwed'
    BY <1>2, <1>3 DEF Outstanding, OverlaysAreOwed, HomeInv
<1>6. ContainerOnScreen' /\ CrashKeepsDismissal' /\ ToastHasTimer'
    BY <1>2 DEF HomeInv, ContainerOnScreen, CrashKeepsDismissal, ToastHasTimer
<1> QED BY <1>4, <1>5, <1>6 DEF HomeInv

\* A dismissal that finds its view takes one overlay down; one that does not
\* traps, and stays at the head of the queue.
LEMMA RunDismissInv ==
    HomeInv /\ ~crashed /\ mainQ # << >> /\ RunDismiss
        => /\ HomeInv'
           /\ Outstanding > 0
           /\ Outstanding' = Outstanding \/ Outstanding' = Outstanding - 1
<1> SUFFICES ASSUME HomeInv, ~crashed, mainQ # << >>, RunDismiss
             PROVE  /\ HomeInv'
                    /\ Outstanding > 0
                    /\ Outstanding' = Outstanding \/ Outstanding' = Outstanding - 1
    OBVIOUS
<1>1. /\ Tail(mainQ) \in Seq(Block)
      /\ Cardinality(Dismissals(Tail(mainQ))) = Cardinality(Dismissals(mainQ)) - 1
      /\ Cardinality(Dismissals(mainQ)) \in Nat
      /\ Cardinality(Dismissals(Tail(mainQ))) \in Nat
      /\ inFlight \in Nat
    BY DismissalsTail, DismissalsFinite DEF HomeInv, HomeTypeOK, RunDismiss
<1>2. Outstanding > 0
    BY <1>1 DEF Outstanding
<1>3. UNCHANGED <<onScreen, inFlight, tuanGoList, shown, modal, timers>>
    BY DEF RunDismiss
<1>4. CASE CanDismiss(overlay)
    <2>1. /\ mainQ' = Tail(mainQ) /\ crashed' = crashed
          /\ overlay.container \in overlay.subviews
          /\ overlay'.container = NoView
          /\ overlay'.subviews = overlay.subviews \ {overlay.container}
          /\ overlay' \in Overlay
        BY <1>4 DEF RunDismiss, CanDismiss, DismissBlock, HomeInv, HomeTypeOK,
                    Overlay, ContainerOnScreen
    <2>2. Outstanding' = Outstanding - 1
        BY <1>1, <1>3, <2>1 DEF Outstanding
    <2>3. Cardinality(overlay'.subviews) = Cardinality(overlay.subviews) - 1
        <3>1. IsFiniteSet(overlay.subviews)
            BY HomeAssumption, FS_Subset DEF HomeInv, HomeTypeOK, Overlay
        <3> QED BY <2>1, <3>1, FS_RemoveElement
    <2>4. HomeTypeOK'
        BY <1>1, <1>3, <2>1 DEF HomeInv, HomeTypeOK
    <2>5. OverlaysAreOwed'
        BY <2>2, <2>3 DEF HomeInv, OverlaysAreOwed
    <2>6. ContainerOnScreen' /\ CrashKeepsDismissal' /\ ToastHasTimer'
        BY <1>3, <2>1 DEF HomeInv, ContainerOnScreen, CrashKeepsDismissal,
                          ToastHasTimer
    <2> QED BY <1>2, <2>2, <2>4, <2>5, <2>6 DEF HomeInv
<1>5. CASE ~CanDismiss(overlay)
    <2>1. crashed' = TRUE /\ UNCHANGED <<overlay, mainQ>>
              /\ overlay.container = NoView
              /\ Head(mainQ).op = "dismissLoadingView"
        BY <1>5 DEF RunDismiss, CanDismiss
    <2>2. HomeTypeOK'
        BY <1>3, <2>1 DEF HomeInv, HomeTypeOK
    <2>3. Outstanding' = Outstanding /\ OverlaysAreOwed'
        BY <1>3, <2>1 DEF Outstanding, HomeInv, OverlaysAreOwed
    <2>4. ContainerOnScreen' /\ CrashKeepsDismissal' /\ ToastHasTimer'
        BY <1>3, <2>1 DEF HomeInv, ContainerOnScreen, CrashKeepsDismissal,
                          ToastHasTimer
    <2> QED BY <1>2, <2>2, <2>3, <2>4 DEF HomeInv
<1> QED BY <1>4, <1>5

\* The other blocks owe no dismissal.
LEMMA RunOtherInv ==
    HomeInv /\ ~crashed /\ mainQ # << >> /\ (RunApply \/ RunAlert \/ RunToast)
        => HomeInv' /\ Outstanding' = Outstanding
<1> SUFFICES ASSUME HomeInv, ~crashed, mainQ # << >>,
                    RunApply \/ RunAlert \/ RunToast
             PROVE  HomeInv' /\ Outstanding' = Outstanding
    OBVIOUS
<1>1. /\ Head(mainQ).op # "dismissLoadingView" /\ mainQ' = Tail(mainQ)
      /\ UNCHANGED <<onScreen, overlay, inFlight, tuanGoList, crashed>>
    BY DEF RunApply, RunAlert, RunToast
<1>2. /\ Tail(mainQ) \in Seq(Block) /\ Head(mainQ) \in Block
      /\ Cardinality(Dismissals(Tail(mainQ))) = Cardinality(Dismissals(mainQ)) - 0
      /\ Cardinality(Dismissals(mainQ)) \in Nat
    BY <1>1, DismissalsTail, DismissalsFinite, HeadTailProperties
       DEF HomeInv, HomeTypeOK
<1>3. shown' \in TuanGoLists /\ modal' \in Modal /\ timers' \in SUBSET Toasts
          /\ ToastHasTimer'
    <2>1. CASE RunApply
        BY <1>2, <2>1 DEF RunApply, Block, HomeInv, HomeTypeOK, ToastHasTimer
    <2>2. CASE RunAlert
        BY <2>2, SlotAssumption
           DEF RunAlert, Present, Modal, HomeInv, HomeTypeOK, ToastHasTimer
    <2>3. CASE RunToast
        BY <2>3, SlotAssumption
           DEF RunToast, Present, Modal, HomeInv, HomeTypeOK, ToastHasTimer
    <2> QED BY <2>1, <2>2, <2>3
<1>4. HomeTypeOK'
    BY <1>1, <1>2, <1>3 DEF HomeInv, HomeTypeOK
<1>5. Outstanding' = Outstanding /\ OverlaysAreOwed'
    BY <1>1, <1>2 DEF Outstanding, OverlaysAreOwed, HomeInv
<1>6. ContainerOnScreen' /\ CrashKeepsDismissal'
    BY <1>1 DEF HomeInv, ContainerOnScreen, CrashKeepsDismissal
<1> QED BY <1>3, <1>4, <1>5, <1>6 DEF HomeInv

\* A relaunched process starts like the first one.
LEMMA RelaunchInv == Relaunch => HomeInv' /\ Outstanding' = 0
<1> SUFFICES ASSUME Relaunch PROVE HomeInv' /\ Outstanding' = 0
    OBVIOUS
<1> USE DEF Relaunch, NoOverlay
<1>1. HomeTypeOK'
    BY HomeAssumption, EmptyQueue DEF HomeTypeOK, Overlay, Modal
<1>2. Outstanding' = 0
    BY EmptyQueue DEF Outstanding
<1>3. OverlaysAreOwed'
    BY <1>2, FS_EmptySet DEF OverlaysAreOwed
<1>4. ContainerOnScreen' /\ CrashKeepsDismissal' /\ ToastHasTimer'
    BY SlotAssumption DEF ContainerOnScreen, CrashKeepsDismissal, ToastHasTimer
<1> QED BY <1>1, <1>2, <1>3, <1>4 DEF HomeInv

LEMMA HomeNextInv == HomeInv /\ [HomeNext]_homeVars => HomeInv'
BY AppearInv, AnswerInv, QuietInv, PostInv, RunDismissInv, RunOtherInv,
   RelaunchInv
   DEF HomeNext, FeedNext, RunBlock

(***************************************************************************)
(* HomeInv holds in every reachable state of HomeVC.                       *)
(***************************************************************************)
THEOREM HomeInvariance == HomeSpec => []HomeInv
<1>1. HomeInit => HomeInv
    BY HomeInitInv
<1>2. HomeInv /\ [HomeNext]_homeVars => HomeInv'
    BY HomeNextInv
<1> QED BY <1>1, <1>2, PTL DEF HomeSpec

(***************************************************************************)
(* Every state variable keeps its type.                                    *)
(***************************************************************************)
THEOREM HomeTyped == HomeSpec => []HomeTypeOK
BY HomeInvariance, PTL DEF HomeInv

(***************************************************************************)
(* Overlays on the screen, answers to come and dismissals queued balance   *)
(* for any number of overlapping loads.                                    *)
(***************************************************************************)
THEOREM HomeOverlaysAreOwed == HomeSpec => []OverlaysAreOwed
BY HomeInvariance, PTL DEF HomeInv

(***************************************************************************)
(* A toast on the screen is never without its timer.                       *)
(***************************************************************************)
THEOREM HomeToastHasTimer == HomeSpec => []ToastHasTimer
BY HomeInvariance, PTL DEF HomeInv

(***************************************************************************)
(* The trap in dismissLoadingView needs two overlapping loads: the block   *)
(* that trapped still owes a dismissal, so an overlay is on the screen,    *)
(* and the class has no reference to it.                                   *)
(***************************************************************************)
THEOREM HomeCrashMeansOverlap == HomeSpec => []CrashMeansOverlap
<1>1. HomeInv => CrashMeansOverlap
    <2> SUFFICES ASSUME HomeInv, crashed
                 PROVE  overlay.container = NoView /\ Orphans(overlay) # {}
        BY DEF CrashMeansOverlap
    <2>1. /\ overlay.container = NoView
          /\ mainQ \in Seq(Block) /\ mainQ # << >>
          /\ Head(mainQ).op = "dismissLoadingView"
          /\ overlay.subviews \subseteq Views /\ inFlight \in Nat
        BY DEF HomeInv, HomeTypeOK, Overlay, CrashKeepsDismissal
    <2>2. Cardinality(Dismissals(mainQ)) \in Nat \ {0}
        <3>1. /\ Cardinality(Dismissals(mainQ)) \in Nat
              /\ Cardinality(Dismissals(Tail(mainQ))) \in Nat
              /\ Cardinality(Dismissals(Tail(mainQ)))
                     = Cardinality(Dismissals(mainQ)) - 1
            BY <2>1, DismissalsTail, DismissalsFinite
        <3> QED BY <3>1
    <2>3. Cardinality(overlay.subviews) # 0
        BY <2>1, <2>2 DEF HomeInv, OverlaysAreOwed, Outstanding
    <2>4. overlay.subviews # {}
        BY <2>3, FS_EmptySet
    <2> QED BY <2>1, <2>4, NoViewAssumption DEF Orphans
<1> QED BY <1>1, HomeInvariance, PTL

(***************************************************************************)
(* Nothing removes an overlay that the class lost, short of a new process. *)
(***************************************************************************)
THEOREM HomeOrphansStay == HomeSpec => OrphansStay
<1>1. HomeInv /\ [HomeNext]_homeVars
          => [crashed \/ Orphans(overlay) \subseteq Orphans(overlay')]_homeVars
    <2> SUFFICES ASSUME HomeInv, HomeNext, ~crashed
                 PROVE  Orphans(overlay) \subseteq Orphans(overlay')
        OBVIOUS
    <2>1. CASE viewWillAppear
        <3>1. PICK v \in FreshViews(overlay) :
                  overlay' = showLoadingView(overlay, v)
            BY <2>1 DEF viewWillAppear
        <3> QED BY <3>1 DEF FreshViews, showLoadingView, Orphans
    <2>2. CASE RunBlock /\ RunDismiss
        <3>1. overlay' = overlay \/ overlay' = DismissBlock(overlay)
            BY <2>2 DEF RunDismiss
        <3>2. NoView \notin overlay.subviews
            BY NoViewAssumption DEF HomeInv, HomeTypeOK, Overlay
        <3> QED BY <3>1, <3>2 DEF DismissBlock, Orphans
    <2>3. CASE UNCHANGED overlay
        BY <2>3
    <2> QED
        BY <2>1, <2>2, <2>3
           DEF HomeNext, FeedNext, Leave, TuanGoAnswer, TuanGoFailure,
               TuanGoSuccess, didRequestToAddToCart, LocationAlert, RunBlock,
               RunApply, RunAlert, RunToast, ToastTimer, ConfirmAlert, Relaunch
<1> QED BY <1>1, HomeInvariance, PTL DEF HomeSpec, OrphansStay

-----------------------------------------------------------------------------
(* Refinement.                                                             *)

\* The two variables of the contract move together.
CoveredIsPending ==
    /\ Outstanding \in Nat
    /\ (overlay.subviews # {}) = (Outstanding > 0)

LEMMA HomeCovered == HomeInv => CoveredIsPending
<1> SUFFICES ASSUME HomeInv PROVE CoveredIsPending
    OBVIOUS
<1>1. Outstanding \in Nat
    BY DismissalsFinite DEF HomeInv, HomeTypeOK, Outstanding
<1>2. IsFiniteSet(overlay.subviews)
    BY HomeAssumption, FS_Subset DEF HomeInv, HomeTypeOK, Overlay
<1>3. overlay.subviews = {} <=> Outstanding = 0
    BY <1>2, FS_EmptySet DEF HomeInv, OverlaysAreOwed
<1> QED BY <1>1, <1>3 DEF CoveredIsPending

\* What each step does to the number of loads outstanding.
LEMMA OutstandingStep ==
    HomeInv /\ [HomeNext]_homeVars =>
        \/ Outstanding' = Outstanding
        \/ Outstanding' = Outstanding + 1
        \/ Outstanding > 0 /\ Outstanding' = Outstanding - 1
        \/ Outstanding' = 0
BY AppearInv, AnswerInv, QuietInv, PostInv, RunDismissInv, RunOtherInv,
   RelaunchInv
   DEF HomeNext, FeedNext, RunBlock

(***************************************************************************)
(* The overlay of HomeVC implements the loading contract: every step is a  *)
(* Begin, an End, a Restart or a stutter of it.                            *)
(***************************************************************************)
THEOREM HomeImplementsContract == HomeSpec => ImplementsContract
<1>1. HomeInit => Contract!Init
    BY EmptyQueue DEF HomeInit, NoOverlay, Contract!Init, Outstanding
<1>2. HomeInv /\ CoveredIsPending /\ CoveredIsPending' /\ [HomeNext]_homeVars
          => [Contract!Next]_(Contract!vars)
    <2> SUFFICES ASSUME HomeInv, CoveredIsPending, CoveredIsPending',
                        [HomeNext]_homeVars
                 PROVE  [Contract!Next]_(Contract!vars)
        OBVIOUS
    <2> USE DEF CoveredIsPending
    <2>3. CASE Outstanding' = Outstanding
        BY <2>3 DEF Contract!vars
    <2>4. CASE Outstanding' = Outstanding + 1
        BY <2>4 DEF Contract!Next, Contract!Begin
    <2>5. CASE Outstanding > 0 /\ Outstanding' = Outstanding - 1
        BY <2>5 DEF Contract!Next, Contract!End
    <2>6. CASE Outstanding' = 0
        BY <2>6 DEF Contract!Next, Contract!Restart
    <2> QED BY <2>3, <2>4, <2>5, <2>6, OutstandingStep
<1> QED BY <1>1, <1>2, HomeInvariance, HomeCovered, PTL
        DEF HomeSpec, ImplementsContract, Contract!Spec

-----------------------------------------------------------------------------
(* The inductive invariant of the composition.                             *)

\* Without a delegate nothing was ever started; before the screen is loaded
\* there is none.
NothingStarted ==
    /\ ~loaded => ~delegateSet
    /\ ~delegateSet => ~updating /\ requests = << >>

\* The carousel before its answer.
Fresh ==
    /\ images = 0 /\ shownImages = 0 /\ adBlocks = << >>
    /\ ~ticking /\ currentIndex = 0

AdQueues == {<< >>, <<"apply">>, <<"timer", "apply">>}

AdTypeOK ==
    /\ asked \in BOOLEAN /\ ticking \in BOOLEAN
    /\ images \in Nat /\ shownImages \in Nat
    /\ currentIndex \in 0 .. images /\ currentPage \in Nat
    /\ adBlocks \in AdQueues

\* The query is asked once, when the screen is loaded.
AskedOnce ==
    /\ ~loaded => ~asked /\ Fresh
    /\ asked => Fresh

RowsShown ==
    /\ ticking /\ adBlocks = << >> => shownImages = images
    /\ currentPage < images \/ currentPage = 0

\* What the carousel does to the feed: it may kill the process, on an empty
\* list only.
FeedKept == HomeInv \/ (crashed /\ images = 0)

LocationInv == LocationTypeOK /\ LabelIsCurrent /\ NothingStarted

CarouselIInv == AdTypeOK /\ AskedOnce /\ RowsShown

AdIInv == FeedKept /\ LocationInv /\ CarouselIInv

-----------------------------------------------------------------------------
(* The location.                                                           *)

\* What updateAddress writes is a message or the address of a place.
LEMMA AddressType ==
    ASSUME NEW loc, NEW mark \in Places \cup {Nowhere}, NEW busy, NEW err
    PROVE  Address(loc, mark, busy, err) \in Messages \cup Places
BY DEF Address, Messages

LEMMA OneRequest ==
    ASSUME NEW p \in Places, NEW s \in Seq(Places), Len(s) = 0
    PROVE  Append(s, p) \in Seq(Places) /\ Len(Append(s, p)) = 1
OBVIOUS

LEMMA LastRequest ==
    ASSUME NEW s \in Seq(Places), s # << >>, Len(s) \in {0, 1}
    PROVE  /\ Len(s) = 1 /\ Head(s) \in Places
           /\ Tail(s) \in Seq(Places) /\ Len(Tail(s)) = 0
<1>1. Len(s) # 0
    BY EmptySeq
<1> QED BY <1>1, HeadTailProperties

\* checkLocationAuthorization, on behalf of the handlers that call it.
LEMMA CheckKeeps ==
    ASSUME LocationInv, checkLocationAuthorization
    PROVE  /\ UNCHANGED geoVars
           /\ updating' \in BOOLEAN
           /\ label' \in Messages \cup Places
           /\ LabelIsCurrent'
           /\ UNCHANGED homeVars \/ LocationAlert
<1>1. UNCHANGED geoVars
    BY DEF checkLocationAuthorization
<1>2. CASE status = "authorized"
    <2>1. /\ updating' = TRUE /\ UNCHANGED homeVars
          /\ label' = Address(location', placemark',
                              isPerformingReverseGeocoding', lastGeocodingError')
        BY <1>2 DEF checkLocationAuthorization, updateAddress
    <2>2. placemark' \in Places \cup {Nowhere}
        BY <1>1 DEF geoVars, LocationInv, LocationTypeOK
    <2> QED BY <1>1, <2>1, <2>2, AddressType DEF LabelIsCurrent
<1>3. CASE status # "authorized"
    <2>1. UNCHANGED <<updating, label>> /\ (UNCHANGED homeVars \/ LocationAlert)
        BY <1>3 DEF checkLocationAuthorization
    <2> QED BY <1>1, <2>1
            DEF geoVars, LocationInv, LocationTypeOK, LabelIsCurrent
<1> QED BY <1>2, <1>3

\* What a step of the location does to itself and to the feed.
LEMMA ViewDidLoadKeeps ==
    ASSUME LocationInv, viewDidLoad
    PROVE  LocationInv' /\ (UNCHANGED homeVars \/ LocationAlert) /\ ~loaded /\ loaded'
<1>1. CASE services
    <2>1. delegateSet' = TRUE /\ callbackDue' = TRUE /\ loaded' = TRUE
              /\ checkLocationAuthorization /\ UNCHANGED deviceVars
        BY <1>1 DEF viewDidLoad
    <2>2. /\ UNCHANGED geoVars /\ updating' \in BOOLEAN
          /\ label' \in Messages \cup Places /\ LabelIsCurrent'
          /\ UNCHANGED homeVars \/ LocationAlert
        BY <2>1, CheckKeeps
    <2>3. LocationTypeOK'
        BY <2>1, <2>2 DEF LocationInv, LocationTypeOK, deviceVars, geoVars
    <2>4. NothingStarted'
        BY <2>1 DEF NothingStarted
    <2> QED BY <2>1, <2>2, <2>3, <2>4 DEF viewDidLoad, LocationInv
<1>2. CASE ~services
    BY <1>2 DEF viewDidLoad, LocationInv, LocationTypeOK, LabelIsCurrent,
                NothingStarted, deviceVars, geoVars
<1> QED BY <1>1, <1>2

LEMMA AuthorizationKeeps ==
    ASSUME LocationInv, didChangeAuthorization
    PROVE  LocationInv' /\ (UNCHANGED homeVars \/ LocationAlert) /\ loaded' = loaded
<1>1. /\ delegateSet /\ callbackDue' = FALSE
      /\ checkLocationAuthorization
      /\ delegateSet' /\ UNCHANGED <<services, status, loaded>>
    BY DEF didChangeAuthorization, deviceVars
<1>2. /\ UNCHANGED geoVars /\ updating' \in BOOLEAN
      /\ label' \in Messages \cup Places /\ LabelIsCurrent'
      /\ UNCHANGED homeVars \/ LocationAlert
    BY <1>1, CheckKeeps
<1>3. LocationTypeOK'
    <2>1. delegateSet' = delegateSet
        BY DEF didChangeAuthorization
    <2> QED BY <1>1, <1>2, <2>1 DEF LocationInv, LocationTypeOK, geoVars
<1>4. NothingStarted'
    BY <1>1 DEF NothingStarted, LocationInv
<1> QED BY <1>1, <1>2, <1>3, <1>4 DEF LocationInv

LEMMA UpdateKeeps ==
    ASSUME LocationInv, NEW p \in Places, didUpdateLocations(p)
    PROVE  LocationInv' /\ UNCHANGED homeVars /\ loaded' = loaded
<1>1. /\ delegateSet /\ location' = p /\ isPerformingReverseGeocoding' = TRUE
      /\ label' = Address(p, placemark, isPerformingReverseGeocoding,
                          lastGeocodingError)
      /\ UNCHANGED <<homeVars, deviceVars, loaded, delegateSet, callbackDue,
                     updating, placemark, lastGeocodingError>>
    BY DEF didUpdateLocations
<1>2. label' \in Messages \cup Places
    BY <1>1, AddressType DEF LocationInv, LocationTypeOK
<1>3. requests' \in Seq(Places) /\ Len(requests') = 1
    BY OneRequest DEF didUpdateLocations, LocationInv, LocationTypeOK
<1>4. LocationTypeOK'
    BY <1>1, <1>2, <1>3 DEF LocationInv, LocationTypeOK, deviceVars
<1>5. LabelIsCurrent'
    BY <1>1 DEF LabelIsCurrent, LocationInv, LocationTypeOK
<1>6. NothingStarted'
    BY <1>1 DEF NothingStarted, LocationInv
<1> QED BY <1>1, <1>4, <1>5, <1>6 DEF LocationInv

LEMMA GeocoderKeeps ==
    ASSUME LocationInv, AnyGeocoderAnswer
    PROVE  LocationInv' /\ UNCHANGED homeVars /\ loaded' = loaded
<1>1. PICK err, found \in BOOLEAN : GeocoderAnswer(err, found)
    BY DEF AnyGeocoderAnswer
<1>2. /\ requests # << >> /\ requests' = Tail(requests)
      /\ lastGeocodingError' = err /\ isPerformingReverseGeocoding' = FALSE
      /\ placemark' = (IF ~err /\ found THEN Head(requests) ELSE Nowhere)
      /\ location' = location
      /\ label' = Address(location', placemark', isPerformingReverseGeocoding',
                          lastGeocodingError')
      /\ UNCHANGED <<homeVars, deviceVars, loaded, delegateSet, callbackDue,
                     updating>>
    BY <1>1 DEF GeocoderAnswer, updateAddress
<1>3. /\ Head(requests) \in Places
      /\ requests' \in Seq(Places) /\ Len(requests') = 0
    <2>1. requests \in Seq(Places) /\ Len(requests) \in {0, 1}
        BY DEF LocationInv, LocationTypeOK
    <2> QED BY <1>2, <2>1, LastRequest
<1>4. placemark' \in Places \cup {Nowhere}
    BY <1>2, <1>3
<1>5. LocationTypeOK'
    BY <1>2, <1>3, <1>4, AddressType DEF LocationInv, LocationTypeOK, deviceVars
<1>6. LabelIsCurrent'
    BY <1>2 DEF LabelIsCurrent
<1>7. NothingStarted'
    BY <1>2 DEF NothingStarted, LocationInv
<1> QED BY <1>2, <1>5, <1>6, <1>7 DEF LocationInv

LEMMA SettingsKeep ==
    ASSUME LocationInv, ChangeSettings
    PROVE  LocationInv' /\ UNCHANGED homeVars /\ loaded' = loaded
<1>1. LocationTypeOK'
    BY DEF ChangeSettings, LocationInv, LocationTypeOK, geoVars, Statuses
<1>2. LabelIsCurrent'
    BY DEF ChangeSettings, LocationInv, LabelIsCurrent, geoVars
<1>3. NothingStarted'
    BY DEF ChangeSettings, LocationInv, NothingStarted, geoVars
<1> QED BY <1>1, <1>2, <1>3 DEF ChangeSettings, LocationInv, geoVars

LEMMA LocationNextKeeps ==
    ASSUME LocationInv, LoadedLocationNext
    PROVE  LocationInv' /\ (UNCHANGED homeVars \/ LocationAlert) /\ loaded' = loaded
BY AuthorizationKeeps, UpdateKeeps, GeocoderKeeps, SettingsKeep
   DEF LoadedLocationNext

\* A launch, the first or a later one.
LEMMA LaunchKeeps ==
    /\ Init => LocationInv
    /\ LocationInv /\ RelaunchHome => LocationInv'
<1>1. << >> \in Seq(Places) /\ Len(<< >>) = 0
    OBVIOUS
<1>2. Init => LocationInv
    <2> SUFFICES ASSUME Init PROVE LocationInv
        OBVIOUS
    <2>1. LocationTypeOK
        <3>1. ~isPerformingReverseGeocoding /\ Len(requests) = 0
            BY <1>1 DEF Init
        <3> QED BY <1>1, <3>1 DEF Init, LocationTypeOK, Messages
    <2>2. LabelIsCurrent /\ NothingStarted
        BY DEF Init, LabelIsCurrent, NothingStarted
    <2> QED BY <2>1, <2>2 DEF LocationInv
<1>3. LocationInv /\ RelaunchHome => LocationInv'
    <2> SUFFICES ASSUME LocationInv, RelaunchHome PROVE LocationInv'
        OBVIOUS
    <2>1. LocationTypeOK'
        <3>1. ~isPerformingReverseGeocoding' /\ Len(requests') = 0
            BY <1>1 DEF RelaunchHome
        <3> QED BY <1>1, <3>1 DEF RelaunchHome, LocationInv, LocationTypeOK,
                                  Messages, deviceVars
    <2>2. LabelIsCurrent' /\ NothingStarted'
        BY DEF RelaunchHome, LabelIsCurrent, NothingStarted
    <2> QED BY <2>1, <2>2 DEF LocationInv
<1> QED BY <1>2, <1>3

-----------------------------------------------------------------------------
(* The composition.                                                        *)

\* Steps of the feed and of the location keep what the carousel asks of it.
LEMMA FeedKeeps ==
    ASSUME FeedKept, images' = images,
           FeedNext \/ LocationAlert \/ UNCHANGED homeVars
    PROVE  FeedKept'
<1>1. CASE HomeInv
    BY <1>1, HomeNextInv DEF HomeNext, FeedKept
<1>2. CASE crashed /\ images = 0
    <2>1. ~FeedNext /\ ~LocationAlert
        BY <1>2 DEF FeedNext, viewWillAppear, Leave, TuanGoAnswer, TuanGoFailure,
                    TuanGoSuccess, didRequestToAddToCart, RunBlock, ToastTimer,
                    ConfirmAlert, LocationAlert
    <2> QED BY <1>2, <2>1 DEF homeVars, FeedKept
<1> QED BY <1>1, <1>2 DEF FeedKept

\* Steps that do not touch the carousel.
LEMMA CarouselUntouched ==
    ASSUME CarouselIInv, UNCHANGED adVars, loaded' = loaded
    PROVE  CarouselIInv'
BY DEF CarouselIInv, AdTypeOK, AskedOnce, RowsShown, Fresh, adVars

LEMMA NoBlocks ==
    << >> \in AdQueues /\ <<"timer", "apply">> \in AdQueues
        /\ <<"timer", "apply">> # << >>
BY DEF AdQueues

\* A list of images is in: the carousel was as new until then.
LEMMA SuccessKeeps ==
    ASSUME AdIInv, NEW n \in ImageCounts, GetImagesSuccess(n)
    PROVE  AdIInv'
<1>1. /\ ~crashed /\ asked /\ asked' = FALSE /\ images' = n
      /\ currentPage' = 0 /\ adBlocks' = <<"timer", "apply">>
      /\ UNCHANGED <<homeVars, locVars, shownImages, ticking, currentIndex>>
    BY DEF GetImagesSuccess, vars
<1>2. n \in Nat
    BY ImageAssumption
<1>3. Fresh /\ loaded
    BY <1>1 DEF AdIInv, CarouselIInv, AskedOnce
<1>4. LocationInv'
    BY <1>1 DEF AdIInv, LocationInv, LocationTypeOK, LabelIsCurrent,
                NothingStarted, locVars, deviceVars, geoVars
<1>5. FeedKept'
    <2>1. HomeInv
        BY <1>1 DEF AdIInv, FeedKept
    <2>2. HomeInv'
        BY <1>1, <2>1, HomeNextInv
    <2> QED BY <2>2 DEF FeedKept
<1>6. loaded' = loaded
    BY <1>1 DEF locVars
<1>7. CarouselIInv'
    <2>1. ~asked' /\ loaded' /\ adBlocks' # << >> /\ currentIndex = 0
        BY <1>1, <1>3, <1>6, NoBlocks DEF Fresh
    <2>2. AdTypeOK'
        <3>1. adBlocks' \in AdQueues
            BY <1>1, NoBlocks
        <3>2. asked' \in BOOLEAN /\ ticking' \in BOOLEAN /\ currentPage' \in Nat
            BY <1>1 DEF AdIInv, CarouselIInv, AdTypeOK
        <3>3. images' \in Nat /\ shownImages' \in Nat /\ currentIndex' \in 0 .. images'
            BY <1>1, <1>2, <2>1 DEF AdIInv, CarouselIInv, AdTypeOK
        <3> QED BY <3>1, <3>2, <3>3 DEF AdTypeOK
    <2>3. AskedOnce' /\ RowsShown'
        BY <1>1, <2>1 DEF AskedOnce, RowsShown
    <2> QED BY <2>2, <2>3 DEF CarouselIInv
<1> QED BY <1>4, <1>5, <1>7 DEF AdIInv

LEMMA FailureKeeps ==
    ASSUME AdIInv, GetImagesFailure
    PROVE  AdIInv'
<1>1. /\ LocationAlert /\ asked' = FALSE
      /\ UNCHANGED <<locVars, images, shownImages, adBlocks, ticking,
                     currentIndex, currentPage>>
    BY DEF GetImagesFailure
<1>2. LocationInv'
    BY <1>1 DEF AdIInv, LocationInv, LocationTypeOK, LabelIsCurrent,
                NothingStarted, locVars, deviceVars, geoVars
<1>3. FeedKept'
    BY <1>1, FeedKeeps DEF AdIInv
<1>4. CarouselIInv'
    BY <1>1 DEF AdIInv, CarouselIInv, AdTypeOK, AskedOnce, RowsShown, Fresh,
                locVars
<1> QED BY <1>2, <1>3, <1>4 DEF AdIInv

\* The blocks run in the order of posting: when none is left after the timer
\* was started, the images are on display.
LEMMA BlockKeeps ==
    ASSUME AdIInv, RunAdBlock
    PROVE  AdIInv'
<1>1. /\ ~crashed /\ adBlocks # << >> /\ adBlocks' = Tail(adBlocks)
      /\ UNCHANGED <<homeVars, locVars, asked, images, currentIndex, currentPage>>
    BY DEF RunAdBlock, vars
<1>2. ~asked /\ loaded
    BY <1>1 DEF AdIInv, CarouselIInv, AskedOnce, Fresh
<1>3. LocationInv' /\ loaded'
    BY <1>1, <1>2 DEF AdIInv, LocationInv, LocationTypeOK, LabelIsCurrent,
                      NothingStarted, locVars, deviceVars, geoVars
<1>4. FeedKept'
    BY <1>1, FeedKeeps DEF AdIInv
<1> USE DEF AdQueues
<1>5. CASE adBlocks = <<"apply">>
    <2>1. adBlocks' = << >> /\ shownImages' = images /\ ticking' = ticking
        BY <1>1, <1>5 DEF RunAdBlock
    <2> QED BY <1>1, <1>2, <1>3, <1>4, <2>1
            DEF AdIInv, CarouselIInv, AdTypeOK, AskedOnce, RowsShown
<1>6. CASE adBlocks = <<"timer", "apply">>
    <2>1. /\ adBlocks' = <<"apply">> /\ adBlocks' # << >>
          /\ ticking' = TRUE /\ shownImages' = shownImages
        BY <1>1, <1>6 DEF RunAdBlock
    <2> QED BY <1>1, <1>2, <1>3, <1>4, <2>1
            DEF AdIInv, CarouselIInv, AdTypeOK, AskedOnce, RowsShown
<1> QED BY <1>1, <1>5, <1>6 DEF AdIInv, CarouselIInv, AdTypeOK

\* A tick: the row scrolled to is on display unless the list is empty.
LEMMA TickKeeps ==
    ASSUME AdIInv, changeImage
    PROVE  AdIInv'
<1>1. /\ ~crashed /\ ticking /\ adBlocks = << >>
      /\ UNCHANGED <<images, shownImages, adBlocks, ticking>>
    BY DEF changeImage
<1>2. /\ shownImages = images /\ images \in Nat /\ currentIndex \in 0 .. images
      /\ ~asked /\ loaded
    BY <1>1 DEF AdIInv, CarouselIInv, AdTypeOK, RowsShown, AskedOnce, Fresh
<1>3. PICK i \in Nat : /\ ScrollTo(i)
                       /\ i < images \/ i = 0
                       /\ currentIndex' \in 0 .. images
    BY <1>1, <1>2 DEF changeImage
<1>4. /\ UNCHANGED <<locVars, asked>>
      /\ \/ i < images /\ currentPage' = i /\ UNCHANGED homeVars
         \/ /\ images = 0 /\ crashed' = TRUE
            /\ UNCHANGED currentPage
    BY <1>2, <1>3 DEF ScrollTo, vars
<1>5. LocationInv' /\ loaded'
    BY <1>2, <1>4 DEF AdIInv, LocationInv, LocationTypeOK, LabelIsCurrent,
                      NothingStarted, locVars, deviceVars, geoVars
<1>6. FeedKept'
    BY <1>1, <1>4, FeedKeeps DEF AdIInv, FeedKept
<1>7. CarouselIInv'
    BY <1>1, <1>2, <1>3, <1>4, <1>5
       DEF AdIInv, CarouselIInv, AdTypeOK, AskedOnce, RowsShown
<1> QED BY <1>5, <1>6, <1>7 DEF AdIInv

LEMMA AdInitInv == AdInit => AdIInv
<1> SUFFICES ASSUME AdInit PROVE AdIInv
    OBVIOUS
<1>1. LocationInv /\ HomeInv /\ ~loaded
    BY LaunchKeeps, HomeInitInv DEF AdInit, Init
<1>2. Fresh /\ ~asked
    BY DEF AdInit, Fresh
<1>3. AskedOnce
    BY <1>2 DEF AskedOnce
<1>4. RowsShown
    BY <1>2 DEF AdInit, RowsShown, Fresh
<1>5. AdTypeOK
    <2>1. adBlocks \in AdQueues
        BY NoBlocks DEF AdInit
    <2>2. asked \in BOOLEAN /\ ticking \in BOOLEAN /\ currentPage \in Nat
        BY DEF AdInit
    <2>3. images \in Nat /\ shownImages \in Nat /\ currentIndex \in 0 .. images
        BY DEF AdInit
    <2> QED BY <2>1, <2>2, <2>3 DEF AdTypeOK
<1> QED BY <1>1, <1>3, <1>4, <1>5 DEF AdIInv, FeedKept, CarouselIInv

LEMMA AdNextInv == AdIInv /\ [AdNext]_allVars => AdIInv'
<1> SUFFICES ASSUME AdIInv, [AdNext]_allVars PROVE AdIInv'
    OBVIOUS
<1>1. CASE AddAdvert
    <2>1. /\ LocationInv' /\ loaded' /\ ~loaded
          /\ UNCHANGED homeVars \/ LocationAlert
        BY <1>1, ViewDidLoadKeeps DEF AddAdvert, AdIInv
    <2>2. UNCHANGED <<images, shownImages, adBlocks, ticking, currentIndex,
                      currentPage>> /\ asked' = TRUE
        BY <1>1 DEF AddAdvert
    <2>3. FeedKept'
        BY <2>1, <2>2, FeedKeeps DEF AdIInv
    <2> QED BY <2>1, <2>2, <2>3
            DEF AdIInv, CarouselIInv, AdTypeOK, AskedOnce, RowsShown, Fresh
<1>2. CASE RelaunchAll
    <2>1. LocationInv' /\ HomeInv' /\ ~loaded'
        BY <1>2, LaunchKeeps, RelaunchInv
           DEF RelaunchAll, AdIInv, RelaunchHome
    <2>2. Fresh' /\ ~asked'
        BY <1>2 DEF RelaunchAll, Fresh
    <2>3. AskedOnce'
        BY <2>2 DEF AskedOnce
    <2>4. RowsShown'
        BY <1>2, <2>2 DEF RelaunchAll, RowsShown, Fresh
    <2>5. AdTypeOK'
        <3>1. adBlocks' \in AdQueues
            BY <1>2, NoBlocks DEF RelaunchAll
        <3>2. asked' \in BOOLEAN /\ ticking' \in BOOLEAN /\ currentPage' \in Nat
            BY <1>2 DEF RelaunchAll
        <3>3. images' \in Nat /\ shownImages' \in Nat /\ currentIndex' \in 0 .. images'
            BY <1>2 DEF RelaunchAll
        <3> QED BY <3>1, <3>2, <3>3 DEF AdTypeOK
    <2> QED BY <2>1, <2>3, <2>4, <2>5 DEF AdIInv, FeedKept, CarouselIInv
<1>3. CASE loaded /\ FeedNext /\ UNCHANGED <<locVars, adVars>>
    <2>1. FeedKept'
        BY <1>3, FeedKeeps DEF AdIInv, adVars
    <2>2. LocationInv'
        BY <1>3 DEF AdIInv, LocationInv, LocationTypeOK, LabelIsCurrent,
                    NothingStarted, locVars, deviceVars, geoVars
    <2>3. CarouselIInv'
        BY <1>3, CarouselUntouched DEF AdIInv, locVars
    <2> QED BY <2>1, <2>2, <2>3 DEF AdIInv
<1>4. CASE LoadedLocationNext /\ UNCHANGED adVars
    <2>1. LocationInv' /\ (UNCHANGED homeVars \/ LocationAlert) /\ loaded' = loaded
        BY <1>4, LocationNextKeeps DEF AdIInv
    <2>2. FeedKept'
        BY <1>4, <2>1, FeedKeeps DEF AdIInv, adVars
    <2>3. CarouselIInv'
        BY <1>4, <2>1, CarouselUntouched DEF AdIInv
    <2> QED BY <2>1, <2>2, <2>3 DEF AdIInv
<1>5. CASE UNCHANGED allVars
    <2>1. UNCHANGED <<homeVars, locVars, adVars>>
        BY <1>5 DEF allVars, vars
    <2>2. FeedKept'
        BY <2>1, FeedKeeps DEF AdIInv, adVars
    <2>3. LocationInv'
        BY <2>1 DEF AdIInv, LocationInv, LocationTypeOK, LabelIsCurrent,
                    NothingStarted, locVars, deviceVars, geoVars
    <2>4. CarouselIInv'
        BY <2>1, CarouselUntouched DEF AdIInv, locVars
    <2> QED BY <2>2, <2>3, <2>4 DEF AdIInv
<1> QED BY <1>1, <1>2, <1>3, <1>4, <1>5, SuccessKeeps, FailureKeeps, BlockKeeps,
           TickKeeps
        DEF AdNext, AnyImagesAnswer

LEMMA AdInvariance == AdSpec => []AdIInv
<1>1. AdIInv /\ [AdNext]_allVars => AdIInv'
    BY AdNextInv
<1> QED BY <1>1, AdInitInv, PTL DEF AdSpec

-----------------------------------------------------------------------------
(* The theorems.                                                           *)

(***************************************************************************)
(* The types of the location; one request is with the geocoder while       *)
(* isPerformingReverseGeocoding is set, and none otherwise                 *)
(* (HomeVC:287-299).                                                       *)
(***************************************************************************)
THEOREM LocationTyped == AdSpec => []LocationTypeOK
BY AdInvariance, PTL DEF AdIInv, LocationInv

(***************************************************************************)
(* The label says what the class knows, but for a search that the handler  *)
(* that wrote it began afterwards (HomeVC:284-288).                        *)
(***************************************************************************)
THEOREM LabelCurrent == AdSpec => []LabelIsCurrent
BY AdInvariance, PTL DEF AdIInv, LocationInv

(***************************************************************************)
(* A tick scrolls to a row that is on display, whatever ran between the    *)
(* answer and the tick, unless there is no image at all (FLAdvertVC:73-83). *)
(***************************************************************************)
THEOREM CarouselSafe == AdSpec => []CarouselInv
<1>1. AdIInv => CarouselInv
    BY DEF AdIInv, CarouselIInv, AdTypeOK, RowsShown, FeedKept, HomeInv,
           CarouselInv
<1> QED BY <1>1, AdInvariance, PTL

(***************************************************************************)
(* Nothing the location or the carousel does changes what the feed can do: *)
(* with both on the screen its steps are those of HomeVC alone, but for    *)
(* the tick on an empty list that ends the process (FLAdvertVC:78).        *)
(***************************************************************************)
THEOREM ScreenKeepsFeed == AdSpec => FeedRuns
<1>1. AdInit => HomeInit
    BY DEF AdInit, Init
<1>2. AdIInv /\ [AdNext]_allVars => [HomeNext \/ CarouselTrap]_homeVars
    <2> SUFFICES ASSUME AdIInv, [AdNext]_allVars
                 PROVE  HomeNext \/ CarouselTrap \/ UNCHANGED homeVars
        OBVIOUS
    <2>1. CASE AddAdvert
        <3>1. UNCHANGED homeVars \/ LocationAlert
            BY <2>1, ViewDidLoadKeeps DEF AddAdvert, AdIInv
        <3> QED BY <3>1 DEF HomeNext
    <2>2. CASE RelaunchAll
        BY <2>2 DEF RelaunchAll, RelaunchHome, HomeNext
    <2>3. CASE FeedNext
        BY <2>3 DEF HomeNext
    <2>4. CASE LoadedLocationNext
        <3>1. UNCHANGED homeVars \/ LocationAlert
            BY <2>4, LocationNextKeeps DEF AdIInv
        <3> QED BY <3>1 DEF HomeNext
    <2>5. CASE GetImagesFailure
        BY <2>5 DEF GetImagesFailure, HomeNext
    <2>6. CASE UNCHANGED vars
        BY <2>6 DEF vars
    <2>7. CASE changeImage
        <3>1. /\ ~crashed /\ ticking /\ adBlocks = << >>
              /\ shownImages = images /\ images \in Nat
              /\ currentIndex \in 0 .. images
            BY <2>7 DEF changeImage, AdIInv, CarouselIInv, AdTypeOK, RowsShown
        <3>2. PICK i \in Nat : ScrollTo(i) /\ (i < images \/ i = 0)
            BY <2>7, <3>1 DEF changeImage
        <3>3. CASE i < shownImages
            BY <3>2, <3>3 DEF ScrollTo, vars
        <3>4. CASE ~(i < shownImages)
            <4>1. images = 0
                BY <3>1, <3>2, <3>4
            <4> QED BY <3>1, <3>2, <3>4, <4>1 DEF ScrollTo, CarouselTrap
        <3> QED BY <3>3, <3>4
    <2> QED BY <2>1, <2>2, <2>3, <2>4, <2>5, <2>6, <2>7
            DEF AdNext, AnyImagesAnswer, GetImagesSuccess, RunAdBlock, allVars
<1> QED BY <1>1, <1>2, AdInvariance, PTL DEF AdSpec, FeedRuns

(***************************************************************************)
(* A launch with the location services off leaves the label empty as long  *)
(* as the process lives (HomeVC:238-257): without a delegate no location   *)
(* is asked for, no address looked up and no answer awaited.               *)
(***************************************************************************)
THEOREM LaunchDecides == AdSpec => ServicesOffAtLaunchIsFinal
<1> DEFINE Final == loaded /\ ~delegateSet /\ loaded'
                        => ~delegateSet' /\ label' = label /\ requests' = << >>
<1>1. AdIInv /\ [AdNext]_allVars => [Final]_vars
    <2> SUFFICES ASSUME AdIInv, [AdNext]_allVars,
                        loaded, ~delegateSet, loaded'
                 PROVE  ~delegateSet' /\ label' = label /\ requests' = << >>
        OBVIOUS
    <2>1. ~updating /\ requests = << >>
        BY DEF AdIInv, LocationInv, NothingStarted
    <2>2. ~AddAdvert /\ ~RelaunchAll
        BY DEF AddAdvert, viewDidLoad, RelaunchAll, RelaunchHome
    <2>3. CASE LoadedLocationNext
        <3>1. CASE ChangeSettings
            BY <2>1, <3>1 DEF ChangeSettings, geoVars
        <3> QED BY <2>1, <2>3, <3>1
                DEF LoadedLocationNext, didChangeAuthorization,
                    didUpdateLocations, AnyGeocoderAnswer, GeocoderAnswer
    <2>4. CASE UNCHANGED locVars
        BY <2>1, <2>4 DEF locVars, geoVars
    <2>5. LoadedLocationNext \/ UNCHANGED locVars
        BY <2>2 DEF AdNext, AnyImagesAnswer, GetImagesFailure, GetImagesSuccess,
                    RunAdBlock, changeImage, ScrollTo, vars, allVars
    <2> QED BY <2>3, <2>4, <2>5
<1> QED BY <1>1, AdInvariance, PTL DEF AdSpec, ServicesOffAtLaunchIsFinal

=============================================================================
