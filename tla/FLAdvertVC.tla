------------------------------ MODULE FLAdvertVC ------------------------------
(***************************************************************************)
(* FLAdvertVC: the carousel of advertisements, a child of HomeVC, composed *)
(* with both halves of it.  Its one query is asked when the home screen    *)
(* loads; the answer posts the start of a two-second timer and the new     *)
(* contents on the main queue, and from then on every tick scrolls to the  *)
(* next image.  A list of images is represented by its length: the         *)
(* carousel handles them by their position alone.                          *)
(*                                                                         *)
(* The two blocks of the answer are posted together and run in one drain   *)
(* of the main queue, before the run loop comes to a timer.                *)
(***************************************************************************)
EXTENDS HomeLocation

CONSTANT ImageCounts    \* the numbers of images the server may answer with

ASSUME ImageAssumption == ImageCounts \subseteq Nat

VARIABLES
    asked,          \* getAdList has not answered yet
    images,         \* images.count
    shownImages,    \* rows of the snapshot on display
    adBlocks,       \* blocks of the answer the main queue has not run
    ticking,        \* the scheduled timer is running
    currentIndex,
    currentPage     \* of the page control, and the row scrolled to

adVars == <<asked, images, shownImages, adBlocks, ticking, currentIndex,
            currentPage>>
allVars == <<vars, adVars>>

-----------------------------------------------------------------------------
AdInit ==
    /\ Init
    /\ asked = FALSE
    /\ images = 0 /\ shownImages = 0 /\ adBlocks = << >>
    /\ ticking = FALSE /\ currentIndex = 0 /\ currentPage = 0

\* add(childVC: FLAdvertVC(), to: adView) loads the carousel with the screen.
AddAdvert ==
    /\ viewDidLoad
    /\ asked' = TRUE
    /\ UNCHANGED <<images, shownImages, adBlocks, ticking, currentIndex,
                   currentPage>>

RelaunchAll ==
    /\ RelaunchHome
    /\ asked' = FALSE
    /\ images' = 0 /\ shownImages' = 0 /\ adBlocks' = << >>
    /\ ticking' = FALSE /\ currentIndex' = 0 /\ currentPage' = 0

\* The completion of getImages, .success: activateScrollImages, updateData.
GetImagesSuccess(n) ==
    /\ ~crashed /\ asked
    /\ asked' = FALSE /\ images' = n /\ currentPage' = 0
    /\ adBlocks' = <<"timer", "apply">>
    /\ UNCHANGED <<vars, shownImages, ticking, currentIndex>>

\* Variant: the alert is presented at once, not by a block.
GetImagesFailurePresents ==
    /\ ~crashed /\ asked /\ asked' = FALSE
    /\ modal' \in Present(modal, Alert, onScreen)
    /\ UNCHANGED <<onScreen, overlay, inFlight, tuanGoList, shown, mainQ, timers,
                   crashed, locVars, images, shownImages, adBlocks, ticking,
                   currentIndex, currentPage>>

\* The completion of getImages, .failure: an alert, and no timer ever.
GetImagesFailure ==
    /\ asked /\ asked' = FALSE
    /\ LocationAlert
    /\ UNCHANGED <<locVars, images, shownImages, adBlocks, ticking,
                   currentIndex, currentPage>>

RunAdBlock ==
    /\ ~crashed /\ adBlocks # << >>
    /\ adBlocks' = Tail(adBlocks)
    /\ CASE Head(adBlocks) = "timer" -> ticking' = TRUE /\ UNCHANGED shownImages
         [] Head(adBlocks) = "apply" -> shownImages' = images /\ UNCHANGED ticking
    /\ UNCHANGED <<vars, asked, images, currentIndex, currentPage>>

\* scrollToItem traps on a row that is not on display.
ScrollTo(i) ==
    IF i < shownImages
    THEN currentPage' = i /\ UNCHANGED <<vars, asked>>
    ELSE /\ crashed' = TRUE
         /\ UNCHANGED <<onScreen, overlay, inFlight, tuanGoList, shown, mainQ,
                        modal, timers, locVars, asked, currentPage>>

\* Variants: the test admits one row more, or one less.
changeImageInclusive ==
    /\ ~crashed /\ ticking /\ adBlocks = << >>
    /\ IF currentIndex <= images
       THEN ScrollTo(currentIndex) /\ currentIndex' = currentIndex + 1
       ELSE ScrollTo(0) /\ currentIndex' = 0
    /\ UNCHANGED <<images, shownImages, adBlocks, ticking>>

changeImageSkipping ==
    /\ ~crashed /\ ticking /\ adBlocks = << >>
    /\ IF currentIndex + 1 < images
       THEN ScrollTo(currentIndex) /\ currentIndex' = currentIndex + 1
       ELSE ScrollTo(0) /\ currentIndex' = 0
    /\ UNCHANGED <<images, shownImages, adBlocks, ticking>>

\* A tick.  After the last image the index goes back to 0 and is not counted,
\* so that the first image has two ticks.
changeImage ==
    /\ ~crashed /\ ticking /\ adBlocks = << >>
    /\ IF currentIndex < images
       THEN ScrollTo(currentIndex) /\ currentIndex' = currentIndex + 1
       ELSE ScrollTo(0) /\ currentIndex' = 0
    /\ UNCHANGED <<images, shownImages, adBlocks, ticking>>

AnyImagesAnswer == GetImagesFailure \/ \E n \in ImageCounts : GetImagesSuccess(n)

AdNext ==
    \/ AddAdvert \/ RelaunchAll
    \/ loaded /\ FeedNext /\ UNCHANGED <<locVars, adVars>>
    \/ LoadedLocationNext /\ UNCHANGED adVars
    \/ AnyImagesAnswer
    \/ RunAdBlock
    \/ changeImage

AdSpec == AdInit /\ [][AdNext]_allVars

\* The geocoder answers, the main queue is drained, and then the timer fires.
AdFairSpec ==
    /\ AdSpec
    /\ WF_vars(AnyGeocoderAnswer)
    /\ WF_allVars(RunAdBlock \/ changeImage)

-----------------------------------------------------------------------------
(***************************************************************************)
(* The carousel never scrolls to a row that is not there, unless there is  *)
(* none at all: a process that died without a failed dismissal of the feed *)
(* died of a tick on an empty list (FLAdvertVC:78), whatever was posted    *)
(* between the answer and the tick.                                        *)
(***************************************************************************)
CarouselInv ==
    /\ currentIndex \in 0 .. images
    /\ ticking /\ adBlocks = << >> => shownImages = images
    /\ currentPage < images \/ currentPage = 0
    /\ crashed => images = 0 \/ CrashKeepsDismissal

\* scrollToItem on a snapshot without rows ends the process under the feed.
CarouselTrap ==
    /\ ~crashed /\ images = 0 /\ crashed' = TRUE
    /\ UNCHANGED <<onScreen, overlay, inFlight, tuanGoList, shown, mainQ, modal,
                   timers>>

(***************************************************************************)
(* Under its location and its carousel the feed does what HomeVC does      *)
(* alone, and nothing else: whatever those two post on the queue they      *)
(* share, present in the slot they share or answer in between, each step   *)
(* is one of HomeVC's or leaves the feed as it is, except that a tick on   *)
(* an empty list may end the process (FLAdvertVC:78).                      *)
(***************************************************************************)
FeedRuns == HomeInit /\ [][HomeNext \/ CarouselTrap]_homeVars

(***************************************************************************)
(* Once an answer with images is in, every image has its turn again and    *)
(* again, as long as the process lives.                                    *)
(***************************************************************************)
EveryImageTurns ==
    \A n \in ImageCounts : \A i \in 0 .. n - 1 :
        images = n ~> (currentPage = i \/ crashed)

=============================================================================
