------------------------------- MODULE SearchVC -------------------------------
(***************************************************************************)
(* SearchVC: popular searches and the search history as tags, the search   *)
(* bar in the navigation bar, and the results.  One instance, from         *)
(* viewDidLoad until it is popped or the process dies; the history is that *)
(* of PersistenceManager and outlives it.                                  *)
(*                                                                         *)
(* The views of the screen are a stack, bottom first: the tags, the result *)
(* view of the last search, which hides those of the earlier ones, empty   *)
(* states.  The overlay lies over them but not over the search bar, so a   *)
(* second search can start while the first is out, and their answers come  *)
(* in any order.                                                           *)
(***************************************************************************)
EXTENDS PersistenceManager, SequencesExt, FLDataLoadingVC, PresentationSlot

CONSTANTS
    HotSearches,    \* the lists of popular searches the server may answer with
    NoResult,       \* no results, or none applied to the result view
    MaxSearches,    \* bound: searches that have not answered
    MaxBlocks,      \* bound: blocks waiting on the main queue
    MaxViews        \* bound: views on the stack

ASSUME HotAssumption == HotSearches \subseteq Seq(Names)

VARIABLES
    screen,         \* "new" before viewDidLoad, "alive", "popped"
    overlay,
    stack,          \* views of the screen but the overlays, bottom first
    hot,            \* textList[0]
    past,           \* textList[1]
    tagsShown,      \* sections in the snapshot applied to the tags
    hotPending,     \* getHotSearch has not answered
    searches,       \* number of unanswered searches for each name
    resultList,     \* the name the results are for, or NoResult when empty
    resultShown,    \* the same for the snapshot applied to the result view
    shopPending,    \* the name whose result was tapped, while getShop is out
    mainQ, modal,
    overlapped,     \* auxiliary: a search began while another was outstanding
    lateAnswer,     \* auxiliary: the text was cleared while a search was out
    crash           \* "no", or the handler that trapped

screenVars == <<screen, overlay, stack, hot, past, tagsShown, hotPending,
                searches, resultList, resultShown, shopPending, mainQ, modal,
                overlapped, lateAnswer, crash>>
vars == <<historyVars, screenVars>>

Running == screen = "alive" /\ crash = "no"

-----------------------------------------------------------------------------
Section(texts) == IF texts = << >> THEN << >> ELSE <<texts>>

\* Variant: the history comes first.
SectionsSwapped(h, p) == Section(p) \o Section(h)

\* updateData appends only the sections that have items, so the history is
\* section 0 of the snapshot when there are no popular searches.
Sections(h, p) == Section(h) \o Section(p)

DismissOverlay  == [op |-> "dismissLoadingView"]
ApplyTags(h, p) == [op |-> "applyTags", sections |-> Sections(h, p)]
ApplyResults(k) == [op |-> "applyResults", name |-> k]
Reconfigure     == [op |-> "reconfigure"]
ShowAlert       == [op |-> "presentFLAlert"]

Unanswered == FoldFunction(+, 0, searches)

Searching == \E n \in Names : searches[n] > 0

Dismissing == \E i \in DOMAIN mainQ : mainQ[i].op = "dismissLoadingView"

\* A new result view hides all below it for good, so only what the code asks
\* for below it, the tags, is kept.
PushResultView(s) ==
    Append(IF Contains(s, "tags") THEN <<"tags">> ELSE << >>, "result")

\* collectionView.removeFromSuperview(): it is on the stack once at most.
RemoveTags(s) ==
    IF Contains(s, "tags")
    THEN RemoveAt(s, CHOOSE i \in DOMAIN s : s[i] = "tags")
    ELSE s

-----------------------------------------------------------------------------
Init ==
    /\ HistoryInit
    /\ screen = "new"
    /\ overlay = NoOverlay
    /\ stack = << >>
    /\ hot = << >> /\ past = << >> /\ tagsShown = << >>
    /\ hotPending = FALSE
    /\ searches = [n \in Names |-> 0]
    /\ resultList = NoResult /\ resultShown = NoResult
    /\ shopPending = NoResult
    /\ mainQ = << >>
    /\ modal = NoModal
    /\ overlapped = FALSE /\ lateAnswer = FALSE
    /\ crash = "no"

\* viewDidLoad: configureCollectionView and getTexts(onlyHistory: false).
viewDidLoad ==
    /\ screen = "new"
    /\ screen' = "alive"
    /\ stack' = <<"tags">>
    /\ past' = retrieveHistories
    /\ hotPending' = TRUE
    /\ UNCHANGED <<historyVars, overlay, hot, tagsShown, searches,
                   resultList, resultShown, shopPending, mainQ, modal,
                   overlapped, lateAnswer, crash>>

\* The completion of getHotSearch; a failure is only printed.
HotSearchAnswer ==
    /\ Running /\ hotPending /\ Len(mainQ) < MaxBlocks
    /\ hotPending' = FALSE
    /\ \/ \E h \in HotSearches :
              hot' = h /\ mainQ' = Append(mainQ, ApplyTags(h, past))
       \/ UNCHANGED <<hot, mainQ>>
    /\ UNCHANGED <<historyVars, screen, overlay, stack, past, tagsShown,
                   searches, resultList, resultShown, shopPending, modal,
                   overlapped, lateAnswer, crash>>

\* activateSearchFunction, for the text k of the search bar.
activateSearchFunction(k) ==
    /\ Unanswered < MaxSearches /\ Len(stack) < MaxViews
    /\ stack' = PushResultView(stack)
    /\ resultShown' = NoResult
    /\ \E v \in FreshViews(overlay) : overlay' = showLoadingView(overlay, v)
    /\ searches' = [searches EXCEPT ![k] = @ + 1]
    /\ overlapped' = (overlapped \/ Searching \/ Dismissing)
    /\ add(k)
    /\ UNCHANGED <<screen, hot, past, tagsShown, hotPending, resultList,
                   shopPending, mainQ, modal, lateAnswer>>

\* What lies on top takes the touches.  The overlay of the newest search lies over
\* its result view, those left of earlier searches lie below that view; tags that
\* are on top were brought back over all of them.
Touchable(view) ==
    /\ Running /\ modal = NoModal
    /\ stack # << >> /\ Last(stack) = view
    /\ view = "result" => overlay.container \notin overlay.subviews

\* The search key, with text typed before.
searchBarSearchButtonClicked(k) ==
    /\ Running /\ modal = NoModal
    /\ activateSearchFunction(k)
    /\ UNCHANGED crash

\* A tag is tapped: the text is taken from textList at the index path of the
\* snapshot, whose sections may be fewer.
TapTag(s, i) ==
    LET texts == <<hot, past>>[s] IN
    /\ Touchable("tags")
    /\ s \in DOMAIN tagsShown /\ i \in DOMAIN tagsShown[s]
    /\ IF i \in DOMAIN texts
       THEN activateSearchFunction(texts[i]) /\ UNCHANGED crash
       ELSE crash' = "tag"
            /\ UNCHANGED <<historyVars, screen, overlay, stack, hot, past,
                           tagsShown, hotPending, searches, resultList,
                           resultShown, shopPending, mainQ, modal, overlapped,
                           lateAnswer>>

\* Variant: the count is not kept for a search that fails.
SearchFailureUncounted(k) ==
    /\ Running /\ Len(mainQ) + 2 <= MaxBlocks
    /\ searches' = [searches EXCEPT ![k] = @ - 1]
    /\ mainQ' = mainQ \o <<DismissOverlay, ShowAlert>>
    /\ UNCHANGED <<historyVars, screen, overlay, stack, hot, past,
                   tagsShown, hotPending, resultList, resultShown, shopPending,
                   modal, overlapped, lateAnswer, crash>>

\* Variant: the results are taken over when they are displayed, if at all.
SearchSuccessUnstored(k, found) ==
    /\ Running /\ searches[k] > 0
    /\ searches' = [searches EXCEPT ![k] = @ - 1]
    /\ IF found
       THEN /\ Len(mainQ) + 2 <= MaxBlocks
            /\ stack' = RemoveTags(stack)
            /\ mainQ' = mainQ \o <<DismissOverlay, ApplyResults(k)>>
       ELSE /\ Len(stack) < MaxViews /\ Len(mainQ) < MaxBlocks
            /\ stack' = Append(RemoveTags(stack), "empty")
            /\ mainQ' = Append(mainQ, DismissOverlay)
    /\ UNCHANGED <<historyVars, screen, overlay, hot, past, tagsShown,
                   hotPending, resultList, resultShown, shopPending, modal,
                   overlapped, lateAnswer, crash>>

\* The completion of getSearchResults, .success; found is FALSE for [].
SearchSuccess(k, found) ==
    /\ Running /\ searches[k] > 0
    /\ searches' = [searches EXCEPT ![k] = @ - 1]
    /\ resultList' = IF found THEN k ELSE NoResult
    /\ IF found
       THEN /\ Len(mainQ) + 2 <= MaxBlocks
            /\ stack' = RemoveTags(stack)
            /\ mainQ' = mainQ \o <<DismissOverlay, ApplyResults(k)>>
       ELSE /\ Len(stack) < MaxViews /\ Len(mainQ) < MaxBlocks
            /\ stack' = Append(RemoveTags(stack), "empty")
            /\ mainQ' = Append(mainQ, DismissOverlay)
    /\ UNCHANGED <<historyVars, screen, overlay, hot, past, tagsShown,
                   hotPending, resultShown, shopPending, modal, overlapped,
                   lateAnswer, crash>>

\* The completion of getSearchResults, .failure.
SearchFailure(k) ==
    /\ Running /\ searches[k] > 0 /\ Len(mainQ) + 2 <= MaxBlocks
    /\ searches' = [searches EXCEPT ![k] = @ - 1]
    /\ mainQ' = mainQ \o <<DismissOverlay, ShowAlert>>
    /\ UNCHANGED <<historyVars, screen, overlay, stack, hot, past,
                   tagsShown, hotPending, resultList, resultShown, shopPending,
                   modal, overlapped, lateAnswer, crash>>

\* Variant: clearing the text removes the views and brings nothing back.
ClearTextOnly ==
    /\ Running /\ modal = NoModal
    /\ stack' = << >>
    /\ overlay' = [overlay EXCEPT !.subviews = {}]
    /\ resultShown' = NoResult
    /\ lateAnswer' = Searching
    /\ UNCHANGED <<historyVars, screen, hot, past, tagsShown, hotPending,
                   searches, resultList, shopPending, mainQ, modal, overlapped,
                   crash>>

\* The text, that of a search or typed without one, becomes empty: every view goes,
\* the overlay with them, unless the tags are among them.
ClearText ==
    /\ Running /\ modal = NoModal /\ Len(mainQ) < MaxBlocks
    /\ ~Contains(stack, "tags")
    /\ stack' = << >>
    /\ overlay' = [overlay EXCEPT !.subviews = {}]
    /\ mainQ' = Append(mainQ, Reconfigure)
    /\ resultShown' = NoResult
    /\ lateAnswer' = Searching
    /\ UNCHANGED <<historyVars, screen, hot, past, tagsShown, hotPending,
                   searches, resultList, shopPending, modal, overlapped, crash>>

\* The trash button of the history header, section 1 of the snapshot.
clearSearchHistory ==
    /\ Touchable("tags") /\ Len(tagsShown) = 2 /\ Len(mainQ) < MaxBlocks
    /\ remove
    /\ past' = << >>
    /\ mainQ' = Append(mainQ, ApplyTags(hot, << >>))
    /\ UNCHANGED <<screen, overlay, stack, hot, tagsShown, hotPending,
                   searches, resultList, resultShown, shopPending, modal,
                   overlapped, lateAnswer, crash>>

\* A result is tapped: getShop of resultList at the index of the snapshot.
TapResult ==
    /\ Touchable("result") /\ resultShown # NoResult /\ shopPending = NoResult
    /\ IF resultList = NoResult
       THEN crash' = "result" /\ UNCHANGED shopPending
       ELSE shopPending' = resultList /\ UNCHANGED crash
    /\ UNCHANGED <<historyVars, screen, overlay, stack, hot, past,
                   tagsShown, hotPending, searches, resultList, resultShown,
                   mainQ, modal, overlapped, lateAnswer>>

\* The completion of getShop: the shop (pushed), an error, or a document that
\* no longer exists, whose missing fields are force-cast.
GetShopAnswer ==
    /\ Running /\ shopPending # NoResult /\ Len(mainQ) < MaxBlocks
    /\ shopPending' = NoResult
    /\ \/ UNCHANGED <<mainQ, crash>>
       \/ mainQ' = Append(mainQ, ShowAlert) /\ UNCHANGED crash
       \/ crash' = "getShop" /\ UNCHANGED mainQ
    /\ UNCHANGED <<historyVars, screen, overlay, stack, hot, past,
                   tagsShown, hotPending, searches, resultList, resultShown,
                   modal, overlapped, lateAnswer>>

\* The add-to-cart button of an event among the results: the delegate of the
\* cell is set nowhere in this class.
AddToCartOnEvent ==
    /\ Touchable("result") /\ resultShown # NoResult
    /\ crash' = "addToCart"
    /\ UNCHANGED <<historyVars, screen, overlay, stack, hot, past,
                   tagsShown, hotPending, searches, resultList, resultShown,
                   shopPending, mainQ, modal, overlapped, lateAnswer>>

-----------------------------------------------------------------------------
(* The main queue runs its oldest block.                                   *)

RunDismiss ==
    /\ Head(mainQ).op = "dismissLoadingView"
    /\ IF CanDismiss(overlay)
       THEN overlay' = DismissBlock(overlay) /\ UNCHANGED crash
       ELSE crash' = "dismiss" /\ UNCHANGED overlay
    /\ mainQ' = Tail(mainQ)
    /\ UNCHANGED <<stack, past, tagsShown, resultShown, modal>>

RunApplyTags ==
    /\ Head(mainQ).op = "applyTags"
    /\ tagsShown' = Head(mainQ).sections
    /\ mainQ' = Tail(mainQ)
    /\ UNCHANGED <<overlay, stack, past, resultShown, modal, crash>>

\* The snapshot goes to whatever result view is bound now.
RunApplyResults ==
    /\ Head(mainQ).op = "applyResults"
    /\ resultShown' = IF Contains(stack, "result") THEN Head(mainQ).name
                      ELSE resultShown
    /\ mainQ' = Tail(mainQ)
    /\ UNCHANGED <<overlay, stack, past, tagsShown, modal, crash>>

\* configureCollectionView, getTexts(onlyHistory: true), configureDataSource.
RunReconfigure ==
    /\ Head(mainQ).op = "reconfigure" /\ Len(stack) < MaxViews
    /\ stack' = Append(ReplaceAll(stack, "tags", "oldTags"), "tags")
    /\ past' = retrieveHistories
    /\ tagsShown' = << >>
    /\ mainQ' = Append(Tail(mainQ), ApplyTags(hot, retrieveHistories))
    /\ UNCHANGED <<overlay, resultShown, modal, crash>>

RunAlert ==
    /\ Head(mainQ).op = "presentFLAlert"
    /\ modal' \in Present(modal, Alert, TRUE)
    /\ mainQ' = Tail(mainQ)
    /\ UNCHANGED <<overlay, stack, past, tagsShown, resultShown, crash>>

RunBlock ==
    /\ Running /\ mainQ # << >>
    /\ RunDismiss \/ RunApplyTags \/ RunApplyResults \/ RunReconfigure \/ RunAlert
    /\ UNCHANGED <<historyVars, screen, hot, hotPending, searches,
                   resultList, shopPending, overlapped, lateAnswer>>

ConfirmAlert ==
    /\ Running /\ modal = Alert
    /\ modal' = NoModal
    /\ UNCHANGED <<historyVars, screen, overlay, stack, hot, past,
                   tagsShown, hotPending, searches, resultList, resultShown,
                   shopPending, mainQ, overlapped, lateAnswer, crash>>

\* UserDefaults writes its values out.
FlushDefaults == Flush /\ UNCHANGED screenVars

\* A new instance: the cancel button and a push, or a relaunch after a crash,
\* which alone can lose history.
Reopen ==
    /\ \/ Running /\ modal = NoModal /\ UNCHANGED historyVars
       \/ crash # "no" /\ LoseUnflushed
    /\ screen' = "new" /\ overlay' = NoOverlay /\ stack' = << >>
    /\ hot' = << >> /\ past' = << >> /\ tagsShown' = << >>
    /\ hotPending' = FALSE
    /\ searches' = [n \in Names |-> 0]
    /\ resultList' = NoResult /\ resultShown' = NoResult
    /\ shopPending' = NoResult
    /\ mainQ' = << >> /\ modal' = NoModal
    /\ overlapped' = FALSE /\ lateAnswer' = FALSE
    /\ crash' = "no"

Next ==
    \/ viewDidLoad \/ HotSearchAnswer
    \/ \E k \in Names : searchBarSearchButtonClicked(k)
    \/ \E s \in 1 .. 2, i \in 1 .. Cardinality(Names) : TapTag(s, i)
    \/ \E k \in Names, found \in BOOLEAN : SearchSuccess(k, found)
    \/ \E k \in Names : SearchFailure(k)
    \/ ClearText \/ clearSearchHistory
    \/ TapResult \/ GetShopAnswer \/ AddToCartOnEvent
    \/ RunBlock \/ ConfirmAlert
    \/ FlushDefaults \/ Reopen

Spec == Init /\ [][Next]_vars

-----------------------------------------------------------------------------
Views_ == {"tags", "oldTags", "result", "empty"}

TypeOK ==
    /\ HistoryTypeOK
    /\ screen \in {"new", "alive"}
    /\ overlay \in Overlay
    /\ stack \in Seq(Views_)
    /\ hot \in Seq(Names) /\ past \in Seq(Names)
    /\ tagsShown \in Seq(Seq(Names))
    /\ searches \in [Names -> Nat]
    /\ {resultList, resultShown, shopPending} \subseteq Names \cup {NoResult}
    /\ modal \in Modal
    /\ crash \in {"no", "dismiss", "tag", "result", "getShop", "addToCart"}

Settled == Running /\ mainQ = << >>

(***************************************************************************)
(* With the main queue drained, the results on display are those a tap     *)
(* indexes, however searches overlap, their answers cross and the text is  *)
(* cleared; but after searches that overlapped a tap may find no results   *)
(* to index, and trap: the later answer found nothing.                     *)
(***************************************************************************)
TapOpensShown ==
    Settled /\ stack # << >> /\ Last(stack) = "result" /\ resultShown # NoResult
        => resultShown = resultList \/ (overlapped /\ resultList = NoResult)

(***************************************************************************)
(* What two of the traps need.  textList is indexed out of range           *)
(* (SearchVC:335) only when there are no popular searches, so that the     *)
(* history is displayed as section 0, or in the moment between their       *)
(* answer and their display.  The overlay's unwrap never fails for         *)
(* searches made one after another, even when clearing the text takes the  *)
(* overlay off the screen under the answer to come.                        *)
(***************************************************************************)
TrapsExplained ==
    /\ crash = "tag" =>
           hot = << >> \/ \E i \in DOMAIN mainQ : mainQ[i].op = "applyTags"
    /\ crash = "dismiss" => overlapped

(***************************************************************************)
(* The screen is left blank (no tags, result or message) only by the       *)
(* answer to a search whose text had been cleared meanwhile, which removes *)
(* the tags that clearing the text brought back.                           *)
(***************************************************************************)
BlankMeansLateAnswer == Settled /\ stack = << >> => lateAnswer

=============================================================================
