# FancySimpleLife: models, checks and proofs

TLA+ modules beside the iOS client in `src/MySimpleTest/MySimpleTest` (the own code
of the repository, 6 900 lines of Swift) and beside the two paths of the vendored
Firestore client that every one of its calls takes
(`src/MySimpleTest/Pods/FirebaseFirestore`). The client is a UIKit program: one main
thread runs handlers of taps and of the screens' life cycle, blocks posted with
`DispatchQueue.main.async`, timers, and completions of Firestore, Firebase Auth and
the geocoder, in an order nobody controls. Under it Firestore runs a second queue of
its own, with streams, timers and a queue of writes on disk. Almost everything that
can go wrong is an order of these, and the repository has no tests.

## 1. The parts of the system

| Part | State | Operations | Hard behaviour |
|---|---|---|---|
| Loading overlay (`FLDataLoadingVC`) | one reference to the overlay; the overlays on the screen | `showLoadingView`, `dismissLoadingView` (acts in a later block) | overlapping loads share one reference |
| Presentation slot (`UIViewController+Ext`, `FLAlertVC`, `FLAddToCartSuccessVC`) | the presented controller, toast timers | present an alert, present a toast, confirm, timer | a second presentation is refused |
| Home feed (`HomeVC`) | feed held, feed on display, loads out | load at every appearance, answer, cart button, leave | loads overlap; alerts interleave |
| Home location (`HomeVC`, `HomeLocationVC`) | permission, last location, placemark, look-up flag, label | launch check, permission change, location update, geocoder answer | updates during a look-up; services off at launch |
| Carousel (`FLAdvertVC`) | images, rows on display, index, page, timer | load, answer, tick | timer added before it is made, empty list, index tested before a later display |
| Shop list (`ShopVC`, `ShopFilterView`, `ShopHeaderSV`) | catalogue, filtered list, list on display, category | load, filter, tap, scroll | list held and list displayed differ for one block |
| Search history (`PersistenceManager`) | history in memory and written out | add, remove, retrieve | loss of the process before the write-out |
| Search (`SearchVC`) | tags, results held and displayed, stack of views | search, tap a tag or a result, clear text or history | answers out of order, late answers, stale indices |
| Shop page (`ShopInfoVC`) | recommendations, sections, chain of four queries | load at every appearance, taps, cart | chains overlap, end early, or never end |
| Queries (`FirestoreManager`) | none (an image cache) | lists, one shop, two nested queries for recommendations | limits, partial failure, missing documents |
| Tabs and account (`FLTabBarController`, `AccountVC`, `SignInVC`, `SignUpVC`, `AppDelegate`, `SceneDelegate`) | four stacks, one tab bar, four navigation bars, signed-in user | select, push, pop, sign in, sign up, relaunch | bars shared by screens that inherit what they find; late pushes |
| Event and product lists (`EventVC`, `ProductVC`) | two sections held and displayed, loads out | load at every appearance, answer, set a cell, cart | empty list, repeated placeholder |
| Image views (`FLRegularImageView`, `downloadImage`) | cache, image shown | download, reuse | answers out of order in a reused view |
| Firestore client, one-shot reads (`query_core.cc`, `document_reference.cc`, `event_manager.cc`, `query_listener.cc`, `sync_engine.cc`, `view.cc`, the watch half of `remote_store.cc`, `stream.cc`, `watch_stream.cc`, `remote_event.cc`, `online_state_tracker.cc`) | listeners, views, targets, state of the stream, of each target and of the connection; blocks of two queues | get, listener blocks, messages of the stream, three timers, tokens, change of user | requests and messages cross on the wire, targets dropped and taken up again, a stream that breaks or says nothing |
| Firestore client, writes (`firestore_client.cc`, `sync_engine.cc`, `leveldb_mutation_queue.cc`, the write half of `remote_store.cc`, `stream.cc`, `write_stream.cc`, `grpc_stream.cc`) | mutation queue on disk, pipeline, callbacks, stream, unread completions | set, answer, refusal, break, change of user, death of the process | batch ids used again, deaths between disk and completion, completions dropped with a call |

How they interact: the three screens that load data *inherit* the overlay and
share its rules; alerts and toasts of a screen compete for its one presentation
slot, and the carousel is a child of the home screen that uses the home screen's;
a screen asks `FirestoreManager` and goes on, and the completion comes back
on the main thread at some later time, possibly after the screen was left, asked
again or popped (`[weak self]`: the answer to a popped screen is ignored); the
search screen writes the history that outlives it; screens push one another on
the stack of the selected tab, and set, or leave alone, two bars that are not
theirs. `FirestoreManager` calls `getDocuments`, `getDocument` and `setData`: each
becomes a block of Firestore's worker queue, and its completion a block of the main
queue. What the screens assume of that (an answer, and one) is `OneShotGet`, and
`FirestoreGet` is checked against it.

What makes them correct: an overlay is on the screen exactly while a load is
outstanding and no screen is locked for ever; a trap (`!`, an index, a scroll to
a missing row) happens only in the circumstances one can name; what a tap opens
is what the row showed; the history is a set that survives whole; the tab bar is
that of the screen on top and the user can always go back; every read is answered
once, and an answer is called synced only on the word of a watch of its target, though
not always of the one that was asked for it; a write that was accepted reaches the server or is refused by it, in order, through
breaks, crashes and changes of the user.

## 2. Modules

| Module | Models | Correspondence |
|---|---|---|
| `FLDataLoadingVC` | the two overlay methods | a record: `container` is the `containerview` reference, `subviews` the overlays in the view. `DismissBlock` is the posted block, `CanDismiss` whether its unwrap succeeds. Operators only; each screen has an `overlay` |
| `LoadingContract` | what the overlay promises | abstract: `pending` loads, `covered` |
| `PresentationSlot` | `present`, `dismiss` | operators on one `modal`; a controller off the screen may or may not manage to present |
| `HomeVC` | the feed | `inFlight` counts unanswered loads, `mainQ` holds the posted blocks in order, one action per handler and `RunBlock` for the queue |
| `HomeLocation` | the location half, composed with the feed | EXTENDS `HomeVC`; its handlers post alerts to the feed's queue. The feed alone sees them as `LocationAlert` |
| `FLAdvertVC` | the carousel, composed with both | EXTENDS `HomeLocation`; `images` is `images.count`, `shownImages` the rows on display, `adBlocks` the two blocks of the answer |
| `ShopVC` | one instance of the shop list | `list` is `dataList[1]`, `shown` the snapshot on display; `option` is auxiliary |
| `PersistenceManager`, `HistoryContract` | the history; a durable set | `defaults` is what the process reads, `disk` what is written out |
| `SearchVC` | one instance after another of the search screen | EXTENDS `PersistenceManager`; `stack` is the order of the views, searches are counted for each text |
| `GetShopList` | the two recommendation queries | pure operators; a query finds a sequence of shops, by priority; `Others` is the loop of both completions; `Wanted` stands for the literal 6 |
| `ShopInfoVC` | one shop page | `loads` are chains of queries, each at one of its queries; `stranded` counts chains that ended without a dismissal |
| `Navigation` | the four stacks and the bars | `Appears`/`Disappears` are what `viewWillAppear` and `viewWillDisappear` of each screen do to the bars |
| `FLRegularImageView` | `downloadImage` of the view and of `FirestoreManager` | `cache`, the hops in `mainQ`, `tasks` of URLSession in two steps (store, post); an address stands for its image. `asked` and `drawn` are auxiliary: they number the requests of a view |
| `EventVC` | one event list or one product list (`kind`) | EXTENDS `FLRegularImageView`: the cells of its rows are the views, and its blocks and theirs share `mainQ` |
| `Stream` | `stream.cc`: one stream to the backend | a record, each method of the class an operator; used by both halves of the client |
| `OnlineStateTracker` | `online_state_tracker.cc` | a record of state, failures and timer, and its four methods |
| `WatchChangeAggregator` | `remote_event.cc`: what each target was told | a function from targets to records; `responses` counts unanswered requests |
| `FirestoreGet` | a read from the call to the completion | one record for what the worker queue owns, an operator per method, an action per block of a queue, timer or message; `server` is external |
| `OneShotGet` | what the screens take for granted of a read | abstract: `called`, `completions` |
| `FirestoreWrite` | a write from the call to the completion | the same style; `writer.disk` is the only part a restart keeps |
| `DurableWrites` | what a write is promised | abstract: queues of pending writes, what the server stored, who was told what |
| `*_proofs` | theorems of `FLAdvertVC` (with `HomeVC` and `HomeLocation`), `ShopVC`, `ShopInfoVC`, `SearchVC` (with `PersistenceManager`), `Navigation`, `EventVC`, `FirestoreGet`, `FirestoreWrite` | |
| `MCShopVC`, `MCSearchVC`, `MCShopInfoVC`, `MCEventVC`, `MCFirestoreGet` | values of constants for TLC, symmetry | |

Conventions. A handler is one action, since the main thread runs it to its end;
what it posts is appended to `mainQ`. A trap sets `crashed` (or `crash`, `trap`:
which one) and stops the process; the screens that can be opened again have a
relaunch. A failed `HARD_ASSERT` of Firestore clears a flag `ok`. Definitions marked
*variant* are not part of a specification: each is what its neighbour would be under a
plausible bug, and put in the neighbour's place it shows that a property notices.

What was abstracted in the app. Firestore answers in any order, with success or
failure. A list is its elements; a text is a member of a small set; a list of images
is its length. `getReviews` answers at
once, so it is a part of the products' completion. The search screen keeps of the
views below a new result view only the tags, because nothing under it is seen or
tested again; the touches go to what lies on top, which is the result view of the newest
search once its own overlay is gone, whatever overlays of earlier searches lie below it.
Its text may be cleared at any time, whether a search used it or not; nothing follows
while the tags are in the view. In `Navigation` a tap is possible whenever its screen is on top
(overlays and modals are in the screens' own modules), the sign-in form is added
in the step of the appearance although the code posts a block, the interactive
back gesture is off (each screen replaces the back button or hides the bar), and a
tap on the selected tab pops to the root, as UIKit does. Firebase keeps its user in
the keychain, so `signedIn` is arbitrary at launch and survives relaunches.
`EventVC` posts one block for each section while it builds one snapshot; both blocks
display the snapshot as it is after the loop, so both are `apply` of the same data,
and `ProductVC` posts one. Which cell UIKit takes for a row is a choice, between the
cells of section 0 and those of section 1. The image cache may drop anything at any
time, as `NSCache` does; other screens' images are the same addresses in the same
cache and are represented by the state it happens to be in. The two blocks the
carousel posts run in one drain of the main queue, before the next timer.

What was abstracted in the Firestore client. Documents are the version of the
server's data they come from. A delay has no length: an armed timer may run at any
time until it is cancelled. Opening a gRPC stream succeeds at once, as
`GrpcStream::Start` reports it, and fails later. The server forgets what a stream
asked for when the stream is gone, answers requests in their order, lags behind its
data as it likes but never goes back, and closes the write stream at a write its
rules refuse. Requests on the wire of a write stream that is closed are lost, also when
the client closes it itself: this is an assumption about the network, on which
`ImplementsDurableWrites` rests, since a request delivered after its batch was sent again
and answered would be stored a second time. The failures of the tracker are counted up to
`kMaxWatchStreamFailures`, with which alone they are compared. `TargetState.current_`
survives an acknowledgement that clears what is pending, in the model as in the code.
The stream token of the write stream is left out: it is stored and sent back and
decides nothing.

## 3. Runs

Small constants are enough where they are because the state is made of few
independent things: two loads are the least that overlap, three leave one overlay
that is neither the newest nor the oldest, and two names tell one result from
another. Two reads of one query meet in one listener set, one view and one target,
in every order in which the second can join, follow or interrupt the first; four
writes of two users let ids be used again, fill a pipeline of three with one write
waiting on the disk, and put a refusal before, between and after others.

| Run | Bounds | What it shows |
|---|---|---|
| `home_feed` | 3 overlays, 2 toasts, 4 blocks | `HomeInv`, the inductive invariant; overlays equal outstanding loads; the unwrap fails only after an overlap; an overlay cut off stays (`OrphansStay`); the feed implements `LoadingContract`; toasts end |
| `home_crash` | 2 overlays | *violated*: the declaration of `containerview` as `UIView!` (finding 1) |
| `home_location` | 2 places, 2 blocks, 1 overlay, lists of 0 and 2 images | under location and carousel the feed does what it does alone, but for a tick on an empty list (`FeedRuns`); one look-up at a time; the label lags in one named case only; with services off at launch nothing later helps; a search for an address ends; the carousel scrolls to rows that exist unless there is none (`CarouselInv`) and every image has its turn (`EveryImageTurns`) |
| `shop` | 5 shops, 4 categories, 3 catalogues, one of them empty | a filter does not depend on the one before; what each trap needs; the single load never traps and implements the contract with its liveness |
| `search` | 2 names, 2 searches at once, 2 blocks, 3 views | a tap opens what is shown however searches overlap and answers cross, except that after an overlap there may be nothing to index (`TapOpensShown`); what each trap needs; a blank screen is the work of a late answer; the history keeps order and is a durable set (that it repeats nothing, `UniqueNames`, is proved only) |
| `shop_info` | 2 chains at once, 2 completions, collections on both sides of the limit | overlays owed, traps explained, the first chain stays on display, recommendations never name the shop itself; a user who stays gets the page back unless a chain was stranded |
| `event_list` | 2 cells, 3 requests, 2 answers, 2 blocks; answers that repeat, change the order and an image, or are empty | `EventInv`, the inductive invariant: the sections belong to one answer, a screen that lives got answers that begin differently; images out of the cache are never overtaken, so only a download goes back to an earlier image (`OnlyDownloadsOvertake`) |
| `navigation` | depth 6, one unanswered call of each kind | the bars fit the screen, there is always a way out, and the three places of the account screens where there is none |
| `firestore_get` | 2 reads of a query, 2 versions, 1 break of a working connection or change of user | no assertion of the client fails (`GetsInv`), a snapshot called synced is as new as the opening of its view, except for a target still current from a dropped watch (`SyncedIsCaughtUp`), and every read is answered exactly once (`ImplementsOneShotGet`, with its liveness) |
| `firestore_get_untimed` | the same, no break, a server that may stay silent | *violated*: the comment of the online state tracker (finding 2) |
| `firestore_write` | 4 writes, one refused, 2 users, pipeline of 3, 3 faults | the pipeline is the beginning of the user's queue and ids meet the right completions (`WriterInv`), the client implements `DurableWrites`, what is on disk drains (`PendingWritesDrain`) |
| `firestore_write_blame` | 4 writes, pipeline of 4, no fault | *violated*: who is told of a failure did not send what was refused (finding 3) |

Bounds by name: `MaxBlocks` (posted blocks; an answer to a search needs room for what
its branch posts, one block or two, so that the displays of two answers are never in
the queue together; the theorem has no such bound), `MaxSearches`, `MaxViews`, `MaxLists`
and `LoadIds` (chains), `MaxLoads` and
`MaxRequests` (answers of a list, requests of its views: one cached and one
downloaded request of a view can race with a third elsewhere), `Views` (overlays,
hence overlapping loads), `Toasts` (none in `home_location`, `shop` and `search`:
the slot is then an alert's alone), `MaxDepth`
(account, sign-up, home, category, shop and its events fit in six), `MaxAnswers`,
`ImageCounts`, `MaxVersion`, `MaxWrites`, `MaxFaults` (breaks of a connection that
had worked, failed tokens of the write stream, deaths of the process and changes of
the user; a connection that never worked may fail for ever).
A handler at its bound is disabled; nothing depends on which. `Wanted` is 2 instead
of 6: both sides of `shopCount < 6` are then reached with five shops.
`kMaxPendingWrites` is 3, or 4 where the fourth answer matters, instead of 10: the
pipeline is then full with a write still on disk.
`CHECK_DEADLOCK` is off where an instance may be popped or trap for good (`shop`,
`shop_info`, `event_list`), and where everything may have been answered and every
timer have run out (`firestore_*`). Symmetry is used for a safety run only.

Fairness. `TuanGoAnswer`, `GetShopsAnswer`, `Answer`: Firestore calls every
completion back, with an error if it must (which is what `firestore_get` shows under
the assumptions named next). `RunBlock`: the main run loop drains its
queue. `ToastTimer`: a scheduled block runs; `changeImage` a repeating timer fires
once the queue is drained. `AnyGeocoderAnswer`: the geocoder
answers each request. In the Firestore client: the worker queue takes its blocks
(`TakesBlock`, `TakesCompletion`: fairness of the queue alone, since the steps of the
queue cannot be disabled by what a block does), a token request is answered, a timer
runs out or is cancelled, a message that arrived is read, and a server that can be
reached goes on taking requests and sending what they ask for. The last of these is
dropped in `SilentServerSpec`. Breaks of a working connection are finitely many
(`MaxFaults`): against one that breaks each time before an answer is through no client
terminates. Weak fairness is enough, since none of these can be disabled
by the others while it waits. No user action is fair, and nothing is assumed of it.

Findings.

1. A tab left and come back to before the feed has answered overlaps two loads; the
   second dismissal unwraps nil (`FLDataLoadingVC.swift:41`). If a third load begins
   in time there is no crash, but an overlay that stays (`OrphansStay`).
2. `RemoteStore::StopListening` clears the timer of the online state when it drops the
   last target of a stream that is being opened (`remote_store.cc:164-169`), and the
   next target finds the stream started and arms none. The comment at
   `online_state_tracker.cc:44-46` promises a time-out "rather than waiting
   indefinitely"; against a silent server the next read waits for ever, and with it
   the overlay of the screen that asked.
3. When a write fails to go out while answers to earlier writes are unread, the
   answers are dropped with the call (`grpc_stream.cc:225-252`), and
   `HandleWriteError` rejects the head of the pipeline as the write that "was the
   problem" (`remote_store.cc:494`), which the server has stored.

Seen and modelled as outcomes, without a property that says otherwise: `getShop`
casts the fields of an empty snapshot when the shop of a result is gone
(`FirestoreManager.swift:80`), and an event among the results has no delegate for its
cart button (`EventListCell.swift:49`, `SearchVC.swift:418`).

Other behaviour the properties state as it is rather than as one may wish:
`ServicesOffAtLaunchIsFinal`, `FirstChainStays`, `SignUpStranded`,
`HomeOnAccountStays` and `SignedOutForever` describe what the code cannot get out
of. They are worth keeping as such: a repair will break them on purpose.

The exception in `SyncedIsCaughtUp` is of that kind, and real. A target that was
current, is dropped and is watched again before the server has answered keeps its
`TargetState`: `Removed` finds a request pending, and `Added` clears the pending changes
but not `current_` (`remote_event.cc:88-91`, `157-162`). When the data changed between
the two watches, documents of the new watch that are older than the new view, sent with a
snapshot by a server that has not caught up, are then called synced; without the last
disjunct of the property TLC finds this in some twenty steps. The comments read as if it
could not happen: an added target is to "reset any state that we had previously"
(`remote_event.cc:158-159`), and current implies all changes "up to the point at which
the target was added" (`remote_event.h:158-161`).

## 4. Proofs

Assumptions are those of the modules, named where the constants are declared:
`NoView` is not a view, bounds are natural numbers, `Gets` and `Queries` are finite, a
catalogue is a sequence of shops without repetition, scores are numbers, queries for
recommendations find sequences. Nothing about the size of anything; TLC evaluates each
one.

Every invariant and every action property that a passing run checks is the statement
of a theorem, and so is the safety half of each refinement; what remains to TLC alone
is named at the end of this section.

**`FLAdvertVC_proofs`, the feed.** `OverlaysAreOwed` is not inductive. A dismissal removes an
overlay only if the reference is to one on the screen, so `HomeInv` adds
`ContainerOnScreen`; and a block that trapped stays at the head of the queue, so
that it still counts as a dismissal to come (`CrashKeepsDismissal`, which also
gives `CrashMeansOverlap`: one dismissal to come and no reference leaves an overlay
that is an orphan). Counting dismissals needs lemmas on `Dismissals(Append(..))` and
`Dismissals(Tail(..))`. From `HomeInv` follow type correctness,
`OverlaysAreOwed`, `ToastHasTimer`, `CrashMeansOverlap`, the action property
`OrphansStay`, and that every step is a `Begin`, `End`, `Restart` or stutter of
`LoadingContract`.

**`FLAdvertVC_proofs`, the home screen put together.** Location and carousel only post
alerts to the feed, so each step of the composition is a step of `HomeNext` or leaves
the feed alone, except that a tick may end the process, on an empty list only
(`CarouselTrap`). `ScreenKeepsFeed` states that of `AdSpec`, the specification that
`home_location` runs, as `FeedRuns`; a tick scrolls to a row that is there because
the index is tested against the list that is on display once the timer runs
(`RowsShown`). `HomeInv` holds as long as no such tick came (`FeedKept`).
`LabelIsCurrent` and
`ServicesOffAtLaunchIsFinal` need that without a delegate nothing was ever started
(`NothingStarted`). `CarouselInv` needs that the query is asked once (`AskedOnce`)
and that a timer ticks over rows that are on display or about to be (`RowsShown`).

**`ShopVC_proofs`.** One load per instance (`OneLoad`) is why an overlay is up and
referred to exactly while the load or its dismissal is outstanding (`Covered`); this is
the safety half of the contract and why the dismissal never traps. What is held,
displayed or posted is always what some filter makes of the catalogue
(`DisplayedIsProduced`), whatever was chosen before, and the last block posted
displays what is held (`HeldIsLast`); hence what each trap needs. So far what a filter
computes is abstract. `ShopListFits` needs it: `OfCategory` follows the loop of
`filterShop`, and `LoopSelects` goes with it shop by shop (after i shops the list is
of the right shops among the first i, in their order), for sequences of any length.
A list that is sorted step by step is sorted (`SortedFits`).

Induction over the loops. The induction theorems of the library take an operator as a
parameter, which no prover here can instantiate. What is used instead is that a set of
numbers has a least element (`LeastExists`, from `NatLessThanWellFounded`): a set that
holds 0 and, with i - 1, i holds every number up to n (`UpTo`), whatever the set says of
its members. The same gives the function a recursive definition describes
(`LoopExists`), so that its equation may be used.

**`ShopInfoVC_proofs`.** Chains of queries may overlap without limit. The overlays
are counted against chains, dismissals in the queue and stranded chains
(`OverlayInv`), with the lemmas on queues above; a dismissal that finds no reference
was owed an overlay, so one is still there. `DisplayInv` says that every display,
done or posted, is of the first five sections of a list that only grows: so the
first chain stays, and a tap indexes it as long as it is alone. On this rests
`DetailInv`, the second invariant. The loop of `getShopList` keeps out the shop of the
page (`OthersBeside`, by the induction just described), a second query is made only for
what is missing (`Chains`), so a list is never too long (`Recommended`). The five
sections on display are those of one chain (`FirstFive`), hence the rows of the
recommendations are as many as the shops they show, and those of the products are always
three: an index out of range needs a second chain (`TapTraps`), the product cells trap
exactly on fewer than three products (`CellTraps`).

**`SearchVC_proofs`.** Of the history alone: types and `UniqueNames` are inductive
together; they give `OrderKept` (an insertion at the front shifts every index by
one) and the refinement of `HistoryContract`. Every step of the screen is a step of
the history or leaves it alone (`StepKeepsHistory`), so `SearchKeepsHistory` carries
these over. Of the screen, for any number of searches out at once and of posted
blocks: as long as none overlapped, at most one search or dismissal is outstanding
and the reference is to its overlay (`OneAtATime`). The last snapshot of the tags,
displayed or posted, is of the texts held (`TagsInv`), so a tap is out of range only
when the history is displayed as section 0 or a display is under way. For the
results this fails in general; what always holds is that a posted snapshot with no
dismissal behind it is of the results held (`LatestAnswer`). A search that overlaps
nothing finds no dismissal in the queue, so from its start the last snapshot is the
right one (`ResultsInv`) until an empty state is laid over the view, and that stays
above it (`StackOrder`). However searches overlap, an answer that found something posts
the display of what it puts in the place of the results held, so the last display posted
or made is of those, or of none because a later answer found nothing (`HeldResults`),
and what is displayed is displayed in a view that is there (`ShownInView`). This gives
`TapOpensShown`, with its one exception after an overlap. `BlankInv` says who will bring
the tags back: `configureCollectionView` in the queue, unless a late answer removes
them.

**`Navigation_proofs`.** For stacks of any depth. The reason the tab bar is right
is a shape of the stacks (`StackShape`): the screens that set nothing lie on
screens that left the bar as they need it, and a home screen in the middle of a
stack lies on a sign-up and has no back button (`NoBackFromHome`). Only the
selected stack may hide the bar, since a hidden bar cannot be tapped. A late answer
pushes only on a stack that holds the search that asked (`GetShopHasSearch`).
`SignedOutMeansNoForm` carries `SignedOutForever`. A sign-up is the second and last
screen of its stack (`SignUpAlone`), so no late answer reaches that stack and
`SignUpStranded` holds; `HomeOnAccountStays` follows from the missing back button.

**`EventVC_proofs`.** For any number of cells, documents, loads and requests. The
bounds are not used: nothing in the proof counts. That a cached image is never
overtaken needs to know where every later request of its view may be: as long as
the earlier one has a hop to go, behind it and not yet about to set the image, and
not in a download that is about to post (`CachedFirst`); requests are numbered
upwards (`RequestsNumbered`). Coherence is carried by the blocks: what a block will
display is a prefix of what the screen holds (`ListsCoherent`).

**`FirestoreGet_proofs`.** For any calls, queries, versions and faults. Each method of
the client has a lemma, named for it, that says which part of the invariant it keeps
and what it leaves alone (`SameLinks`, `Silent`), and an action is the
composition its definition is. `GetsIInv` has four parts: `CoreInv` (types, the state
of the stream against what is armed and asked, errors are last), `OnlineInv` (the timer
of the online state runs before the first failure and while the stream is started, so
that none of the tracker's assertions fails), `Linked` (listeners, views and targets
are the same queries, between blocks though not inside one), and `OnceInv` (the listener
of a call is added once, and a call that was answered is muted). From it follow that no
`HARD_ASSERT` fails, that the maps agree, and that no completion is called twice.

`FreshAnswers` is about `SyncedIsCaughtUp`. A view keeps two versions of the data as
auxiliary state: `opened`, of the moment the view was opened, and `followed`, the same
unless the target was then still current from a watch dropped since, in which case it is
the `followed` of the view of that watch. What is called synced has at least the data of
`opened`, or, where `followed` is the older of the two, of `followed`. A call that joins an existing listener is told what that one was told and
is not measured against its own time of asking. The proof adds `FreshInv`, which
relates the client to both directions of the wire and to the server. What a target waits
for is the number of its requests and of its answers on the wire (`Counted`); its
requests switch between watch and unwatch, from what the server does now to what the
client wants at the end (`Alternates`). So with no answer to come the server watches
what the client wants, since the view was opened or later, and a target still called
current from the watch before gets documents before the next snapshot (`Wired`,
`DocumentsFirst`). The server does not go
back (`ServerInv`), so that a current target has seen the data of the time it has been
followed from (`CaughtUp`). A target the server refuses is never current (`Refused`),
and without a connection all of this starts afresh (`Closed`).

**`FirestoreWrite_proofs`.** For any number of writes, users, pending batches and
faults. `ClientInv` holds between blocks, and `CoreInv` is the part of it that holds
inside the methods as well; each method has a lemma, and all but the closing of the
stream end in that of `FillWritePipeline`. The pipeline is the beginning of the user's
queue because the batches on disk are in the order of their ids (`Increasing`), below
the next id (`DiskInv`), so that those above the last of the pipeline are just the rest
of the queue. An answer meets a batch because the requests and answers on an open stream
are as many as the batches of the pipeline (`WireInv`), the one that closed it
included, and a completion of gRPC stands for one of them (`CompletionsInv`). The
stream may be started without an assertion because it is idle only with nothing to send
(`StreamInv`). `DiskInv` and `CallbackInv` are why an id that is used again meets no
older completion.

`WriterImplementsDurableWrites` adds `ContractInv`, which relates the client to the
server's store. No two batches on disk are of the same write (`Distinct`), and a
completion that waits was not called (`Waiting`). Writes leave the queue of blocks in
the order they were made (`FreshInv`), so that a batch put on disk is of a write nobody
has seen. On an open stream after its handshake the answered part of the pipeline is
stored, the rest is what the requests on the wire ask for, in that order, and a stream
the server closed was closed by a refused write (`Order`): this is why an answer, which
carries no id, is about the head of the queue, and why the client gives its head up only
when the server has refused a write of the queue (not always that one, as
`firestore_write_blame` shows). After a crash or a broken stream a stored write is
still at the head and is sent again, which the contract allows as long as it has not
left the queue.

Only model-checked. Liveness under fairness (`ToastEnds`, `SearchEnds`,
`EveryImageTurns`, `ReleasedOrStranded`, the fair halves of the contracts,
`PendingWritesDrain`), which is out of the reach of the prover, as is anything about
`ENABLED`. No module declares a recursive operator: the two loops that matter are
recursive functions.

## 5. Not modelled, and why

- In the app: validation of forms (only valid forms are sent), what a user document
  says (it is on the server and never read), distances, layout, the keyboard, the first
  advertisement in the header of the shop list (one image without a timer).
  `WalletVC`, `FavoritesVC`, `FSLAccountDetailVC`, `SignInWithEmailVC`,
  `FSLAlertVC`: placeholders or screens nothing pushes.
  Casts of missing fields in list queries: a document of the wrong shape is the
  server's; in `getShop` they are modelled, because a document that vanished is not.
- In the two paths of Firestore: limbo documents and existence filters (the app never
  holds a view long enough for a document to leave it), `limitToLast`, transactions,
  `waitForPendingWrites` and snapshot listeners (no call in the app), what a mutation
  does to documents and local mutations in views (no screen reads what the app
  writes).
- Beside them: remote documents and query caches on disk, garbage collection,
  serializers, and the other Pods (Auth, GoogleSignIn, gRPC, BoringSSL, Abseil,
  LevelDB): third-party code, modelled only through the answers it gives. They are
  most of the repository's lines and none of its own logic.

## 6. Plan

Done, in this order: the overlay and the feed with their contract; location; the
shop list; the history with its contract; search; recommendations and the shop
page; navigation; event and product lists with their images; proofs of the feed, the
history, navigation and the lists; the carousel; Firestore's reads and writes with
their contracts; proofs of the reads, of the whole home screen, of the shop list, of
the shop page, of the search screen and of the writes with their contract; the freshness
of what a read answers, and what the loops of the filters and of the recommendations
return.

Next, modelling: the caches on disk under a read (remote documents and target data,
with their resume tokens), once a property of the app depends on what a cached answer
holds.

To run: `tlc -config MCHomeVC.cfg HomeVC.tla` (and so for each `.cfg` with the module
`PROJECT.json` names), `tlapm ShopVC_proofs.tla` (and so for each `*_proofs.tla`; those of
Firestore take some minutes).
