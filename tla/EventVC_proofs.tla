---------------------------- MODULE EventVC_proofs ----------------------------
(***************************************************************************)
(* Proofs about the event and product lists and the image views of their   *)
(* cells, for any number of cells, documents, loads and requests.          *)
(***************************************************************************)
EXTENDS EventVC, SequenceTheorems, TLAPS

-----------------------------------------------------------------------------
(* The queue and its blocks.                                               *)

LEMMA Posted ==
    ASSUME NEW q \in Seq(Block), NEW b \in Block
    PROVE  /\ Append(q, b) \in Seq(Block)
           /\ Len(q) \in Nat
           /\ DOMAIN q = 1 .. Len(q) /\ DOMAIN Append(q, b) = 1 .. Len(q) + 1
           /\ Append(q, b)[Len(q) + 1] = b
           /\ \A i \in 1 .. Len(q) : Append(q, b)[i] = q[i]
OBVIOUS

LEMMA Taken ==
    ASSUME NEW q \in Seq(Block), q # << >>
    PROVE  /\ Tail(q) \in Seq(Block) /\ Head(q) \in Block
           /\ Len(q) \in Nat \ {0}
           /\ DOMAIN q = 1 .. Len(q) /\ DOMAIN Tail(q) = 1 .. Len(q) - 1
           /\ Head(q) = q[1] /\ 1 \in DOMAIN q
           /\ \A i \in 1 .. Len(q) - 1 : Tail(q)[i] = q[i + 1]
BY HeadTailProperties, EmptySeq

LEMMA HopIsBlock ==
    ASSUME NEW r, NEW op \in {"resume", "completed", "setImage"},
           r \in IF op = "resume" THEN Request ELSE Loadable
    PROVE  /\ NextHop(op, r) \in Block
           /\ NextHop(op, r).op = op /\ NextHop(op, r).request = r
BY DEF NextHop, Block, ImageBlock

LEMMA ApplyIsBlock ==
    ASSUME NEW data \in Sections
    PROVE  /\ Apply(data) \in Block
           /\ Apply(data).op = "apply" /\ Apply(data).data = data
BY DEF Apply, Block

LEMMA PlainBlocks ==
    /\ ShowAlert \in Block /\ ShowAlert.op = "presentFLAlert"
    /\ ShowToast \in Block /\ ShowToast.op = "presentAddToCart"
BY DEF Block, ShowAlert, ShowToast

\* The operation of a block tells what else it holds.
LEMMA BlockFields ==
    ASSUME NEW b \in Block
    PROVE  /\ b.op = "resume" => b.request \in Request
           /\ b.op \in {"completed", "setImage"} => b.request \in Loadable
           /\ b.op = "apply" => b.data \in Sections
BY DEF Block, ImageBlock, ShowAlert, ShowToast

\* EventVC posts the snapshot twice and ProductVC once.
LEMMA PostsOf ==
    ASSUME NEW data \in Sections, NEW q \in Seq(Block)
    PROVE  \/ q \o Posts(data) = Append(q, Apply(data))
           \/ q \o Posts(data) = Append(Append(q, Apply(data)), Apply(data))
<1>1. CASE kind = "event"
    BY <1>1, ApplyIsBlock DEF Posts
<1>2. CASE kind # "event"
    BY <1>2, ApplyIsBlock DEF Posts
<1> QED BY <1>1, <1>2

\* What downloadImage asks for, and where it starts.
LEMMA NewRequest ==
    ASSUME ImageTypeOK, NEW c \in Cells, NEW u \in URLs \cup InvalidURLs
    PROVE  [cell |-> c, url |-> u, n |-> asked[c] + 1, cached |-> u \in cache]
               \in IF u \in cache THEN Loadable ELSE Request
<1>1. asked[c] + 1 \in Nat \ {0} /\ (u \in cache) \in BOOLEAN
    BY DEF ImageTypeOK
<1> QED BY <1>1 DEF Request, Loadable, ImageTypeOK

-----------------------------------------------------------------------------
(* Types.                                                                  *)

LEMMA AddedProperties ==
    ASSUME TypeOK, NEW list \in Lists, list # << >>
    PROVE  /\ Added(list) \in Sections
           /\ Head(list) = list[1] /\ list \in Seq(Items)
           /\ Placeholder(Head(list)) \in Placeholders
           /\ Added(list).items = list
           /\ Added(list).shop = Append(dataList.shop, Placeholder(Head(list)))
<1>1. list \in Seq(Items)
    BY EventAssumption
<1>2. Head(list) = list[1] /\ Head(list) \in Items
    BY <1>1, HeadTailProperties
<1>3. Placeholder(Head(list)) \in Placeholders
    BY <1>2 DEF Placeholders
<1>4. dataList.shop \in Seq(Placeholders)
    BY DEF TypeOK, Sections
<1>5. Append(dataList.shop, Placeholder(Head(list))) \in Seq(Placeholders)
    BY <1>3, <1>4, AppendProperties
<1> QED BY <1>1, <1>2, <1>3, <1>5 DEF Added, Sections

LEMMA PostsTyped ==
    ASSUME NEW data \in Sections, NEW q \in Seq(Block)
    PROVE  q \o Posts(data) \in Seq(Block)
<1>1. Apply(data) \in Block
    BY ApplyIsBlock
<1>2. Append(q, Apply(data)) \in Seq(Block)
    BY <1>1, Posted
<1>3. Append(Append(q, Apply(data)), Apply(data)) \in Seq(Block)
    BY <1>1, <1>2, Posted
<1> QED BY <1>2, <1>3, PostsOf

LEMMA TypeInit == Init => TypeOK
<1> SUFFICES ASSUME Init PROVE TypeOK
    OBVIOUS
<1>1. ImageTypeOK
    BY DEF Init, ImageInit, ImageTypeOK
<1>2. mainQ \in Seq(Block) /\ NoSections \in Sections
    BY DEF Init, NoSections, Sections
<1> QED BY <1>1, <1>2 DEF Init, TypeOK, Modal

\* A step of the requests alone keeps the types.
LEMMA TypeImage ==
    ASSUME TypeOK, UNCHANGED listVars,
           \/ \E c \in Cells, u \in URLs \cup InvalidURLs :
                  downloadImage(c, u) /\ UNCHANGED trap
           \/ mainQ # << >> /\ RunImageBlock
           \/ TaskFails \/ TaskStores \/ TaskPosts \/ Evict
    PROVE  TypeOK'
<1> DEFINE Typed == /\ mainQ' \in Seq(Block) /\ ImageTypeOK'
                    /\ trap' \in {"no", "avatar-placeholder", "eventList[0]",
                                 "appendItems"}
<1>0. ImageTypeOK /\ mainQ \in Seq(Block)
      /\ trap \in {"no", "avatar-placeholder", "eventList[0]", "appendItems"}
    BY DEF TypeOK
<1>1. ASSUME NEW c \in Cells, NEW u \in URLs \cup InvalidURLs,
             downloadImage(c, u), UNCHANGED trap
      PROVE  Typed
    <2>1. mainQ' \in Seq(Block)
        BY <1>0, <1>1, NewRequest, HopIsBlock, Posted DEF downloadImage
    <2>2. ImageTypeOK'
        BY <1>0, <1>1 DEF ImageTypeOK, downloadImage
    <2> QED BY <1>0, <1>1, <2>1, <2>2
<1>2. ASSUME mainQ # << >>, RunImageBlock PROVE Typed
    <2> DEFINE r == Head(mainQ).request
    <2>0. /\ RunResume => r \in Request
          /\ RunCompleted \/ RunSetImage => r \in Loadable
          /\ Tail(mainQ) \in Seq(Block)
        BY <1>0, <1>2, Taken, BlockFields
           DEF RunResume, RunCompleted, RunSetImage
    <2> HIDE DEF r
    <2>1. CASE RunResume
        <3>1. mainQ' \in Seq(Block)
            BY <2>0, <2>1 DEF RunResume
        <3>2. r.url \notin InvalidURLs => r \in Loadable
            BY <2>0, <2>1 DEF Request, Loadable
        <3>3. r \in Loadable =>
                [request |-> r, stored |-> FALSE]
                    \in [request : Loadable, stored : BOOLEAN]
            OBVIOUS
        <3>4. tasks' \subseteq [request : Loadable, stored : BOOLEAN]
            BY <1>0, <2>1, <3>2, <3>3 DEF RunResume, ImageTypeOK, r
        <3> QED BY <1>0, <2>1, <3>1, <3>4 DEF RunResume, ImageTypeOK
    <2>2. CASE RunCompleted
        <3>1. mainQ' \in Seq(Block)
            BY <2>0, <2>2, HopIsBlock, Posted DEF RunCompleted, r
        <3> QED BY <1>0, <2>2, <3>1 DEF RunCompleted, ImageTypeOK
    <2>3. CASE RunSetImage
        <3>1. r.cell \in Cells /\ r.url \in URLs /\ r.n \in Nat
            BY <2>0, <2>3 DEF Loadable
        <3>2. /\ image' = [image EXCEPT ![r.cell] = r.url]
              /\ drawn' = [drawn EXCEPT ![r.cell] = r.n]
            BY <2>3 DEF RunSetImage, r
        <3>3. image' \in [Cells -> URLs \cup {Default}] /\ drawn' \in [Cells -> Nat]
            BY <1>0, <3>1, <3>2 DEF ImageTypeOK
        <3> QED BY <1>0, <2>0, <2>3, <3>3 DEF RunSetImage, ImageTypeOK
    <2> QED BY <1>2, <2>1, <2>2, <2>3 DEF RunImageBlock
<1>3. ASSUME TaskFails \/ TaskStores \/ TaskPosts \/ Evict PROVE Typed
    <2>1. CASE TaskFails
        BY <1>0, <2>1 DEF TaskFails, ImageTypeOK
    <2>2. CASE TaskStores
        <3>1. PICK t \in tasks :
                 /\ cache' = cache \cup {t.request.url}
                 /\ tasks' = (tasks \ {t}) \cup {[t EXCEPT !.stored = TRUE]}
            BY <2>2 DEF TaskStores
        <3>2. t.request.url \in URLs
            BY <1>0 DEF ImageTypeOK, Loadable
        <3>3. [t EXCEPT !.stored = TRUE] \in [request : Loadable, stored : BOOLEAN]
            BY <1>0 DEF ImageTypeOK
        <3> QED BY <1>0, <2>2, <3>1, <3>2, <3>3 DEF TaskStores, ImageTypeOK
    <2>3. CASE TaskPosts
        <3>1. mainQ' \in Seq(Block)
            BY <1>0, <2>3, HopIsBlock, Posted DEF TaskPosts, ImageTypeOK
        <3>2. ImageTypeOK'
            BY <1>0, <2>3 DEF TaskPosts, ImageTypeOK
        <3> QED BY <1>0, <2>3, <3>1, <3>2 DEF TaskPosts
    <2>4. CASE Evict
        BY <1>0, <2>4 DEF Evict, ImageTypeOK
    <2> QED BY <1>3, <2>1, <2>2, <2>3, <2>4
<1>4. Typed
    BY <1>1, <1>2, <1>3
<1> QED BY <1>4 DEF TypeOK, listVars

\* The data source asks for the images of the shop and of the items.
LEMMA CellURLs ==
    ASSUME TypeOK, cellForItem
    PROVE  \E c \in Cells, u \in URLs \cup InvalidURLs : downloadImage(c, u)
<1>1. ShopURL \in URLs \cup InvalidURLs /\ ShopCells \subseteq Cells
    BY EventAssumption
<1>2. \A item \in ToSet(shown.items) : item.url \in URLs \cup InvalidURLs
    <2>1. shown.items \in Seq(Items)
        BY DEF TypeOK, Sections
    <2>2. ToSet(shown.items) \subseteq Items
        BY <2>1 DEF ToSet
    <2> QED BY <2>2, EventAssumption
<1> QED BY <1>1, <1>2 DEF cellForItem

LEMMA TypeNext == TypeOK /\ [Next]_vars => TypeOK'
<1> SUFFICES ASSUME TypeOK, [Next]_vars PROVE TypeOK'
    OBVIOUS
<1> USE DEF TypeOK
<1>1. CASE viewWillAppear
    BY <1>1 DEF viewWillAppear, imageVars, ImageTypeOK
<1>2. CASE Leave("away") \/ goBack
    BY <1>2 DEF Leave, goBack, imageVars, ImageTypeOK
<1>3. CASE cellForItem
    BY <1>3, CellURLs, TypeImage DEF cellForItem
<1>4. CASE didRequestToAddToCart
    BY <1>4, PlainBlocks, Posted
       DEF didRequestToAddToCart, imageVars, listVars, ImageTypeOK
<1>5. CASE ConfirmAlert
    BY <1>5 DEF ConfirmAlert, imageVars, ImageTypeOK, Modal
<1>6. CASE getEventList
    <2>1. CASE Failure
        BY <1>6, <2>1, PlainBlocks, Posted
           DEF getEventList, Failure, imageVars, ImageTypeOK
    <2>2. ASSUME NEW list \in Lists, EventList(list) PROVE TypeOK'
        <3>1. CASE list = << >>
            BY <1>6, <2>2, <3>1
               DEF getEventList, EventList, imageVars, ImageTypeOK
        <3>2. CASE list # << >>
            <4>1. dataList' \in Sections /\ dataList' = Added(list)
                BY <2>2, <3>2, AddedProperties DEF EventList
            <4>2. mainQ \o Posts(dataList') \in Seq(Block)
                BY <4>1, PostsTyped
            <4>3. mainQ' \in Seq(Block)
                BY <2>2, <3>2, <4>2 DEF EventList
            <4> QED BY <1>6, <2>2, <3>2, <4>1, <4>3
                    DEF getEventList, EventList, imageVars, ImageTypeOK
        <3> QED BY <3>1, <3>2
    <2> QED BY <1>6, <2>1, <2>2 DEF getEventList
<1>7. CASE RunBlock
    <2>1. CASE RunImageBlock /\ UNCHANGED listVars
        BY <1>7, <2>1, TypeImage DEF RunBlock
    <2>2. CASE ~(RunImageBlock /\ UNCHANGED listVars)
        <3>1. Head(mainQ) \in Block /\ Tail(mainQ) \in Seq(Block)
            BY <1>7, Taken DEF RunBlock
        <3>2. /\ RunApply \/ RunAlert \/ RunToast
              /\ mainQ' = Tail(mainQ)
              /\ UNCHANGED <<trap, imageVars, kind, screen, inFlight, dataList>>
            BY <1>7, <2>2 DEF RunBlock
        <3>3. CASE RunApply
            BY <3>1, <3>2, <3>3, BlockFields DEF RunApply, imageVars, ImageTypeOK
        <3>4. CASE RunAlert
            BY <3>1, <3>2, <3>4
               DEF RunAlert, Present, Modal, imageVars, ImageTypeOK
        <3>5. CASE RunToast
            BY <3>1, <3>2, <3>5
               DEF RunToast, Present, Modal, imageVars, ImageTypeOK
        <3> QED BY <3>2, <3>3, <3>4, <3>5
    <2> QED BY <2>1, <2>2
<1>8. CASE Network
    BY <1>8, TypeImage DEF Network
<1>9. CASE ToastTimer
    BY <1>9 DEF ToastTimer, imageVars, ImageTypeOK, Modal, Dismiss
<1>10. CASE UNCHANGED vars
    BY <1>10 DEF vars, imageVars, listVars, ImageTypeOK
<1> QED BY <1>1, <1>2, <1>3, <1>4, <1>5, <1>6, <1>7, <1>8, <1>9, <1>10 DEF Next

-----------------------------------------------------------------------------
(* The lists.                                                              *)

\* What was a prefix of a sequence is one of the sequence made longer.
LEMMA PrefixGrows ==
    ASSUME NEW S, NEW s \in Seq(S), NEW t \in Seq(S), NEW e \in S,
           IsPrefix(s, t)
    PROVE  IsPrefix(s, Append(t, e))
<1>1. /\ Len(s) \in Nat /\ Len(t) \in Nat /\ Len(s) <= Len(t)
      /\ SubSeq(s, 1, Len(s)) = SubSeq(t, 1, Len(s))
    BY DEF IsPrefix
<1>2. SubSeq(Append(t, e), 1, Len(s)) = SubSeq(t, 1, Len(s))
    BY <1>1
<1> QED BY <1>1, <1>2 DEF IsPrefix

LEMMA PrefixOfItself ==
    ASSUME NEW S, NEW s \in Seq(S)
    PROVE  IsPrefix(s, s)
BY DEF IsPrefix

ListParts == ListsCoherent /\ FirstsDiffer

LEMMA ListInit == Init => ListParts
<1> SUFFICES ASSUME Init PROVE ListParts
    OBVIOUS
<1>1. Coherent(NoSections)
    BY DEF Init, Coherent, FromOneAnswer, IsPrefix, NoSections
<1>2. IsInjective(NoSections.shop)
    BY DEF IsInjective, NoSections
<1> QED BY <1>1, <1>2 DEF Init, ListParts, ListsCoherent, FirstsDiffer

\* The blocks that apply a snapshot are blocks of the main queue.
NoNewApply(q) ==
    \A i \in DOMAIN q : q[i].op = "apply" => \E j \in DOMAIN mainQ : mainQ[j] = q[i]

LEMMA NoNewApplyPosted ==
    ASSUME NEW q \in Seq(Block), NoNewApply(q), NEW b \in Block, b.op # "apply"
    PROVE  NoNewApply(Append(q, b))
BY Posted DEF NoNewApply

LEMMA NoNewApplyTaken ==
    ASSUME mainQ \in Seq(Block), mainQ # << >>
    PROVE  NoNewApply(Tail(mainQ)) /\ Tail(mainQ) \in Seq(Block)
<1>1. \A i \in DOMAIN Tail(mainQ) :
          i + 1 \in DOMAIN mainQ /\ mainQ[i + 1] = Tail(mainQ)[i]
    BY Taken
<1> QED BY <1>1, Taken DEF NoNewApply

\* A step that leaves the sections alone, and displays or posts none but what
\* was on its way, keeps the lists.
LEMMA ListUnchanged ==
    ASSUME ListParts, UNCHANGED dataList,
           trap' = trap \/ trap = "no",
           shown' = shown \/ Coherent(shown'),
           NoNewApply(mainQ')
    PROVE  ListParts'
<1>1. \A s : Coherent(s) <=> (FromOneAnswer(s) /\ IsPrefix(s.shop, dataList'.shop))
    BY DEF Coherent
<1>2. Coherent(dataList') /\ Coherent(shown')
    BY DEF ListParts, ListsCoherent
<1>3. \A i \in DOMAIN mainQ' : mainQ'[i].op = "apply" => Coherent(mainQ'[i].data)
    BY DEF ListParts, ListsCoherent, NoNewApply
<1>4. FirstsDiffer'
    BY DEF ListParts, FirstsDiffer
<1> QED BY <1>1, <1>2, <1>3, <1>4 DEF ListParts, ListsCoherent, Coherent

\* The steps of the requests.
LEMMA ListImage ==
    ASSUME TypeOK, ListParts, Running, UNCHANGED listVars,
           \/ \E c \in Cells, u \in URLs \cup InvalidURLs :
                  downloadImage(c, u) /\ UNCHANGED trap
           \/ mainQ # << >> /\ RunImageBlock
           \/ TaskFails \/ TaskStores \/ TaskPosts \/ Evict
    PROVE  ListParts'
<1>0. ImageTypeOK /\ mainQ \in Seq(Block) /\ NoNewApply(mainQ)
    BY DEF TypeOK, NoNewApply
<1>1. ASSUME NEW c \in Cells, NEW u \in URLs \cup InvalidURLs, downloadImage(c, u)
      PROVE  NoNewApply(mainQ')
    BY <1>0, <1>1, NewRequest, HopIsBlock, NoNewApplyPosted DEF downloadImage
<1>2. ASSUME mainQ # << >>, RunImageBlock PROVE NoNewApply(mainQ')
    <2>1. RunCompleted => Head(mainQ).request \in Loadable
        BY <1>0, <1>2, Taken, BlockFields DEF RunCompleted
    <2>2. NoNewApply(Tail(mainQ)) /\ Tail(mainQ) \in Seq(Block)
        BY <1>0, <1>2, NoNewApplyTaken
    <2>3. CASE RunCompleted
        BY <2>1, <2>2, <2>3, HopIsBlock, NoNewApplyPosted DEF RunCompleted
    <2> QED BY <1>2, <2>2, <2>3 DEF RunImageBlock, RunResume, RunSetImage
<1>3. TaskPosts => NoNewApply(mainQ')
    BY <1>0, HopIsBlock, NoNewApplyPosted DEF TaskPosts, ImageTypeOK
<1>4. TaskFails \/ TaskStores \/ Evict => NoNewApply(mainQ')
    BY <1>0 DEF TaskFails, TaskStores, Evict
<1>5. NoNewApply(mainQ')
    BY <1>1, <1>2, <1>3, <1>4
<1> QED BY <1>5, ListUnchanged DEF Running, listVars

\* .success of a query.
LEMMA ListAnswer ==
    ASSUME TypeOK, ListParts, Running, UNCHANGED shown,
           NEW list \in Lists, EventList(list)
    PROVE  ListParts'
<1>0. mainQ \in Seq(Block) /\ dataList \in Sections /\ shown \in Sections
    BY DEF TypeOK
<1>1. CASE list = << >>
    <2>1. UNCHANGED <<mainQ, dataList>> /\ NoNewApply(mainQ)
        BY <1>1 DEF EventList, NoNewApply
    <2> QED BY <2>1, ListUnchanged DEF Running
<1>2. CASE list # << >>
    <2> DEFINE e == Placeholder(Head(list))
    <2>1. /\ dataList' = Added(list) /\ dataList' \in Sections
          /\ dataList'.items = list /\ list \in Seq(Items)
          /\ dataList'.shop = Append(dataList.shop, e)
          /\ e \in Placeholders /\ e = Placeholder(list[1])
        BY <1>2, AddedProperties DEF EventList
    <2>2. dataList.shop \in Seq(Placeholders) /\ shown.shop \in Seq(Placeholders)
        BY <1>0 DEF Sections
    <2> HIDE DEF e
    <2> DEFINE After(s) == FromOneAnswer(s) /\ IsPrefix(s.shop, dataList'.shop)
    <2>3. \A s \in Sections : Coherent(s) => After(s)
        BY <2>1, <2>2, PrefixGrows DEF Coherent, Sections
    <2>4. After(dataList')
        <3>1. /\ dataList'.shop \in Seq(Placeholders)
              /\ Last(dataList'.shop) = e /\ dataList'.shop # << >>
            BY <2>1, <2>2 DEF Last
        <3> QED BY <1>2, <2>1, <3>1, PrefixOfItself DEF FromOneAnswer
    <2>5. After(shown')
        BY <1>0, <2>3 DEF ListParts, ListsCoherent
    <2>6. \A i \in DOMAIN mainQ : mainQ[i].op = "apply" => After(mainQ[i].data)
        <3>1. \A i \in DOMAIN mainQ : mainQ[i] \in Block
            BY <1>0
        <3> HIDE DEF After
        <3> QED BY <2>3, <3>1, BlockFields DEF ListParts, ListsCoherent
    <2>7. ASSUME \A i \in DOMAIN mainQ' : mainQ'[i].op = "apply" => After(mainQ'[i].data)
          PROVE  ListsCoherent'
        BY <2>4, <2>5, <2>7 DEF ListsCoherent, Coherent
    <2> HIDE DEF After
    <2>8. CASE IsInjective(dataList'.shop)
        <3> DEFINE b == Apply(dataList')
        <3>1. b \in Block /\ b.op = "apply" /\ b.data = dataList'
            BY <2>1, ApplyIsBlock
        <3>2. \/ mainQ' = Append(mainQ, b)
              \/ mainQ' = Append(Append(mainQ, b), b)
            BY <1>0, <1>2, <2>1, <2>8, PostsOf DEF EventList
        <3> HIDE DEF b
        <3>3. ASSUME NEW i \in DOMAIN mainQ', mainQ'[i] # b
              PROVE  i \in DOMAIN mainQ /\ mainQ'[i] = mainQ[i]
            <4>1. Append(mainQ, b) \in Seq(Block)
                BY <1>0, <3>1, Posted
            <4>2. CASE mainQ' = Append(mainQ, b)
                BY <1>0, <3>1, <3>3, <4>2, Posted
            <4>3. CASE mainQ' = Append(Append(mainQ, b), b)
                BY <1>0, <3>1, <3>3, <4>1, <4>3, Posted
            <4> QED BY <3>2, <4>2, <4>3
        <3>4. \A i \in DOMAIN mainQ' : mainQ'[i].op = "apply" => After(mainQ'[i].data)
            BY <2>4, <2>6, <3>1, <3>3
        <3> QED BY <2>7, <2>8, <3>4 DEF ListParts, FirstsDiffer
    <2>9. CASE ~IsInjective(dataList'.shop)
        <3>1. trap' = "appendItems" /\ UNCHANGED mainQ
            BY <1>2, <2>9 DEF EventList
        <3> QED BY <2>6, <2>7, <3>1 DEF ListParts, FirstsDiffer
    <2> QED BY <2>8, <2>9
<1> QED BY <1>1, <1>2

LEMMA ListNext == TypeOK /\ ListParts /\ [Next]_vars => ListParts'
<1> SUFFICES ASSUME TypeOK, ListParts, [Next]_vars PROVE ListParts'
    OBVIOUS
<1>0. mainQ \in Seq(Block) /\ NoNewApply(mainQ)
    BY DEF TypeOK, NoNewApply
<1>1. CASE viewWillAppear
    BY <1>0, <1>1, ListUnchanged DEF viewWillAppear
<1>2. CASE Leave("away") \/ goBack
    BY <1>0, <1>2, ListUnchanged DEF Leave, goBack
<1>3. CASE cellForItem
    BY <1>3, CellURLs, ListImage DEF cellForItem
<1>4. CASE didRequestToAddToCart
    BY <1>0, <1>4, PlainBlocks, NoNewApplyPosted, ListUnchanged
       DEF didRequestToAddToCart, listVars
<1>5. CASE ConfirmAlert
    BY <1>0, <1>5, ListUnchanged DEF ConfirmAlert
<1>6. CASE getEventList
    <2>1. CASE Failure
        BY <1>0, <1>6, <2>1, PlainBlocks, NoNewApplyPosted, ListUnchanged
           DEF getEventList, Failure
    <2> QED BY <1>6, <2>1, ListAnswer DEF getEventList
<1>7. CASE RunBlock
    <2>1. CASE RunImageBlock /\ UNCHANGED listVars
        BY <1>7, <2>1, ListImage DEF RunBlock
    <2>2. CASE ~(RunImageBlock /\ UNCHANGED listVars)
        <3>1. NoNewApply(Tail(mainQ)) /\ 1 \in DOMAIN mainQ /\ Head(mainQ) = mainQ[1]
            BY <1>0, <1>7, NoNewApplyTaken, Taken DEF RunBlock
        <3>2. /\ RunApply \/ RunAlert \/ RunToast
              /\ mainQ' = Tail(mainQ) /\ UNCHANGED <<trap, dataList>>
            BY <1>7, <2>2 DEF RunBlock
        <3>3. shown' = shown \/ Coherent(shown')
            BY <3>1, <3>2 DEF RunApply, RunAlert, RunToast, ListParts, ListsCoherent
        <3> QED BY <3>1, <3>2, <3>3, ListUnchanged
    <2> QED BY <2>1, <2>2
<1>8. CASE Network
    BY <1>8, ListImage DEF Network
<1>9. CASE ToastTimer
    BY <1>0, <1>9, ListUnchanged DEF ToastTimer
<1>10. CASE UNCHANGED vars
    BY <1>0, <1>10, ListUnchanged DEF vars, listVars
<1> QED BY <1>1, <1>2, <1>3, <1>4, <1>5, <1>6, <1>7, <1>8, <1>9, <1>10 DEF Next

-----------------------------------------------------------------------------
(* The order of requests.                                                  *)

ImageOps == {"resume", "completed", "setImage"}

LEMMA OrderInit == Init => CachedInOrder
BY DEF Init, ImageInit, CachedInOrder, RequestsNumbered, Queued

\* The fields of a request that is on its way.
LEMMA RequestFields ==
    ASSUME TypeOK
    PROVE  /\ \A i \in DOMAIN mainQ : Queued(i, ImageOps) =>
                  /\ mainQ[i].request.cell \in Cells
                  /\ mainQ[i].request.n \in Nat
                  /\ mainQ[i].request.cached \in BOOLEAN
           /\ \A t \in tasks :
                  /\ t.request.cell \in Cells /\ t.request.n \in Nat
                  /\ t.request.cached \in BOOLEAN
           /\ asked \in [Cells -> Nat] /\ drawn \in [Cells -> Nat]
           /\ DOMAIN mainQ = 1 .. Len(mainQ) /\ Len(mainQ) \in Nat
<1>1. mainQ \in Seq(Block) /\ ImageTypeOK
    BY DEF TypeOK
<1>2. \A i \in DOMAIN mainQ : mainQ[i] \in Block
    BY <1>1
<1>3. \A i \in DOMAIN mainQ : Queued(i, ImageOps) =>
          mainQ[i].request \in Request \/ mainQ[i].request \in Loadable
    BY <1>2, BlockFields DEF Queued, ImageOps
<1> QED BY <1>1, <1>3 DEF ImageTypeOK, Request, Loadable

\* Blocks leave at the front, or others are posted; requests are lost.
LEMMA OrderShift ==
    ASSUME TypeOK, CachedInOrder, UNCHANGED <<asked, drawn>>,
           \A t \in tasks' : \E u \in tasks : u.request = t.request,
           NEW k \in {0, 1},
           \A i \in DOMAIN mainQ' : mainQ'[i].op \in ImageOps =>
               /\ i \in Nat /\ i + k \in DOMAIN mainQ
               /\ mainQ'[i] = mainQ[i + k]
    PROVE  CachedInOrder'
<1>1. RequestsNumbered'
    BY RequestFields DEF CachedInOrder, RequestsNumbered, Queued, ImageOps
<1>2. ASSUME NEW i \in DOMAIN mainQ', NEW r, r = mainQ'[i].request,
             mainQ'[i].op \in {"completed", "setImage"}, r.cached
      PROVE  CachedFirst(i, r)'
    <2>1. i \in Nat /\ i + k \in DOMAIN mainQ /\ mainQ'[i] = mainQ[i + k]
        BY <1>2 DEF ImageOps
    <2>2. CachedFirst(i + k, r)
        BY <1>2, <2>1 DEF CachedInOrder, Queued
    <2>3. \A j \in DOMAIN mainQ', ops \in SUBSET ImageOps :
              mainQ'[j].op \in ops =>
                  Queued(j + k, ops) /\ mainQ'[j] = mainQ[j + k] /\ j \in Nat
        BY DEF Queued
    <2>4. \A j \in DOMAIN mainQ' :
              mainQ'[j].op = "setImage" /\ Later(r, mainQ'[j].request) =>
                  i < j /\ mainQ'[i].op = "setImage"
        BY <2>1, <2>2, <2>3 DEF CachedFirst, ImageOps
    <2>5. ASSUME mainQ'[i].op = "completed"
          PROVE  /\ \A t \in tasks' : ~Later(r, t.request)
                 /\ \A j \in DOMAIN mainQ' :
                        mainQ'[j].op \in {"resume", "completed"}
                            /\ Later(r, mainQ'[j].request) => i < j
        BY <2>1, <2>2, <2>3, <2>5 DEF CachedFirst, ImageOps
    <2>6. drawn'[r.cell] <= r.n
        BY <2>2 DEF CachedFirst
    <2> QED BY <2>4, <2>5, <2>6 DEF CachedFirst, Queued, Later
<1> QED BY <1>1, <1>2 DEF CachedInOrder, CachedFirst, Queued

\* A request that is made is later than all there are.
LEMMA OrderDownload ==
    ASSUME TypeOK, CachedInOrder, NEW c \in Cells,
           NEW u \in URLs \cup InvalidURLs, downloadImage(c, u)
    PROVE  CachedInOrder'
<1> DEFINE r == [cell |-> c, url |-> u, n |-> asked[c] + 1, cached |-> u \in cache]
           b == NextHop(IF r.cached THEN "completed" ELSE "resume", r)
           e == Len(mainQ) + 1
<1>1. /\ mainQ' = Append(mainQ, b) /\ asked' = [asked EXCEPT ![c] = @ + 1]
      /\ UNCHANGED <<tasks, drawn>>
    BY DEF downloadImage
<1>2. /\ b \in Block /\ b.request = r /\ mainQ \in Seq(Block)
      /\ b.op = IF r.cached THEN "completed" ELSE "resume"
      /\ r.cell = c /\ r.n = asked[c] + 1 /\ r.cached \in BOOLEAN
    <2>1. r \in IF u \in cache THEN Loadable ELSE Request
        BY NewRequest DEF TypeOK
    <2>2. r.cell = c /\ r.n = asked[c] + 1 /\ r.cached = (u \in cache)
        OBVIOUS
    <2> HIDE DEF r
    <2>3. CASE u \in cache
        <3>1. b = NextHop("completed", r) /\ r \in Loadable /\ r.cached = TRUE
            BY <2>1, <2>2, <2>3
        <3> QED BY <2>2, <3>1, HopIsBlock DEF TypeOK
    <2>4. CASE u \notin cache
        <3>1. ~r.cached
            BY <2>2, <2>4
        <3>2. b = NextHop("resume", r) /\ r \in Request
            BY <2>1, <2>4, <3>1
        <3>3. r.cached \in BOOLEAN
            BY <3>2 DEF Request
        <3> QED BY <2>2, <3>1, <3>2, <3>3, HopIsBlock DEF TypeOK
    <2> QED BY <2>3, <2>4
<1> HIDE DEF b, r
<1>3. /\ DOMAIN mainQ' = 1 .. e /\ DOMAIN mainQ = 1 .. Len(mainQ)
      /\ mainQ'[e] = b /\ \A j \in DOMAIN mainQ : mainQ'[j] = mainQ[j]
      /\ Len(mainQ) \in Nat
    BY <1>1, <1>2, Posted
<1>4. /\ asked \in [Cells -> Nat] /\ drawn \in [Cells -> Nat]
      /\ asked' \in [Cells -> Nat] /\ asked'[c] = asked[c] + 1
      /\ \A d \in Cells : asked[d] <= asked'[d]
    BY <1>1, RequestFields
<1>5. RequestsNumbered'
    <2>1. \A d \in Cells : drawn'[d] <= asked'[d]
        BY <1>1, <1>4 DEF CachedInOrder, RequestsNumbered
    <2>2. \A j \in DOMAIN mainQ : Queued(j, ImageOps) =>
              mainQ[j].request.n <= asked'[mainQ[j].request.cell]
        BY <1>4, RequestFields DEF CachedInOrder, RequestsNumbered, Queued, ImageOps
    <2>3. \A t \in tasks : t.request.n <= asked'[t.request.cell]
        BY <1>4, RequestFields DEF CachedInOrder, RequestsNumbered
    <2> QED BY <1>1, <1>2, <1>3, <1>4, <2>1, <2>2, <2>3
            DEF CachedInOrder, RequestsNumbered, Queued, ImageOps
<1>6. /\ \A j \in DOMAIN mainQ : Queued(j, ImageOps) => ~Later(r, mainQ[j].request)
      /\ \A t \in tasks : ~Later(r, t.request)
    BY <1>2, <1>4, RequestFields
       DEF CachedInOrder, RequestsNumbered, Queued, ImageOps, Later
<1>7. ASSUME NEW i \in DOMAIN mainQ', NEW m, m = mainQ'[i].request,
             mainQ'[i].op \in {"completed", "setImage"}, m.cached
      PROVE  CachedFirst(i, m)'
    <2>0. \A j \in DOMAIN mainQ' : j # e => j \in DOMAIN mainQ /\ mainQ'[j] = mainQ[j]
        BY <1>3
    <2>1. CASE i = e
        <3>1. drawn[c] <= r.n
            BY <1>2, <1>4 DEF CachedInOrder, RequestsNumbered
        <3>2. m = r
            BY <1>2, <1>3, <1>7, <2>1
        <3>3. ~Later(r, r)
            BY <1>2, <1>4 DEF Later
        <3>4. \A j \in DOMAIN mainQ' :
                  mainQ'[j].op \in ImageOps => ~Later(r, mainQ'[j].request)
            BY <1>2, <1>3, <1>6, <2>0, <3>3 DEF Queued
        <3> QED BY <1>1, <1>2, <1>6, <3>1, <3>2, <3>4
                DEF CachedFirst, Queued, Later, ImageOps
    <2>2. CASE i # e
        <3>1. i \in DOMAIN mainQ /\ i < e /\ mainQ'[i] = mainQ[i]
            BY <1>3, <2>2
        <3>2. CachedFirst(i, m)
            BY <1>7, <3>1 DEF CachedInOrder, Queued
        <3>3. b.op # "setImage"
            BY <1>2
        <3> QED BY <1>1, <1>3, <2>0, <3>1, <3>2, <3>3 DEF CachedFirst, Queued, Later
    <2> QED BY <2>1, <2>2
<1> QED BY <1>5, <1>7 DEF CachedInOrder, CachedFirst, Queued

\* The front block was "resume": its request may become a task.
LEMMA OrderResume ==
    ASSUME TypeOK, CachedInOrder, mainQ # << >>, RunResume
    PROVE  CachedInOrder'
<1> DEFINE r == Head(mainQ).request
<1>1. /\ mainQ' = Tail(mainQ) /\ mainQ[1].op = "resume" /\ r = mainQ[1].request
      /\ UNCHANGED <<asked, drawn>> /\ 1 \in DOMAIN mainQ
      /\ \A i \in DOMAIN mainQ' : i \in Nat \ {0} /\ i + 1 \in DOMAIN mainQ
                                  /\ mainQ'[i] = mainQ[i + 1]
    BY Taken DEF RunResume, TypeOK
<1>2. \A t \in tasks' : t.request = r \/ \E u \in tasks : u.request = t.request
    BY DEF RunResume
<1> HIDE DEF r
<1>3. r.n <= asked[r.cell] /\ ~r.cached
    BY <1>1 DEF CachedInOrder, RequestsNumbered, Queued
<1>4. RequestsNumbered'
    BY <1>1, <1>2, <1>3 DEF CachedInOrder, RequestsNumbered, Queued
<1>5. ASSUME NEW i \in DOMAIN mainQ', NEW m, m = mainQ'[i].request,
             mainQ'[i].op \in {"completed", "setImage"}, m.cached
      PROVE  CachedFirst(i, m)'
    <2>1. CachedFirst(i + 1, m) /\ i + 1 > 1
        BY <1>1, <1>5 DEF CachedInOrder, Queued
    <2>2. mainQ'[i].op = "completed" => ~Later(m, r)
        BY <1>1, <2>1 DEF CachedFirst, Queued
    <2>3. \A j \in DOMAIN mainQ' :
              mainQ'[j].op = "setImage" /\ Later(m, mainQ'[j].request) =>
                  i < j /\ mainQ'[i].op = "setImage"
        BY <1>1, <2>1 DEF CachedFirst, Queued
    <2>4. ASSUME mainQ'[i].op = "completed"
          PROVE  /\ \A t \in tasks' : ~Later(m, t.request)
                 /\ \A j \in DOMAIN mainQ' :
                        mainQ'[j].op \in {"resume", "completed"}
                            /\ Later(m, mainQ'[j].request) => i < j
        BY <1>1, <1>2, <2>1, <2>2, <2>4 DEF CachedFirst, Queued
    <2>5. drawn'[m.cell] <= m.n
        BY <1>1, <2>1 DEF CachedFirst
    <2> QED BY <2>3, <2>4, <2>5 DEF CachedFirst, Queued, Later
<1> QED BY <1>4, <1>5 DEF CachedInOrder, CachedFirst, Queued

\* The front block was "completed": its request goes to the end of the queue,
\* and no later one of its view is there before it.
LEMMA OrderCompleted ==
    ASSUME TypeOK, CachedInOrder, mainQ # << >>, RunCompleted
    PROVE  CachedInOrder'
<1> DEFINE r == Head(mainQ).request
           b == NextHop("setImage", r)
           e == Len(mainQ)
<1>1. /\ mainQ[1].op = "completed" /\ r = mainQ[1].request
      /\ UNCHANGED <<asked, drawn, tasks>> /\ 1 \in DOMAIN mainQ
      /\ mainQ' = Append(Tail(mainQ), b) /\ Tail(mainQ) \in Seq(Block)
      /\ Head(mainQ) \in Block /\ Head(mainQ) = mainQ[1]
      /\ e \in Nat \ {0} /\ DOMAIN Tail(mainQ) = 1 .. e - 1
      /\ DOMAIN mainQ = 1 .. e
      /\ \A i \in 1 .. e - 1 : Tail(mainQ)[i] = mainQ[i + 1]
    BY Taken DEF RunCompleted, TypeOK
<1>2. r \in Loadable
    BY <1>1, BlockFields
<1>3. b \in Block /\ b.op = "setImage" /\ b.request = r
    BY <1>2, HopIsBlock
<1> HIDE DEF r, b
<1>4. /\ DOMAIN mainQ' = 1 .. e /\ mainQ'[e] = b
      /\ \A i \in DOMAIN mainQ' : i # e =>
             i \in Nat \ {0} /\ i + 1 \in DOMAIN mainQ /\ mainQ'[i] = mainQ[i + 1]
    <2>1. Len(Tail(mainQ)) = e - 1
        BY <1>1
    <2> QED BY <1>1, <1>3, <2>1, Posted
<1>5. r.n <= asked[r.cell]
    BY <1>1 DEF CachedInOrder, RequestsNumbered, Queued
<1>6. RequestsNumbered'
    BY <1>1, <1>3, <1>4, <1>5 DEF CachedInOrder, RequestsNumbered, Queued
<1>7. ASSUME NEW i \in DOMAIN mainQ', NEW m, m = mainQ'[i].request,
             mainQ'[i].op \in {"completed", "setImage"}, m.cached
      PROVE  CachedFirst(i, m)'
    <2>1. CASE i = e
        <3>1. m = r /\ mainQ'[i].op = "setImage"
            BY <1>3, <1>4, <1>7, <2>1
        <3>2. CachedFirst(1, r)
            BY <1>1, <1>7, <3>1 DEF CachedInOrder, Queued
        <3>3. ~Later(r, r)
            BY <1>2 DEF Later, Loadable
        <3>4. \A j \in DOMAIN mainQ' :
                  mainQ'[j].op = "setImage" => ~Later(r, mainQ'[j].request)
            BY <1>1, <1>3, <1>4, <3>2, <3>3 DEF CachedFirst, Queued
        <3>5. drawn'[r.cell] <= r.n
            BY <1>1, <3>2 DEF CachedFirst
        <3> QED BY <3>1, <3>4, <3>5 DEF CachedFirst, Queued, Later
    <2>2. CASE i # e
        <3>1. CachedFirst(i + 1, m) /\ i + 1 > 1 /\ i < e
            BY <1>1, <1>4, <1>7, <2>2 DEF CachedInOrder, Queued
        <3>2. mainQ'[i].op = "completed" => ~Later(m, r)
            BY <1>1, <1>4, <2>2, <3>1 DEF CachedFirst, Queued
        <3>3. mainQ'[i].op # "completed" => mainQ'[i].op = "setImage"
            BY <1>7
        <3>4. \A j \in DOMAIN mainQ' :
                  mainQ'[j].op = "setImage" /\ Later(m, mainQ'[j].request) =>
                      i < j /\ mainQ'[i].op = "setImage"
            BY <1>1, <1>3, <1>4, <2>2, <3>1, <3>2, <3>3 DEF CachedFirst, Queued
        <3>5. ASSUME mainQ'[i].op = "completed"
              PROVE  /\ \A t \in tasks' : ~Later(m, t.request)
                     /\ \A j \in DOMAIN mainQ' :
                            mainQ'[j].op \in {"resume", "completed"}
                                /\ Later(m, mainQ'[j].request) => i < j
            BY <1>1, <1>3, <1>4, <2>2, <3>1, <3>5 DEF CachedFirst, Queued
        <3>6. drawn'[m.cell] <= m.n
            BY <1>1, <3>1 DEF CachedFirst
        <3> QED BY <3>4, <3>5, <3>6 DEF CachedFirst, Queued, Later
    <2> QED BY <2>1, <2>2
<1> QED BY <1>6, <1>7 DEF CachedInOrder, CachedFirst, Queued

\* The front block set an image: no request out of the cache is an earlier one
\* of that view.
LEMMA OrderSetImage ==
    ASSUME TypeOK, CachedInOrder, mainQ # << >>, RunSetImage
    PROVE  CachedInOrder'
<1> DEFINE r == Head(mainQ).request
<1>1. /\ mainQ' = Tail(mainQ) /\ mainQ[1].op = "setImage" /\ r = mainQ[1].request
      /\ UNCHANGED <<asked, tasks>> /\ 1 \in DOMAIN mainQ
      /\ drawn' = [drawn EXCEPT ![r.cell] = r.n]
      /\ \A i \in DOMAIN mainQ' : i \in Nat \ {0} /\ i + 1 \in DOMAIN mainQ
                                  /\ mainQ'[i] = mainQ[i + 1]
    BY Taken DEF RunSetImage, TypeOK
<1> HIDE DEF r
<1>2. r.cell \in Cells /\ r.n \in Nat /\ drawn \in [Cells -> Nat]
    BY <1>1, RequestFields DEF Queued, ImageOps
<1>3. r.n <= asked[r.cell]
    BY <1>1 DEF CachedInOrder, RequestsNumbered, Queued
<1>4. RequestsNumbered'
    BY <1>1, <1>2, <1>3 DEF CachedInOrder, RequestsNumbered, Queued
<1>5. ASSUME NEW i \in DOMAIN mainQ', NEW m, m = mainQ'[i].request,
             mainQ'[i].op \in {"completed", "setImage"}, m.cached
      PROVE  CachedFirst(i, m)'
    <2>1. CachedFirst(i + 1, m) /\ i + 1 > 1
        BY <1>1, <1>5 DEF CachedInOrder, Queued
    <2>2. m.cell \in Cells /\ m.n \in Nat
        BY <1>1, <1>5, RequestFields DEF Queued, ImageOps
    <2>3. ~Later(m, r)
        BY <1>1, <2>1 DEF CachedFirst, Queued
    <2>4. drawn'[m.cell] <= m.n
        BY <1>1, <1>2, <2>1, <2>2, <2>3 DEF CachedFirst, Later
    <2>5. \A j \in DOMAIN mainQ' :
              mainQ'[j].op = "setImage" /\ Later(m, mainQ'[j].request) =>
                  i < j /\ mainQ'[i].op = "setImage"
        BY <1>1, <2>1 DEF CachedFirst, Queued
    <2>6. ASSUME mainQ'[i].op = "completed"
          PROVE  /\ \A t \in tasks' : ~Later(m, t.request)
                 /\ \A j \in DOMAIN mainQ' :
                        mainQ'[j].op \in {"resume", "completed"}
                            /\ Later(m, mainQ'[j].request) => i < j
        BY <1>1, <2>1, <2>6 DEF CachedFirst, Queued
    <2> QED BY <2>4, <2>5, <2>6 DEF CachedFirst, Queued, Later
<1> QED BY <1>4, <1>5 DEF CachedInOrder, CachedFirst, Queued

\* A download that is posted is not out of the cache, and is behind them all.
LEMMA OrderPosts ==
    ASSUME TypeOK, CachedInOrder, TaskPosts
    PROVE  CachedInOrder'
<1>1. PICK t \in tasks : /\ mainQ' = Append(mainQ, NextHop("completed", t.request))
                         /\ tasks' = tasks \ {t}
    BY DEF TaskPosts
<1> DEFINE r == t.request
           b == NextHop("completed", r)
           e == Len(mainQ) + 1
<1>2. r \in Loadable /\ mainQ \in Seq(Block)
    BY DEF TypeOK, ImageTypeOK
<1>3. b \in Block /\ b.op = "completed" /\ b.request = r
    BY <1>2, HopIsBlock
<1>4. mainQ' = Append(mainQ, b) /\ UNCHANGED <<asked, drawn>>
    BY <1>1 DEF TaskPosts
<1>5. r.n <= asked[r.cell] /\ ~r.cached
    BY DEF CachedInOrder, RequestsNumbered
<1> HIDE DEF r, b
<1>6. /\ DOMAIN mainQ' = 1 .. e /\ mainQ'[e] = b /\ e \in Nat
      /\ \A j \in DOMAIN mainQ' : j # e =>
             j \in DOMAIN mainQ /\ j \in Nat /\ j < e /\ mainQ'[j] = mainQ[j]
    BY <1>2, <1>3, <1>4, Posted
<1>7. RequestsNumbered'
    BY <1>1, <1>3, <1>4, <1>5, <1>6 DEF CachedInOrder, RequestsNumbered, Queued
<1>8. ASSUME NEW i \in DOMAIN mainQ', NEW m, m = mainQ'[i].request,
             mainQ'[i].op \in {"completed", "setImage"}, m.cached
      PROVE  CachedFirst(i, m)'
    <2>1. i # e
        BY <1>3, <1>5, <1>6, <1>8
    <2>2. CachedFirst(i, m) /\ i < e
        BY <1>6, <1>8, <2>1 DEF CachedInOrder, Queued
    <2>3. \A j \in DOMAIN mainQ' :
              mainQ'[j].op = "setImage" /\ Later(m, mainQ'[j].request) =>
                  i < j /\ mainQ'[i].op = "setImage"
        BY <1>3, <1>6, <2>1, <2>2 DEF CachedFirst, Queued
    <2>4. ASSUME mainQ'[i].op = "completed"
          PROVE  /\ \A u \in tasks' : ~Later(m, u.request)
                 /\ \A j \in DOMAIN mainQ' :
                        mainQ'[j].op \in {"resume", "completed"}
                            /\ Later(m, mainQ'[j].request) => i < j
        BY <1>1, <1>3, <1>6, <2>1, <2>2, <2>4 DEF CachedFirst, Queued
    <2>5. drawn'[m.cell] <= m.n
        BY <1>4, <2>2 DEF CachedFirst
    <2> QED BY <2>3, <2>4, <2>5 DEF CachedFirst, Queued, Later
<1> QED BY <1>7, <1>8 DEF CachedInOrder, CachedFirst, Queued

\* A step that makes no request and loses some, or none.
LEMMA OrderPlain ==
    ASSUME TypeOK, CachedInOrder, UNCHANGED imageVars,
           \/ mainQ' = mainQ
           \/ mainQ # << >> /\ mainQ' = Tail(mainQ)
           \/ \E b \in Block : b.op \notin ImageOps /\
                  (\/ mainQ' = Append(mainQ, b)
                   \/ mainQ' = Append(Append(mainQ, b), b))
    PROVE  CachedInOrder'
<1>0. UNCHANGED <<asked, drawn, tasks>> /\ mainQ \in Seq(Block)
    BY DEF imageVars, TypeOK
<1>1. CASE mainQ' = mainQ
    <2>1. \A i \in DOMAIN mainQ' : i \in Nat /\ i + 0 \in DOMAIN mainQ
                                  /\ mainQ'[i] = mainQ[i + 0]
        BY <1>0, <1>1
    <2> QED BY <1>0, <2>1, OrderShift
<1>2. CASE mainQ # << >> /\ mainQ' = Tail(mainQ)
    <2>1. \A i \in DOMAIN mainQ' : i \in Nat /\ i + 1 \in DOMAIN mainQ
                                  /\ mainQ'[i] = mainQ[i + 1]
        BY <1>0, <1>2, Taken
    <2> QED BY <1>0, <2>1, OrderShift
<1>3. ASSUME NEW b \in Block, b.op \notin ImageOps,
             \/ mainQ' = Append(mainQ, b)
             \/ mainQ' = Append(Append(mainQ, b), b)
      PROVE  CachedInOrder'
    <2>1. ASSUME NEW i \in DOMAIN mainQ', mainQ'[i].op \in ImageOps
          PROVE  i \in Nat /\ i + 0 \in DOMAIN mainQ /\ mainQ'[i] = mainQ[i + 0]
        <3>1. Append(mainQ, b) \in Seq(Block)
            BY <1>0, Posted
        <3>2. CASE mainQ' = Append(mainQ, b)
            BY <1>0, <1>3, <2>1, <3>2, Posted
        <3>3. CASE mainQ' = Append(Append(mainQ, b), b)
            BY <1>0, <1>3, <2>1, <3>1, <3>3, Posted
        <3> QED BY <1>3, <3>2, <3>3
    <2> QED BY <1>0, <2>1, OrderShift
<1> QED BY <1>1, <1>2, <1>3

LEMMA OrderNetwork ==
    ASSUME TypeOK, CachedInOrder, TaskFails \/ TaskStores \/ TaskPosts \/ Evict
    PROVE  CachedInOrder'
<1>1. CASE TaskFails \/ TaskStores \/ Evict
    <2>1. /\ UNCHANGED <<asked, drawn, mainQ>> /\ mainQ \in Seq(Block)
          /\ \A t \in tasks' : \E u \in tasks : u.request = t.request
        <3>1. CASE TaskFails
            BY <3>1 DEF TaskFails, TypeOK
        <3>2. CASE TaskStores
            <4>1. PICK t \in tasks : tasks' = (tasks \ {t})
                                               \cup {[t EXCEPT !.stored = TRUE]}
                BY <3>2 DEF TaskStores
            <4>2. [t EXCEPT !.stored = TRUE].request = t.request
                BY DEF TypeOK, ImageTypeOK
            <4> QED BY <3>2, <4>1, <4>2 DEF TaskStores, TypeOK
        <3>3. CASE Evict
            BY <3>3 DEF Evict, TypeOK
        <3> QED BY <1>1, <3>1, <3>2, <3>3
    <2>2. \A i \in DOMAIN mainQ' : i \in Nat /\ i + 0 \in DOMAIN mainQ
                                  /\ mainQ'[i] = mainQ[i + 0]
        BY <2>1
    <2> QED BY <2>1, <2>2, OrderShift
<1>2. CASE TaskPosts
    BY <1>2, OrderPosts
<1> QED BY <1>1, <1>2

LEMMA OrderNext == TypeOK /\ CachedInOrder /\ [Next]_vars => CachedInOrder'
<1> SUFFICES ASSUME TypeOK, CachedInOrder, [Next]_vars PROVE CachedInOrder'
    OBVIOUS
<1>0. mainQ \in Seq(Block) /\ "presentFLAlert" \notin ImageOps
      /\ "presentAddToCart" \notin ImageOps /\ "apply" \notin ImageOps
    BY DEF TypeOK, ImageOps
<1>1. CASE viewWillAppear
    BY <1>1, OrderPlain DEF viewWillAppear
<1>2. CASE Leave("away") \/ goBack
    BY <1>2, OrderPlain DEF Leave, goBack
<1>3. CASE cellForItem
    BY <1>3, CellURLs, OrderDownload
<1>4. CASE didRequestToAddToCart
    BY <1>0, <1>4, PlainBlocks, OrderPlain DEF didRequestToAddToCart
<1>5. CASE ConfirmAlert
    BY <1>5, OrderPlain DEF ConfirmAlert
<1>6. CASE getEventList
    <2>1. CASE Failure
        BY <1>0, <1>6, <2>1, PlainBlocks, OrderPlain DEF getEventList, Failure
    <2>2. ASSUME NEW list \in Lists, EventList(list) PROVE CachedInOrder'
        <3>1. CASE mainQ' = mainQ
            BY <1>6, <3>1, OrderPlain DEF getEventList
        <3>2. CASE mainQ' # mainQ
            <4>1. /\ dataList' \in Sections /\ mainQ' = mainQ \o Posts(dataList')
                BY <2>2, <3>2, AddedProperties DEF EventList
            <4>2. /\ Apply(dataList') \in Block
                  /\ Apply(dataList').op \notin ImageOps
                BY <1>0, <4>1, ApplyIsBlock
            <4>3. \/ mainQ' = Append(mainQ, Apply(dataList'))
                  \/ mainQ' = Append(Append(mainQ, Apply(dataList')), Apply(dataList'))
                BY <1>0, <4>1, PostsOf
            <4>4. UNCHANGED imageVars
                BY <1>6 DEF getEventList
            <4> HIDE DEF Apply
            <4> QED BY <4>2, <4>3, <4>4, OrderPlain
        <3> QED BY <3>1, <3>2
    <2> QED BY <1>6, <2>1, <2>2 DEF getEventList
<1>7. CASE RunBlock
    <2>1. CASE RunImageBlock
        BY <1>7, <2>1, OrderResume, OrderCompleted, OrderSetImage
           DEF RunBlock, RunImageBlock
    <2>2. CASE ~RunImageBlock
        BY <1>7, <2>2, OrderPlain DEF RunBlock
    <2> QED BY <2>1, <2>2
<1>8. CASE Network
    BY <1>8, OrderNetwork DEF Network
<1>9. CASE ToastTimer
    BY <1>9, OrderPlain DEF ToastTimer
<1>10. CASE UNCHANGED vars
    BY <1>10, OrderPlain DEF vars
<1> QED BY <1>1, <1>2, <1>3, <1>4, <1>5, <1>6, <1>7, <1>8, <1>9, <1>10 DEF Next

\* No step takes a view back to an earlier request but a late download's.
LEMMA StepOvertakes ==
    ASSUME TypeOK, CachedInOrder, [Next]_vars, NEW c \in Cells, GoesBack(c)
    PROVE  /\ mainQ # << >> /\ Head(mainQ).op = "setImage"
           /\ ~Head(mainQ).request.cached
<1>1. drawn' # drawn
    BY RequestFields DEF GoesBack
<1>2. RunSetImage /\ mainQ # << >>
    BY <1>1 DEF Next, vars, imageVars, viewWillAppear, Leave, goBack, cellForItem,
        downloadImage, didRequestToAddToCart, ConfirmAlert, getEventList,
        RunBlock, RunImageBlock, RunResume, RunCompleted, Network, TaskFails,
        TaskStores, TaskPosts, Evict, ToastTimer
<1> DEFINE r == Head(mainQ).request
<1>3. /\ drawn' = [drawn EXCEPT ![r.cell] = r.n] /\ Head(mainQ).op = "setImage"
      /\ 1 \in DOMAIN mainQ /\ Head(mainQ) = mainQ[1]
    BY <1>2, Taken DEF RunSetImage, TypeOK
<1>4. /\ drawn \in [Cells -> Nat] /\ r.n \in Nat
      /\ r.cached => CachedFirst(1, r)
    BY <1>3, RequestFields DEF CachedInOrder, Queued, ImageOps
<1> HIDE DEF r
<1>5. c = r.cell /\ r.n < drawn[r.cell]
    BY <1>1, <1>3, <1>4 DEF GoesBack
<1>6. ~r.cached
    BY <1>4, <1>5 DEF CachedFirst
<1> QED BY <1>2, <1>3, <1>6 DEF r

-----------------------------------------------------------------------------
LEMMA EventInit == Init => EventInv
BY TypeInit, ListInit, OrderInit DEF EventInv, ListParts

LEMMA EventNext == EventInv /\ [Next]_vars => EventInv'
BY TypeNext, ListNext, OrderNext DEF EventInv, ListParts

(***************************************************************************)
(* The inductive invariant of the lists and their images: the sections on  *)
(* display come from one answer, the answers a screen survived began       *)
(* differently, and a request out of the cache is not overtaken.           *)
(***************************************************************************)
THEOREM EventInvariance == Spec => []EventInv
BY EventInit, EventNext, PTL DEF Spec

(***************************************************************************)
(* A view goes back to the image of an earlier request only by a download  *)
(* that came late.                                                         *)
(***************************************************************************)
THEOREM EventOnlyDownloadsOvertake == Spec => OnlyDownloadsOvertake
<1>1. EventInv /\ [Next]_vars =>
          [\A c \in Cells : GoesBack(c) =>
              /\ mainQ # << >> /\ Head(mainQ).op = "setImage"
              /\ ~Head(mainQ).request.cached]_vars
    BY StepOvertakes DEF EventInv
<1> QED BY <1>1, EventInvariance, PTL DEF Spec, OnlyDownloadsOvertake

===============================================================================
