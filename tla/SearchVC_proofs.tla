---------------------------- MODULE SearchVC_proofs -------------------------
(***************************************************************************)
(* Proofs about the search history and the screen that keeps it, for every *)
(* set of names: in particular histories of any length, any number of      *)
(* searches out at once and of blocks on the main queue, where the run has *)
(* two.                                                                    *)
(***************************************************************************)
EXTENDS SearchVC, SequenceTheorems, TLAPS

-----------------------------------------------------------------------------
(* The history.                                                            *)

\* Putting a name in front of a history shifts every entry by one.
LEMMA Prepend ==
    ASSUME NEW h \in Seq(Names), NEW n \in Names
    PROVE  /\ <<n>> \o h \in Seq(Names)
           /\ DOMAIN (<<n>> \o h) = 1 .. Len(h) + 1
           /\ Len(h) \in Nat
           /\ (<<n>> \o h)[1] = n
           /\ \A i \in 2 .. Len(h) + 1 : (<<n>> \o h)[i] = h[i - 1]
BY ConcatProperties, LenProperties

\* .add stores a history of the same names plus the new one, none twice.
LEMMA InsertedProperties ==
    ASSUME NEW h \in Seq(Names), NEW n \in Names
    PROVE  /\ Inserted(h, n) \in Seq(Names)
           /\ Range(Inserted(h, n)) = Range(h) \cup {n}
           /\ IsInjective(h) => IsInjective(Inserted(h, n))
<1>1. CASE n \in Range(h)
    BY <1>1 DEF Inserted
<1>2. CASE n \notin Range(h)
    <2> DEFINE g == <<n>> \o h
    <2>1. Inserted(h, n) = g
        BY <1>2 DEF Inserted
    <2>2. /\ g \in Seq(Names) /\ DOMAIN g = 1 .. Len(h) + 1 /\ Len(h) \in Nat
          /\ g[1] = n /\ \A i \in 2 .. Len(h) + 1 : g[i] = h[i - 1]
          /\ DOMAIN h = 1 .. Len(h)
        BY Prepend
    <2> HIDE DEF g
    <2>3. Range(g) = Range(h) \cup {n}
        <3>1. \A x \in Range(g) : x \in Range(h) \cup {n}
            BY <2>2 DEF Range
        <3>2. \A j \in DOMAIN h : j + 1 \in DOMAIN g /\ g[j + 1] = h[j]
            BY <2>2
        <3>3. \A x \in Range(h) : x \in Range(g)
            BY <3>2 DEF Range
        <3>4. n \in Range(g)
            BY <2>2 DEF Range
        <3> QED BY <3>1, <3>3, <3>4
    <2>4. IsInjective(h) => IsInjective(g)
        <3> SUFFICES ASSUME IsInjective(h), NEW i \in DOMAIN g, NEW j \in DOMAIN g,
                            g[i] = g[j]
                     PROVE  i = j
            BY DEF IsInjective
        <3>1. \A k \in DOMAIN g :
                  k = 1 \/ (k - 1 \in DOMAIN h /\ g[k] = h[k - 1])
            BY <2>2
        <3>2. \A k \in DOMAIN g : k # 1 => g[k] # n
            BY <1>2, <3>1, Zenon DEF Range
        <3>3. CASE i = 1 \/ j = 1
            BY <2>2, <3>2, <3>3, Zenon
        <3>4. CASE i # 1 /\ j # 1
            <4>1. i - 1 = j - 1
                BY <3>1, <3>4, Zenon DEF IsInjective
            <4> QED BY <2>2, <4>1
        <3> QED BY <3>3, <3>4
    <2> QED BY <2>1, <2>2, <2>3, <2>4
<1> QED BY <1>1, <1>2

\* A name in front of two others leaves their order alone.
LEMMA InsertedOrder ==
    ASSUME NEW h \in Seq(Names), NEW n \in Names,
           NEW x \in Range(h), NEW y \in Range(h)
    PROVE  Newer(h, x, y) <=> Newer(Inserted(h, n), x, y)
<1>1. CASE n \in Range(h)
    BY <1>1 DEF Inserted
<1>2. CASE n \notin Range(h)
    <2> DEFINE g == <<n>> \o h
    <2>1. Inserted(h, n) = g
        BY <1>2 DEF Inserted
    <2>2. /\ DOMAIN g = 1 .. Len(h) + 1 /\ Len(h) \in Nat
          /\ g[1] = n /\ \A i \in 2 .. Len(h) + 1 : g[i] = h[i - 1]
          /\ DOMAIN h = 1 .. Len(h)
        BY Prepend
    <2>3. x # n /\ y # n
        BY <1>2
    <2> HIDE DEF g
    <2>4. ASSUME Newer(h, x, y) PROVE Newer(g, x, y)
        <3>1. PICK i, j \in DOMAIN h : h[i] = x /\ h[j] = y /\ i < j
            BY <2>4 DEF Newer
        <3>2. /\ i + 1 \in DOMAIN g /\ j + 1 \in DOMAIN g /\ i + 1 < j + 1
              /\ g[i + 1] = x /\ g[j + 1] = y
            BY <2>2, <3>1
        <3> QED BY <3>2 DEF Newer
    <2>5. ASSUME Newer(g, x, y) PROVE Newer(h, x, y)
        <3>1. PICK i, j \in DOMAIN g : g[i] = x /\ g[j] = y /\ i < j
            BY <2>5 DEF Newer
        <3>2. i \in 2 .. Len(h) + 1 /\ j \in 2 .. Len(h) + 1
            BY <2>2, <2>3, <3>1
        <3>3. /\ i - 1 \in DOMAIN h /\ j - 1 \in DOMAIN h /\ i - 1 < j - 1
              /\ h[i - 1] = x /\ h[j - 1] = y
            BY <2>2, <3>1, <3>2
        <3> QED BY <3>3 DEF Newer
    <2> QED BY <2>1, <2>4, <2>5
<1> QED BY <1>1, <1>2

LEMMA EmptyHistory ==
    << >> \in Seq(Names) /\ Range(<< >>) = {} /\ IsInjective(<< >>)
BY EmptySeq DEF Range, IsInjective

-----------------------------------------------------------------------------
HistoryInv == HistoryTypeOK /\ UniqueNames

LEMMA HistoryInitInv == HistoryInit => HistoryInv
BY EmptyHistory DEF HistoryInit, HistoryInv, HistoryTypeOK, UniqueNames

LEMMA HistoryNextInv == HistoryInv /\ [HistoryNext]_historyVars => HistoryInv'
<1> SUFFICES ASSUME HistoryInv, [HistoryNext]_historyVars PROVE HistoryInv'
    OBVIOUS
<1> USE DEF HistoryInv, HistoryTypeOK, UniqueNames
<1>1. CASE \E n \in Names : add(n)
    BY <1>1, InsertedProperties DEF add, saveHistories, retrieveHistories
<1>2. CASE remove
    BY <1>2, EmptyHistory DEF remove, saveHistories
<1>3. CASE Flush
    BY <1>3 DEF Flush
<1>4. CASE LoseUnflushed
    BY <1>4 DEF LoseUnflushed
<1>5. CASE UNCHANGED historyVars
    BY <1>5 DEF historyVars
<1> QED BY <1>1, <1>2, <1>3, <1>4, <1>5 DEF HistoryNext

LEMMA HistoryInvariance == HistorySpec => []HistoryInv
BY HistoryInitInv, HistoryNextInv, PTL DEF HistorySpec

(***************************************************************************)
(* The process and the disk hold sequences of names.                       *)
(***************************************************************************)
THEOREM HistoryTyped == HistorySpec => []HistoryTypeOK
BY HistoryInvariance, PTL DEF HistoryInv

(***************************************************************************)
(* No search is kept twice, whatever the crashes.                          *)
(***************************************************************************)
THEOREM HistoryUnique == HistorySpec => []UniqueNames
BY HistoryInvariance, PTL DEF HistoryInv

(***************************************************************************)
(* A repeated search does not move: two names keep their order while the   *)
(* process remembers both.                                                 *)
(***************************************************************************)
THEOREM HistoryOrderKept == HistorySpec => OrderKept
<1>1. HistoryInv /\ [HistoryNext]_historyVars
          => [LoseUnflushed \/ \A x, y \in Range(defaults) \cap Range(defaults') :
                 Newer(defaults, x, y) <=> Newer(defaults', x, y)]_historyVars
    <2> SUFFICES ASSUME HistoryInv, HistoryNext, ~LoseUnflushed,
                        NEW x \in Range(defaults) \cap Range(defaults'),
                        NEW y \in Range(defaults) \cap Range(defaults')
                 PROVE  Newer(defaults, x, y) <=> Newer(defaults', x, y)
        OBVIOUS
    <2>1. CASE \E n \in Names : add(n)
        BY <2>1, InsertedOrder
           DEF add, saveHistories, retrieveHistories, HistoryInv, HistoryTypeOK
    <2>2. CASE remove
        BY <2>2, EmptyHistory DEF remove, saveHistories
    <2>3. CASE Flush
        BY <2>3 DEF Flush
    <2> QED BY <2>1, <2>2, <2>3 DEF HistoryNext
<1> QED BY <1>1, HistoryInvariance, PTL DEF HistorySpec, OrderKept

(***************************************************************************)
(* The sequence implements the set of remembered searches with its durable *)
(* copy: every step of PersistenceManager is one of the contract.          *)
(***************************************************************************)
THEOREM HistoryImplementsContract == HistorySpec => ImplementsContract
<1>1. HistoryInit => Contract!Init
    BY EmptyHistory DEF HistoryInit, Contract!Init
<1>2. HistoryInv /\ [HistoryNext]_historyVars => [Contract!Next]_(Contract!vars)
    <2> SUFFICES ASSUME HistoryInv, [HistoryNext]_historyVars
                 PROVE  [Contract!Next]_(Contract!vars)
        OBVIOUS
    <2> USE DEF Contract!Next
    <2>1. ASSUME NEW n \in Names, add(n) PROVE Contract!Remember(n)
        BY <2>1, InsertedProperties
           DEF add, saveHistories, retrieveHistories, HistoryInv,
               HistoryTypeOK, Contract!Remember
    <2>2. CASE remove
        BY <2>2, EmptyHistory DEF remove, saveHistories, Contract!ForgetAll
    <2>3. CASE Flush
        BY <2>3 DEF Flush, Contract!Sync
    <2>4. CASE LoseUnflushed
        BY <2>4 DEF LoseUnflushed, Contract!Crash
    <2>5. CASE UNCHANGED historyVars
        BY <2>5 DEF historyVars, Contract!vars
    <2> QED BY <2>1, <2>2, <2>3, <2>4, <2>5 DEF HistoryNext
<1> QED BY <1>1, <1>2, HistoryInvariance, PTL
        DEF HistorySpec, ImplementsContract, Contract!Spec

-----------------------------------------------------------------------------
(* What the main queue is made of.                                         *)

Block ==
    {DismissOverlay, Reconfigure, ShowAlert}
        \cup {ApplyResults(k) : k \in Names}
        \cup {[op |-> "applyTags", sections |-> t] : t \in Seq(Seq(Names))}

Kind(o) == {b \in Block : b.op = o}

Dismisses    == Kind("dismissLoadingView")
Tags         == Kind("applyTags")
Results      == Kind("applyResults")
Reconfigures == Kind("reconfigure")

\* A block of the kind K is in the queue, one at most, and the last is b.
Holds(q, K) == \E i \in DOMAIN q : q[i] \in K
OneAtMost(q, K) == \A i, j \in DOMAIN q : q[i] \in K /\ q[j] \in K => i = j
LastIs(q, K, b) ==
    \A i \in DOMAIN q :
        q[i] \in K /\ (\A j \in DOMAIN q : q[j] \in K => j <= i) => q[i] = b

\* The snapshots of results with no dismissal behind them are b.
CurrentIs(q, b) ==
    \A i \in DOMAIN q :
        q[i] \in Results /\ (\A j \in DOMAIN q : q[j] \in Dismisses => j < i)
            => q[i] = b

-----------------------------------------------------------------------------
(* The inductive invariant.                                                *)

\* Before viewDidLoad nothing was asked or displayed.
FreshInv ==
    screen = "new" =>
        mainQ = << >> /\ stack = << >> /\ tagsShown = << >> /\ ~Searching
            /\ crash = "no"

\* Searches made one after another leave at most one search or dismissal
\* outstanding, and until it is done the reference to its overlay.
OneAtATime ==
    ~overlapped =>
        /\ \A n, m \in Names :
               searches[n] > 0 /\ searches[m] > 0 => n = m /\ searches[n] = 1
        /\ OneAtMost(mainQ, Dismisses)
        /\ ~(Searching /\ Holds(mainQ, Dismisses))
        /\ Searching \/ Holds(mainQ, Dismisses) => overlay.container # NoView
        /\ crash # "dismiss"

\* The last snapshot of the tags, displayed or posted, is of the texts held.
TagsInv ==
    /\ LastIs(mainQ, Tags, ApplyTags(hot, past))
    /\ ~Holds(mainQ, Tags) => tagsShown \in {<< >>, Sections(hot, past)}
    /\ crash = "tag" => hot = << >> \/ Holds(mainQ, Tags)

\* A posted snapshot of results with no dismissal behind it is of the results
\* held: a later answer would have posted one.
LatestAnswer == CurrentIs(mainQ, ApplyResults(resultList))

\* A result view over which no empty state was laid.
ResultInView == Contains(stack, "result") /\ ~Contains(stack, "empty")

\* Then the last snapshot of the results, displayed or posted, is of those
\* held, for searches made one after another.
ResultsInv ==
    ResultInView /\ ~overlapped =>
        /\ LastIs(mainQ, Results, ApplyResults(resultList))
        /\ ~Holds(mainQ, Results) => resultShown \in {NoResult, resultList}

\* With results held at all, the last snapshot of results, displayed or posted, is
\* of those, also when searches overlap.
HeldResults ==
    resultList # NoResult =>
        /\ LastIs(mainQ, Results, ApplyResults(resultList))
        /\ ~Holds(mainQ, Results) => resultShown \in {NoResult, resultList}

\* What is displayed is in a result view on the stack.
ShownInView == ~Contains(stack, "result") => resultShown = NoResult

\* An empty state is always above the result views.
Ordered(s) == \A i, j \in DOMAIN s : s[i] = "result" /\ s[j] = "empty" => i < j
StackOrder == Ordered(stack)

BlankInv ==
    /\ screen = "alive" /\ stack = << >> => Holds(mainQ, Reconfigures) \/ lateAnswer
    /\ Searching /\ ~lateAnswer => Contains(stack, "result")

SearchTypeInv == TypeOK /\ UniqueNames /\ mainQ \in Seq(Block)

SearchIInv ==
    /\ SearchTypeInv /\ FreshInv /\ OneAtATime /\ TagsInv
    /\ LatestAnswer /\ ResultsInv /\ HeldResults /\ ShownInView
    /\ StackOrder /\ BlankInv

-----------------------------------------------------------------------------
(* Blocks, queues, sections and views.                                     *)

LEMMA BlockTypes ==
    /\ DismissOverlay \in Block /\ DismissOverlay.op = "dismissLoadingView"
    /\ Reconfigure \in Block /\ Reconfigure.op = "reconfigure"
    /\ ShowAlert \in Block /\ ShowAlert.op = "presentFLAlert"
    /\ \A k \in Names : /\ ApplyResults(k) \in Block
                        /\ ApplyResults(k).op = "applyResults"
                        /\ ApplyResults(k).name = k
    /\ \A b \in Block :
           /\ b.op = "applyTags" => b.sections \in Seq(Seq(Names))
           /\ b.op = "applyResults" => b.name \in Names
<1>1. /\ DismissOverlay.op = "dismissLoadingView"
      /\ Reconfigure.op = "reconfigure" /\ ShowAlert.op = "presentFLAlert"
      /\ \A k \in Names : ApplyResults(k).op = "applyResults" /\ ApplyResults(k).name = k
    BY DEF DismissOverlay, Reconfigure, ShowAlert, ApplyResults
<1>2. /\ DismissOverlay \in Block /\ Reconfigure \in Block /\ ShowAlert \in Block
      /\ \A k \in Names : ApplyResults(k) \in Block
    BY DEF Block
<1>3. ASSUME NEW b \in Block
      PROVE  /\ b.op = "applyTags" => b.sections \in Seq(Seq(Names))
             /\ b.op = "applyResults" => b.name \in Names
    <2>1. CASE b \in {DismissOverlay, Reconfigure, ShowAlert}
        BY <1>1, <2>1
    <2>2. CASE \E k \in Names : b = ApplyResults(k)
        BY <1>1, <2>2
    <2>3. CASE \E t \in Seq(Seq(Names)) : b = [op |-> "applyTags", sections |-> t]
        BY <2>3
    <2> QED BY <2>1, <2>2, <2>3 DEF Block
<1> QED BY <1>1, <1>2, <1>3

LEMMA Kinds ==
    /\ \A b \in Block :
           /\ b \in Dismisses <=> b.op = "dismissLoadingView"
           /\ b \in Tags <=> b.op = "applyTags"
           /\ b \in Results <=> b.op = "applyResults"
           /\ b \in Reconfigures <=> b.op = "reconfigure"
    /\ \A b \in Results : b \notin Dismisses
    /\ DismissOverlay \in Dismisses
    /\ DismissOverlay \notin Tags \cup Results \cup Reconfigures
    /\ Reconfigure \in Reconfigures
    /\ Reconfigure \notin Dismisses \cup Tags \cup Results
    /\ ShowAlert \notin Dismisses \cup Tags \cup Results \cup Reconfigures
    /\ \A k \in Names : /\ ApplyResults(k) \in Results
                        /\ ApplyResults(k) \notin Dismisses \cup Tags \cup Reconfigures
BY BlockTypes DEF Kind, Dismisses, Tags, Results, Reconfigures

LEMMA AppendIs ==
    ASSUME NEW q \in Seq(Block), NEW b \in Block
    PROVE  /\ Append(q, b) \in Seq(Block)
           /\ DOMAIN Append(q, b) = DOMAIN q \cup {Len(q) + 1}
           /\ Len(q) \in Nat /\ DOMAIN q = 1 .. Len(q)
           /\ Append(q, b)[Len(q) + 1] = b
           /\ \A i \in DOMAIN q : Append(q, b)[i] = q[i]
BY AppendProperties

\* Posting a block.
LEMMA PostHolds ==
    ASSUME NEW q \in Seq(Block), NEW b \in Block, NEW K
    PROVE  /\ Holds(Append(q, b), K) <=> Holds(q, K) \/ b \in K
           /\ OneAtMost(q, K) /\ b \notin K => OneAtMost(Append(q, b), K)
           /\ ~Holds(q, K) => OneAtMost(Append(q, b), K)
<1> DEFINE a == Append(q, b)
           n == Len(q) + 1
<1>1. /\ DOMAIN a = DOMAIN q \cup {n} /\ DOMAIN q = 1 .. Len(q) /\ Len(q) \in Nat
      /\ a[n] = b /\ \A i \in DOMAIN q : a[i] = q[i]
    BY AppendIs
<1> HIDE DEF a
<1>2. Holds(a, K) <=> Holds(q, K) \/ b \in K
    BY <1>1 DEF Holds
<1>3. OneAtMost(q, K) /\ b \notin K => OneAtMost(a, K)
    BY <1>1 DEF OneAtMost
<1>4. ~Holds(q, K) => OneAtMost(a, K)
    BY <1>1 DEF Holds, OneAtMost
<1> QED BY <1>2, <1>3, <1>4 DEF a

LEMMA PostLast ==
    ASSUME NEW q \in Seq(Block), NEW b \in Block, NEW K, NEW c
    PROVE  /\ b \in K /\ b = c => LastIs(Append(q, b), K, c)
           /\ b \notin K /\ LastIs(q, K, c) => LastIs(Append(q, b), K, c)
<1> DEFINE a == Append(q, b)
           n == Len(q) + 1
<1>1. /\ DOMAIN a = DOMAIN q \cup {n} /\ DOMAIN q = 1 .. Len(q) /\ Len(q) \in Nat
      /\ a[n] = b /\ \A i \in DOMAIN q : a[i] = q[i]
    BY AppendIs
<1> HIDE DEF a
<1>2. b \in K /\ b = c => LastIs(a, K, c)
    BY <1>1 DEF LastIs
<1>3. b \notin K /\ LastIs(q, K, c) => LastIs(a, K, c)
    BY <1>1 DEF LastIs
<1> QED BY <1>2, <1>3 DEF a

LEMMA PostCurrent ==
    ASSUME NEW q \in Seq(Block), NEW b \in Block, NEW c
    PROVE  /\ b \in Dismisses => CurrentIs(Append(q, b), c)
           /\ b \notin Results /\ CurrentIs(q, c) => CurrentIs(Append(q, b), c)
           /\ b = c /\ CurrentIs(q, c) => CurrentIs(Append(q, b), c)
<1> DEFINE a == Append(q, b)
           n == Len(q) + 1
<1>1. /\ DOMAIN a = DOMAIN q \cup {n} /\ DOMAIN q = 1 .. Len(q) /\ Len(q) \in Nat
      /\ a[n] = b /\ \A i \in DOMAIN q : a[i] = q[i]
    BY AppendIs
<1> HIDE DEF a
<1>2. b \in Dismisses => CurrentIs(a, c)
    BY <1>1, Kinds DEF CurrentIs
<1>3. b \notin Results /\ CurrentIs(q, c) => CurrentIs(a, c)
    BY <1>1 DEF CurrentIs
<1>4. b = c /\ CurrentIs(q, c) => CurrentIs(a, c)
    BY <1>1 DEF CurrentIs
<1> QED BY <1>2, <1>3, <1>4 DEF a

LEMMA PostTwo ==
    ASSUME NEW q \in Seq(Block), NEW b \in Block, NEW c \in Block
    PROVE  q \o <<b, c>> = Append(Append(q, b), c) /\ Append(q, b) \in Seq(Block)
OBVIOUS

\* Running the oldest block.
LEMMA TailIs ==
    ASSUME NEW q \in Seq(Block), q # << >>
    PROVE  /\ Tail(q) \in Seq(Block)
           /\ Len(q) \in Nat \ {0} /\ DOMAIN q = 1 .. Len(q)
           /\ DOMAIN Tail(q) = 1 .. Len(q) - 1
           /\ Head(q) = q[1] /\ Head(q) \in Block
           /\ \A i \in DOMAIN Tail(q) : i + 1 \in DOMAIN q /\ Tail(q)[i] = q[i + 1]
BY HeadTailProperties, EmptySeq

LEMMA TakeHolds ==
    ASSUME NEW q \in Seq(Block), q # << >>, NEW K
    PROVE  /\ Holds(Tail(q), K) => Holds(q, K)
           /\ Holds(q, K) /\ Head(q) \notin K => Holds(Tail(q), K)
           /\ Head(q) \in K => Holds(q, K)
           /\ OneAtMost(q, K) => OneAtMost(Tail(q), K)
           /\ OneAtMost(q, K) /\ Head(q) \in K => ~Holds(Tail(q), K)
<1> DEFINE t == Tail(q)
           h == Head(q)
<1>1. /\ Len(q) \in Nat \ {0} /\ DOMAIN q = 1 .. Len(q) /\ DOMAIN t = 1 .. Len(q) - 1
      /\ h = q[1] /\ \A i \in DOMAIN t : i + 1 \in DOMAIN q /\ t[i] = q[i + 1]
    BY TailIs
<1> HIDE DEF t, h
<1>2. \A j \in DOMAIN q : j # 1 => j - 1 \in DOMAIN t /\ t[j - 1] = q[j]
    BY <1>1
<1>3. Holds(t, K) => Holds(q, K)
    BY <1>1 DEF Holds
<1>4. Holds(q, K) /\ h \notin K => Holds(t, K)
    BY <1>1, <1>2 DEF Holds
<1>5. h \in K => Holds(q, K)
    BY <1>1 DEF Holds
<1>6. OneAtMost(q, K) => OneAtMost(t, K)
    BY <1>1 DEF OneAtMost
<1>7. OneAtMost(q, K) /\ h \in K => ~Holds(t, K)
    BY <1>1 DEF OneAtMost, Holds
<1> QED BY <1>3, <1>4, <1>5, <1>6, <1>7 DEF t, h

LEMMA TakeLast ==
    ASSUME NEW q \in Seq(Block), q # << >>, NEW K, NEW c
    PROVE  /\ LastIs(q, K, c) => LastIs(Tail(q), K, c)
           /\ LastIs(q, K, c) /\ Head(q) \in K /\ ~Holds(Tail(q), K) => Head(q) = c
<1> DEFINE t == Tail(q)
           h == Head(q)
<1>1. /\ Len(q) \in Nat \ {0} /\ DOMAIN q = 1 .. Len(q) /\ DOMAIN t = 1 .. Len(q) - 1
      /\ h = q[1] /\ \A i \in DOMAIN t : i + 1 \in DOMAIN q /\ t[i] = q[i + 1]
    BY TailIs
<1> HIDE DEF t, h
<1>2. \A j \in DOMAIN q : j # 1 => j - 1 \in DOMAIN t /\ t[j - 1] = q[j]
    BY <1>1
<1>3. ASSUME LastIs(q, K, c), NEW i \in DOMAIN t, t[i] \in K,
             \A j \in DOMAIN t : t[j] \in K => j <= i
      PROVE  t[i] = c
    <2>1. i + 1 \in DOMAIN q /\ q[i + 1] \in K /\ t[i] = q[i + 1] /\ i \in Nat /\ i >= 1
        BY <1>1, <1>3
    <2>2. \A j \in DOMAIN q : q[j] \in K => j <= i + 1
        <3> SUFFICES ASSUME NEW j \in DOMAIN q, q[j] \in K, j # 1 PROVE j <= i + 1
            BY <1>1, <2>1
        <3>1. j - 1 <= i
            BY <1>2, <1>3
        <3> QED BY <1>1, <2>1, <3>1
    <2> QED BY <1>3, <2>1, <2>2 DEF LastIs
<1>4. LastIs(q, K, c) /\ h \in K /\ ~Holds(t, K) => h = c
    <2> SUFFICES ASSUME LastIs(q, K, c), h \in K, ~Holds(t, K) PROVE h = c
        OBVIOUS
    <2>1. \A j \in DOMAIN q : q[j] \in K => j <= 1
        BY <1>1, <1>2 DEF Holds
    <2> QED BY <1>1, <2>1 DEF LastIs
<1>5. LastIs(q, K, c) => LastIs(t, K, c)
    BY <1>3 DEF LastIs
<1> QED BY <1>4, <1>5 DEF t, h

LEMMA TakeCurrent ==
    ASSUME NEW q \in Seq(Block), q # << >>, NEW c, CurrentIs(q, c)
    PROVE  CurrentIs(Tail(q), c)
<1> DEFINE t == Tail(q)
<1>1. /\ Len(q) \in Nat \ {0} /\ DOMAIN q = 1 .. Len(q) /\ DOMAIN t = 1 .. Len(q) - 1
      /\ \A i \in DOMAIN t : i + 1 \in DOMAIN q /\ t[i] = q[i + 1]
    BY TailIs
<1> HIDE DEF t
<1>2. \A j \in DOMAIN q : j # 1 => j - 1 \in DOMAIN t /\ t[j - 1] = q[j]
    BY <1>1
<1>3. ASSUME NEW i \in DOMAIN t, t[i] \in Results,
             \A j \in DOMAIN t : t[j] \in Dismisses => j < i
      PROVE  t[i] = c
    <2>1. i + 1 \in DOMAIN q /\ q[i + 1] \in Results /\ t[i] = q[i + 1]
              /\ i \in Nat /\ i >= 1
        BY <1>1, <1>3
    <2>2. \A j \in DOMAIN q : q[j] \in Dismisses => j < i + 1
        <3> SUFFICES ASSUME NEW j \in DOMAIN q, q[j] \in Dismisses, j # 1
                     PROVE  j < i + 1
            BY <1>1, <2>1
        <3>1. j - 1 < i
            BY <1>2, <1>3
        <3> QED BY <1>1, <2>1, <3>1
    <2> QED BY <2>1, <2>2 DEF CurrentIs
<1>4. CurrentIs(t, c)
    BY <1>3 DEF CurrentIs
<1> QED BY <1>4 DEF t

\* Without a dismissal in the queue every posted snapshot is current.
LEMMA CurrentIsLast ==
    ASSUME NEW q \in Seq(Block), NEW c, CurrentIs(q, c), ~Holds(q, Dismisses)
    PROVE  LastIs(q, Results, c)
BY DEF CurrentIs, LastIs, Holds

LEMMA EmptyQueue ==
    ASSUME NEW K, NEW c
    PROVE  /\ ~Holds(<< >>, K) /\ OneAtMost(<< >>, K)
           /\ LastIs(<< >>, K, c) /\ CurrentIs(<< >>, c)
BY EmptySeq DEF Holds, OneAtMost, LastIs, CurrentIs

\* The snapshot of the tags: a section for each list that has texts.
LEMMA SectionsCases ==
    ASSUME NEW h \in Seq(Names), NEW p \in Seq(Names)
    PROVE  /\ Sections(h, p) \in Seq(Seq(Names))
           /\ h # << >> => \A s \in DOMAIN Sections(h, p) :
                              s \in 1 .. 2 /\ Sections(h, p)[s] = <<h, p>>[s]
<1>1. CASE h = << >> /\ p = << >>
    BY <1>1 DEF Sections, Section
<1>2. CASE h = << >> /\ p # << >>
    BY <1>2 DEF Sections, Section
<1>3. CASE h # << >> /\ p = << >>
    BY <1>3 DEF Sections, Section
<1>4. CASE h # << >> /\ p # << >>
    BY <1>4 DEF Sections, Section
<1> QED BY <1>1, <1>2, <1>3, <1>4

LEMMA ApplyTagsType ==
    ASSUME NEW h \in Seq(Names), NEW p \in Seq(Names)
    PROVE  /\ ApplyTags(h, p) \in Block
           /\ ApplyTags(h, p) \in Tags
           /\ ApplyTags(h, p) \notin Dismisses \cup Results \cup Reconfigures
           /\ ApplyTags(h, p).sections = Sections(h, p)
<1>1. ApplyTags(h, p).op = "applyTags" /\ ApplyTags(h, p).sections = Sections(h, p)
    BY DEF ApplyTags
<1>2. ApplyTags(h, p) \in Block
    BY SectionsCases DEF ApplyTags, Block
<1> QED BY <1>1, <1>2, Kinds

\* The views but the tags stay, in their order.
LEMMA RemovedTags ==
    ASSUME NEW s \in Seq(Views_), NEW r, r = RemoveTags(s)
    PROVE  /\ r \in Seq(Views_)
           /\ \A v \in Views_ \ {"tags"} : Contains(r, v) <=> Contains(s, v)
           /\ Ordered(s) => Ordered(r)
<1>1. CASE ~Contains(s, "tags")
    BY <1>1 DEF RemoveTags
<1>2. CASE Contains(s, "tags")
    <2> DEFINE p == CHOOSE i \in DOMAIN s : s[i] = "tags"
    <2>1. p \in DOMAIN s /\ s[p] = "tags" /\ Len(s) \in Nat /\ DOMAIN s = 1 .. Len(s)
        BY <1>2 DEF Contains
    <2>2. r = SubSeq(s, 1, p - 1) \o SubSeq(s, p + 1, Len(s))
        BY <1>2 DEF RemoveTags, RemoveAt
    <2> HIDE DEF p
    <2>3. /\ r \in Seq(Views_) /\ Len(r) = Len(s) - 1 /\ DOMAIN r = 1 .. Len(s) - 1
          /\ \A i \in DOMAIN r : r[i] = IF i < p THEN s[i] ELSE s[i + 1]
        <3> DEFINE x == SubSeq(s, 1, p - 1)
                   y == SubSeq(s, p + 1, Len(s))
        <3>1. /\ x \in Seq(Views_) /\ Len(x) = p - 1
              /\ \A i \in 1 .. p - 1 : x[i] = s[i]
            BY <2>1
        <3>2. /\ y \in Seq(Views_) /\ Len(y) = Len(s) - p
              /\ \A i \in 1 .. Len(s) - p : y[i] = s[p + i]
            BY <2>1
        <3>5. r = x \o y
            BY <2>2
        <3> HIDE DEF x, y
        <3>3. /\ x \o y \in Seq(Views_) /\ Len(x \o y) = Len(x) + Len(y)
              /\ \A i \in 1 .. Len(x) + Len(y) :
                     (x \o y)[i] = IF i <= Len(x) THEN x[i] ELSE y[i - Len(x)]
            BY <3>1, <3>2, ConcatProperties
        <3>4. p \in Int /\ Len(s) \in Int /\ 1 <= p /\ p <= Len(s)
            BY <2>1
        <3>6. \A i \in 1 .. Len(s) - 1 :
                  (x \o y)[i] = IF i < p THEN s[i] ELSE s[i + 1]
            <4> TAKE i \in 1 .. Len(s) - 1
            <4>1. i \in Int /\ i \in 1 .. Len(x) + Len(y)
                BY <3>1, <3>2, <3>4
            <4>2. CASE i < p
                BY <3>1, <3>3, <3>4, <4>1, <4>2
            <4>3. CASE ~(i < p)
                <5>1. (x \o y)[i] = y[i - (p - 1)]
                    BY <3>1, <3>3, <3>4, <4>1, <4>3
                <5>2. i - (p - 1) \in 1 .. Len(s) - p /\ p + (i - (p - 1)) = i + 1
                    BY <3>4, <4>1, <4>3
                <5> QED BY <3>2, <4>3, <5>1, <5>2
            <4> QED BY <4>2, <4>3
        <3>7. Len(x \o y) = Len(s) - 1
            BY <3>1, <3>2, <3>3, <3>4
        <3> QED BY <3>3, <3>5, <3>6, <3>7, LenProperties
    <2>4. \A i \in DOMAIN s : i # p =>
              LET j == IF i < p THEN i ELSE i - 1 IN j \in DOMAIN r /\ r[j] = s[i]
        BY <2>1, <2>3
    <2>5. \A v \in Views_ \ {"tags"} : Contains(r, v) => Contains(s, v)
        BY <2>1, <2>3 DEF Contains
    <2>6. \A v \in Views_ \ {"tags"} : Contains(s, v) => Contains(r, v)
        BY <2>1, <2>3, <2>4 DEF Contains
    <2>7. ASSUME \A i, j \in DOMAIN s : s[i] = "result" /\ s[j] = "empty" => i < j,
                 NEW i \in DOMAIN r, NEW j \in DOMAIN r,
                 r[i] = "result", r[j] = "empty"
          PROVE  i < j
        <3>1. (IF i < p THEN i ELSE i + 1) < (IF j < p THEN j ELSE j + 1)
            BY <2>1, <2>3, <2>7
        <3> QED BY <2>1, <2>3, <3>1
    <2>8. Ordered(s) => Ordered(r)
        BY <2>7 DEF Ordered
    <2> QED BY <2>3, <2>5, <2>6, <2>8
<1> QED BY <1>1, <1>2

-----------------------------------------------------------------------------
(* Every step keeps it.                                                    *)

\* A search is started, by its key or by a tag.
Started(k) == Running /\ activateSearchFunction(k) /\ UNCHANGED crash

\* A tag is tapped that the texts held do not have.
TagTrap ==
    /\ Running
    /\ \E s \in 1 .. 2 : \E i \in 1 .. Cardinality(Names) :
           /\ s \in DOMAIN tagsShown /\ i \in DOMAIN tagsShown[s]
           /\ i \notin DOMAIN <<hot, past>>[s]
    /\ crash' = "tag"
    /\ UNCHANGED <<historyVars, screen, overlay, stack, hot, past,
                   tagsShown, hotPending, searches, resultList, resultShown,
                   shopPending, mainQ, modal, overlapped, lateAnswer>>

LEMMA TapTagCases ==
    ASSUME SearchTypeInv, NEW s \in 1 .. 2, NEW i \in 1 .. Cardinality(Names),
           TapTag(s, i)
    PROVE  (\E k \in Names : Started(k)) \/ TagTrap
<1> DEFINE texts == <<hot, past>>[s]
<1>1. texts \in Seq(Names)
    BY DEF SearchTypeInv, TypeOK
<1>2. CASE i \in DOMAIN texts
    <2>1. texts[i] \in Names
        BY <1>1, <1>2
    <2> QED BY <1>2, <2>1 DEF TapTag, Touchable, Started
<1>3. CASE i \notin DOMAIN texts
    BY <1>3 DEF TapTag, Touchable, TagTrap
<1> QED BY <1>2, <1>3

LEMMA StepCases ==
    ASSUME SearchTypeInv, Next
    PROVE  \/ viewDidLoad \/ HotSearchAnswer
           \/ (\E k \in Names : Started(k)) \/ TagTrap
           \/ (\E k \in Names, found \in BOOLEAN : SearchSuccess(k, found))
           \/ (\E k \in Names : SearchFailure(k))
           \/ ClearText \/ clearSearchHistory
           \/ TapResult \/ GetShopAnswer \/ AddToCartOnEvent
           \/ RunBlock \/ ConfirmAlert \/ FlushDefaults \/ Reopen
BY TapTagCases DEF Next, Started, searchBarSearchButtonClicked

(***************************************************************************)
(* The screen changes the history only as PersistenceManager says.         *)
(***************************************************************************)
LEMMA StepKeepsHistory ==
    ASSUME SearchTypeInv, [Next]_vars PROVE [HistoryNext]_historyVars
<1>1. CASE viewDidLoad
    BY <1>1 DEF viewDidLoad
<1>2. CASE HotSearchAnswer
    BY <1>2 DEF HotSearchAnswer
<1>3. ASSUME NEW k \in Names, Started(k) PROVE HistoryNext
    BY <1>3 DEF Started, activateSearchFunction, HistoryNext
<1>4. CASE TagTrap
    BY <1>4 DEF TagTrap
<1>5. CASE \E k \in Names, found \in BOOLEAN : SearchSuccess(k, found)
    BY <1>5 DEF SearchSuccess
<1>6. CASE \E k \in Names : SearchFailure(k)
    BY <1>6 DEF SearchFailure
<1>7. CASE ClearText
    BY <1>7 DEF ClearText
<1>8. CASE clearSearchHistory
    BY <1>8 DEF clearSearchHistory, HistoryNext
<1>9. CASE TapResult
    BY <1>9 DEF TapResult
<1>10. CASE GetShopAnswer
    BY <1>10 DEF GetShopAnswer
<1>11. CASE AddToCartOnEvent
    BY <1>11 DEF AddToCartOnEvent
<1>12. CASE RunBlock
    BY <1>12 DEF RunBlock
<1>13. CASE ConfirmAlert
    BY <1>13 DEF ConfirmAlert
<1>14. CASE FlushDefaults
    BY <1>14 DEF FlushDefaults, HistoryNext
<1>15. CASE Reopen
    BY <1>15 DEF Reopen, HistoryNext
<1>16. CASE UNCHANGED vars
    BY <1>16 DEF vars, screenVars
<1> QED BY <1>1, <1>2, <1>3, <1>4, <1>5, <1>6, <1>7, <1>8, <1>9, <1>10, <1>11, <1>12,
           <1>13, <1>14, <1>15, <1>16, StepCases

LEMMA SearchInitInv == Init => SearchIInv
<1> SUFFICES ASSUME Init PROVE SearchIInv
    OBVIOUS
<1>1. SearchTypeInv
    BY HistoryInitInv, EmptySeq
       DEF Init, SearchTypeInv, TypeOK, HistoryInv, Overlay, NoOverlay, Modal
<1>2. ~Searching /\ ~Dismissing
    BY DEF Init, Searching, Dismissing
<1>3. FreshInv /\ OneAtATime /\ BlankInv
    BY <1>2, EmptyQueue DEF Init, FreshInv, OneAtATime, BlankInv
<1>4. TagsInv /\ LatestAnswer /\ ResultsInv /\ HeldResults /\ ShownInView
    BY EmptyQueue DEF Init, TagsInv, LatestAnswer, ResultsInv, HeldResults, ShownInView
<1>5. StackOrder
    BY DEF Init, StackOrder, Ordered
<1> QED BY <1>1, <1>3, <1>4, <1>5 DEF SearchIInv

LEMMA SearchTypeNext ==
    ASSUME SearchTypeInv, [Next]_vars PROVE SearchTypeInv'
<1>0. HistoryTypeOK' /\ UniqueNames'
    BY StepKeepsHistory, HistoryNextInv DEF HistoryInv, SearchTypeInv, TypeOK
<1> USE <1>0 DEF SearchTypeInv, TypeOK, Running
<1>p. /\ \A b \in Block : Append(mainQ, b) \in Seq(Block)
      /\ \A b, c \in Block : mainQ \o <<b, c>> \in Seq(Block)
    BY AppendIs, PostTwo
<1>v. /\ \A s \in Seq(Views_), v \in Views_ : Append(s, v) \in Seq(Views_)
      /\ RemoveTags(stack) \in Seq(Views_)
    BY RemovedTags, AppendProperties
<1>1. CASE viewDidLoad
    BY <1>1 DEF viewDidLoad, retrieveHistories, HistoryTypeOK, Views_
<1>2. CASE HotSearchAnswer
    <2>1. \A h \in HotSearches : h \in Seq(Names) /\ ApplyTags(h, past) \in Block
        BY HotAssumption, ApplyTagsType
    <2> QED BY <1>2, <1>p, <2>1 DEF HotSearchAnswer
<1>3. ASSUME NEW k \in Names, Started(k) PROVE SearchTypeInv'
    <2>1. PushResultView(stack) \in Seq(Views_)
        <3>1. << >> \in Seq(Views_) /\ <<"tags">> \in Seq(Views_)
            BY EmptySeq DEF Views_
        <3>2. "result" \in Views_
            BY DEF Views_
        <3> QED BY <3>1, <3>2, <1>v DEF PushResultView
    <2>2. overlay' \in Overlay
        BY <1>3 DEF Started, activateSearchFunction, showLoadingView, FreshViews, Overlay
    <2>3. searches' \in [Names -> Nat]
        BY <1>3 DEF Started, activateSearchFunction
    <2> QED BY <1>3, <2>1, <2>2, <2>3 DEF Started, activateSearchFunction
<1>4. CASE TagTrap
    BY <1>4 DEF TagTrap
<1>5. ASSUME NEW k \in Names, NEW found \in BOOLEAN, SearchSuccess(k, found)
      PROVE  SearchTypeInv'
    <2>1. searches' \in [Names -> Nat]
        <3>1. /\ searches \in [Names -> Nat] /\ searches[k] > 0
              /\ searches' = [searches EXCEPT ![k] = searches[k] - 1]
            BY <1>5 DEF SearchSuccess, SearchTypeInv
        <3>2. searches[k] - 1 \in Nat
            BY <3>1
        <3> QED BY <3>1, <3>2, Zenon
    <2>2. stack' \in Seq(Views_)
        BY <1>5, <1>v DEF SearchSuccess, Views_
    <2>3. mainQ' \in Seq(Block)
        BY <1>5, <1>p, BlockTypes DEF SearchSuccess
    <2> QED BY <1>5, <2>1, <2>2, <2>3 DEF SearchSuccess
<1>6. ASSUME NEW k \in Names, SearchFailure(k) PROVE SearchTypeInv'
    <2>1. searches' \in [Names -> Nat]
        BY <1>6 DEF SearchFailure
    <2>2. mainQ' \in Seq(Block)
        BY <1>6, <1>p, BlockTypes DEF SearchFailure
    <2> QED BY <1>6, <2>1, <2>2 DEF SearchFailure
<1>7. CASE ClearText
    <2>0. [overlay EXCEPT !.subviews = {}] \in Overlay
        BY DEF Overlay
    <2>1. mainQ' \in Seq(Block) /\ stack' \in Seq(Views_) /\ overlay' \in Overlay
        BY <1>7, <1>p, <2>0, BlockTypes, EmptySeq DEF ClearText
    <2>2. resultShown' \in Names \cup {NoResult}
        BY <1>7 DEF ClearText
    <2>3. UNCHANGED <<screen, hot, past, tagsShown, searches, resultList, shopPending,
                      modal, crash>>
        BY <1>7 DEF ClearText
    <2> QED BY <2>1, <2>2, <2>3
<1>8. CASE clearSearchHistory
    BY <1>8, <1>p, ApplyTagsType, EmptySeq DEF clearSearchHistory
<1>9. CASE TapResult
    BY <1>9 DEF TapResult
<1>10. CASE GetShopAnswer
    BY <1>10, <1>p, BlockTypes DEF GetShopAnswer
<1>11. CASE AddToCartOnEvent
    BY <1>11 DEF AddToCartOnEvent
<1>12. CASE RunBlock
    <2>0. /\ mainQ # << >> /\ Head(mainQ) \in Block /\ Tail(mainQ) \in Seq(Block)
          /\ UNCHANGED <<screen, hot, hotPending, searches, resultList,
                         shopPending, overlapped, lateAnswer>>
        BY <1>12, TailIs DEF RunBlock
    <2>1. CASE RunDismiss
        BY <2>0, <2>1 DEF RunDismiss, DismissBlock, Overlay
    <2>2. CASE RunApplyTags
        BY <2>0, <2>2, BlockTypes DEF RunApplyTags
    <2>3. CASE RunApplyResults
        BY <2>0, <2>3, BlockTypes DEF RunApplyResults
    <2>4. CASE RunReconfigure
        <3>1. ReplaceAll(stack, "tags", "oldTags") \in Seq(Views_)
            BY DEF ReplaceAll, Views_
        <3>2. stack' \in Seq(Views_)
            BY <2>4, <3>1 DEF RunReconfigure, Views_
        <3>3. past' \in Seq(Names) /\ mainQ' \in Seq(Block)
            BY <2>0, <2>4, ApplyTagsType
               DEF RunReconfigure, retrieveHistories, HistoryTypeOK
        <3> QED BY <2>0, <2>4, <3>2, <3>3, EmptySeq DEF RunReconfigure
    <2>5. CASE RunAlert
        BY <2>0, <2>5 DEF RunAlert, Present, Modal
    <2> QED BY <1>12, <2>1, <2>2, <2>3, <2>4, <2>5 DEF RunBlock
<1>13. CASE ConfirmAlert
    BY <1>13 DEF ConfirmAlert, Modal
<1>14. CASE FlushDefaults
    BY <1>14 DEF FlushDefaults, screenVars
<1>15. CASE Reopen
    BY <1>15, EmptySeq DEF Reopen, Overlay, NoOverlay, Modal
<1>16. CASE UNCHANGED vars
    BY <1>16 DEF vars, screenVars
<1> QED BY <1>1, <1>2, <1>3, <1>4, <1>5, <1>6, <1>7, <1>8, <1>9, <1>10,
           <1>11, <1>12, <1>13, <1>14, <1>15, <1>16, StepCases

LEMMA FreshNext ==
    ASSUME SearchIInv, [Next]_vars PROVE FreshInv'
<1> USE DEF SearchIInv, FreshInv, Running
<1>1. CASE viewDidLoad
    BY <1>1 DEF viewDidLoad
<1>2. CASE Reopen
    BY <1>2 DEF Reopen, Searching
<1>3. CASE FlushDefaults
    BY <1>3 DEF FlushDefaults, screenVars, Searching
<1>4. CASE UNCHANGED vars
    BY <1>4 DEF vars, screenVars, Searching
<1>5. ASSUME ~viewDidLoad, ~Reopen, ~FlushDefaults, Next PROVE screen' # "new"
    <2>1. ASSUME NEW k \in Names, Started(k) PROVE screen' # "new"
        BY <2>1 DEF Started, activateSearchFunction
    <2>2. ASSUME NEW k \in Names, NEW found \in BOOLEAN, SearchSuccess(k, found)
          PROVE  screen' # "new"
        BY <2>2 DEF SearchSuccess
    <2>3. ASSUME NEW k \in Names, SearchFailure(k) PROVE screen' # "new"
        BY <2>3 DEF SearchFailure
    <2>4. CASE HotSearchAnswer \/ TagTrap \/ ClearText \/ GetShopAnswer \/ RunBlock
                   \/ ConfirmAlert
        BY <2>4 DEF HotSearchAnswer, TagTrap, ClearText, GetShopAnswer, RunBlock,
                    ConfirmAlert
    <2>5. CASE clearSearchHistory \/ TapResult \/ AddToCartOnEvent
        BY <2>5 DEF clearSearchHistory, TapResult, AddToCartOnEvent, Touchable
    <2> QED BY <1>5, <2>1, <2>2, <2>3, <2>4, <2>5, StepCases
<1> QED BY <1>1, <1>2, <1>3, <1>4, <1>5

-----------------------------------------------------------------------------
(* What each step does to the queue.                                       *)

\* The snapshots of the tags that are posted.
LEMMA TagBlocks ==
    ASSUME SearchTypeInv, NEW h \in HotSearches \cup {hot}, NEW p \in {past, << >>, defaults}
    PROVE  /\ ApplyTags(h, p) \in Block /\ ApplyTags(h, p) \in Tags
           /\ ApplyTags(h, p) \notin Dismisses \cup Results \cup Reconfigures
           /\ ApplyTags(h, p).sections = Sections(h, p)
<1>1. h \in Seq(Names) /\ p \in Seq(Names)
    BY HotAssumption, EmptySeq DEF SearchTypeInv, TypeOK, HistoryTypeOK
<1> QED BY <1>1, ApplyTagsType

\* An answer to a search posts a dismissal, and c or nothing after it.
LEMMA AnswerHolds ==
    ASSUME mainQ \in Seq(Block), NEW c \in Block, c \notin Dismisses,
           \/ mainQ' = Append(mainQ, DismissOverlay)
           \/ mainQ' = mainQ \o <<DismissOverlay, c>>,
           NEW K, DismissOverlay \notin K, c \notin K, NEW b
    PROVE  /\ Holds(mainQ', Dismisses)
           /\ ~Holds(mainQ, Dismisses) => OneAtMost(mainQ', Dismisses)
           /\ Holds(mainQ', K) <=> Holds(mainQ, K)
           /\ LastIs(mainQ, K, b) => LastIs(mainQ', K, b)
<1> DEFINE a == Append(mainQ, DismissOverlay)
<1>1. /\ a \in Seq(Block) /\ Holds(a, Dismisses)
      /\ ~Holds(mainQ, Dismisses) => OneAtMost(a, Dismisses)
      /\ Holds(a, K) <=> Holds(mainQ, K)
      /\ LastIs(mainQ, K, b) => LastIs(a, K, b)
    BY BlockTypes, Kinds, AppendIs, PostHolds, PostLast
<1>2. CASE mainQ' = a
    BY <1>1, <1>2
<1>3. CASE mainQ' = mainQ \o <<DismissOverlay, c>>
    <2> HIDE DEF a
    <2>1. mainQ' = Append(a, c)
        BY <1>3, BlockTypes, PostTwo DEF a
    <2>2. /\ Holds(Append(a, c), Dismisses)
          /\ OneAtMost(a, Dismisses) => OneAtMost(Append(a, c), Dismisses)
          /\ Holds(Append(a, c), K) <=> Holds(a, K)
          /\ LastIs(a, K, b) => LastIs(Append(a, c), K, b)
        BY <1>1, PostHolds, PostLast
    <2> QED BY <1>1, <2>1, <2>2
<1> QED BY <1>2, <1>3

\* The oldest block is taken; configureCollectionView also posts the tags.
LEMMA RunTakes ==
    ASSUME SearchTypeInv, RunBlock
    PROVE  /\ mainQ \in Seq(Block) /\ mainQ # << >>
           /\ Head(mainQ) \in Block /\ Tail(mainQ) \in Seq(Block)
           /\ RunReconfigure => mainQ' = Append(Tail(mainQ), ApplyTags(hot, past'))
                                    /\ past' = defaults
           /\ ~RunReconfigure => mainQ' = Tail(mainQ)
           /\ Head(mainQ) \in Dismisses <=> RunDismiss
           /\ Head(mainQ) \in Tags => RunApplyTags
           /\ Head(mainQ) \in Results => RunApplyResults
           /\ Head(mainQ) \in Reconfigures => RunReconfigure
<1>1. mainQ \in Seq(Block) /\ mainQ # << >>
    BY DEF SearchTypeInv, RunBlock
<1>2. Head(mainQ) \in Block /\ Tail(mainQ) \in Seq(Block)
    BY <1>1, TailIs
<1>3. /\ RunReconfigure => mainQ' = Append(Tail(mainQ), ApplyTags(hot, past'))
                               /\ past' = defaults
      /\ ~RunReconfigure => mainQ' = Tail(mainQ)
    BY DEF RunBlock, RunDismiss, RunApplyTags, RunApplyResults, RunReconfigure, RunAlert,
           retrieveHistories
<1> DEFINE o == Head(mainQ).op
<1>4. /\ o = "dismissLoadingView" <=> RunDismiss
      /\ o = "applyTags" => RunApplyTags
      /\ o = "applyResults" => RunApplyResults
      /\ o = "reconfigure" => RunReconfigure
    BY DEF RunBlock, RunDismiss, RunApplyTags, RunApplyResults, RunReconfigure, RunAlert
<1> QED BY <1>1, <1>2, <1>3, <1>4, Kinds

\* What running a block leaves in the queue.
LEMMA RunHolds ==
    ASSUME SearchTypeInv, RunBlock, NEW K \in {Dismisses, Results, Reconfigures}, NEW b
    PROVE  /\ Holds(mainQ', K) <=> Holds(Tail(mainQ), K)
           /\ OneAtMost(mainQ, K) => OneAtMost(mainQ', K)
           /\ LastIs(mainQ, K, b) => LastIs(mainQ', K, b)
           /\ CurrentIs(mainQ, b) => CurrentIs(mainQ', b)
<1> DEFINE t == Tail(mainQ)
<1>1. /\ OneAtMost(mainQ, K) => OneAtMost(t, K)
      /\ LastIs(mainQ, K, b) => LastIs(t, K, b)
      /\ CurrentIs(mainQ, b) => CurrentIs(t, b)
    BY RunTakes, TakeHolds, TakeLast, TakeCurrent
<1>2. CASE RunReconfigure
    <2> DEFINE c == ApplyTags(hot, past')
    <2>1. c \in Block /\ c \notin K /\ c \notin Results /\ mainQ' = Append(t, c)
        BY <1>2, RunTakes, TagBlocks
    <2>2. t \in Seq(Block)
        BY RunTakes
    <2> HIDE DEF t, c
    <2>3. /\ Holds(Append(t, c), K) <=> Holds(t, K)
          /\ OneAtMost(t, K) => OneAtMost(Append(t, c), K)
          /\ LastIs(t, K, b) => LastIs(Append(t, c), K, b)
          /\ CurrentIs(t, b) => CurrentIs(Append(t, c), b)
        BY <2>1, <2>2, PostHolds, PostLast, PostCurrent
    <2>4. /\ Holds(mainQ', K) <=> Holds(t, K)
          /\ OneAtMost(t, K) => OneAtMost(mainQ', K)
          /\ LastIs(t, K, b) => LastIs(mainQ', K, b)
          /\ CurrentIs(t, b) => CurrentIs(mainQ', b)
        BY <2>1, <2>3
    <2> QED BY <1>1, <2>4 DEF t
<1>3. CASE ~RunReconfigure
    BY <1>1, <1>3, RunTakes
<1> QED BY <1>2, <1>3

\* At most one block is posted, of another kind.
LEMMA PostOther ==
    ASSUME mainQ \in Seq(Block), NEW c \in Block,
           mainQ' = mainQ \/ mainQ' = Append(mainQ, c), NEW K, c \notin K, NEW b
    PROVE  /\ Holds(mainQ', K) <=> Holds(mainQ, K)
           /\ OneAtMost(mainQ, K) => OneAtMost(mainQ', K)
           /\ LastIs(mainQ, K, b) => LastIs(mainQ', K, b)
           /\ c \notin Results /\ CurrentIs(mainQ, b) => CurrentIs(mainQ', b)
<1>1. CASE mainQ' = mainQ
    BY <1>1
<1>2. CASE mainQ' = Append(mainQ, c)
    <2>1. /\ Holds(Append(mainQ, c), K) <=> Holds(mainQ, K)
          /\ OneAtMost(mainQ, K) => OneAtMost(Append(mainQ, c), K)
          /\ LastIs(mainQ, K, b) => LastIs(Append(mainQ, c), K, b)
          /\ c \notin Results /\ CurrentIs(mainQ, b) => CurrentIs(Append(mainQ, c), b)
        BY PostHolds, PostLast, PostCurrent
    <2> QED BY <1>2, <2>1
<1> QED BY <1>1, <1>2

\* The steps that post at most one block, and which.
Quiet ==
    \/ viewDidLoad \/ HotSearchAnswer \/ TagTrap \/ ClearText \/ clearSearchHistory
    \/ TapResult \/ GetShopAnswer \/ AddToCartOnEvent \/ ConfirmAlert
    \/ FlushDefaults \/ UNCHANGED vars

LEMMA QuietPosts ==
    ASSUME SearchTypeInv, Quiet
    PROVE  /\ \E c \in Block : /\ mainQ' = mainQ \/ mainQ' = Append(mainQ, c)
                               /\ c \notin Dismisses \cup Results
                               /\ c \in Reconfigures => ClearText
           /\ UNCHANGED <<searches, resultList, overlapped>>
           /\ overlay'.container = overlay.container
           /\ crash' \notin {"dismiss"} \/ UNCHANGED crash
           /\ UNCHANGED resultShown \/ resultShown' = NoResult
<1> USE DEF Quiet
<1>a. /\ ShowAlert \in Block
      /\ ShowAlert \notin Dismisses \cup Results \cup Reconfigures
      /\ Reconfigure \in Block /\ Reconfigure \notin Dismisses \cup Results
    BY BlockTypes, Kinds
<1>1. CASE viewDidLoad
    BY <1>1, <1>a DEF viewDidLoad
<1>2. CASE HotSearchAnswer
    <2>1. \A h \in HotSearches :
              /\ ApplyTags(h, past) \in Block
              /\ ApplyTags(h, past) \notin Dismisses \cup Results \cup Reconfigures
        BY TagBlocks
    <2>2. CASE mainQ' = mainQ
        BY <1>2, <1>a, <2>2 DEF HotSearchAnswer
    <2>3. ASSUME NEW h \in HotSearches, mainQ' = Append(mainQ, ApplyTags(h, past))
          PROVE  \E c \in Block : /\ mainQ' = mainQ \/ mainQ' = Append(mainQ, c)
                                  /\ c \notin Dismisses \cup Results
                                  /\ c \in Reconfigures => ClearText
        BY <2>1, <2>3
    <2> QED BY <1>2, <2>2, <2>3 DEF HotSearchAnswer
<1>3. CASE TagTrap
    BY <1>3, <1>a DEF TagTrap
<1>4. CASE ClearText
    <2>1. overlay'.container = overlay.container
        BY <1>4 DEF ClearText, SearchTypeInv, TypeOK, Overlay
    <2>2. mainQ' = mainQ \/ mainQ' = Append(mainQ, Reconfigure)
        BY <1>4 DEF ClearText
    <2>3. /\ UNCHANGED <<searches, resultList, overlapped, crash>>
          /\ UNCHANGED resultShown \/ resultShown' = NoResult
        BY <1>4 DEF ClearText
    <2> QED BY <1>4, <1>a, <2>1, <2>2, <2>3
<1>5. CASE clearSearchHistory
    <2>1. /\ ApplyTags(hot, << >>) \in Block
          /\ ApplyTags(hot, << >>) \notin Dismisses \cup Results \cup Reconfigures
        BY TagBlocks
    <2> QED BY <1>5, <2>1 DEF clearSearchHistory
<1>6. CASE TapResult
    BY <1>6, <1>a DEF TapResult
<1>7. CASE GetShopAnswer
    BY <1>7, <1>a DEF GetShopAnswer
<1>8. CASE AddToCartOnEvent
    BY <1>8, <1>a DEF AddToCartOnEvent
<1>9. CASE ConfirmAlert
    BY <1>9, <1>a DEF ConfirmAlert
<1>10. CASE FlushDefaults
    BY <1>10, <1>a DEF FlushDefaults, screenVars
<1>11. CASE UNCHANGED vars
    BY <1>11, <1>a DEF vars, screenVars
<1> QED BY <1>1, <1>2, <1>3, <1>4, <1>5, <1>6, <1>7, <1>8, <1>9, <1>10, <1>11

\* The steps by what they do to the queue.
LEMMA QueueCases ==
    ASSUME SearchTypeInv, [Next]_vars
    PROVE  \/ Quiet \/ RunBlock \/ Reopen
           \/ (\E k \in Names : Started(k))
           \/ (\E k \in Names, found \in BOOLEAN : SearchSuccess(k, found))
           \/ (\E k \in Names : SearchFailure(k))
BY StepCases DEF Quiet

-----------------------------------------------------------------------------
(* Each part of the invariant is kept.                                     *)

LEMMA OneAtATimeNext ==
    ASSUME SearchIInv, [Next]_vars PROVE OneAtATime'
<1>0. /\ SearchTypeInv /\ SearchTypeInv' /\ OneAtATime
      /\ mainQ \in Seq(Block) /\ searches \in [Names -> Nat]
    BY SearchTypeNext DEF SearchIInv, SearchTypeInv, TypeOK
<1>1. CASE Quiet
    <2>1. PICK c \in Block : /\ mainQ' = mainQ \/ mainQ' = Append(mainQ, c)
                             /\ c \notin Dismisses
        BY <1>0, <1>1, QuietPosts
    <2>2. /\ Holds(mainQ', Dismisses) <=> Holds(mainQ, Dismisses)
          /\ OneAtMost(mainQ, Dismisses) => OneAtMost(mainQ', Dismisses)
        BY <1>0, <2>1, PostOther
    <2> QED BY <1>0, <1>1, <2>2, QuietPosts DEF OneAtATime, Searching
<1>2. ASSUME NEW k \in Names, Started(k) PROVE OneAtATime'
    <2> SUFFICES ASSUME ~overlapped' PROVE OneAtATime'
        BY DEF OneAtATime
    <2>1. ~overlapped /\ ~Searching /\ ~Dismissing /\ UNCHANGED <<mainQ, crash>>
        BY <1>2 DEF Started, activateSearchFunction
    <2>2. ~Holds(mainQ, Dismisses)
        BY <1>0, <2>1, Kinds DEF Dismissing, Holds
    <2>3. \A n \in Names : searches[n] = 0
        BY <1>0, <2>1 DEF Searching
    <2>4. searches' = [searches EXCEPT ![k] = @ + 1]
        BY <1>2 DEF Started, activateSearchFunction
    <2>5. \A n \in Names : searches'[n] = IF n = k THEN 1 ELSE 0
        BY <1>0, <2>3, <2>4
    <2>6. overlay'.container # NoView
        BY <1>2, NoViewAssumption
           DEF Started, activateSearchFunction, showLoadingView, FreshViews
    <2>7. ~Holds(mainQ', Dismisses) /\ OneAtMost(mainQ', Dismisses) /\ crash' # "dismiss"
        BY <1>0, <2>1, <2>2 DEF OneAtATime
    <2> QED BY <2>5, <2>6, <2>7 DEF OneAtATime
\* What was asked becomes a dismissal.
<1>s. ASSUME NEW k \in Names, searches[k] > 0,
             searches' = [searches EXCEPT ![k] = @ - 1],
             UNCHANGED <<overlay, overlapped, crash>>,
             ~Holds(mainQ, Dismisses) => OneAtMost(mainQ', Dismisses)
      PROVE  OneAtATime'
    <2> SUFFICES ASSUME ~overlapped' PROVE OneAtATime'
        BY DEF OneAtATime
    <2>1. ~overlapped /\ Searching
        BY <1>s DEF Searching
    <2>2. ~Holds(mainQ, Dismisses) /\ overlay.container # NoView /\ crash # "dismiss"
        BY <1>0, <2>1 DEF OneAtATime
    <2>3. \A n \in Names : searches'[n] = 0
        BY <1>0, <1>s, <2>1 DEF OneAtATime
    <2> QED BY <1>s, <2>2, <2>3 DEF OneAtATime, Searching
<1>3. ASSUME NEW k \in Names, NEW found \in BOOLEAN, SearchSuccess(k, found)
      PROVE  OneAtATime'
    <2>1. \/ mainQ' = Append(mainQ, DismissOverlay)
          \/ mainQ' = mainQ \o <<DismissOverlay, ApplyResults(k)>>
        BY <1>3 DEF SearchSuccess
    <2>2. ~Holds(mainQ, Dismisses) => OneAtMost(mainQ', Dismisses)
        BY <1>0, <2>1, BlockTypes, Kinds, AnswerHolds
    <2> QED BY <1>3, <1>s, <2>2 DEF SearchSuccess
<1>4. ASSUME NEW k \in Names, SearchFailure(k) PROVE OneAtATime'
    <2>1. mainQ' = mainQ \o <<DismissOverlay, ShowAlert>>
        BY <1>4 DEF SearchFailure
    <2>2. ~Holds(mainQ, Dismisses) => OneAtMost(mainQ', Dismisses)
        BY <1>0, <2>1, BlockTypes, Kinds, AnswerHolds
    <2>3. searches[k] > 0
        BY <1>0, <1>4 DEF SearchFailure, SearchTypeInv, TypeOK
    <2> QED BY <1>4, <1>s, <2>2, <2>3 DEF SearchFailure
<1>5. CASE RunBlock
    <2>0. UNCHANGED <<searches, overlapped>>
        BY <1>5 DEF RunBlock
    <2>1. /\ Holds(mainQ', Dismisses) <=> Holds(Tail(mainQ), Dismisses)
          /\ OneAtMost(mainQ, Dismisses) => OneAtMost(mainQ', Dismisses)
        BY <1>0, <1>5, RunHolds
    <2>2. CASE RunDismiss
        <3> SUFFICES ASSUME ~overlapped' PROVE OneAtATime'
            BY DEF OneAtATime
        <3>1. Head(mainQ) \in Dismisses /\ Holds(mainQ, Dismisses)
            BY <1>0, <1>5, <2>2, RunTakes, TakeHolds
        <3>2. /\ OneAtMost(mainQ, Dismisses) /\ ~Searching
              /\ overlay.container # NoView /\ crash # "dismiss"
            BY <1>0, <2>0, <3>1 DEF OneAtATime
        <3>3. ~Holds(Tail(mainQ), Dismisses)
            BY <1>0, <1>5, <3>1, <3>2, RunTakes, TakeHolds
        <3>4. ~Searching' /\ crash' # "dismiss"
            BY <2>0, <2>2, <3>2 DEF RunDismiss, CanDismiss, Searching
        <3> QED BY <2>1, <3>2, <3>3, <3>4 DEF OneAtATime, Searching
    <2>3. CASE ~RunDismiss
        <3>1. UNCHANGED <<overlay, crash>>
            BY <1>5, <2>3 DEF RunBlock, RunApplyTags, RunApplyResults,
                               RunReconfigure, RunAlert
        <3>2. Holds(Tail(mainQ), Dismisses) => Holds(mainQ, Dismisses)
            BY <1>0, <1>5, RunTakes, TakeHolds
        <3> QED BY <1>0, <2>0, <2>1, <3>1, <3>2 DEF OneAtATime, Searching
    <2> QED BY <2>2, <2>3
<1>6. CASE Reopen
    BY <1>6, EmptyQueue DEF Reopen, OneAtATime, Searching
<1> QED BY <1>0, <1>1, <1>2, <1>3, <1>4, <1>5, <1>6, QueueCases

\* The steps that leave the texts and what is displayed of them alone.
LEMMA TagsKept ==
    ASSUME TagsInv, UNCHANGED <<hot, past, tagsShown>>,
           UNCHANGED crash \/ crash' # "tag",
           Holds(mainQ', Tags) <=> Holds(mainQ, Tags),
           LastIs(mainQ, Tags, ApplyTags(hot, past)) =>
               LastIs(mainQ', Tags, ApplyTags(hot, past))
    PROVE  TagsInv'
<1>1. ApplyTags(hot, past)' = ApplyTags(hot, past)
    BY DEF ApplyTags, Sections, Section
<1>2. Sections(hot, past)' = Sections(hot, past)
    BY DEF Sections, Section
<1> QED BY <1>1, <1>2 DEF TagsInv

\* The steps that post the tags.
LEMMA TagsPosted ==
    ASSUME mainQ \in Seq(Block), NEW q \in Seq(Block),
           NEW c \in Block, c \in Tags, mainQ' = Append(q, c),
           c = ApplyTags(hot', past'), crash' # "tag"
    PROVE  TagsInv'
<1>1. Holds(Append(q, c), Tags) /\ LastIs(Append(q, c), Tags, c)
    BY PostHolds, PostLast
<1>2. Holds(mainQ', Tags) /\ LastIs(mainQ', Tags, c)
    BY <1>1
<1> QED BY <1>2 DEF TagsInv

LEMMA TagsNext ==
    ASSUME SearchIInv, [Next]_vars PROVE TagsInv'
<1>0. /\ SearchTypeInv /\ TagsInv /\ FreshInv /\ mainQ \in Seq(Block)
      /\ hot \in Seq(Names) /\ past \in Seq(Names)
    BY DEF SearchIInv, SearchTypeInv, TypeOK
<1>a. /\ ShowAlert \in Block /\ Reconfigure \in Block
      /\ ShowAlert \notin Tags /\ Reconfigure \notin Tags
      /\ DismissOverlay \notin Tags /\ \A k \in Names : ApplyResults(k) \notin Tags
    BY BlockTypes, Kinds
\* At most one block is posted, and it is not of the tags.
<1>q. ASSUME NEW c \in Block, c \notin Tags,
             mainQ' = mainQ \/ mainQ' = Append(mainQ, c),
             UNCHANGED <<hot, past, tagsShown>>, UNCHANGED crash \/ crash' # "tag"
      PROVE  TagsInv'
    <2>1. /\ Holds(mainQ', Tags) <=> Holds(mainQ, Tags)
          /\ LastIs(mainQ, Tags, ApplyTags(hot, past)) =>
                 LastIs(mainQ', Tags, ApplyTags(hot, past))
        BY <1>0, <1>q, PostOther
    <2> QED BY <1>0, <1>q, <2>1, TagsKept
<1>1. CASE viewDidLoad
    <2>1. mainQ = << >> /\ tagsShown = << >> /\ crash = "no"
        BY <1>0, <1>1 DEF viewDidLoad, FreshInv
    <2>2. mainQ' = << >> /\ tagsShown' = << >> /\ crash' = "no"
        BY <1>1, <2>1 DEF viewDidLoad
    <2> QED BY <2>2, EmptyQueue DEF TagsInv
<1>2. CASE HotSearchAnswer
    <2>1. CASE UNCHANGED <<hot, mainQ>>
        BY <1>2, <1>a, <1>q, <2>1 DEF HotSearchAnswer
    <2>2. ASSUME NEW h \in HotSearches, hot' = h, mainQ' = Append(mainQ, ApplyTags(h, past))
          PROVE  TagsInv'
        <3>1. ApplyTags(h, past) \in Block /\ ApplyTags(h, past) \in Tags
            BY <1>0, TagBlocks
        <3>2. past' = past /\ crash' = "no"
            BY <1>2 DEF HotSearchAnswer, Running
        <3>3. ApplyTags(hot', past') = ApplyTags(h, past)
            BY <2>2, <3>2
        <3> QED BY <1>0, <2>2, <3>1, <3>2, <3>3, TagsPosted
    <2> QED BY <1>2, <2>1, <2>2 DEF HotSearchAnswer
<1>3. ASSUME NEW k \in Names, Started(k) PROVE TagsInv'
    BY <1>3, <1>a, <1>q DEF Started, activateSearchFunction
\* A tag of which the texts have nothing: there are no popular searches, or
\* the display is not up to date.
<1>4. CASE TagTrap
    <2>1. ASSUME ~Holds(mainQ, Tags), hot # << >> PROVE FALSE
        <3>1. PICK s \in 1 .. 2 :
                  \E i \in 1 .. Cardinality(Names) :
                      /\ s \in DOMAIN tagsShown /\ i \in DOMAIN tagsShown[s]
                      /\ i \notin DOMAIN <<hot, past>>[s]
            BY <1>4 DEF TagTrap
        <3>2. tagsShown = Sections(hot, past)
            BY <1>0, <2>1, <3>1 DEF TagsInv
        <3>3. tagsShown[s] = <<hot, past>>[s]
            BY <1>0, <2>1, <3>1, <3>2, SectionsCases
        <3> QED BY <3>1, <3>3
    <2>2. /\ UNCHANGED <<hot, past, tagsShown, mainQ>> /\ crash' = "tag"
        BY <1>4 DEF TagTrap
    <2>3. ApplyTags(hot, past)' = ApplyTags(hot, past)
              /\ Sections(hot, past)' = Sections(hot, past)
        BY <2>2 DEF ApplyTags, Sections, Section
    <2> QED BY <1>0, <2>1, <2>2, <2>3 DEF TagsInv
<1>5. ASSUME NEW k \in Names, NEW found \in BOOLEAN, SearchSuccess(k, found)
      PROVE  TagsInv'
    <2>1. \/ mainQ' = Append(mainQ, DismissOverlay)
          \/ mainQ' = mainQ \o <<DismissOverlay, ApplyResults(k)>>
        BY <1>5 DEF SearchSuccess
    <2>2. /\ Holds(mainQ', Tags) <=> Holds(mainQ, Tags)
          /\ LastIs(mainQ, Tags, ApplyTags(hot, past)) =>
                 LastIs(mainQ', Tags, ApplyTags(hot, past))
        BY <1>0, <1>a, <2>1, BlockTypes, Kinds, AnswerHolds
    <2>3. UNCHANGED <<hot, past, tagsShown, crash>>
        BY <1>5 DEF SearchSuccess
    <2> QED BY <1>0, <2>2, <2>3, TagsKept
<1>6. ASSUME NEW k \in Names, SearchFailure(k) PROVE TagsInv'
    <2>1. mainQ' = mainQ \o <<DismissOverlay, ShowAlert>>
        BY <1>6 DEF SearchFailure
    <2>2. /\ Holds(mainQ', Tags) <=> Holds(mainQ, Tags)
          /\ LastIs(mainQ, Tags, ApplyTags(hot, past)) =>
                 LastIs(mainQ', Tags, ApplyTags(hot, past))
        BY <1>0, <1>a, <2>1, BlockTypes, Kinds, AnswerHolds
    <2>3. UNCHANGED <<hot, past, tagsShown, crash>>
        BY <1>6 DEF SearchFailure
    <2> QED BY <1>0, <2>2, <2>3, TagsKept
<1>7. CASE ClearText
    <2>1. mainQ' = mainQ \/ mainQ' = Append(mainQ, Reconfigure)
        BY <1>7 DEF ClearText
    <2>2. UNCHANGED <<hot, past, tagsShown, crash>>
        BY <1>7 DEF ClearText
    <2> QED BY <1>a, <1>q, <2>1, <2>2
<1>8. CASE clearSearchHistory
    <2>1. ApplyTags(hot, << >>) \in Block /\ ApplyTags(hot, << >>) \in Tags
        BY <1>0, TagBlocks
    <2>2. /\ hot' = hot /\ past' = << >> /\ crash' = "no"
          /\ mainQ' = Append(mainQ, ApplyTags(hot, << >>))
        BY <1>8 DEF clearSearchHistory, Touchable, Running
    <2>3. ApplyTags(hot', past') = ApplyTags(hot, << >>)
        BY <2>2
    <2> QED BY <1>0, <2>1, <2>2, <2>3, TagsPosted
<1>9. CASE TapResult
    BY <1>9, <1>a, <1>q DEF TapResult
<1>10. CASE GetShopAnswer
    BY <1>10, <1>a, <1>q DEF GetShopAnswer
<1>11. CASE AddToCartOnEvent
    BY <1>11, <1>a, <1>q DEF AddToCartOnEvent
<1>12. CASE RunBlock
    <2> DEFINE t == Tail(mainQ)
               b == ApplyTags(hot, past)
    <2>0. /\ mainQ # << >> /\ t \in Seq(Block) /\ crash = "no" /\ UNCHANGED hot
          /\ LastIs(mainQ, Tags, b)
        BY <1>0, <1>12, RunTakes DEF RunBlock, Running, TagsInv
    <2>1. /\ LastIs(t, Tags, b)
          /\ Head(mainQ) \in Tags /\ ~Holds(t, Tags) => Head(mainQ) = b
          /\ Head(mainQ) \notin Tags => (Holds(t, Tags) <=> Holds(mainQ, Tags))
        BY <1>0, <2>0, TakeLast, TakeHolds
    <2>2. CASE RunReconfigure
        <3>1. mainQ' = Append(t, ApplyTags(hot, past')) /\ past' = defaults
            BY <1>0, <1>12, <2>2, RunTakes
        <3>2. ApplyTags(hot, past') \in Block /\ ApplyTags(hot, past') \in Tags
            BY <1>0, <3>1, TagBlocks
        <3>3. ApplyTags(hot, past') = ApplyTags(hot', past') /\ crash' # "tag"
            BY <2>0, <2>2 DEF RunReconfigure
        <3> HIDE DEF t, b
        <3> QED BY <1>0, <2>0, <3>1, <3>2, <3>3, TagsPosted
    <2>3. CASE RunApplyTags
        <3>1. UNCHANGED <<past, crash>> /\ tagsShown' = Head(mainQ).sections
                  /\ Head(mainQ).op = "applyTags" /\ mainQ' = t
            BY <2>3 DEF RunApplyTags
        <3>2. Head(mainQ) \in Tags
            BY <1>0, <1>12, <3>1, RunTakes, Kinds
        <3>3. b.sections = Sections(hot, past)
            BY DEF ApplyTags
        <3>4. ~Holds(t, Tags) => tagsShown' = Sections(hot, past)
            BY <2>1, <3>1, <3>2, <3>3
        <3>5. ApplyTags(hot, past)' = b /\ Sections(hot, past)' = Sections(hot, past)
            BY <2>0, <3>1 DEF ApplyTags, Sections, Section
        <3> HIDE DEF t, b
        <3> QED BY <2>0, <2>1, <3>1, <3>4, <3>5 DEF TagsInv
    <2>4. CASE RunDismiss \/ RunApplyResults \/ RunAlert
        <3>1. /\ UNCHANGED <<past, tagsShown>> /\ mainQ' = t
              /\ crash' # "tag"
            BY <2>0, <2>4 DEF RunDismiss, RunApplyResults, RunAlert
        <3>2. Head(mainQ) \notin Tags
            BY <1>0, <1>12, <2>4, RunTakes, Kinds
               DEF RunDismiss, RunApplyResults, RunAlert
        <3> HIDE DEF t, b
        <3> QED BY <1>0, <2>0, <2>1, <3>1, <3>2, TagsKept DEF b
    <2> QED BY <1>12, <2>2, <2>3, <2>4 DEF RunBlock
<1>13. CASE ConfirmAlert
    BY <1>13, <1>a, <1>q DEF ConfirmAlert
<1>14. CASE FlushDefaults
    BY <1>14, <1>a, <1>q DEF FlushDefaults, screenVars
<1>15. CASE Reopen
    BY <1>15, EmptyQueue DEF Reopen, TagsInv
<1>16. CASE UNCHANGED vars
    BY <1>16, <1>a, <1>q DEF vars, screenVars
<1> QED BY <1>0, <1>1, <1>2, <1>3, <1>4, <1>5, <1>6, <1>7, <1>8, <1>9, <1>10,
           <1>11, <1>12, <1>13, <1>14, <1>15, <1>16, StepCases

\* The snapshots posted earlier are outdated by the dismissal behind them.
LEMMA AnswerCurrent ==
    ASSUME mainQ \in Seq(Block), NEW c \in Block, NEW b, c \notin Results \/ c = b,
           \/ mainQ' = Append(mainQ, DismissOverlay)
           \/ mainQ' = mainQ \o <<DismissOverlay, c>>
    PROVE  CurrentIs(mainQ', b)
<1> DEFINE a == Append(mainQ, DismissOverlay)
<1>1. a \in Seq(Block) /\ CurrentIs(a, b)
    BY BlockTypes, Kinds, AppendIs, PostCurrent
<1>2. CASE mainQ' = a
    BY <1>1, <1>2
<1>3. CASE mainQ' = mainQ \o <<DismissOverlay, c>>
    <2> HIDE DEF a
    <2>1. mainQ' = Append(a, c)
        BY <1>3, BlockTypes, PostTwo DEF a
    <2>2. CurrentIs(Append(a, c), b)
        BY <1>1, PostCurrent
    <2> QED BY <2>1, <2>2
<1> QED BY <1>2, <1>3

LEMMA LatestNext ==
    ASSUME SearchIInv, [Next]_vars PROVE LatestAnswer'
<1> DEFINE b == ApplyResults(resultList)
<1>0. /\ SearchTypeInv /\ mainQ \in Seq(Block) /\ CurrentIs(mainQ, b)
    BY DEF SearchIInv, SearchTypeInv, LatestAnswer
<1>s. ASSUME resultList' = resultList, CurrentIs(mainQ', b) PROVE LatestAnswer'
    BY <1>s DEF LatestAnswer
<1> HIDE DEF b
<1>1. CASE Quiet
    <2>1. PICK c \in Block : /\ mainQ' = mainQ \/ mainQ' = Append(mainQ, c)
                             /\ c \notin Results
        BY <1>0, <1>1, QuietPosts
    <2>2. resultList' = resultList
        BY <1>0, <1>1, QuietPosts
    <2>3. CurrentIs(mainQ', b)
        BY <1>0, <2>1, PostOther
    <2> QED BY <1>s, <2>2, <2>3
<1>2. ASSUME NEW k \in Names, Started(k) PROVE LatestAnswer'
    <2>1. UNCHANGED <<mainQ, resultList>>
        BY <1>2 DEF Started, activateSearchFunction
    <2> QED BY <1>0, <1>s, <2>1
<1>3. ASSUME NEW k \in Names, NEW found \in BOOLEAN, SearchSuccess(k, found)
      PROVE  LatestAnswer'
    <2>1. CASE found
        <3>1. mainQ' = mainQ \o <<DismissOverlay, ApplyResults(k)>> /\ resultList' = k
            BY <1>3, <2>1 DEF SearchSuccess
        <3>2. CurrentIs(mainQ', ApplyResults(k))
            BY <1>0, <3>1, BlockTypes, AnswerCurrent
        <3> QED BY <3>1, <3>2 DEF LatestAnswer
    <2>2. CASE ~found
        <3>1. mainQ' = Append(mainQ, DismissOverlay)
            BY <1>3, <2>2 DEF SearchSuccess
        <3>2. ShowAlert \in Block /\ ShowAlert \notin Results
            BY BlockTypes, Kinds
        <3>3. CurrentIs(mainQ', ApplyResults(resultList'))
            BY <1>0, <3>1, <3>2, AnswerCurrent
        <3> QED BY <3>3 DEF LatestAnswer
    <2> QED BY <2>1, <2>2
<1>4. ASSUME NEW k \in Names, SearchFailure(k) PROVE LatestAnswer'
    <2>1. mainQ' = mainQ \o <<DismissOverlay, ShowAlert>>
        BY <1>4 DEF SearchFailure
    <2>2. ShowAlert \in Block /\ ShowAlert \notin Results
        BY BlockTypes, Kinds
    <2>3. CurrentIs(mainQ', ApplyResults(resultList'))
        BY <1>0, <2>1, <2>2, AnswerCurrent
    <2> QED BY <2>3 DEF LatestAnswer
<1>5. CASE RunBlock
    <2>1. CurrentIs(mainQ', b)
        BY <1>0, <1>5, RunHolds
    <2>2. resultList' = resultList
        BY <1>5 DEF RunBlock
    <2> QED BY <1>s, <2>1, <2>2
<1>6. CASE Reopen
    BY <1>6, EmptyQueue DEF Reopen, LatestAnswer
<1> QED BY <1>0, <1>1, <1>2, <1>3, <1>4, <1>5, <1>6, QueueCases

-----------------------------------------------------------------------------
(* What each step does to the views.                                       *)

LEMMA Pushed ==
    ASSUME NEW s, NEW r, r = PushResultView(s)
    PROVE  /\ Contains(r, "result") /\ ~Contains(r, "empty") /\ Ordered(r)
           /\ r # << >>
<1> DEFINE p == IF Contains(s, "tags") THEN <<"tags">> ELSE << >>
<1>1. p \in Seq(Views_) /\ r = Append(p, "result") /\ \A i \in 1 .. Len(p) : p[i] = "tags"
    <2>1. << >> \in Seq(Views_) /\ <<"tags">> \in Seq(Views_)
        BY EmptySeq DEF Views_
    <2>2. \A i \in 1 .. Len(<< >>) : (<< >>)[i] = "tags"
        OBVIOUS
    <2>3. \A i \in 1 .. Len(<<"tags">>) : <<"tags">>[i] = "tags"
        OBVIOUS
    <2>4. r = Append(p, "result")
        BY DEF PushResultView
    <2>5. p = <<"tags">> \/ p = << >>
        OBVIOUS
    <2> HIDE DEF p
    <2> QED BY <2>1, <2>2, <2>3, <2>4, <2>5
<1> HIDE DEF p
<1>2. /\ Len(p) \in Nat /\ DOMAIN r = 1 .. Len(p) + 1 /\ Len(r) = Len(p) + 1
      /\ r[Len(p) + 1] = "result" /\ \A i \in 1 .. Len(p) : r[i] = "tags"
    BY <1>1
<1>3. r # << >> /\ Contains(r, "result")
    BY <1>1, <1>2 DEF Contains
<1>4. ~Contains(r, "empty") /\ Ordered(r)
    BY <1>2 DEF Contains, Ordered
<1> QED BY <1>3, <1>4

LEMMA EmptyStateLaid ==
    ASSUME NEW s \in Seq(Views_), Ordered(s), NEW r, r = Append(s, "empty")
    PROVE  /\ Contains(r, "result") <=> Contains(s, "result")
           /\ Contains(r, "empty") /\ Ordered(r) /\ r # << >>
<1>1. /\ Len(s) \in Nat /\ DOMAIN s = 1 .. Len(s) /\ DOMAIN r = 1 .. Len(s) + 1
      /\ r[Len(s) + 1] = "empty" /\ \A i \in DOMAIN s : r[i] = s[i]
    OBVIOUS
<1>2. Contains(r, "empty") /\ r # << >>
    BY <1>1 DEF Contains
<1>3. Contains(r, "result") <=> Contains(s, "result")
    BY <1>1 DEF Contains
<1>4. Ordered(r)
    BY <1>1 DEF Ordered
<1> QED BY <1>2, <1>3, <1>4

LEMMA TagsBack ==
    ASSUME NEW s \in Seq(Views_), NEW r,
           r = Append(ReplaceAll(s, "tags", "oldTags"), "tags")
    PROVE  /\ Contains(r, "result") <=> Contains(s, "result")
           /\ Contains(r, "empty") <=> Contains(s, "empty")
           /\ Ordered(s) => Ordered(r)
           /\ r # << >>
<1> DEFINE o == ReplaceAll(s, "tags", "oldTags")
<1>1. /\ Len(s) \in Nat /\ DOMAIN s = 1 .. Len(s) /\ o \in Seq(Views_)
      /\ DOMAIN o = DOMAIN s /\ Len(o) = Len(s)
      /\ \A i \in DOMAIN s : o[i] = IF s[i] = "tags" THEN "oldTags" ELSE s[i]
    BY DEF ReplaceAll, Views_
<1>2. r = Append(o, "tags")
    OBVIOUS
<1> HIDE DEF o
<1>3. /\ DOMAIN r = 1 .. Len(s) + 1 /\ r[Len(s) + 1] = "tags"
      /\ \A i \in DOMAIN s : r[i] = IF s[i] = "tags" THEN "oldTags" ELSE s[i]
    BY <1>1, <1>2
<1>4. r # << >>
    BY <1>1, <1>3
<1>5. Contains(r, "result") <=> Contains(s, "result")
    BY <1>1, <1>3 DEF Contains
<1>6. Contains(r, "empty") <=> Contains(s, "empty")
    BY <1>1, <1>3 DEF Contains
<1>7. Ordered(s) => Ordered(r)
    BY <1>1, <1>3 DEF Ordered
<1> QED BY <1>4, <1>5, <1>6, <1>7

LEMMA NoViews == ~Contains(<< >>, "result") /\ ~Contains(<< >>, "empty") /\ Ordered(<< >>)
BY DEF Contains, Ordered

\* The steps that post at most one block lay no result view.
LEMMA QuietViews ==
    ASSUME SearchTypeInv, Quiet, StackOrder
    PROVE  /\ StackOrder' /\ (ResultInView' => ResultInView)
           /\ \/ UNCHANGED stack
              \/ viewDidLoad /\ stack' # << >>
              \/ ClearText /\ stack' = << >> /\ resultShown' = NoResult
<1> USE DEF Quiet
<1>s. ASSUME UNCHANGED stack PROVE StackOrder' /\ (ResultInView' => ResultInView)
    BY <1>s DEF StackOrder, ResultInView
<1>1. CASE viewDidLoad
    <2>1. stack' = <<"tags">>
        BY <1>1 DEF viewDidLoad
    <2>2. ~Contains(stack', "result") /\ Ordered(stack') /\ stack' # << >>
        BY <2>1 DEF Contains, Ordered
    <2> QED BY <1>1, <2>2 DEF StackOrder, ResultInView
<1>2. CASE ClearText
    <2>1. stack' = << >> /\ resultShown' = NoResult
        BY <1>2 DEF ClearText
    <2> QED BY <1>2, <2>1, NoViews DEF StackOrder, ResultInView
<1>3. CASE HotSearchAnswer \/ TagTrap \/ clearSearchHistory \/ TapResult
              \/ GetShopAnswer \/ AddToCartOnEvent \/ ConfirmAlert
    BY <1>s, <1>3 DEF HotSearchAnswer, TagTrap, clearSearchHistory, TapResult,
           GetShopAnswer, AddToCartOnEvent, ConfirmAlert
<1>4. CASE FlushDefaults \/ UNCHANGED vars
    BY <1>s, <1>4 DEF FlushDefaults, vars, screenVars
<1> QED BY <1>1, <1>2, <1>3, <1>4

LEMMA SuccessViews ==
    ASSUME SearchTypeInv, StackOrder, NEW k \in Names, NEW found \in BOOLEAN,
           SearchSuccess(k, found)
    PROVE  /\ StackOrder'
           /\ Contains(stack', "result") <=> Contains(stack, "result")
           /\ found => (ResultInView' => ResultInView)
           /\ ~found => ~ResultInView' /\ stack' # << >>
<1> DEFINE r == RemoveTags(stack)
<1>0. stack \in Seq(Views_) /\ Ordered(stack)
    BY DEF SearchTypeInv, TypeOK, StackOrder
<1>1. /\ r \in Seq(Views_) /\ Ordered(r)
      /\ Contains(r, "result") <=> Contains(stack, "result")
      /\ Contains(r, "empty") <=> Contains(stack, "empty")
    BY <1>0, RemovedTags DEF Views_
<1>2. CASE found
    <2>1. stack' = r
        BY <1>2 DEF SearchSuccess
    <2> QED BY <1>1, <1>2, <2>1 DEF StackOrder, ResultInView
<1>3. CASE ~found
    <2>1. stack' = Append(r, "empty")
        BY <1>3 DEF SearchSuccess
    <2> HIDE DEF r
    <2> QED BY <1>1, <1>3, <2>1, EmptyStateLaid DEF StackOrder, ResultInView
<1> QED BY <1>2, <1>3

LEMMA RunViews ==
    ASSUME SearchTypeInv, StackOrder, RunBlock
    PROVE  /\ StackOrder' /\ (ResultInView' => ResultInView)
           /\ Contains(stack', "result") <=> Contains(stack, "result")
           /\ RunReconfigure => stack' # << >>
           /\ ~RunReconfigure => UNCHANGED stack
<1>1. CASE RunReconfigure
    <2>1. stack \in Seq(Views_) /\ stack' = Append(ReplaceAll(stack, "tags", "oldTags"), "tags")
        BY <1>1 DEF RunReconfigure, SearchTypeInv, TypeOK
    <2> QED BY <1>1, <2>1, TagsBack DEF StackOrder, ResultInView
<1>2. CASE ~RunReconfigure
    <2>1. UNCHANGED stack
        BY <1>2 DEF RunBlock, RunDismiss, RunApplyTags, RunApplyResults, RunAlert
    <2> QED BY <1>2, <2>1 DEF StackOrder, ResultInView
<1> QED BY <1>1, <1>2

LEMMA StackOrderNext ==
    ASSUME SearchIInv, [Next]_vars PROVE StackOrder'
<1>0. SearchTypeInv /\ StackOrder
    BY DEF SearchIInv
<1>1. ASSUME NEW k \in Names, Started(k) PROVE StackOrder'
    BY <1>1, Pushed DEF Started, activateSearchFunction, StackOrder
<1>2. ASSUME NEW k \in Names, SearchFailure(k) PROVE StackOrder'
    BY <1>0, <1>2 DEF SearchFailure, StackOrder
<1>3. CASE Reopen
    BY <1>3, NoViews DEF Reopen, StackOrder
<1> QED BY <1>0, <1>1, <1>2, <1>3, QueueCases, QuietViews, SuccessViews, RunViews

\* The steps that leave the results held alone.
LEMMA ResultsKept ==
    ASSUME ResultsInv, UNCHANGED resultList,
           ResultInView' => ResultInView, overlapped => overlapped',
           Holds(mainQ', Results) <=> Holds(mainQ, Results),
           LastIs(mainQ, Results, ApplyResults(resultList)) =>
               LastIs(mainQ', Results, ApplyResults(resultList)),
           UNCHANGED resultShown \/ resultShown' = NoResult
    PROVE  ResultsInv'
<1>1. ApplyResults(resultList)' = ApplyResults(resultList)
    BY DEF ApplyResults
<1> QED BY <1>1 DEF ResultsInv

LEMMA ResultsNext ==
    ASSUME SearchIInv, [Next]_vars PROVE ResultsInv'
<1>0. /\ SearchTypeInv /\ StackOrder /\ LatestAnswer /\ ResultsInv
      /\ mainQ \in Seq(Block)
    BY DEF SearchIInv, SearchTypeInv
<1>1. CASE Quiet
    <2>1. PICK c \in Block : /\ mainQ' = mainQ \/ mainQ' = Append(mainQ, c)
                             /\ c \notin Results
        BY <1>0, <1>1, QuietPosts
    <2>2. /\ Holds(mainQ', Results) <=> Holds(mainQ, Results)
          /\ LastIs(mainQ, Results, ApplyResults(resultList)) =>
                 LastIs(mainQ', Results, ApplyResults(resultList))
        BY <1>0, <2>1, PostOther
    <2>3. /\ UNCHANGED <<resultList, overlapped>>
          /\ UNCHANGED resultShown \/ resultShown' = NoResult
        BY <1>0, <1>1, QuietPosts
    <2>4. ResultInView' => ResultInView
        BY <1>0, <1>1, QuietViews
    <2> QED BY <1>0, <2>2, <2>3, <2>4, ResultsKept
\* No dismissal is out, so what is posted is current for the new result view.
<1>2. ASSUME NEW k \in Names, Started(k) PROVE ResultsInv'
    <2> SUFFICES ASSUME ~overlapped' PROVE ResultsInv'
        BY DEF ResultsInv
    <2>1. ~Dismissing /\ UNCHANGED <<mainQ, resultList>> /\ resultShown' = NoResult
        BY <1>2 DEF Started, activateSearchFunction
    <2>2. ~Holds(mainQ, Dismisses)
        BY <1>0, <2>1, Kinds DEF Dismissing, Holds
    <2>3. LastIs(mainQ, Results, ApplyResults(resultList))
        BY <1>0, <2>2, CurrentIsLast DEF LatestAnswer
    <2> QED BY <2>1, <2>3 DEF ResultsInv
<1>3. ASSUME NEW k \in Names, NEW found \in BOOLEAN, SearchSuccess(k, found)
      PROVE  ResultsInv'
    <2>1. CASE found
        <3> DEFINE a == Append(mainQ, DismissOverlay)
                   c == ApplyResults(k)
        <3>1. mainQ' = Append(a, c) /\ resultList' = k /\ a \in Seq(Block)
            BY <1>0, <1>3, <2>1, BlockTypes, PostTwo DEF SearchSuccess
        <3>2. c \in Block /\ c \in Results
            BY BlockTypes, Kinds
        <3> HIDE DEF a, c
        <3>3. LastIs(Append(a, c), Results, c) /\ Holds(Append(a, c), Results)
            BY <3>1, <3>2, PostLast, PostHolds
        <3>4. LastIs(mainQ', Results, c) /\ Holds(mainQ', Results)
            BY <3>1, <3>3
        <3>5. c = ApplyResults(resultList')
            BY <3>1 DEF c
        <3> QED BY <3>4, <3>5 DEF ResultsInv
    <2>2. CASE ~found
        BY <1>0, <1>3, <2>2, SuccessViews DEF ResultsInv
    <2> QED BY <2>1, <2>2
<1>4. ASSUME NEW k \in Names, SearchFailure(k) PROVE ResultsInv'
    <2>1. mainQ' = mainQ \o <<DismissOverlay, ShowAlert>>
        BY <1>4 DEF SearchFailure
    <2>2. /\ Holds(mainQ', Results) <=> Holds(mainQ, Results)
          /\ LastIs(mainQ, Results, ApplyResults(resultList)) =>
                 LastIs(mainQ', Results, ApplyResults(resultList))
        BY <1>0, <2>1, BlockTypes, Kinds, AnswerHolds
    <2>3. UNCHANGED <<resultList, resultShown, stack, overlapped>>
        BY <1>4 DEF SearchFailure
    <2>4. ResultInView' => ResultInView
        BY <2>3 DEF ResultInView
    <2> QED BY <1>0, <2>2, <2>3, <2>4, ResultsKept
<1>5. CASE RunBlock
    <2> DEFINE b == ApplyResults(resultList)
               t == Tail(mainQ)
    <2>0. /\ UNCHANGED <<resultList, overlapped>> /\ mainQ # << >>
          /\ (ResultInView' => ResultInView)
          /\ Holds(mainQ', Results) <=> Holds(t, Results)
          /\ LastIs(mainQ, Results, b) => LastIs(mainQ', Results, b)
        BY <1>0, <1>5, RunViews, RunHolds DEF RunBlock
    <2>1. CASE RunApplyResults
        <3> SUFFICES ASSUME ResultInView', ~overlapped' PROVE ResultsInv'
            BY DEF ResultsInv
        <3>1. LastIs(mainQ, Results, b) /\ LastIs(mainQ', Results, b)
            BY <1>0, <2>0 DEF ResultsInv
        <3>2. Head(mainQ) \in Results
            BY <1>0, <1>5, <2>1, RunTakes, Kinds DEF RunApplyResults
        <3>3. ~Holds(t, Results) => Head(mainQ) = b
            BY <1>0, <2>0, <3>1, <3>2, TakeLast
        <3>4. resultShown' = Head(mainQ).name
            BY <2>0, <2>1 DEF RunApplyResults, ResultInView
        <3>5. b.name = resultList /\ b = ApplyResults(resultList)'
            BY <2>0 DEF ApplyResults
        <3> HIDE DEF b, t
        <3> QED BY <2>0, <3>1, <3>3, <3>4, <3>5 DEF ResultsInv
    <2>2. CASE ~RunApplyResults
        <3>1. Head(mainQ) \notin Results
            BY <1>0, <1>5, <2>2, RunTakes
        <3>2. Holds(t, Results) <=> Holds(mainQ, Results)
            BY <1>0, <2>0, <3>1, TakeHolds
        <3>3. UNCHANGED resultShown
            BY <1>5, <2>2 DEF RunBlock, RunDismiss, RunApplyTags, RunReconfigure, RunAlert
        <3> HIDE DEF t
        <3> QED BY <1>0, <2>0, <3>2, <3>3, ResultsKept
    <2> QED BY <2>1, <2>2
<1>6. CASE Reopen
    <2>1. stack' = << >>
        BY <1>6 DEF Reopen
    <2> QED BY <2>1, NoViews DEF ResultsInv, ResultInView
<1> QED BY <1>0, <1>1, <1>2, <1>3, <1>4, <1>5, <1>6, QueueCases

\* The steps that leave the results held alone.
LEMMA HeldKept ==
    ASSUME HeldResults, UNCHANGED resultList,
           Holds(mainQ', Results) <=> Holds(mainQ, Results),
           LastIs(mainQ, Results, ApplyResults(resultList)) =>
               LastIs(mainQ', Results, ApplyResults(resultList)),
           UNCHANGED resultShown \/ resultShown' = NoResult
    PROVE  HeldResults'
<1>1. ApplyResults(resultList)' = ApplyResults(resultList)
    BY DEF ApplyResults
<1> QED BY <1>1 DEF HeldResults

LEMMA HeldNext ==
    ASSUME SearchIInv, [Next]_vars PROVE HeldResults'
<1>0. SearchTypeInv /\ HeldResults /\ ShownInView /\ mainQ \in Seq(Block)
    BY DEF SearchIInv, SearchTypeInv
<1>1. CASE Quiet
    <2>1. PICK c \in Block : /\ mainQ' = mainQ \/ mainQ' = Append(mainQ, c)
                             /\ c \notin Results
        BY <1>0, <1>1, QuietPosts
    <2>2. /\ Holds(mainQ', Results) <=> Holds(mainQ, Results)
          /\ LastIs(mainQ, Results, ApplyResults(resultList)) =>
                 LastIs(mainQ', Results, ApplyResults(resultList))
        BY <1>0, <2>1, PostOther
    <2>3. /\ UNCHANGED resultList
          /\ UNCHANGED resultShown \/ resultShown' = NoResult
        BY <1>0, <1>1, QuietPosts
    <2> QED BY <1>0, <2>2, <2>3, HeldKept
<1>2. ASSUME NEW k \in Names, Started(k) PROVE HeldResults'
    BY <1>0, <1>2, HeldKept DEF Started, activateSearchFunction
\* The snapshot of what is held now is posted behind all others.
<1>3. ASSUME NEW k \in Names, NEW found \in BOOLEAN, SearchSuccess(k, found)
      PROVE  HeldResults'
    <2>1. CASE found
        <3> DEFINE a == Append(mainQ, DismissOverlay)
                   c == ApplyResults(k)
        <3>1. mainQ' = Append(a, c) /\ resultList' = k /\ a \in Seq(Block)
            BY <1>0, <1>3, <2>1, BlockTypes, PostTwo DEF SearchSuccess
        <3>2. c \in Block /\ c \in Results
            BY BlockTypes, Kinds
        <3> HIDE DEF a, c
        <3>3. LastIs(Append(a, c), Results, c) /\ Holds(Append(a, c), Results)
            BY <3>1, <3>2, PostLast, PostHolds
        <3>4. LastIs(mainQ', Results, c) /\ Holds(mainQ', Results)
            BY <3>1, <3>3
        <3>5. c = ApplyResults(resultList')
            BY <3>1 DEF c
        <3> QED BY <3>4, <3>5 DEF HeldResults
    <2>2. CASE ~found
        BY <1>3, <2>2 DEF SearchSuccess, HeldResults
    <2> QED BY <2>1, <2>2
<1>4. ASSUME NEW k \in Names, SearchFailure(k) PROVE HeldResults'
    <2>1. mainQ' = mainQ \o <<DismissOverlay, ShowAlert>>
        BY <1>4 DEF SearchFailure
    <2>2. /\ Holds(mainQ', Results) <=> Holds(mainQ, Results)
          /\ LastIs(mainQ, Results, ApplyResults(resultList)) =>
                 LastIs(mainQ', Results, ApplyResults(resultList))
        BY <1>0, <2>1, BlockTypes, Kinds, AnswerHolds
    <2>3. UNCHANGED <<resultList, resultShown>>
        BY <1>4 DEF SearchFailure
    <2> QED BY <1>0, <2>2, <2>3, HeldKept
<1>5. CASE RunBlock
    <2> DEFINE b == ApplyResults(resultList)
               t == Tail(mainQ)
    <2>0. /\ UNCHANGED resultList /\ mainQ # << >>
          /\ Holds(mainQ', Results) <=> Holds(t, Results)
          /\ LastIs(mainQ, Results, b) => LastIs(mainQ', Results, b)
        BY <1>0, <1>5, RunHolds DEF RunBlock
    <2>1. CASE RunApplyResults
        <3> SUFFICES ASSUME resultList' # NoResult PROVE HeldResults'
            BY DEF HeldResults
        <3>1. LastIs(mainQ, Results, b) /\ LastIs(mainQ', Results, b)
            BY <1>0, <2>0 DEF HeldResults
        <3>2. Head(mainQ) \in Results
            BY <1>0, <1>5, <2>1, RunTakes, Kinds DEF RunApplyResults
        <3>3. ~Holds(t, Results) => Head(mainQ) = b
            BY <1>0, <2>0, <3>1, <3>2, TakeLast
        <3>4. resultShown' \in {NoResult, Head(mainQ).name}
            BY <1>0, <2>1 DEF RunApplyResults, ShownInView
        <3>5. b.name = resultList /\ b = ApplyResults(resultList)'
            BY <2>0 DEF ApplyResults
        <3> HIDE DEF b, t
        <3> QED BY <2>0, <3>1, <3>3, <3>4, <3>5 DEF HeldResults
    <2>2. CASE ~RunApplyResults
        <3>1. Head(mainQ) \notin Results
            BY <1>0, <1>5, <2>2, RunTakes
        <3>2. Holds(t, Results) <=> Holds(mainQ, Results)
            BY <1>0, <2>0, <3>1, TakeHolds
        <3>3. UNCHANGED resultShown
            BY <1>5, <2>2 DEF RunBlock, RunDismiss, RunApplyTags, RunReconfigure, RunAlert
        <3> HIDE DEF t
        <3> QED BY <1>0, <2>0, <3>2, <3>3, HeldKept
    <2> QED BY <2>1, <2>2
<1>6. CASE Reopen
    BY <1>6 DEF Reopen, HeldResults
<1> QED BY <1>0, <1>1, <1>2, <1>3, <1>4, <1>5, <1>6, QueueCases

LEMMA ShownNext ==
    ASSUME SearchIInv, [Next]_vars PROVE ShownInView'
<1>0. SearchTypeInv /\ StackOrder /\ FreshInv /\ ShownInView
    BY DEF SearchIInv
<1>1. CASE Quiet
    <2>1. UNCHANGED resultShown \/ resultShown' = NoResult
        BY <1>0, <1>1, QuietPosts
    <2>2. CASE viewDidLoad
        BY <1>0, <2>1, <2>2, NoViews DEF viewDidLoad, FreshInv, ShownInView
    <2>3. CASE ~viewDidLoad
        <3>1. UNCHANGED stack \/ resultShown' = NoResult
            BY <1>0, <1>1, <2>3, QuietViews
        <3> QED BY <1>0, <2>1, <3>1 DEF ShownInView
    <2> QED BY <2>2, <2>3
<1>2. ASSUME NEW k \in Names, Started(k) PROVE ShownInView'
    BY <1>2 DEF Started, activateSearchFunction, ShownInView
<1>3. ASSUME NEW k \in Names, NEW found \in BOOLEAN, SearchSuccess(k, found)
      PROVE  ShownInView'
    <2>1. UNCHANGED resultShown
        BY <1>3 DEF SearchSuccess
    <2>2. Contains(stack', "result") <=> Contains(stack, "result")
        BY <1>0, <1>3, SuccessViews
    <2> QED BY <1>0, <2>1, <2>2 DEF ShownInView
<1>4. ASSUME NEW k \in Names, SearchFailure(k) PROVE ShownInView'
    BY <1>0, <1>4 DEF SearchFailure, ShownInView
<1>5. CASE RunBlock
    <2>1. Contains(stack', "result") <=> Contains(stack, "result")
        BY <1>0, <1>5, RunViews
    <2>2. ~Contains(stack, "result") => UNCHANGED resultShown
        BY <1>5 DEF RunBlock, RunDismiss, RunApplyTags, RunApplyResults, RunReconfigure,
               RunAlert
    <2> QED BY <1>0, <2>1, <2>2 DEF ShownInView
<1>6. CASE Reopen
    BY <1>6 DEF Reopen, ShownInView
<1> QED BY <1>0, <1>1, <1>2, <1>3, <1>4, <1>5, <1>6, QueueCases

\* The steps that change neither the views nor what the text was cleared under.
LEMMA BlankKept ==
    ASSUME BlankInv, UNCHANGED <<screen, stack, lateAnswer>>, Searching' => Searching,
           Holds(mainQ, Reconfigures) => Holds(mainQ', Reconfigures)
    PROVE  BlankInv'
BY DEF BlankInv

LEMMA BlankNext ==
    ASSUME SearchIInv, [Next]_vars PROVE BlankInv'
<1>0. /\ SearchTypeInv /\ StackOrder /\ FreshInv /\ BlankInv
      /\ mainQ \in Seq(Block) /\ searches \in [Names -> Nat]
    BY DEF SearchIInv, SearchTypeInv, TypeOK
<1>1. CASE Quiet
    <2>0. PICK c \in Block : mainQ' = mainQ \/ mainQ' = Append(mainQ, c)
        BY <1>0, <1>1, QuietPosts
    <2>1. Holds(mainQ, Reconfigures) => Holds(mainQ', Reconfigures)
        <3>1. Holds(mainQ, Reconfigures) => Holds(Append(mainQ, c), Reconfigures)
            BY <1>0, PostHolds
        <3> QED BY <2>0, <3>1
    <2>2. Searching' <=> Searching
        <3>1. searches' = searches
            BY <1>0, <1>1, QuietPosts
        <3> QED BY <3>1 DEF Searching
    <2>3. CASE viewDidLoad
        <3>1. ~Searching /\ stack' = <<"tags">>
            BY <1>0, <2>3 DEF viewDidLoad, FreshInv
        <3> QED BY <2>2, <3>1 DEF BlankInv
    <2>4. CASE ClearText
        <3>1. mainQ' = Append(mainQ, Reconfigure) /\ lateAnswer' = Searching
            BY <2>4 DEF ClearText
        <3>2. Holds(Append(mainQ, Reconfigure), Reconfigures)
            BY <1>0, BlockTypes, Kinds, PostHolds
        <3>3. Holds(mainQ', Reconfigures)
            BY <3>1, <3>2
        <3> QED BY <2>2, <3>1, <3>3 DEF BlankInv
    <2>5. CASE ~viewDidLoad /\ ~ClearText
        <3>1. UNCHANGED <<screen, stack, lateAnswer>>
            BY <1>1, <2>5 DEF Quiet, HotSearchAnswer, TagTrap, clearSearchHistory, TapResult,
                   GetShopAnswer, AddToCartOnEvent, ConfirmAlert, FlushDefaults,
                   vars, screenVars
        <3> QED BY <1>0, <2>1, <2>2, <3>1, BlankKept
    <2> QED BY <2>3, <2>4, <2>5
<1>2. ASSUME NEW k \in Names, Started(k) PROVE BlankInv'
    <2>1. Contains(stack', "result") /\ stack' # << >>
        BY <1>2, Pushed DEF Started, activateSearchFunction
    <2> QED BY <2>1 DEF BlankInv
\* Unless the text was cleared, the result view of the search lies there.
<1>3. ASSUME NEW k \in Names, NEW found \in BOOLEAN, SearchSuccess(k, found)
      PROVE  BlankInv'
    <2>1. Searching /\ lateAnswer' = lateAnswer
        BY <1>3 DEF SearchSuccess, Searching
    <2>2. ~lateAnswer => Contains(stack', "result")
        BY <1>0, <1>3, <2>1, SuccessViews DEF BlankInv
    <2>3. ~lateAnswer => stack' # << >>
        BY <2>2, NoViews
    <2> QED BY <2>1, <2>2, <2>3 DEF BlankInv
<1>4. ASSUME NEW k \in Names, SearchFailure(k) PROVE BlankInv'
    <2>1. mainQ' = mainQ \o <<DismissOverlay, ShowAlert>>
        BY <1>4 DEF SearchFailure
    <2>2. Holds(mainQ, Reconfigures) => Holds(mainQ', Reconfigures)
        BY <1>0, <2>1, BlockTypes, Kinds, AnswerHolds
    <2>3. Searching' => Searching
        BY <1>0, <1>4 DEF SearchFailure, Searching
    <2>4. UNCHANGED <<screen, stack, lateAnswer>>
        BY <1>4 DEF SearchFailure
    <2> QED BY <1>0, <2>2, <2>3, <2>4, BlankKept
<1>5. CASE RunBlock
    <2>0. UNCHANGED <<screen, searches, lateAnswer>>
        BY <1>5 DEF RunBlock
    <2>1. Searching' => Searching
        BY <2>0 DEF Searching
    <2>2. CASE RunReconfigure
        BY <1>0, <1>5, <2>0, <2>1, <2>2, RunViews DEF BlankInv
    <2>3. CASE ~RunReconfigure
        <3>1. Head(mainQ) \notin Reconfigures /\ mainQ # << >> /\ UNCHANGED stack
            BY <1>0, <1>5, <2>3, RunTakes, RunViews
        <3>2. Holds(mainQ, Reconfigures) => Holds(mainQ', Reconfigures)
            BY <1>0, <1>5, <3>1, TakeHolds, RunHolds
        <3> QED BY <1>0, <2>0, <2>1, <3>1, <3>2, BlankKept
    <2> QED BY <2>2, <2>3
<1>6. CASE Reopen
    BY <1>6 DEF Reopen, BlankInv, Searching
<1> QED BY <1>0, <1>1, <1>2, <1>3, <1>4, <1>5, <1>6, QueueCases

-----------------------------------------------------------------------------
(* The theorems.                                                           *)

LEMMA SearchNextInv == SearchIInv /\ [Next]_vars => SearchIInv'
<1> SUFFICES ASSUME SearchIInv, [Next]_vars PROVE SearchIInv'
    OBVIOUS
<1>1. SearchTypeInv'
    BY SearchTypeNext DEF SearchIInv
<1> QED BY <1>1, FreshNext, OneAtATimeNext, TagsNext, LatestNext, ResultsNext,
           HeldNext, ShownNext, StackOrderNext, BlankNext DEF SearchIInv

LEMMA SearchInvariance == Spec => []SearchIInv
BY SearchInitInv, SearchNextInv, PTL DEF Spec

(***************************************************************************)
(* What the screen holds, displays and asks for keeps its type, and what   *)
(* the process remembers is searches, none twice, also across crashes.     *)
(***************************************************************************)
THEOREM SearchTyped == Spec => [](TypeOK /\ UniqueNames)
BY SearchInvariance, PTL DEF SearchIInv, SearchTypeInv

(***************************************************************************)
(* The results on display, the main queue drained, are those a tap         *)
(* indexes, however many searches are out and in whatever order they are   *)
(* answered; only after overlapping searches may there be nothing to       *)
(* index.                                                                  *)
(***************************************************************************)
THEOREM SearchTapOpensShown == Spec => []TapOpensShown
<1>1. SearchIInv => TapOpensShown
    <2> SUFFICES ASSUME SearchIInv, Settled, stack # << >>,
                        Last(stack) = "result", resultShown # NoResult
                 PROVE  resultShown = resultList \/ (overlapped /\ resultList = NoResult)
        BY DEF TapOpensShown
    <2>1. /\ stack \in Seq(Views_) /\ Ordered(stack) /\ mainQ = << >>
          /\ ResultsInv /\ HeldResults
        BY DEF SearchIInv, SearchTypeInv, TypeOK, StackOrder, Settled
    <2>2. ~Holds(mainQ, Results)
        BY <2>1, EmptyQueue
    <2>3. CASE resultList # NoResult
        BY <2>1, <2>2, <2>3 DEF HeldResults
    \* Nothing is held: a result view without an empty state displays nothing.
    <2>4. CASE resultList = NoResult /\ ~overlapped
        <3>1. /\ Len(stack) \in Nat \ {0} /\ DOMAIN stack = 1 .. Len(stack)
              /\ stack[Len(stack)] = "result"
            BY <2>1, EmptySeq DEF Last
        <3>2. ResultInView
            BY <2>1, <3>1 DEF ResultInView, Contains, Ordered
        <3> QED BY <2>1, <2>2, <2>4, <3>2 DEF ResultsInv
    <2> QED BY <2>3, <2>4
<1> QED BY <1>1, SearchInvariance, PTL

(***************************************************************************)
(* A tag is missing from the texts only without popular searches or while  *)
(* their display is behind, and the overlay's reference only after         *)
(* overlapping searches.                                                   *)
(***************************************************************************)
THEOREM SearchTrapsExplained == Spec => []TrapsExplained
<1>1. SearchIInv => TrapsExplained
    <2> SUFFICES ASSUME SearchIInv PROVE TrapsExplained
        OBVIOUS
    <2>1. OneAtATime /\ TagsInv /\ mainQ \in Seq(Block)
        BY DEF SearchIInv, SearchTypeInv
    <2>2. Holds(mainQ, Tags) => \E i \in DOMAIN mainQ : mainQ[i].op = "applyTags"
        BY <2>1, Kinds DEF Holds
    <2>3. crash = "dismiss" => overlapped
        BY <2>1 DEF OneAtATime
    <2>4. crash = "tag" => hot = << >> \/ Holds(mainQ, Tags)
        BY <2>1 DEF TagsInv
    <2> QED BY <2>2, <2>3, <2>4 DEF TrapsExplained
<1> QED BY <1>1, SearchInvariance, PTL

(***************************************************************************)
(* The screen is left blank only by an answer that comes after the text    *)
(* was cleared.                                                            *)
(***************************************************************************)
THEOREM SearchBlankMeansLateAnswer == Spec => []BlankMeansLateAnswer
<1>1. SearchIInv => BlankMeansLateAnswer
    <2> SUFFICES ASSUME SearchIInv, Settled, stack = << >> PROVE lateAnswer
        BY DEF BlankMeansLateAnswer
    <2>1. BlankInv /\ screen = "alive" /\ mainQ = << >>
        BY DEF SearchIInv, Settled, Running
    <2>2. ~Holds(mainQ, Reconfigures)
        BY <2>1, EmptyQueue
    <2> QED BY <2>1, <2>2 DEF BlankInv
<1> QED BY <1>1, SearchInvariance, PTL

(***************************************************************************)
(* The screen keeps the history as PersistenceManager does: what is proved *)
(* of the history alone holds of the screen.                               *)
(***************************************************************************)
THEOREM SearchKeepsHistory == Spec => HistorySpec
<1>1. Init => HistoryInit
    BY DEF Init
<1>2. SearchIInv /\ [Next]_vars => [HistoryNext]_historyVars
    BY StepKeepsHistory DEF SearchIInv
<1> QED BY <1>1, <1>2, SearchInvariance, PTL DEF Spec, HistorySpec

(***************************************************************************)
(* So two searches keep their order while the screen is used.              *)
(***************************************************************************)
THEOREM SearchOrderKept == Spec => OrderKept
BY SearchKeepsHistory, HistoryOrderKept

(***************************************************************************)
(* And the screen implements the set of remembered searches with its       *)
(* durable copy.                                                           *)
(***************************************************************************)
THEOREM SearchImplementsContract == Spec => ImplementsContract
BY SearchKeepsHistory, HistoryImplementsContract

=============================================================================
