------------------------ MODULE FirestoreWrite_proofs ------------------------
(***************************************************************************)
(* Proofs about FirestoreWrite, for any number of writes, users, batches   *)
(* of the pipeline and faults: no assertion of the client fails, and the   *)
(* pipeline, the queue on disk and the completions stay together; and the  *)
(* client implements DurableWrites, the contract of a write.               *)
(***************************************************************************)
EXTENDS FirestoreWrite, SequenceTheorems, WellFoundedInduction, TLAPS

-----------------------------------------------------------------------------
(* Least and greatest numbers of a set.                                    *)

LEMMA NatLess == IsWellFoundedOn({p \in Nat \X Nat : p[1] < p[2]}, Nat)
BY NatLessThanWellFounded DEF OpToRel

\* A set of naturals has a least element, and a greatest if it is bounded.
LEMMA LeastExists ==
    ASSUME NEW S, S \subseteq Nat, S # {}
    PROVE  \E x \in S : \A y \in S : x <= y
<1> DEFINE R == {p \in Nat \X Nat : p[1] < p[2]}
<1>1. \E x \in S : \A y \in S : ~(<<y, x>> \in R)
    BY NatLess, WFMin
<1>2. \A x \in S, y \in S : y < x => <<y, x>> \in R
    OBVIOUS
<1>3. \A x \in S, y \in S : ~(y < x) => x <= y
    OBVIOUS
<1> QED BY <1>1, <1>2, <1>3

LEMMA GreatestIs ==
    ASSUME NEW S, S \subseteq Nat, S # {}, NEW n \in Nat, \A x \in S : x < n
    PROVE  Max(S) \in S /\ \A y \in S : y <= Max(S)
<1> DEFINE T == {n - x : x \in S}
<1>1. T \subseteq Nat
    OBVIOUS
<1>0. \E x \in S : n - x \in T
    OBVIOUS
<1>2. PICK t \in T : \A y \in T : t <= y
    <2>1. T # {}
        BY <1>0
    <2> HIDE DEF T
    <2> QED BY <1>1, <2>1, LeastExists
<1>3. PICK m \in S : t = n - m
    BY <1>2
<1>4. \A y \in S : m >= y
    BY <1>2, <1>3
<1> QED BY <1>3, <1>4 DEF Max

LEMMA LeastIs ==
    ASSUME NEW S, NEW m \in S, m \in Int, \A y \in S : y \in Int /\ m <= y
    PROVE  Min(S) = m
<1>1. Min(S) \in S /\ \A y \in S : Min(S) <= y
    BY DEF Min
<1>2. Min(S) \in Int /\ Min(S) <= m /\ m <= Min(S)
    BY <1>1
<1> QED BY <1>2

-----------------------------------------------------------------------------
(* The inductive invariant of the client.                                  *)

Callbacks == [user : Users, id : Nat \ {0}, write : Writes]
Calls == [sent : Seq(Nat), out : Seq({"answer"}), closed : BOOLEAN]

WriterType ==
    [stream : StreamType, shaken : BOOLEAN, network : BOOLEAN,
     pipeline : Seq(Batches), user : Users, callbacks : SUBSET Callbacks,
     disk : [Users -> Seq(Batches)], nextBatchId : Nat \ {0}, net : Calls,
     told : [Writes -> Seq({"success", "failure"})], ok : BOOLEAN]

\* The batches of each user are in the order of their ids, below n.
Increasing(q) == \A i, j \in DOMAIN q : i < j => q[i].id < q[j].id
DiskInv(disk, n) ==
    /\ disk \in [Users -> Seq(Batches)]
    /\ \A u \in Users : /\ Increasing(disk[u])
                        /\ \A i \in DOMAIN disk[u] : disk[u][i].id < n

\* Who waits for a completion has a batch on disk.
CallbackInv(callbacks, disk) ==
    \A k \in callbacks : \E i \in DOMAIN disk[k.user] :
        disk[k.user][i] = [id |-> k.id, write |-> k.write]

\* The pipeline is the beginning of the user's queue.
Begins(p, q) == Len(p) <= Len(q) /\ \A i \in DOMAIN p : p[i] = q[i]
PipeInv(p, q) == Begins(p, q) /\ Len(p) <= kMaxPendingWrites

\* A token is awaited while the stream starts only, and the stream is idle only
\* with nothing to send after the handshake.
StreamInv(c) ==
    /\ c.stream.ok
    /\ c.stream.asked => c.stream.state = "Starting"
    /\ c.stream.idle => c.stream.state = "Open" /\ c.shaken /\ c.pipeline = << >>

\* Each batch of the pipeline has one request or answer on an open stream, and
\* before the handshake there is that request or its answer.
Due(net) == Len(net.sent) + Len(net.out) + (IF net.closed THEN 1 ELSE 0)

WireInv(c) ==
    IF c.stream.state = "Open"
    THEN /\ Due(c.net) = IF c.shaken THEN Len(c.pipeline) ELSE 1
         /\ ~c.shaken => /\ ~c.net.closed
                         /\ \A i \in DOMAIN c.net.sent : c.net.sent[i] = Handshake
    ELSE c.net = NewCall

\* What holds inside the methods.
CoreInv(c) ==
    /\ c \in WriterType /\ c.ok
    /\ DiskInv(c.disk, c.nextBatchId)
    /\ CallbackInv(c.callbacks, c.disk)
    /\ PipeInv(c.pipeline, c.disk[c.user])
    /\ StreamInv(c) /\ WireInv(c)

\* The pipeline was filled, and the stream started for it.
FilledInv(c) ==
    /\ c.network /\ (c.shaken => c.stream.state = "Open")
    /\ c.pipeline = << >> => c.disk[c.user] = << >>
    /\ c.pipeline # << >> => IsStarted(c.stream)

ClientInv(c) == CoreInv(c) /\ FilledInv(c)

-----------------------------------------------------------------------------
(* The stream.                                                             *)

LEMMA StartKeeps ==
    ASSUME NEW s \in StreamType, s.ok, ~IsStarted(s), ~s.asked, ~s.idle,
           NEW n, n = Start(s)
    PROVE  /\ n \in StreamType /\ n.ok /\ IsStarted(n) /\ ~n.idle
           /\ n.state # "Open" /\ (n.asked => n.state = "Starting")
<1> USE DEF StreamType, States, IsStarted
<1>1. CASE s.state = "Error"
    BY <1>1 DEF Start, BackoffAndTryRestarting
<1>2. CASE s.state = "Initial"
    BY <1>2 DEF Start, RequestCredentials
<1> QED BY <1>1, <1>2

LEMMA CloseKeeps ==
    ASSUME NEW s \in StreamType, s.ok, NEW graceful \in BOOLEAN, IsStarted(s),
           NEW n, n = Close(s, graceful)
    PROVE  /\ n \in StreamType /\ n.ok /\ ~IsStarted(n) /\ ~n.asked /\ ~n.idle
           /\ n.state = IF graceful THEN "Initial" ELSE "Error"
<1> USE DEF StreamType, States, IsStarted
<1>1. n = [state |-> IF graceful THEN "Initial" ELSE "Error",
           asked |-> FALSE, stale |-> s.stale + (IF s.asked THEN 1 ELSE 0),
           idle |-> FALSE, ok |-> TRUE]
    BY DEF Close
<1> QED BY <1>1

LEMMA BackoffKeeps ==
    ASSUME NEW s \in StreamType, s.ok, s.state = "Backoff", ~s.asked, ~s.idle,
           NEW n, n = BackoffElapsed(s)
    PROVE  /\ n \in StreamType /\ n.ok /\ IsStarted(n) /\ ~n.idle
           /\ n.state = "Starting"
BY DEF StreamType, States, IsStarted, BackoffElapsed, Start, RequestCredentials

LEMMA InhibitKeeps ==
    ASSUME NEW s \in StreamType, s.ok, ~IsStarted(s), ~s.asked, ~s.idle,
           NEW n, n = InhibitBackoff(s)
    PROVE  /\ n \in StreamType /\ n.ok /\ n.state = "Initial"
           /\ ~n.asked /\ ~n.idle
BY DEF StreamType, States, InhibitBackoff

LEMMA TokenKeeps ==
    ASSUME NEW s \in StreamType, s.ok, s.state = "Starting", ~s.idle,
           NEW n, n = ResumeStartWithCredentials(s)
    PROVE  n \in StreamType /\ n.ok /\ n.state = "Open" /\ ~n.asked /\ ~n.idle
BY DEF StreamType, States, ResumeStartWithCredentials

LEMMA OpenKeeps ==
    ASSUME NEW s \in StreamType, s.ok, s.state = "Open"
    PROVE  /\ \A n : n = Write(s) =>
                  /\ n \in StreamType /\ n.ok /\ n.state = "Open"
                  /\ n.asked = s.asked /\ ~n.idle
           /\ \A n : n = MarkIdle(s) =>
                  /\ n \in StreamType /\ n.ok /\ n.state = "Open"
                  /\ n.asked = s.asked
<1> USE DEF StreamType, States, IsOpen
<1>1. ASSUME NEW n, n = Write(s)
      PROVE  /\ n \in StreamType /\ n.ok /\ n.state = "Open"
             /\ n.asked = s.asked /\ ~n.idle
    BY <1>1 DEF Write
<1>2. ASSUME NEW n, n = MarkIdle(s)
      PROVE  n \in StreamType /\ n.ok /\ n.state = "Open" /\ n.asked = s.asked
    BY <1>2 DEF MarkIdle
<1> QED BY <1>1, <1>2

LEMMA StoppedKeeps ==
    ASSUME NEW s \in StreamType, s.state # "Open"
    PROVE  s.idle \in BOOLEAN /\ (s.ok => MarkIdle(s).ok)
               /\ (~s.idle => MarkIdle(s) = s)
<1>1. MarkIdle(s) = [s EXCEPT !.idle = s.idle]
    BY DEF MarkIdle, IsOpen, StreamType
<1> QED BY <1>1 DEF StreamType

-----------------------------------------------------------------------------
(* The mutation queue.                                                     *)

LEMMA BatchesHaveIds ==
    ASSUME NEW q \in Seq(Batches), NEW i \in DOMAIN q
    PROVE  q[i] \in Batches /\ q[i].id \in Nat \ {0}
<1>1. q[i] \in Batches
    OBVIOUS
<1> QED BY <1>1 DEF Batches

\* The part of a queue from m to n.
LEMMA PartOfQueue ==
    ASSUME NEW q \in Seq(Batches), NEW m \in Nat \ {0}, NEW n \in Nat,
           n <= Len(q), m <= n + 1, NEW r, r = SubSeq(q, m, n)
    PROVE  /\ r \in Seq(Batches) /\ Len(r) = n - m + 1
           /\ \A i \in 1 .. Len(r) : r[i] = q[m + i - 1]
<1>1. \A i \in m .. n : q[i] \in Batches
    OBVIOUS
<1>2. /\ r \in Seq(Batches) /\ Len(r) = IF m <= n THEN n - m + 1 ELSE 0
      /\ \A i \in 1 .. n - m + 1 : r[i] = q[m + i - 1]
    BY <1>1, SubSeqProperties
<1> QED BY <1>2

\* The batches that are added are the next ones of the queue.
LEMMA BatchesToAdd ==
    ASSUME NEW c \in WriterType, DiskInv(c.disk, c.nextBatchId),
           PipeInv(c.pipeline, c.disk[c.user]), c.network,
           NEW more, more = CanAddToWritePipeline(c),
           NEW p, p = c.pipeline, NEW q, q = c.disk[c.user]
    PROVE  /\ more \in Seq(Batches)
           /\ p \o more \in Seq(Batches) /\ Len(p \o more) = Len(p) + Len(more)
           /\ PipeInv(p \o more, q)
           /\ p \o more = << >> => q = << >>
<1> DEFINE last == IF p = << >> THEN 0 ELSE Last(p).id
           next == NextBatchesAfter(c, last)
           room == kMaxPendingWrites - Len(p)
<1>1. /\ p \in Seq(Batches) /\ q \in Seq(Batches)
      /\ Len(p) \in Nat /\ Len(q) \in Nat
      /\ DOMAIN p = 1 .. Len(p) /\ DOMAIN q = 1 .. Len(q)
      /\ Increasing(q) /\ Begins(p, q) /\ Len(p) <= kMaxPendingWrites
    BY DEF WriterType, DiskInv, PipeInv
<1>2. \A i \in DOMAIN q : q[i].id \in Nat \ {0}
    BY <1>1, BatchesHaveIds
<1>3. \A i \in DOMAIN q : q[i].id > last <=> i > Len(p)
    <2>1. CASE p = << >>
        BY <1>1, <1>2, <2>1
    <2>2. CASE p # << >>
        <3>1. Len(p) \in DOMAIN q /\ last = q[Len(p)].id
            BY <1>1, <2>2, EmptySeq DEF Begins, Last
        <3> HIDE DEF last
        <3>2. last \in Nat
            BY <1>2, <3>1
        <3> SUFFICES ASSUME NEW i \in DOMAIN q
                     PROVE  q[i].id > last <=> i > Len(p)
            OBVIOUS
        <3>3. q[i].id \in Nat /\ i \in Nat
            BY <1>1, <1>2
        <3>4. i < Len(p) => q[i].id < last
            BY <1>1, <3>1 DEF Increasing
        <3>5. Len(p) < i => last < q[i].id
            BY <1>1, <3>1 DEF Increasing
        <3>6. i = Len(p) => q[i].id = last
            BY <3>1
        <3> QED BY <1>1, <3>2, <3>3, <3>4, <3>5, <3>6
    <2> QED BY <2>1, <2>2
<1>4. /\ next \in Seq(Batches) /\ Len(next) = Len(q) - Len(p)
      /\ \A i \in 1 .. Len(next) : next[i] = q[Len(p) + i]
    <2> DEFINE above == {i \in DOMAIN q : q[i].id > last}
    <2>1. next = IF above = {} THEN << >> ELSE SubSeq(q, Min(above), Len(q))
        BY DEF NextBatchesAfter
    <2>2. above = Len(p) + 1 .. Len(q)
        BY <1>1, <1>3
    <2> HIDE DEF next, above
    <2>3. CASE Len(p) = Len(q)
        BY <1>1, <2>1, <2>2, <2>3, EmptySeq
    <2>4. CASE Len(p) # Len(q)
        <3>1. Len(p) + 1 \in above /\ Len(p) + 1 <= Len(q)
            BY <1>1, <2>2, <2>4 DEF Begins
        <3>2. Min(above) = Len(p) + 1
            <4>1. \A y \in above : y \in Int /\ Len(p) + 1 <= y
                BY <1>1, <2>2
            <4> QED BY <1>1, <3>1, <4>1, LeastIs
        <3>3. next = SubSeq(q, Len(p) + 1, Len(q))
            BY <2>1, <3>1, <3>2
        <3>4. /\ next \in Seq(Batches) /\ Len(next) = Len(q) - (Len(p) + 1) + 1
              /\ \A i \in 1 .. Len(next) : next[i] = q[Len(p) + 1 + i - 1]
            <4> DEFINE m == Len(p) + 1
                       n == Len(q)
            <4>1. /\ m \in Nat \ {0} /\ n \in Nat /\ n <= Len(q) /\ m <= n + 1
                  /\ q \in Seq(Batches) /\ next = SubSeq(q, m, n)
                BY <1>1, <3>1, <3>3
            <4> HIDE DEF m, n
            <4>2. /\ next \in Seq(Batches) /\ Len(next) = n - m + 1
                  /\ \A i \in 1 .. Len(next) : next[i] = q[m + i - 1]
                BY <4>1, PartOfQueue, SMTT(20)
            <4> QED BY <4>2 DEF m, n
        <3>5. \A i \in 1 .. Len(next) : Len(p) + 1 + i - 1 = Len(p) + i
            BY <1>1
        <3> QED BY <1>1, <3>4, <3>5
    <2> QED BY <2>3, <2>4
<1>5. more = IF Len(next) <= room THEN next ELSE SubSeq(next, 1, room)
    BY DEF CanAddToWritePipeline
<1>6. room \in Nat /\ (p = << >> => room > 0) /\ Len(next) \in Nat
    BY <1>1, <1>4, WriteAssumption
<1>7. Len(p) + room = kMaxPendingWrites
    BY <1>1, WriteAssumption
<1> HIDE DEF next, room, last
<1>8. /\ more \in Seq(Batches) /\ Len(more) <= room /\ Len(more) <= Len(next)
      /\ \A i \in 1 .. Len(more) : more[i] = q[Len(p) + i]
      /\ Len(more) \in Nat
      /\ room > 0 /\ Len(next) > 0 => Len(more) > 0
    <2>1. CASE Len(next) <= room
        <3>1. more = next
            BY <1>5, <2>1
        <3>2. \A i \in 1 .. Len(more) : more[i] = q[Len(p) + i]
            BY <1>4, <3>1
        <3>3. more \in Seq(Batches)
            BY <1>4, <3>1
        <3> QED BY <1>6, <2>1, <3>1, <3>2, <3>3
    <2>2. CASE ~(Len(next) <= room)
        <3>1. more = SubSeq(next, 1, room) /\ room <= Len(next)
            BY <1>5, <1>6, <2>2
        <3>2. /\ more \in Seq(Batches) /\ Len(more) = room
              /\ \A i \in 1 .. Len(more) : more[i] = next[i]
            <4>1. /\ more \in Seq(Batches) /\ Len(more) = room - 1 + 1
                  /\ \A i \in 1 .. Len(more) : more[i] = next[1 + i - 1]
                BY <1>4, <1>6, <3>1, PartOfQueue
            <4>2. \A i \in 1 .. Len(more) : 1 + i - 1 = i
                OBVIOUS
            <4> QED BY <1>6, <4>1, <4>2
        <3>3. \A i \in 1 .. Len(more) : i \in 1 .. Len(next)
            BY <1>6, <3>1, <3>2
        <3>4. \A i \in 1 .. Len(more) : more[i] = q[Len(p) + i]
            BY <1>4, <3>2, <3>3
        <3> QED BY <1>6, <3>1, <3>2, <3>4
    <2> QED BY <2>1, <2>2
<1>9. /\ p \o more \in Seq(Batches) /\ Len(p \o more) = Len(p) + Len(more)
      /\ \A i \in 1 .. Len(p) : (p \o more)[i] = p[i]
      /\ \A i \in 1 .. Len(more) : (p \o more)[Len(p) + i] = more[i]
    BY <1>1, <1>8
<1>10. PipeInv(p \o more, q)
    <2>1. Len(p) + Len(more) <= Len(q) /\ Len(p) + Len(more) <= kMaxPendingWrites
        BY <1>1, <1>4, <1>6, <1>7, <1>8, WriteAssumption
    <2>2. ASSUME NEW i \in 1 .. Len(p) + Len(more) PROVE (p \o more)[i] = q[i]
        <3>1. CASE i <= Len(p)
            BY <1>1, <1>9, <3>1 DEF Begins
        <3>2. CASE ~(i <= Len(p))
            <4>1. i - Len(p) \in 1 .. Len(more) /\ Len(p) + (i - Len(p)) = i
                BY <1>1, <1>8, <3>2
            <4> QED BY <1>8, <1>9, <4>1
        <3> QED BY <3>1, <3>2
    <2>3. DOMAIN (p \o more) = 1 .. Len(p) + Len(more)
        BY <1>9
    <2> QED BY <1>9, <2>1, <2>2, <2>3 DEF PipeInv, Begins
<1>11. ASSUME p \o more = << >> PROVE q = << >>
    <2>1. Len(p) = 0 /\ Len(more) = 0
        BY <1>1, <1>8, <1>9, <1>11, EmptySeq
    <2>2. Len(next) = 0 /\ Len(q) = 0
        BY <1>1, <1>4, <1>6, <1>8, <2>1, EmptySeq
    <2> QED BY <1>1, <2>2, EmptySeq
<1> QED BY <1>8, <1>9, <1>10, <1>11

\* Taking the head of a queue off the disk.
LEMMA RemoveHead ==
    ASSUME NEW c \in WriterType, DiskInv(c.disk, c.nextBatchId),
           c.disk[c.user] # << >>, NEW b, b = Head(c.disk[c.user])
    PROVE  RemoveMutationBatch(c, b) = [c EXCEPT !.disk[c.user] = Tail(@)]
<1> DEFINE q == c.disk[c.user]
           at == CHOOSE i \in DOMAIN q : q[i] = b
<1>1. /\ q \in Seq(Batches) /\ Len(q) \in Nat \ {0} /\ DOMAIN q = 1 .. Len(q)
      /\ b = q[1] /\ 1 \in DOMAIN q /\ Increasing(q)
    BY EmptySeq DEF WriterType, DiskInv
<1>2. at \in DOMAIN q /\ q[at] = b
    BY <1>1
<1>3. at = 1
    <2> HIDE DEF at, q
    <2>1. \A i \in DOMAIN q : q[i].id \in Nat
        BY <1>1, BatchesHaveIds
    <2> QED BY <1>1, <1>2, <2>1 DEF Increasing
<1>4. Contains(q, b)
    BY <1>1 DEF Contains
<1>5. RemoveAt(q, 1) = Tail(q)
    <2> HIDE DEF q
    <2>1. SubSeq(q, 1, 0) = << >> /\ SubSeq(q, 2, Len(q)) = Tail(q)
        BY <1>1, SubSeqEmpty, TailIsSubSeq
    <2>2. Tail(q) \in Seq(Batches)
        BY <1>1
    <2> QED BY <2>1, <2>2, ConcatEmptySeq DEF RemoveAt
<1>6. RemoveMutationBatch(c, b) = [c EXCEPT !.disk[c.user] = RemoveAt(@, at)]
    BY <1>4 DEF RemoveMutationBatch
<1> HIDE DEF at
<1> QED BY <1>3, <1>5, <1>6

LEMMA TailOfQueue ==
    ASSUME NEW q \in Seq(Batches), q # << >>, Increasing(q)
    PROVE  /\ Tail(q) \in Seq(Batches) /\ Increasing(Tail(q))
           /\ Head(q) = q[1] /\ Head(q) \in Batches
           /\ Len(q) \in Nat \ {0} /\ Len(Tail(q)) = Len(q) - 1
           /\ DOMAIN q = 1 .. Len(q) /\ DOMAIN Tail(q) = 1 .. Len(q) - 1
           /\ \A i \in DOMAIN Tail(q) : i + 1 \in DOMAIN q /\ Tail(q)[i] = q[i + 1]
           /\ \A i \in DOMAIN q :
                  i = 1 \/ (i - 1 \in DOMAIN Tail(q) /\ Tail(q)[i - 1] = q[i])
           /\ \A i \in DOMAIN q : i # 1 => q[i].id # q[1].id
<1> DEFINE t == Tail(q)
<1>1. /\ t \in Seq(Batches) /\ Head(q) = q[1] /\ Head(q) \in Batches
      /\ Len(q) \in Nat \ {0} /\ Len(t) = Len(q) - 1
      /\ DOMAIN q = 1 .. Len(q) /\ DOMAIN t = 1 .. Len(q) - 1
      /\ \A i \in DOMAIN t : i + 1 \in DOMAIN q /\ t[i] = q[i + 1]
    BY EmptySeq
<1> HIDE DEF t
<1>2. Increasing(t)
    BY <1>1 DEF Increasing
<1>3. \A i \in DOMAIN q : i = 1 \/ (i - 1 \in DOMAIN t /\ t[i - 1] = q[i])
    BY <1>1
<1>4. \A i \in DOMAIN q : i # 1 => q[i].id # q[1].id
    <2>1. \A i \in DOMAIN q : q[i].id \in Nat
        BY <1>1, BatchesHaveIds
    <2> QED BY <1>1, <2>1 DEF Increasing
<1> QED BY <1>1, <1>2, <1>3, <1>4 DEF t

\* The next id is above all on disk.
LEMMA LoadedId ==
    ASSUME NEW disk, NEW n \in Nat \ {0}, DiskInv(disk, n)
    PROVE  LET m == LoadNextBatchIdFromDb(disk)
           IN m \in Nat \ {0} /\ DiskInv(disk, m)
<1> DEFINE S == IdsOnDisk(disk) \cup {0}
<1>1. \A u \in Users : \A i \in DOMAIN disk[u] :
          disk[u][i].id \in S /\ disk[u][i].id \in Nat /\ disk[u][i].id < n
    <2> TAKE u \in Users
    <2> TAKE i \in DOMAIN disk[u]
    <2>1. disk[u] \in Seq(Batches)
        BY DEF DiskInv
    <2>2. disk[u][i] \in Batches
        BY <2>1
    <2> QED BY <2>2 DEF DiskInv, IdsOnDisk, ToSet, Batches
<1>2. S \subseteq Nat /\ S # {} /\ \A x \in S : x < n
    <2>1. \A x \in IdsOnDisk(disk) : x \in Nat /\ x < n
        <3> TAKE x \in IdsOnDisk(disk)
        <3>1. PICK u \in Users : \E i \in DOMAIN disk[u] : x = disk[u][i].id
            BY DEF IdsOnDisk, ToSet
        <3> QED BY <1>1, <3>1
    <2> QED BY <2>1
<1>3. Max(S) \in S /\ \A y \in S : y <= Max(S)
    <2> HIDE DEF S
    <2> QED BY <1>2, GreatestIs
<1>4. LoadNextBatchIdFromDb(disk) = Max(S) + 1
    BY DEF LoadNextBatchIdFromDb
<1> HIDE DEF S
<1>5. Max(S) \in Nat
    BY <1>2, <1>3
<1>6. \A u \in Users : \A i \in DOMAIN disk[u] : disk[u][i].id < Max(S) + 1
    BY <1>1, <1>3, <1>5
<1> QED BY <1>4, <1>5, <1>6 DEF DiskInv


-----------------------------------------------------------------------------
(* Filling the pipeline.                                                    *)

\* What filling the pipeline and sending from it leave alone.
Same(n, c) ==
    /\ n.network = c.network /\ n.shaken = c.shaken /\ n.user = c.user
    /\ n.callbacks = c.callbacks /\ n.disk = c.disk /\ n.told = c.told
    /\ n.nextBatchId = c.nextBatchId
    /\ n.net.out = c.net.out /\ n.net.closed = c.net.closed
    /\ (n.stream.state = "Open") = (c.stream.state = "Open")

\* The writes of some batches, in their order.
WritesOf(q) == [i \in 1 .. Len(q) |-> q[i].write]

\* The answers not read are to the first batches of the pipeline, a refusal is to
\* the next, and the requests on the wire are for the last.
OrderOf(p, net, applied) ==
    /\ \A i \in DOMAIN net.out : p[i].write \in applied
    /\ net.closed => p[Len(net.out) + 1].write \in Refused
    /\ \A i \in DOMAIN net.sent :
           net.sent[i] = p[Len(p) - Len(net.sent) + i].write

Order(c, applied) ==
    c.stream.state = "Open" /\ c.shaken => OrderOf(c.pipeline, c.net, applied)

KeepsOrder(n, c) == \A applied \in SUBSET Writes : Order(c, applied) => Order(n, applied)

LEMMA WriterFields ==
    ASSUME NEW c \in WriterType
    PROVE  /\ c.stream \in StreamType /\ c.shaken \in BOOLEAN /\ c.network \in BOOLEAN
           /\ c.pipeline \in Seq(Batches) /\ c.user \in Users
           /\ c.callbacks \in SUBSET Callbacks /\ c.disk \in [Users -> Seq(Batches)]
           /\ c.nextBatchId \in Nat \ {0} /\ c.net \in Calls
           /\ c.told \in [Writes -> Seq({"success", "failure"})]
           /\ c.ok \in BOOLEAN
           /\ c.net.sent \in Seq(Nat) /\ c.net.out \in Seq({"answer"})
           /\ c.net.closed \in BOOLEAN
           /\ c.disk[c.user] \in Seq(Batches)
BY DEF WriterType, Calls

LEMMA DueIs ==
    ASSUME NEW net, NEW s \in Nat, NEW o \in Nat,
           Len(net.sent) = s, Len(net.out) = o
    PROVE  /\ net.closed => Due(net) = s + o + 1
           /\ ~net.closed => Due(net) = s + o
BY DEF Due

LEMMA DueGrows ==
    ASSUME NEW a, NEW b, NEW k \in Nat, Len(a.sent) \in Nat, Len(a.out) \in Nat,
           Len(b.sent) = Len(a.sent) + k, b.out = a.out, b.closed = a.closed
    PROVE  Due(b) = Due(a) + k
<1>1. \A x, y, z \in Nat : (x + k) + y + z = x + y + z + k
    OBVIOUS
<1>2. PICK one \in {0, 1} : /\ Due(a) = Len(a.sent) + Len(a.out) + one
                            /\ Due(b) = Len(b.sent) + Len(b.out) + one
    <2>1. CASE a.closed
        BY <2>1 DEF Due
    <2>2. CASE ~a.closed
        BY <2>2 DEF Due
    <2> QED BY <2>1, <2>2
<1>3. one \in Nat
    BY <1>2
<1>4. Len(b.out) = Len(a.out)
    OBVIOUS
<1>5. Due(b) = (Len(a.sent) + k) + Len(a.out) + one
    BY Zenon, <1>2, <1>4
<1>6. (Len(a.sent) + k) + Len(a.out) + one = Len(a.sent) + Len(a.out) + one + k
    BY Zenon, <1>1, <1>3
<1>7. Due(a) = Len(a.sent) + Len(a.out) + one
    BY <1>2
<1> QED BY Zenon, <1>5, <1>6, <1>7

LEMMA WriteKeeps ==
    ASSUME NEW c \in WriterType, c.ok, c.shaken, c.stream.ok,
           c.stream.state = "Open", NEW batches \in Seq(Batches),
           batches # << >>, NEW n, n = WriteMutations(c, batches)
    PROVE  /\ n \in WriterType /\ n.ok /\ Same(n, c) /\ n.pipeline = c.pipeline
           /\ n.stream.ok /\ n.stream.asked = c.stream.asked
           /\ ~n.stream.idle /\ n.stream.state = "Open"
           /\ Len(n.net.sent) = Len(c.net.sent) + Len(batches)
           /\ n.net.sent = c.net.sent \o WritesOf(batches)
<1> DEFINE requests == WritesOf(batches)
           sent == c.net.sent \o requests
           s == Write(c.stream)
<1>1. /\ s \in StreamType /\ s.ok /\ s.state = "Open"
      /\ s.asked = c.stream.asked /\ ~s.idle
    BY WriterFields, OpenKeeps
<1>2. requests \in Seq(Nat) /\ Len(requests) = Len(batches)
    <2>1. DOMAIN batches = 1 .. Len(batches) /\ Len(batches) \in Nat
        OBVIOUS
    <2>2. \A i \in DOMAIN batches : batches[i].write \in Nat
        <3>1. \A i \in DOMAIN batches : batches[i] \in Batches
            OBVIOUS
        <3> QED BY <3>1, WriteAssumption DEF Batches, Writes
    <2>3. requests = [i \in DOMAIN batches |-> batches[i].write]
        BY <2>1 DEF WritesOf
    <2> HIDE DEF requests
    <2> QED BY <2>1, <2>2, <2>3
<1> HIDE DEF requests
<1>3. sent \in Seq(Nat) /\ Len(sent) = Len(c.net.sent) + Len(batches)
    <2>1. c.net.sent \in Seq(Nat)
        BY WriterFields
    <2>2. \A a, b \in Seq(Nat) :
              a \o b \in Seq(Nat) /\ Len(a \o b) = Len(a) + Len(b)
        OBVIOUS
    <2>3. sent \in Seq(Nat) /\ Len(sent) = Len(c.net.sent) + Len(requests)
        BY <1>2, <2>1, <2>2
    <2> QED BY <1>2, <2>3
<1>4. n = [c EXCEPT !.ok = TRUE, !.stream = s, !.net.sent = sent]
    <2>1. DOMAIN batches = 1 .. Len(batches)
        OBVIOUS
    <2>2. requests = [i \in DOMAIN batches |-> batches[i].write]
        BY <2>1 DEF WritesOf, requests
    <2> QED BY <2>2 DEF WriteMutations, HardAssert, WriterType
<1>9. sent = c.net.sent \o WritesOf(batches)
    BY DEF requests
<1> HIDE DEF s, sent
<1>5. [c.net EXCEPT !.sent = sent] \in Calls
    BY <1>3, WriterFields DEF Calls
<1>6. /\ n.ok /\ n.stream = s /\ n.net = [c.net EXCEPT !.sent = sent]
      /\ n.network = c.network /\ n.shaken = c.shaken /\ n.user = c.user
      /\ n.callbacks = c.callbacks /\ n.disk = c.disk /\ n.told = c.told
      /\ n.nextBatchId = c.nextBatchId /\ n.pipeline = c.pipeline
    BY <1>4 DEF WriterType
<1>7. n \in WriterType
    BY <1>1, <1>4, <1>5 DEF WriterType
<1>8. n.net.sent = sent /\ n.net.out = c.net.out /\ n.net.closed = c.net.closed
    BY <1>6, WriterFields DEF Calls
<1> QED BY <1>1, <1>3, <1>6, <1>7, <1>8, <1>9 DEF Same

LEMMA WritesOfType ==
    ASSUME NEW q \in Seq(Batches)
    PROVE  /\ WritesOf(q) \in Seq(Nat) /\ Len(WritesOf(q)) = Len(q)
           /\ DOMAIN WritesOf(q) = 1 .. Len(q) /\ DOMAIN q = 1 .. Len(q)
           /\ Len(q) \in Nat
           /\ \A i \in 1 .. Len(q) : WritesOf(q)[i] = q[i].write /\ q[i].write \in Writes
<1>1. DOMAIN q = 1 .. Len(q) /\ Len(q) \in Nat
    OBVIOUS
<1>2. \A i \in 1 .. Len(q) : q[i].write \in Writes
    <2>1. \A i \in 1 .. Len(q) : q[i] \in Batches
        BY <1>1
    <2> QED BY <2>1 DEF Batches
<1>3. \A i \in 1 .. Len(q) : q[i].write \in Nat
    BY <1>2, WriteAssumption DEF Writes
<1> QED BY <1>1, <1>2, <1>3 DEF WritesOf

\* The order stays when the pipeline and the wire get the same batches.
LEMMA OrderExtends ==
    ASSUME NEW p \in Seq(Batches), NEW more \in Seq(Batches), NEW applied,
           NEW net \in Calls, NEW m \in Calls, m.out = net.out,
           m.closed = net.closed, m.sent = net.sent \o WritesOf(more),
           Due(net) = Len(p), OrderOf(p, net, applied)
    PROVE  OrderOf(p \o more, m, applied)
<1> DEFINE r == p \o more
           s == net.sent
<1>1. /\ Len(p) \in Nat /\ Len(more) \in Nat /\ Len(r) = Len(p) + Len(more)
      /\ \A i \in 1 .. Len(p) : r[i] = p[i]
      /\ \A i \in 1 .. Len(more) : r[Len(p) + i] = more[i]
    OBVIOUS
<1>2. /\ s \in Seq(Nat) /\ Len(s) \in Nat /\ DOMAIN s = 1 .. Len(s)
      /\ Len(net.out) \in Nat /\ DOMAIN net.out = 1 .. Len(net.out)
    BY DEF Calls
<1>3. /\ Len(m.sent) = Len(s) + Len(more)
      /\ DOMAIN m.sent = 1 .. Len(s) + Len(more)
      /\ \A i \in 1 .. Len(s) : m.sent[i] = s[i]
      /\ \A i \in 1 .. Len(more) : m.sent[Len(s) + i] = more[i].write
    <2>1. /\ WritesOf(more) \in Seq(Nat) /\ Len(WritesOf(more)) = Len(more)
          /\ \A i \in 1 .. Len(more) : WritesOf(more)[i] = more[i].write
        BY WritesOfType
    <2> HIDE DEF s
    <2>2. m.sent = s \o WritesOf(more)
        BY DEF s
    <2> QED BY <1>1, <1>2, <2>1, <2>2
<1>4. /\ net.closed => Len(s) + Len(net.out) + 1 = Len(p)
      /\ ~net.closed => Len(s) + Len(net.out) = Len(p)
    BY <1>2, DueIs
<1> HIDE DEF r, s
<1>5. \A i \in DOMAIN m.out : r[i].write \in applied
    <2>1. \A i \in DOMAIN m.out : i \in 1 .. Len(p) /\ i \in DOMAIN net.out
        BY <1>1, <1>2, <1>4
    <2> QED BY <1>1, <2>1 DEF OrderOf
<1>6. m.closed => r[Len(m.out) + 1].write \in Refused
    <2>1. net.closed => Len(net.out) + 1 \in 1 .. Len(p)
        BY <1>1, <1>2, <1>4
    <2> QED BY <1>1, <2>1 DEF OrderOf
<1>7. ASSUME NEW i \in DOMAIN m.sent
      PROVE  m.sent[i] = r[Len(r) - Len(m.sent) + i].write
    <2>1. Len(r) - Len(m.sent) = Len(p) - Len(s)
        BY <1>1, <1>2, <1>3
    <2>2. CASE i \in 1 .. Len(s)
        <3>1. Len(p) - Len(s) + i \in 1 .. Len(p)
            BY <1>1, <1>2, <1>4, <2>2, SMTT(20)
        <3>2. s[i] = p[Len(p) - Len(s) + i].write
            BY <1>2, <2>2 DEF OrderOf, s
        <3> QED BY <1>1, <1>3, <2>1, <2>2, <3>1, <3>2
    <2>3. CASE i \notin 1 .. Len(s)
        <3>0. i \in 1 .. Len(s) + Len(more)
            BY <1>3
        <3>1. PICK k \in 1 .. Len(more) : Len(s) + k = i
            <4>1. \A a, b \in Nat, j \in Int :
                      j \in 1 .. a + b /\ j \notin 1 .. a =>
                          j - a \in 1 .. b /\ a + (j - a) = j
                OBVIOUS
            <4>2. i - Len(s) \in 1 .. Len(more) /\ Len(s) + (i - Len(s)) = i
                BY <1>1, <1>2, <2>3, <3>0, <4>1
            <4> QED BY <4>2
        <3>2. Len(p) - Len(s) + i = Len(p) + k
            <4>1. \A a, b \in Nat, j \in Int : a - b + (b + j) = a + j
                OBVIOUS
            <4> QED BY <1>1, <1>2, <3>1, <4>1
        <3>3. m.sent[i] = more[k].write
            BY <1>3, <3>1
        <3>4. r[Len(p) + k] = more[k]
            BY <1>1
        <3> QED BY <2>1, <3>2, <3>3, <3>4
    <2> QED BY <2>2, <2>3
<1> QED BY <1>5, <1>6, <1>7 DEF OrderOf, r

LEMMA AddKeeps ==
    ASSUME NEW c, CoreInv(c), c.network,
           c.stream.state = "Open" /\ ~c.shaken => c.disk[c.user] # << >>,
           NEW n, n = AddToWritePipeline(c, CanAddToWritePipeline(c))
    PROVE  /\ CoreInv(n) /\ Same(n, c) /\ KeepsOrder(n, c)
           /\ n.pipeline = << >> => n.disk[n.user] = << >>
<1> DEFINE more == CanAddToWritePipeline(c)
           queued == [c EXCEPT !.pipeline = c.pipeline \o more]
<1>0. c \in WriterType /\ c.ok /\ c.stream.ok
    BY DEF CoreInv, StreamInv
<1>1. /\ more \in Seq(Batches) /\ c.pipeline \o more \in Seq(Batches)
      /\ Len(c.pipeline \o more) = Len(c.pipeline) + Len(more)
      /\ PipeInv(c.pipeline \o more, c.disk[c.user])
      /\ c.pipeline \o more = << >> => c.disk[c.user] = << >>
    BY <1>0, BatchesToAdd DEF CoreInv
<1> HIDE DEF more
<1>2. /\ queued \in WriterType /\ queued.ok /\ queued.stream = c.stream
      /\ queued.net = c.net /\ queued.pipeline = c.pipeline \o more
      /\ Same(queued, c)
    BY <1>0, <1>1 DEF WriterType, Same
<1>3. n = IF IsOpen(c.stream) /\ c.shaken THEN WriteMutations(queued, more)
          ELSE queued
    <2>1. Len(c.pipeline) + Len(more) <= kMaxPendingWrites
        BY <1>1 DEF PipeInv
    <2>2. HardAssert(c, Len(c.pipeline) + Len(more) <= kMaxPendingWrites) = c
        BY <1>0, <2>1 DEF HardAssert, WriterType
    <2> QED BY <1>0, <2>2 DEF AddToWritePipeline, WriterType, more
<1> HIDE DEF queued
<1>4. CASE c.stream.state = "Open" /\ c.shaken /\ more # << >>
    <2>1. n = WriteMutations(queued, more)
        BY <1>3, <1>4 DEF IsOpen
    <2>2. /\ n \in WriterType /\ n.ok /\ Same(n, queued)
          /\ n.pipeline = queued.pipeline /\ n.stream.ok
          /\ n.stream.asked = c.stream.asked
          /\ ~n.stream.idle /\ n.stream.state = "Open"
          /\ Len(n.net.sent) = Len(c.net.sent) + Len(more)
          /\ n.net.sent = c.net.sent \o WritesOf(more)
        <3>1. queued.shaken /\ queued.stream.state = "Open" /\ queued.stream.ok
            BY <1>0, <1>2, <1>4 DEF Same
        <3>2. /\ n \in WriterType /\ n.ok /\ Same(n, queued)
              /\ n.pipeline = queued.pipeline /\ n.stream.ok
              /\ n.stream.asked = queued.stream.asked
              /\ ~n.stream.idle /\ n.stream.state = "Open"
              /\ Len(n.net.sent) = Len(queued.net.sent) + Len(more)
              /\ n.net.sent = queued.net.sent \o WritesOf(more)
            <4>1. queued \in WriterType /\ queued.ok
                BY <1>2
            <4>2. more \in Seq(Batches) /\ more # << >>
                BY <1>1, <1>4
            <4> QED BY ZenonT(30), <2>1, <3>1, <4>1, <4>2, WriteKeeps
        <3> QED BY <1>2, <3>2
    <2>3. Same(n, c) /\ n.pipeline = c.pipeline \o more
        BY <1>2, <2>2 DEF Same
    <2>4. StreamInv(n)
        BY <2>2, <1>4 DEF StreamInv, CoreInv
    <2>5. Due(c.net) = Len(c.pipeline)
        BY <1>4 DEF CoreInv, WireInv
    <2>6. Due(n.net) = Len(n.pipeline)
        <3>1. /\ Len(c.net.sent) \in Nat /\ Len(c.net.out) \in Nat
              /\ Len(more) \in Nat /\ Len(c.pipeline) \in Nat
            BY <1>0, <1>1, WriterFields
        <3>2. /\ Len(n.net.sent) = Len(c.net.sent) + Len(more)
              /\ n.net.out = c.net.out /\ n.net.closed = c.net.closed
              /\ Len(n.pipeline) = Len(c.pipeline) + Len(more)
            BY <1>1, <2>2, <2>3 DEF Same
        <3>3. Due(n.net) = Due(c.net) + Len(more)
            BY <3>1, <3>2, DueGrows
        <3> QED BY <2>5, <3>2, <3>3
    <2>7. WireInv(n)
        BY <1>4, <2>2, <2>3, <2>6 DEF WireInv, Same
    <2>8. CoreInv(n)
        BY <1>1, <2>2, <2>3, <2>4, <2>7 DEF CoreInv, Same
    <2>9. KeepsOrder(n, c)
        <3> SUFFICES ASSUME NEW applied \in SUBSET Writes,
                            OrderOf(c.pipeline, c.net, applied)
                     PROVE  OrderOf(n.pipeline, n.net, applied)
            BY <1>4 DEF KeepsOrder, Order
        <3>1. c.net \in Calls /\ n.net \in Calls /\ c.pipeline \in Seq(Batches)
            BY <1>0, <2>2, WriterFields
        <3>2. /\ n.net.out = c.net.out /\ n.net.closed = c.net.closed
              /\ n.net.sent = c.net.sent \o WritesOf(more)
            BY <2>2, <2>3 DEF Same
        <3>3. OrderOf(c.pipeline \o more, n.net, applied)
            BY <1>1, <2>5, <3>1, <3>2, OrderExtends
        <3> QED BY <2>3, <3>3
    <2> QED BY <1>1, <2>3, <2>8, <2>9 DEF Same
<1>5. CASE ~(c.stream.state = "Open" /\ c.shaken /\ more # << >>)
    <2>1. n = queued
        BY <1>3, <1>5 DEF IsOpen, WriteMutations
    <2>2. StreamInv(n)
        <3>1. c.stream.idle =>
                  /\ c.stream.state = "Open" /\ c.shaken /\ c.pipeline = << >>
            BY DEF CoreInv, StreamInv
        <3>2. c.stream.idle => n.pipeline = << >>
            BY <1>2, <1>5, <2>1, <3>1
        <3> QED BY <1>2, <2>1, <3>1, <3>2 DEF CoreInv, StreamInv, Same
    <2>3. WireInv(n)
        <3>1. c.stream.state = "Open" /\ c.shaken => Len(n.pipeline) = Len(c.pipeline)
            <4>1. c.stream.state = "Open" /\ c.shaken => Len(more) = 0
                BY <1>5
            <4> QED BY <1>0, <1>1, <1>2, <2>1, <4>1, WriterFields
        <3> QED BY <1>2, <2>1, <3>1 DEF CoreInv, WireInv, Same
    <2>4. CoreInv(n)
        BY <1>1, <1>2, <2>1, <2>2, <2>3 DEF CoreInv, Same
    <2>5. KeepsOrder(n, c)
        <3>1. c.stream.state = "Open" /\ c.shaken => n.pipeline = c.pipeline
            <4>1. c.pipeline \in Seq(Batches) /\ c.pipeline \o << >> = c.pipeline
                BY <1>0, WriterFields, ConcatEmptySeq
            <4> QED BY <1>2, <1>5, <2>1, <4>1
        <3>2. n.stream = c.stream /\ n.net = c.net /\ n.shaken = c.shaken
            BY <1>2, <2>1 DEF Same
        <3> QED BY <3>1, <3>2 DEF KeepsOrder, Order
    <2> QED BY <1>1, <1>2, <2>1, <2>4, <2>5 DEF Same
<1> QED BY <1>4, <1>5

\* Starting the stream for what is in the pipeline.
LEMMA StartWriteKeeps ==
    ASSUME NEW c, CoreInv(c), ShouldStartWriteStream(c),
           NEW n, n = StartWriteStream(c)
    PROVE  /\ CoreInv(n) /\ Same(n, c) /\ n.pipeline = c.pipeline
           /\ IsStarted(n.stream) /\ n.stream.state # "Open" /\ KeepsOrder(n, c)
<1> DEFINE s == Start(c.stream)
<1>0. c \in WriterType /\ c.stream \in StreamType /\ c.ok
    BY WriterFields DEF CoreInv
<1>1. /\ c.stream.ok /\ ~IsStarted(c.stream) /\ ~c.stream.asked
      /\ ~c.stream.idle /\ c.stream.state # "Open"
    BY DEF CoreInv, StreamInv, ShouldStartWriteStream, IsStarted
<1>2. /\ s \in StreamType /\ s.ok /\ IsStarted(s) /\ ~s.idle
      /\ s.state # "Open" /\ (s.asked => s.state = "Starting")
    BY <1>0, <1>1, StartKeeps
<1>3. n = [c EXCEPT !.stream = s]
    BY <1>0 DEF StartWriteStream, HardAssert, WriterType
<1> HIDE DEF s
<1>4. /\ n \in WriterType /\ n.stream = s /\ n.ok = c.ok
      /\ n.net = c.net /\ n.pipeline = c.pipeline /\ Same(n, c)
    BY <1>0, <1>1, <1>2, <1>3 DEF WriterType, Same
<1>5. StreamInv(n)
    BY <1>2, <1>4 DEF StreamInv
<1>6. WireInv(n)
    BY <1>1, <1>2, <1>4 DEF CoreInv, WireInv
<1> QED BY <1>2, <1>4, <1>5, <1>6 DEF CoreInv, Same, KeepsOrder, Order

\* Filling the pipeline of a client with the network on: the client is one whose
\* pipeline is filled, but for a handshake of a stream closed just now.
LEMMA FillKeeps ==
    ASSUME NEW c, CoreInv(c), c.network,
           c.stream.state = "Open" /\ ~c.shaken => c.disk[c.user] # << >>,
           NEW n, n = FillWritePipeline(c)
    PROVE  /\ CoreInv(n) /\ Same(n, c) /\ KeepsOrder(n, c)
           /\ n.pipeline = << >> => n.disk[n.user] = << >>
           /\ n.pipeline # << >> => IsStarted(n.stream)
<1> DEFINE filled == AddToWritePipeline(c, CanAddToWritePipeline(c))
           idle == IF filled.network /\ filled.pipeline = << >>
                   THEN [filled EXCEPT !.stream = MarkIdle(@)] ELSE filled
<1>1. /\ CoreInv(filled) /\ Same(filled, c) /\ KeepsOrder(filled, c)
      /\ filled.pipeline = << >> => filled.disk[filled.user] = << >>
    BY AddKeeps
<1>2. n = IF ShouldStartWriteStream(idle) THEN StartWriteStream(idle) ELSE idle
    BY DEF FillWritePipeline
<1> HIDE DEF filled
<1>3. filled \in WriterType /\ filled.stream \in StreamType
    BY <1>1, WriterFields DEF CoreInv
<1>4. /\ CoreInv(idle) /\ Same(idle, filled) /\ idle.pipeline = filled.pipeline
      /\ idle.net = filled.net
    <2>1. CASE ~(filled.network /\ filled.pipeline = << >>)
        BY <1>1, <2>1 DEF Same
    <2>2. CASE filled.pipeline = << >> /\ filled.stream.state # "Open"
        <3>1. ~filled.stream.idle
            BY <1>1, <2>2 DEF CoreInv, StreamInv
        <3>2. MarkIdle(filled.stream) = filled.stream
            BY <1>3, <2>2, <3>1, StoppedKeeps
        <3>3. idle = filled
            BY <1>3, <3>2 DEF WriterType
        <3> QED BY <1>1, <3>3 DEF Same
    <2>3. CASE filled.pipeline = << >> /\ filled.stream.state = "Open"
        <3>0. filled.shaken
            BY <1>1, <2>3 DEF Same
        <3>1. CASE ~filled.network
            BY <1>1, <3>1 DEF Same
        <3>2. CASE filled.network
            <4> DEFINE s == MarkIdle(filled.stream)
            <4>1. /\ s \in StreamType /\ s.ok /\ s.state = "Open"
                  /\ s.asked = filled.stream.asked
                BY <1>1, <1>3, <2>3, OpenKeeps DEF CoreInv, StreamInv
            <4>2. idle = [filled EXCEPT !.stream = s]
                BY <2>3, <3>2
            <4> HIDE DEF s, idle
            <4>3. /\ idle \in WriterType /\ idle.stream = s /\ idle.ok = filled.ok
                  /\ idle.net = filled.net /\ idle.pipeline = filled.pipeline
                  /\ Same(idle, filled)
                BY <1>3, <4>1, <4>2, <2>3 DEF WriterType, Same
            <4>4. StreamInv(idle)
                BY <1>1, <2>3, <3>0, <4>1, <4>3 DEF CoreInv, StreamInv, Same
            <4>5. WireInv(idle)
                BY <1>1, <2>3, <4>1, <4>3 DEF CoreInv, WireInv, Same
            <4> QED BY <1>1, <4>3, <4>4, <4>5 DEF CoreInv, Same
        <3> QED BY <3>1, <3>2
    <2> QED BY <2>1, <2>2, <2>3
<1> HIDE DEF idle
<1>5. KeepsOrder(idle, c)
    BY <1>1, <1>4 DEF KeepsOrder, Order, Same
<1>6. CASE ~ShouldStartWriteStream(idle)
    <2>1. n = idle
        BY <1>2, <1>6
    <2>2. idle.network
        BY <1>1, <1>4 DEF Same
    <2> QED BY <1>1, <1>4, <1>5, <1>6, <2>1, <2>2 DEF Same, ShouldStartWriteStream
<1>7. CASE ShouldStartWriteStream(idle)
    <2>1. n = StartWriteStream(idle)
        BY <1>2, <1>7
    <2>2. /\ CoreInv(n) /\ Same(n, idle) /\ n.pipeline = idle.pipeline
          /\ IsStarted(n.stream) /\ KeepsOrder(n, idle)
        BY <1>4, <1>7, <2>1, StartWriteKeeps
    <2>3. KeepsOrder(n, c)
        BY <1>5, <2>2 DEF KeepsOrder
    <2> QED BY <1>1, <1>4, <2>2, <2>3 DEF Same
<1> QED BY <1>6, <1>7

-----------------------------------------------------------------------------
(* The head of the pipeline is done with.                                   *)

\* Whose completion was called with what.
ToldAfter(c, id, outcome) ==
    [w \in Writes |->
        IF \E k \in c.callbacks : k.user = c.user /\ k.id = id /\ k.write = w
        THEN Append(c.told[w], outcome) ELSE c.told[w]]

\* What calling the completion of a batch, and taking it off the disk, leave.
Notified(n, c, id, outcome) ==
    /\ n \in WriterType /\ n.told = ToldAfter(c, id, outcome) /\ n.callbacks \subseteq c.callbacks
    /\ \A k \in n.callbacks : ~(k.user = c.user /\ k.id = id)
    /\ n.pipeline = c.pipeline /\ n.disk = c.disk /\ n.user = c.user
    /\ n.nextBatchId = c.nextBatchId /\ n.stream = c.stream
    /\ n.net = c.net /\ n.shaken = c.shaken /\ n.network = c.network
    /\ n.ok = c.ok

Removed(n, c) ==
    /\ n \in WriterType /\ n.disk = [c.disk EXCEPT ![c.user] = Tail(@)]
    /\ n.pipeline = c.pipeline /\ n.callbacks = c.callbacks
    /\ n.user = c.user /\ n.nextBatchId = c.nextBatchId
    /\ n.stream = c.stream /\ n.net = c.net /\ n.told = c.told
    /\ n.shaken = c.shaken /\ n.network = c.network /\ n.ok = c.ok

LEMMA NotifyKeeps ==
    ASSUME NEW c \in WriterType, NEW id, NEW outcome,
           outcome \in {"success", "failure"}, NEW n, n = NotifyUser(c, id, outcome)
    PROVE  Notified(n, c, id, outcome)
<1> DEFINE found == {k \in c.callbacks : k.user = c.user /\ k.id = id}
           told == [w \in Writes |->
                       IF \E k \in found : k.write = w
                       THEN Append(c.told[w], outcome) ELSE c.told[w]]
<1>1. told \in [Writes -> Seq({"success", "failure"})]
    <2>1. \A w \in Writes : c.told[w] \in Seq({"success", "failure"})
        BY WriterFields
    <2> HIDE DEF found
    <2>2. \A w \in Writes :
              Append(c.told[w], outcome) \in Seq({"success", "failure"})
        BY <2>1
    <2> QED BY <2>1, <2>2
<1>2. n = [c EXCEPT !.callbacks = c.callbacks \ found, !.told = told]
    BY DEF NotifyUser
<1>7. told = ToldAfter(c, id, outcome)
    BY DEF ToldAfter
<1>3. c.callbacks \ found \in SUBSET Callbacks
    BY WriterFields
<1>4. \A k \in c.callbacks \ found : ~(k.user = c.user /\ k.id = id)
    OBVIOUS
<1> HIDE DEF told, found
<1>5. n \in WriterType
    BY <1>1, <1>2, <1>3 DEF WriterType
<1>6. n.callbacks = c.callbacks \ found /\ n.told = told
    BY <1>2 DEF WriterType
<1> QED BY <1>2, <1>4, <1>5, <1>6, <1>7 DEF WriterType, Notified

LEMMA RemoveKeeps ==
    ASSUME NEW c \in WriterType, DiskInv(c.disk, c.nextBatchId),
           c.disk[c.user] # << >>, NEW n,
           n = RemoveMutationBatch(c, Head(c.disk[c.user]))
    PROVE  Removed(n, c)
<1> DEFINE disk == [c.disk EXCEPT ![c.user] = Tail(@)]
<1>1. n = [c EXCEPT !.disk = disk]
    BY RemoveHead
<1>2. disk \in [Users -> Seq(Batches)]
    <2>1. Tail(c.disk[c.user]) \in Seq(Batches)
        BY WriterFields
    <2> QED BY <2>1, WriterFields
<1> HIDE DEF disk
<1>3. n \in WriterType
    BY <1>1, <1>2 DEF WriterType
<1> QED BY <1>1, <1>3 DEF WriterType, Removed, disk

\* The head leaves the pipeline, the disk and the completions together.
LEMMA HeadDone ==
    ASSUME NEW c \in WriterType, DiskInv(c.disk, c.nextBatchId),
           CallbackInv(c.callbacks, c.disk), PipeInv(c.pipeline, c.disk[c.user]),
           c.pipeline # << >>,
           NEW callbacks, callbacks \subseteq c.callbacks,
           \A k \in callbacks : ~(k.user = c.user /\ k.id = Head(c.pipeline).id),
           NEW disk, disk = [c.disk EXCEPT ![c.user] = Tail(@)]
    PROVE  /\ DiskInv(disk, c.nextBatchId) /\ CallbackInv(callbacks, disk)
           /\ PipeInv(Tail(c.pipeline), disk[c.user])
           /\ c.disk[c.user] # << >> /\ Head(c.pipeline) = Head(c.disk[c.user])
           /\ Tail(c.pipeline) \in Seq(Batches)
           /\ Len(Tail(c.pipeline)) = Len(c.pipeline) - 1 /\ Len(c.pipeline) \in Nat
<1> DEFINE p == c.pipeline
           q == c.disk[c.user]
<1>1. /\ p \in Seq(Batches) /\ q \in Seq(Batches) /\ Increasing(q)
      /\ c.user \in Users /\ c.disk \in [Users -> Seq(Batches)]
    BY WriterFields DEF DiskInv
<1>2. /\ Len(p) \in Nat \ {0} /\ Len(p) <= Len(q) /\ Len(p) <= kMaxPendingWrites
      /\ \A i \in 1 .. Len(p) : p[i] = q[i]
      /\ Len(q) \in Nat /\ q # << >> /\ 1 \in 1 .. Len(p)
    <2>1. Len(p) \in Nat \ {0} /\ DOMAIN p = 1 .. Len(p) /\ Len(q) \in Nat
        BY <1>1, EmptySeq
    <2>2. Begins(p, q) /\ Len(p) <= kMaxPendingWrites
        BY DEF PipeInv
    <2> HIDE DEF p, q
    <2>3. q # << >>
        BY <1>1, <2>1, <2>2, EmptySeq DEF Begins
    <2> QED BY <2>1, <2>2, <2>3 DEF Begins
<1>3. /\ Tail(q) \in Seq(Batches) /\ Increasing(Tail(q)) /\ Head(q) = q[1]
      /\ Len(Tail(q)) = Len(q) - 1
      /\ DOMAIN q = 1 .. Len(q) /\ DOMAIN Tail(q) = 1 .. Len(q) - 1
      /\ \A i \in DOMAIN Tail(q) : i + 1 \in DOMAIN q /\ Tail(q)[i] = q[i + 1]
      /\ \A i \in DOMAIN q :
             i = 1 \/ (i - 1 \in DOMAIN Tail(q) /\ Tail(q)[i - 1] = q[i])
    <2> HIDE DEF q
    <2> QED BY <1>1, <1>2, TailOfQueue
<1>4. /\ Tail(p) \in Seq(Batches) /\ Len(Tail(p)) = Len(p) - 1 /\ Head(p) = p[1]
      /\ DOMAIN Tail(p) = 1 .. Len(p) - 1
      /\ \A i \in 1 .. Len(p) - 1 : Tail(p)[i] = p[i + 1]
    <2> HIDE DEF p
    <2> QED BY <1>1, <1>2
<1>5. /\ disk \in [Users -> Seq(Batches)] /\ disk[c.user] = Tail(q)
      /\ \A u \in Users : u # c.user => disk[u] = c.disk[u]
    BY <1>1, <1>3
<1>6. DiskInv(disk, c.nextBatchId)
    <2> SUFFICES ASSUME NEW u \in Users
                 PROVE  /\ Increasing(disk[u])
                        /\ \A i \in DOMAIN disk[u] : disk[u][i].id < c.nextBatchId
        BY <1>5 DEF DiskInv
    <2>1. CASE u # c.user
        BY <1>5, <2>1 DEF DiskInv
    <2>2. CASE u = c.user
        <3>1. \A i \in DOMAIN q : q[i].id < c.nextBatchId
            BY <1>1 DEF DiskInv
        <3> HIDE DEF q
        <3>2. \A i \in DOMAIN Tail(q) : Tail(q)[i].id < c.nextBatchId
            BY <1>3, <3>1
        <3>3. disk[u] = Tail(q)
            BY <1>5, <2>2
        <3> QED BY <1>3, <3>2, <3>3
    <2> QED BY <2>1, <2>2
<1>7. CallbackInv(callbacks, disk)
    <2> SUFFICES ASSUME NEW k \in callbacks
                 PROVE  \E i \in DOMAIN disk[k.user] :
                            disk[k.user][i] = [id |-> k.id, write |-> k.write]
        BY DEF CallbackInv
    <2>1. k.user \in Users
        BY WriterFields DEF Callbacks
    <2>2. PICK i \in DOMAIN c.disk[k.user] :
              c.disk[k.user][i] = [id |-> k.id, write |-> k.write]
        BY DEF CallbackInv
    <2>3. CASE k.user # c.user
        BY <1>5, <2>1, <2>2, <2>3
    <2>4. CASE k.user = c.user
        <3>1. i \in DOMAIN q /\ q[i] = [id |-> k.id, write |-> k.write]
            BY <2>2, <2>4
        <3>2. i # 1
            <4>1. q[i].id = k.id
                BY <3>1
            <4>2. Head(p) = q[1]
                BY <1>2, <1>4
            <4>3. k.id # Head(p).id
                BY <2>4
            <4> HIDE DEF p, q
            <4> QED BY <4>1, <4>2, <4>3
        <3> HIDE DEF q
        <3>3. i - 1 \in DOMAIN Tail(q) /\ Tail(q)[i - 1] = q[i]
            BY <1>3, <3>1, <3>2
        <3>4. disk[k.user] = Tail(q)
            BY <1>5, <2>4
        <3> QED BY <3>1, <3>3, <3>4
    <2> QED BY <2>3, <2>4
<1>8. PipeInv(Tail(p), Tail(q))
    <2> HIDE DEF p, q
    <2>1. \A i \in 1 .. Len(p) - 1 : Tail(p)[i] = Tail(q)[i]
        <3> TAKE i \in 1 .. Len(p) - 1
        <3>1. i + 1 \in 1 .. Len(p) /\ i \in 1 .. Len(q) - 1
            BY <1>2
        <3> QED BY <1>2, <1>3, <1>4, <3>1
    <2>2. Len(Tail(p)) <= Len(Tail(q)) /\ Len(Tail(p)) <= kMaxPendingWrites
        BY <1>2, <1>3, <1>4, WriteAssumption
    <2> QED BY <1>4, <2>1, <2>2 DEF PipeInv, Begins
<1>9. Head(p) = Head(q)
    BY <1>2, <1>3, <1>4
<1> QED BY <1>2, <1>4, <1>5, <1>6, <1>7, <1>8, <1>9

\* What a method leaves of the disk and the completions: nothing changes, or the
\* head of the pipeline is done with.
Quiet(n, c) ==
    n.disk = c.disk /\ n.told = c.told /\ n.callbacks \subseteq c.callbacks

Done(n, c, outcome) ==
    /\ n.disk = [c.disk EXCEPT ![c.user] = Tail(@)]
    /\ n.told = ToldAfter(c, Head(c.pipeline).id, outcome)
    /\ n.callbacks \subseteq c.callbacks
    /\ \A k \in n.callbacks : ~(k.user = c.user /\ k.id = Head(c.pipeline).id)

LEMMA ResultKeeps ==
    ASSUME NEW c \in WriterType, c.ok, DiskInv(c.disk, c.nextBatchId),
           CallbackInv(c.callbacks, c.disk), PipeInv(c.pipeline, c.disk[c.user]),
           StreamInv(c), c.network, c.shaken, c.stream.state = "Open",
           c.pipeline # << >>, Due(c.net) = Len(c.pipeline) - 1,
           NEW n, n = OnWriteStreamMutationResult(c)
    PROVE  /\ ClientInv(n) /\ n.stream.state = "Open"
           /\ n.net.out = c.net.out /\ n.net.closed = c.net.closed
           /\ Done(n, c, "success")
           /\ \A applied \in SUBSET Writes :
                  OrderOf(Tail(c.pipeline), c.net, applied) => Order(n, applied)
<1> DEFINE b == Head(c.pipeline)
           p == Tail(c.pipeline)
           popped == [c EXCEPT !.pipeline = p]
           notified == NotifyUser(popped, b.id, "success")
           done == RemoveMutationBatch(notified, b)
<1>1. n = FillWritePipeline(done)
    BY DEF OnWriteStreamMutationResult
<1>2. p \in Seq(Batches)
    BY WriterFields
<1>3. /\ popped \in WriterType /\ popped.pipeline = p /\ popped.disk = c.disk
      /\ popped.user = c.user /\ popped.nextBatchId = c.nextBatchId
      /\ popped.callbacks = c.callbacks /\ popped.stream = c.stream
      /\ popped.net = c.net /\ popped.shaken = c.shaken
      /\ popped.network = c.network /\ popped.ok = c.ok
    BY <1>2 DEF WriterType
<1> HIDE DEF popped, p
<1>4. /\ notified \in WriterType /\ notified.callbacks \subseteq c.callbacks
      /\ \A k \in notified.callbacks : ~(k.user = c.user /\ k.id = b.id)
      /\ notified.pipeline = p /\ notified.disk = c.disk
      /\ notified.user = c.user /\ notified.nextBatchId = c.nextBatchId
      /\ notified.stream = c.stream /\ notified.net = c.net
      /\ notified.shaken = c.shaken /\ notified.network = c.network
      /\ notified.ok = c.ok
      /\ notified.told = ToldAfter(c, b.id, "success")
    <2> HIDE DEF b, notified
    <2>1. notified = NotifyUser(popped, b.id, "success")
        BY DEF notified
    <2>2. "success" \in {"success", "failure"}
        OBVIOUS
    <2>3. Notified(notified, popped, b.id, "success")
        BY Zenon, <1>3, <2>1, <2>2, NotifyKeeps
    <2>4. ToldAfter(popped, b.id, "success") = ToldAfter(c, b.id, "success")
        <3>1. popped.told = c.told
            BY DEF popped, WriterType
        <3> QED BY <1>3, <3>1 DEF ToldAfter
    <2> QED BY <1>3, <2>3, <2>4 DEF Notified
<1> HIDE DEF notified
<1> DEFINE disk == [c.disk EXCEPT ![c.user] = Tail(@)]
<1>5. /\ DiskInv(disk, c.nextBatchId) /\ CallbackInv(notified.callbacks, disk)
      /\ PipeInv(p, disk[c.user])
      /\ c.disk[c.user] # << >> /\ b = Head(c.disk[c.user])
      /\ Len(p) = Len(c.pipeline) - 1
    BY <1>4, HeadDone DEF p
<1>6. /\ done \in WriterType /\ done.disk = disk
      /\ done.pipeline = p /\ done.callbacks = notified.callbacks
      /\ done.user = c.user /\ done.nextBatchId = c.nextBatchId
      /\ done.stream = c.stream /\ done.net = c.net
      /\ done.shaken = c.shaken /\ done.network = c.network /\ done.ok = c.ok
      /\ done.told = notified.told
    <2> HIDE DEF b, done, disk
    <2>1. done = RemoveMutationBatch(notified, Head(notified.disk[notified.user]))
        BY <1>4, <1>5 DEF done
    <2>2. DiskInv(notified.disk, notified.nextBatchId)
        BY <1>4
    <2>3. notified.disk[notified.user] # << >>
        BY <1>4, <1>5
    <2>4. Removed(done, notified)
        BY Zenon, <1>4, <2>1, <2>2, <2>3, RemoveKeeps
    <2> QED BY <1>4, <2>4 DEF Removed, disk
<1> HIDE DEF done
<1>7. ~c.stream.idle
    BY DEF StreamInv
<1>8. StreamInv(done) /\ WireInv(done)
    BY <1>5, <1>6, <1>7 DEF StreamInv, WireInv
<1>9. CoreInv(done)
    BY <1>5, <1>6, <1>8 DEF CoreInv
<1>10. /\ CoreInv(n) /\ Same(n, done) /\ KeepsOrder(n, done)
       /\ n.pipeline = << >> => n.disk[n.user] = << >>
       /\ n.pipeline # << >> => IsStarted(n.stream)
    BY <1>1, <1>6, <1>9, FillKeeps
<1>11. /\ n.network /\ n.stream.state = "Open"
       /\ n.net.out = c.net.out /\ n.net.closed = c.net.closed
    BY <1>6, <1>10 DEF Same
<1>12. Done(n, c, "success")
    <2>1. /\ n.disk = disk /\ n.told = ToldAfter(c, b.id, "success")
          /\ n.callbacks = notified.callbacks
        BY <1>4, <1>6, <1>10 DEF Same
    <2> QED BY <1>4, <2>1 DEF Done
<1>13. \A applied \in SUBSET Writes :
           OrderOf(Tail(c.pipeline), c.net, applied) => Order(n, applied)
    BY <1>6, <1>10 DEF KeepsOrder, Order, p
<1> QED BY <1>10, <1>11, <1>12, <1>13 DEF ClientInv, FilledInv

LEMMA ErrorKeeps ==
    ASSUME NEW c, CoreInv(c), c.network, ~IsStarted(c.stream),
           c.pipeline # << >>, NEW n, n = HandleWriteError(c)
    PROVE  /\ CoreInv(n) /\ n.network /\ n.stream.state # "Open"
           /\ n.pipeline = << >> => n.disk[n.user] = << >>
           /\ Done(n, c, "failure")
<1> DEFINE b == Head(c.pipeline)
           p == Tail(c.pipeline)
           s == InhibitBackoff(c.stream)
           popped == [c EXCEPT !.pipeline = p, !.stream = s]
           removed == RemoveMutationBatch(popped, b)
           done == NotifyUser(removed, b.id, "failure")
<1>0. /\ c \in WriterType /\ c.ok /\ DiskInv(c.disk, c.nextBatchId)
      /\ CallbackInv(c.callbacks, c.disk)
      /\ PipeInv(c.pipeline, c.disk[c.user]) /\ c.stream \in StreamType
    BY WriterFields DEF CoreInv
<1>1. n = FillWritePipeline(done)
    BY DEF HandleWriteError
<1>2. p \in Seq(Batches)
    BY <1>0, WriterFields
<1>3. s \in StreamType /\ s.ok /\ s.state = "Initial" /\ ~s.asked /\ ~s.idle
    <2>1. c.stream.ok /\ ~c.stream.asked /\ ~c.stream.idle
        BY DEF CoreInv, StreamInv, IsStarted
    <2> QED BY <1>0, <2>1, InhibitKeeps
<1> HIDE DEF s, p
<1>4. /\ popped \in WriterType /\ popped.pipeline = p /\ popped.disk = c.disk
      /\ popped.user = c.user /\ popped.nextBatchId = c.nextBatchId
      /\ popped.callbacks = c.callbacks /\ popped.stream = s
      /\ popped.net = c.net /\ popped.network = c.network /\ popped.ok = c.ok
    BY <1>0, <1>2, <1>3 DEF WriterType
<1> HIDE DEF popped
<1> DEFINE disk == [c.disk EXCEPT ![c.user] = Tail(@)]
           callbacks == {k \in c.callbacks : ~(k.user = c.user /\ k.id = b.id)}
<1>5. /\ DiskInv(disk, c.nextBatchId) /\ CallbackInv(callbacks, disk)
      /\ PipeInv(p, disk[c.user])
      /\ c.disk[c.user] # << >> /\ b = Head(c.disk[c.user])
    <2>1. callbacks \subseteq c.callbacks
        OBVIOUS
    <2>2. \A k \in callbacks : ~(k.user = c.user /\ k.id = Head(c.pipeline).id)
        OBVIOUS
    <2> HIDE DEF callbacks
    <2> QED BY <1>0, <2>1, <2>2, HeadDone DEF p
<1>6. /\ removed \in WriterType /\ removed.disk = disk
      /\ removed.pipeline = p /\ removed.callbacks = c.callbacks
      /\ removed.user = c.user /\ removed.nextBatchId = c.nextBatchId
      /\ removed.stream = s /\ removed.net = c.net
      /\ removed.network = c.network /\ removed.ok = c.ok
      /\ removed.told = c.told
    <2> HIDE DEF b, removed, disk
    <2>1. removed = RemoveMutationBatch(popped, Head(popped.disk[popped.user]))
        BY <1>4, <1>5 DEF removed
    <2>2. DiskInv(popped.disk, popped.nextBatchId)
        BY <1>0, <1>4
    <2>3. popped.disk[popped.user] # << >>
        BY <1>4, <1>5
    <2>4. Removed(removed, popped)
        BY Zenon, <1>4, <2>1, <2>2, <2>3, RemoveKeeps
    <2>5. popped.told = c.told
        BY <1>0 DEF popped, WriterType
    <2> QED BY <1>4, <2>4, <2>5 DEF Removed, disk
<1> HIDE DEF removed, disk
<1>7. /\ done \in WriterType /\ done.callbacks \subseteq callbacks
      /\ done.told = ToldAfter(c, b.id, "failure")
      /\ done.pipeline = p /\ done.disk = disk /\ done.user = c.user
      /\ done.nextBatchId = c.nextBatchId /\ done.stream = s
      /\ done.net = c.net /\ done.network = c.network /\ done.ok = c.ok
    <2> HIDE DEF b, done
    <2>1. done = NotifyUser(removed, b.id, "failure")
        BY DEF done
    <2>2. "failure" \in {"success", "failure"}
        OBVIOUS
    <2>3. Notified(done, removed, b.id, "failure")
        BY Zenon, <1>6, <2>1, <2>2, NotifyKeeps
    <2>4. ToldAfter(removed, b.id, "failure") = ToldAfter(c, b.id, "failure")
        BY <1>6 DEF ToldAfter
    <2> QED BY <1>6, <2>3, <2>4 DEF Notified
<1>8. CallbackInv(done.callbacks, done.disk)
    BY <1>5, <1>7 DEF CallbackInv
<1> HIDE DEF done
<1>9. StreamInv(done)
    BY <1>3, <1>7 DEF StreamInv
<1>10. WireInv(done)
    <2>1. c.net = NewCall
        BY DEF CoreInv, WireInv, IsStarted
    <2> QED BY <1>3, <1>7, <2>1 DEF WireInv
<1>11. CoreInv(done)
    BY <1>0, <1>5, <1>7, <1>8, <1>9, <1>10 DEF CoreInv
<1>12. done.network /\ done.stream.state # "Open"
    BY <1>3, <1>7
<1>13. /\ CoreInv(n) /\ Same(n, done)
       /\ n.pipeline = << >> => n.disk[n.user] = << >>
    BY <1>1, <1>11, <1>12, FillKeeps
<1>14. Done(n, c, "failure")
    <2>1. /\ n.disk = disk /\ n.told = ToldAfter(c, b.id, "failure")
          /\ n.callbacks \subseteq callbacks
        BY <1>7, <1>13 DEF Same
    <2> QED BY <2>1 DEF Done, disk
<1> QED BY <1>12, <1>13, <1>14 DEF Same

\* The end of OnWriteStreamClose: the stream starts again for what is left.
Restarted(c) ==
    [IF ShouldStartWriteStream(c) THEN StartWriteStream(c) ELSE c
        EXCEPT !.shaken = FALSE]

LEMMA RestartKeeps ==
    ASSUME NEW c, CoreInv(c), c.stream.state # "Open",
           c.network /\ c.pipeline = << >> => c.disk[c.user] = << >>,
           NEW n, n = Restarted(c)
    PROVE  /\ CoreInv(n) /\ n.network = c.network /\ ~n.shaken
           /\ n.stream.state # "Open" /\ n.disk = c.disk /\ n.user = c.user
           /\ n.told = c.told /\ n.callbacks = c.callbacks
           /\ n.network => FilledInv(n)
<1> DEFINE r == IF ShouldStartWriteStream(c) THEN StartWriteStream(c) ELSE c
<1>1. /\ CoreInv(r) /\ r.stream.state # "Open" /\ r.pipeline = c.pipeline
      /\ r.network = c.network /\ r.disk = c.disk /\ r.user = c.user
      /\ r.told = c.told /\ r.callbacks = c.callbacks
      /\ r.network /\ r.pipeline # << >> => IsStarted(r.stream)
    <2>1. CASE ShouldStartWriteStream(c)
        <3>1. /\ CoreInv(r) /\ Same(r, c) /\ r.pipeline = c.pipeline
              /\ IsStarted(r.stream) /\ r.stream.state # "Open"
            BY <2>1, StartWriteKeeps
        <3> QED BY <3>1 DEF Same
    <2>2. CASE ~ShouldStartWriteStream(c)
        BY <2>2 DEF ShouldStartWriteStream
    <2> QED BY <2>1, <2>2
<1>0. n = [r EXCEPT !.shaken = FALSE]
    BY DEF Restarted
<1> HIDE DEF r
<1>2. /\ n \in WriterType /\ n.ok = r.ok /\ n.pipeline = r.pipeline
      /\ n.network = r.network /\ n.disk = r.disk /\ n.user = r.user
      /\ n.nextBatchId = r.nextBatchId /\ n.callbacks = r.callbacks
      /\ n.stream = r.stream /\ n.net = r.net /\ ~n.shaken
      /\ n.told = r.told
    BY <1>0, <1>1 DEF CoreInv, WriterType
<1>3. StreamInv(n) /\ WireInv(n)
    <2>1. ~r.stream.idle
        BY <1>1 DEF CoreInv, StreamInv
    <2> QED BY <1>1, <1>2, <2>1 DEF CoreInv, StreamInv, WireInv
<1>4. CoreInv(n)
    BY <1>1, <1>2, <1>3 DEF CoreInv
<1> QED BY <1>1, <1>2, <1>4 DEF FilledInv

-----------------------------------------------------------------------------
(* The other methods.                                                       *)

LEMMA CloseWriteKeeps ==
    ASSUME NEW c, CoreInv(c), IsStarted(c.stream),
           NEW graceful \in BOOLEAN, NEW permanent \in BOOLEAN,
           permanent => c.network,
           graceful => ~c.network \/ c.pipeline = << >>,
           c.network /\ c.pipeline = << >> => c.disk[c.user] = << >>,
           NEW n, n = CloseWriteStream(c, graceful, permanent)
    PROVE  /\ CoreInv(n) /\ n.stream.state # "Open" /\ ~n.shaken
           /\ c.network => FilledInv(n)
           /\ IF permanent /\ c.shaken /\ c.pipeline # << >>
              THEN Done(n, c, "failure") ELSE Quiet(n, c)
<1> DEFINE s == Close(c.stream, graceful)
           closed == [c EXCEPT !.stream = s, !.net = NewCall]
           checked == HardAssert(closed, graceful => ~ShouldStartWriteStream(closed))
           failed == permanent /\ closed.shaken /\ closed.pipeline # << >>
           handled == IF failed THEN HandleWriteError(checked) ELSE checked
<1>0. c \in WriterType /\ c.stream \in StreamType /\ c.ok /\ c.stream.ok
    BY WriterFields DEF CoreInv, StreamInv
<1>1. n = Restarted(handled)
    BY DEF CloseWriteStream, Closes, OnWriteStreamClose, Restarted
<1>2. /\ s \in StreamType /\ s.ok /\ ~IsStarted(s) /\ ~s.asked /\ ~s.idle
      /\ s.state # "Open"
    BY <1>0, CloseKeeps DEF IsStarted
<1> HIDE DEF s
<1>3. /\ closed \in WriterType /\ closed.ok /\ closed.stream = s
      /\ closed.net = NewCall /\ closed.pipeline = c.pipeline
      /\ closed.disk = c.disk /\ closed.user = c.user
      /\ closed.nextBatchId = c.nextBatchId /\ closed.callbacks = c.callbacks
      /\ closed.network = c.network /\ closed.told = c.told
      /\ closed.shaken = c.shaken
    <2>1. NewCall \in Calls
        BY DEF NewCall, Calls
    <2> QED BY <1>0, <1>2, <2>1 DEF WriterType
<1> HIDE DEF closed
<1>4. StreamInv(closed) /\ WireInv(closed)
    BY <1>2, <1>3 DEF StreamInv, WireInv
<1>5. CoreInv(closed)
    BY <1>3, <1>4 DEF CoreInv
<1>6. checked = closed
    <2>1. graceful => ~ShouldStartWriteStream(closed)
        BY <1>3 DEF ShouldStartWriteStream
    <2> QED BY <1>3, <2>1 DEF HardAssert, WriterType
<1> HIDE DEF checked
<1>7. /\ CoreInv(handled) /\ handled.stream.state # "Open"
      /\ handled.network = c.network
      /\ handled.network /\ handled.pipeline = << >> =>
             handled.disk[handled.user] = << >>
      /\ IF failed THEN Done(handled, closed, "failure") ELSE Quiet(handled, closed)
    <2>1. CASE failed
        <3>1. handled = HandleWriteError(closed)
            BY <1>6, <2>1
        <3>2. closed.network /\ ~IsStarted(closed.stream) /\ closed.pipeline # << >>
            BY <1>2, <1>3, <2>1
        <3> HIDE DEF handled, failed
        <3>3. /\ CoreInv(handled) /\ handled.network
              /\ handled.stream.state # "Open"
              /\ handled.pipeline = << >> => handled.disk[handled.user] = << >>
              /\ Done(handled, closed, "failure")
            BY <1>5, <3>1, <3>2, ErrorKeeps
        <3> QED BY <1>3, <2>1, <3>2, <3>3
    <2>2. CASE ~failed
        <3>1. handled = closed
            BY <1>6, <2>2
        <3>2. Quiet(handled, closed)
            BY <3>1 DEF Quiet
        <3> HIDE DEF handled, failed
        <3> QED BY <1>2, <1>3, <1>5, <2>2, <3>1, <3>2
    <2> QED BY <2>1, <2>2
<1>9. failed = (permanent /\ c.shaken /\ c.pipeline # << >>)
    BY <1>3
<1> HIDE DEF handled, failed
<1>8. /\ CoreInv(n) /\ n.network = handled.network /\ ~n.shaken
      /\ n.stream.state # "Open" /\ (n.network => FilledInv(n))
      /\ n.disk = handled.disk /\ n.told = handled.told
      /\ n.callbacks = handled.callbacks
    BY <1>1, <1>7, RestartKeeps
<1>10. CASE failed
    <2>1. Done(n, c, "failure")
        BY <1>3, <1>7, <1>8, <1>10 DEF Done, ToldAfter
    <2> QED BY <1>7, <1>8, <1>9, <1>10, <2>1
<1>11. CASE ~failed
    <2>1. Quiet(n, c)
        BY <1>3, <1>7, <1>8, <1>11 DEF Quiet
    <2> QED BY <1>7, <1>8, <1>9, <1>11, <2>1
<1> QED BY <1>10, <1>11

\* A client that has just started, with what an earlier one left on disk.
LEMMA NewWriterKeeps ==
    ASSUME NEW u \in Users, NEW disk, NEW m \in Nat \ {0}, DiskInv(disk, m),
           NEW told \in [Writes -> Seq({"success", "failure"})],
           NEW n, n = NewWriter(u, disk, told)
    PROVE  /\ ClientInv(n) /\ n.stream.state # "Open"
           /\ n.disk = disk /\ n.told = told /\ n.callbacks = {}
<1> DEFINE next == LoadNextBatchIdFromDb(disk)
           c == [stream |-> NewStream, shaken |-> FALSE, network |-> TRUE,
                 pipeline |-> << >>, user |-> u, callbacks |-> {}, disk |-> disk,
                 nextBatchId |-> next, net |-> NewCall, told |-> told, ok |-> TRUE]
<1>1. n = FillWritePipeline(c)
    BY DEF NewWriter
<1>2. next \in Nat \ {0} /\ DiskInv(disk, next)
    BY LoadedId
<1> HIDE DEF next
<1>3. NewStream \in StreamType /\ NewCall \in Calls
    BY DEF NewStream, StreamType, States, NewCall, Calls
<1>4. << >> \in Seq(Batches) /\ {} \in SUBSET Callbacks
    OBVIOUS
<1>5. disk \in [Users -> Seq(Batches)]
    BY <1>2 DEF DiskInv
<1>6. /\ c.stream = NewStream /\ ~c.shaken /\ c.network /\ c.pipeline = << >>
      /\ c.user = u /\ c.callbacks = {} /\ c.disk = disk
      /\ c.nextBatchId = next /\ c.net = NewCall /\ c.ok /\ c.told = told
    OBVIOUS
<1>7. c \in WriterType
    BY <1>2, <1>3, <1>4, <1>5 DEF WriterType
<1> HIDE DEF c
<1>8. CallbackInv(c.callbacks, c.disk)
    BY <1>6 DEF CallbackInv
<1>9. PipeInv(c.pipeline, c.disk[c.user])
    <2>1. Len(<< >>) = 0 /\ DOMAIN << >> = {} /\ disk[u] \in Seq(Batches)
        BY <1>5
    <2> QED BY <1>6, <2>1, WriteAssumption DEF PipeInv, Begins
<1>10. StreamInv(c) /\ WireInv(c) /\ c.stream.state # "Open"
    BY <1>6 DEF StreamInv, WireInv, NewStream
<1>11. CoreInv(c)
    BY <1>2, <1>6, <1>7, <1>8, <1>9, <1>10 DEF CoreInv
<1>12. /\ CoreInv(n) /\ Same(n, c)
       /\ n.pipeline = << >> => n.disk[n.user] = << >>
       /\ n.pipeline # << >> => IsStarted(n.stream)
    BY <1>1, <1>6, <1>10, <1>11, FillKeeps
<1>13. /\ n.network /\ ~n.shaken /\ n.stream.state # "Open"
       /\ n.disk = disk /\ n.told = told /\ n.callbacks = {}
    BY <1>6, <1>10, <1>12 DEF Same
<1> QED BY <1>12, <1>13 DEF ClientInv, FilledInv

\* The user changes: the network goes down and up again in one block.
LEMMA UserKeeps ==
    ASSUME NEW c, ClientInv(c), NEW u \in Users,
           NEW n, n = HandleCredentialChange(c, u)
    PROVE  ClientInv(n) /\ n.stream.state # "Open" /\ Quiet(n, c)
<1> DEFINE next == LoadNextBatchIdFromDb(c.disk)
           swapped == IF u = c.user THEN c
                      ELSE [c EXCEPT !.user = u, !.nextBatchId = next]
           off == [swapped EXCEPT !.network = FALSE]
           down == CloseWriteStream(off, TRUE, FALSE)
           up == [[down EXCEPT !.pipeline = << >>] EXCEPT !.network = TRUE]
<1>0. /\ CoreInv(c) /\ FilledInv(c) /\ c \in WriterType /\ c.ok
      /\ DiskInv(c.disk, c.nextBatchId) /\ c.nextBatchId \in Nat \ {0}
      /\ CallbackInv(c.callbacks, c.disk) /\ StreamInv(c) /\ WireInv(c)
      /\ c.stream \in StreamType
    BY WriterFields DEF ClientInv, CoreInv
<1>1. n = FillWritePipeline(up)
    BY DEF HandleCredentialChange
<1>2. next \in Nat \ {0} /\ DiskInv(c.disk, next)
    BY <1>0, LoadedId
<1> HIDE DEF next
<1>3. /\ off \in WriterType /\ off.ok /\ off.user = u /\ ~off.network
      /\ off.disk = c.disk /\ off.callbacks = c.callbacks
      /\ off.stream = c.stream /\ off.net = c.net /\ off.shaken = c.shaken
      /\ off.told = c.told
      /\ DiskInv(off.disk, off.nextBatchId)
    <2>1. CASE u = c.user
        <3>1. off = [c EXCEPT !.network = FALSE]
            BY <2>1
        <3> HIDE DEF off
        <3> QED BY <1>0, <2>1, <3>1 DEF WriterType
    <2>2. CASE u # c.user
        <3>1. off = [c EXCEPT !.user = u, !.nextBatchId = next, !.network = FALSE]
            BY <1>0, <2>2 DEF WriterType
        <3> HIDE DEF off
        <3> QED BY <1>0, <1>2, <2>2, <3>1 DEF WriterType
    <2> QED BY <2>1, <2>2
<1> HIDE DEF off
<1>4. /\ down \in WriterType /\ down.ok /\ down.user = u
      /\ down.disk = c.disk /\ down.callbacks = c.callbacks
      /\ down.nextBatchId = off.nextBatchId /\ down.told = c.told
      /\ down.net = NewCall /\ ~down.shaken
      /\ down.stream.ok /\ ~down.stream.asked /\ ~down.stream.idle
      /\ down.stream.state # "Open"
    <2>1. CASE IsStarted(c.stream)
        <3> DEFINE s == Close(c.stream, TRUE)
        <3>1. /\ s \in StreamType /\ s.ok /\ ~s.asked /\ ~s.idle
              /\ s.state # "Open"
            BY <1>0, <2>1, CloseKeeps DEF StreamInv
        <3> HIDE DEF s
        <3>2. NewCall \in Calls
            BY DEF NewCall, Calls
        <3>3. down = [off EXCEPT !.stream = s, !.net = NewCall, !.shaken = FALSE]
            <4> DEFINE x == [off EXCEPT !.stream = s, !.net = NewCall]
            <4>1. x \in WriterType /\ ~x.network /\ x.ok
                BY <1>3, <3>1, <3>2 DEF WriterType
            <4>2. down = OnWriteStreamClose(x, TRUE, FALSE)
                BY <1>3, <2>1 DEF CloseWriteStream, Closes, s
            <4>3. x = [off EXCEPT !.stream = s, !.net = NewCall]
                OBVIOUS
            <4> HIDE DEF x, down
            <4>4. ~ShouldStartWriteStream(x)
                BY <4>1 DEF ShouldStartWriteStream
            <4>5. HardAssert(x, TRUE => ~ShouldStartWriteStream(x)) = x
                BY <4>1, <4>4 DEF HardAssert, WriterType
            <4>6. down = [x EXCEPT !.shaken = FALSE]
                BY <4>2, <4>4, <4>5 DEF OnWriteStreamClose
            <4> QED BY <1>3, <4>3, <4>6 DEF WriterType
        <3> HIDE DEF down
        <3> QED BY <1>3, <3>1, <3>2, <3>3 DEF WriterType
    <2>2. CASE ~IsStarted(c.stream)
        <3>1. down = off
            BY <1>3, <2>2 DEF CloseWriteStream, Closes
        <3>2. /\ c.stream.state # "Open" /\ ~c.shaken /\ c.net = NewCall
              /\ c.stream.ok /\ ~c.stream.asked /\ ~c.stream.idle
            BY <1>0, <2>2 DEF IsStarted, FilledInv, StreamInv, WireInv
        <3> HIDE DEF down
        <3> QED BY <1>3, <3>1, <3>2
    <2> QED BY <2>1, <2>2
<1> HIDE DEF down
<1>5. /\ up \in WriterType /\ up.ok /\ up.user = u /\ up.network
      /\ up.pipeline = << >> /\ up.disk = c.disk /\ up.callbacks = c.callbacks
      /\ up.nextBatchId = off.nextBatchId /\ up.net = NewCall /\ ~up.shaken
      /\ up.stream = down.stream /\ up.told = c.told
    <2>1. << >> \in Seq(Batches)
        OBVIOUS
    <2> QED BY <1>4, <2>1 DEF WriterType
<1> HIDE DEF up
<1>6. StreamInv(up) /\ WireInv(up) /\ up.stream.state # "Open"
    BY <1>4, <1>5 DEF StreamInv, WireInv
<1>7. PipeInv(up.pipeline, up.disk[up.user])
    <2>1. Len(<< >>) = 0 /\ DOMAIN << >> = {} /\ c.disk[u] \in Seq(Batches)
        BY <1>0 DEF WriterType
    <2> QED BY <1>5, <2>1, WriteAssumption DEF PipeInv, Begins
<1>8. CoreInv(up)
    BY <1>0, <1>3, <1>5, <1>6, <1>7 DEF CoreInv
<1>9. /\ CoreInv(n) /\ Same(n, up)
      /\ n.pipeline = << >> => n.disk[n.user] = << >>
      /\ n.pipeline # << >> => IsStarted(n.stream)
    BY <1>1, <1>5, <1>6, <1>8, FillKeeps
<1>10. n.network /\ ~n.shaken /\ n.stream.state # "Open" /\ Quiet(n, c)
    BY <1>5, <1>6, <1>9 DEF Same, Quiet
<1> QED BY <1>9, <1>10 DEF ClientInv, FilledInv

\* A write of the app: on disk, waiting for its completion, and perhaps sent.
WriteDone(n, c, w) ==
    /\ n.disk = [c.disk EXCEPT ![c.user] =
                     Append(@, [id |-> c.nextBatchId, write |-> w])]
    /\ n.told = c.told /\ KeepsOrder(n, c)
    /\ \A k \in n.callbacks : k \in c.callbacks \/ k.write = w

LEMMA WriteCallKeeps ==
    ASSUME NEW c, ClientInv(c), NEW w \in Writes,
           NEW n, n = SyncEngineWriteMutations(c, w)
    PROVE  /\ ClientInv(n)
           /\ (n.stream.state = "Open") = (c.stream.state = "Open")
           /\ n.net.out = c.net.out /\ n.net.closed = c.net.closed
           /\ WriteDone(n, c, w)
<1> DEFINE q == c.disk[c.user]
           b == [id |-> c.nextBatchId, write |-> w]
           disk == [c.disk EXCEPT ![c.user] = Append(@, b)]
           local == [c EXCEPT !.disk = disk, !.nextBatchId = c.nextBatchId + 1]
           d == RegisterCallback(local, b)
<1>0. /\ CoreInv(c) /\ FilledInv(c) /\ c \in WriterType /\ c.ok
      /\ DiskInv(c.disk, c.nextBatchId) /\ CallbackInv(c.callbacks, c.disk)
      /\ PipeInv(c.pipeline, q) /\ StreamInv(c) /\ WireInv(c)
    BY DEF ClientInv, CoreInv
<1>1. /\ c.user \in Users /\ c.disk \in [Users -> Seq(Batches)]
      /\ q \in Seq(Batches) /\ Increasing(q) /\ c.nextBatchId \in Nat \ {0}
      /\ \A i \in DOMAIN q : q[i].id < c.nextBatchId
      /\ c.callbacks \in SUBSET Callbacks
    BY <1>0, WriterFields DEF DiskInv
<1>2. n = FillWritePipeline(d)
    <2>1. local = [c EXCEPT !.disk[c.user] = Append(@, b), !.nextBatchId = @ + 1]
        BY <1>0 DEF WriterType
    <2> HIDE DEF local
    <2> QED BY <2>1 DEF SyncEngineWriteMutations
<1>3. /\ b \in Batches /\ b.id = c.nextBatchId /\ b.write = w
    BY <1>1 DEF Batches
<1> DEFINE k == [user |-> c.user, id |-> b.id, write |-> b.write]
<1>4. /\ k \in Callbacks /\ k.user = c.user /\ k.write = w
      /\ [id |-> k.id, write |-> k.write] = b
    BY <1>1, <1>3 DEF Callbacks
<1>19. disk = [c.disk EXCEPT ![c.user] =
                   Append(@, [id |-> c.nextBatchId, write |-> w])]
    OBVIOUS
<1> HIDE DEF b, q
<1>5. /\ Append(q, b) \in Seq(Batches) /\ Len(Append(q, b)) = Len(q) + 1
      /\ Len(q) \in Nat /\ DOMAIN q = 1 .. Len(q)
      /\ DOMAIN Append(q, b) = 1 .. Len(q) + 1
      /\ \A i \in DOMAIN q : i \in DOMAIN Append(q, b) /\ Append(q, b)[i] = q[i]
      /\ Append(q, b)[Len(q) + 1] = b
    BY <1>1, <1>3
<1>6. /\ disk \in [Users -> Seq(Batches)] /\ disk[c.user] = Append(q, b)
      /\ \A u \in Users : u # c.user => disk[u] = c.disk[u]
    BY <1>1, <1>5 DEF q
<1> HIDE DEF disk
<1>7. DiskInv(disk, c.nextBatchId + 1)
    <2> SUFFICES ASSUME NEW u \in Users
                 PROVE  /\ Increasing(disk[u])
                        /\ \A i \in DOMAIN disk[u] :
                               disk[u][i].id < c.nextBatchId + 1
        BY <1>6 DEF DiskInv
    <2>1. CASE u # c.user
        <3>1. \A i \in DOMAIN c.disk[u] : c.disk[u][i].id \in Nat
            BY <1>1, BatchesHaveIds
        <3>2. /\ Increasing(c.disk[u])
              /\ \A i \in DOMAIN c.disk[u] : c.disk[u][i].id < c.nextBatchId
            BY <1>0 DEF DiskInv
        <3>3. disk[u] = c.disk[u]
            BY <1>6, <2>1
        <3> QED BY <1>1, <3>1, <3>2, <3>3
    <2>2. CASE u = c.user
        <3> DEFINE r == Append(q, b)
        <3>1. \A i \in DOMAIN q : q[i].id \in Nat
            BY <1>1, BatchesHaveIds
        <3>2. \A i \in DOMAIN r : i \in DOMAIN q \/ i = Len(q) + 1
            BY <1>5
        <3> HIDE DEF r
        <3>3. r[Len(q) + 1].id = c.nextBatchId
            BY <1>3, <1>5 DEF r
        <3>4. \A i \in DOMAIN q : r[i] = q[i]
            BY <1>5 DEF r
        <3>5. \A i \in DOMAIN r : r[i].id < c.nextBatchId + 1
            BY <1>1, <3>1, <3>2, <3>3, <3>4
        <3>6. Increasing(r)
            <4> SUFFICES ASSUME NEW i \in DOMAIN r, NEW j \in DOMAIN r, i < j
                         PROVE  r[i].id < r[j].id
                BY DEF Increasing
            <4>1. i \in DOMAIN q
                BY <1>5, <3>2 DEF r
            <4>2. CASE j \in DOMAIN q
                BY <1>1, <3>4, <4>1, <4>2 DEF Increasing
            <4>3. CASE j = Len(q) + 1
                BY <1>1, <3>3, <3>4, <4>1, <4>3
            <4> QED BY <3>2, <4>2, <4>3
        <3>7. disk[u] = r
            BY <1>6, <2>2 DEF r
        <3> QED BY <3>5, <3>6, <3>7
    <2> QED BY <2>1, <2>2
<1>8. CallbackInv(c.callbacks \cup {k}, disk)
    <2> SUFFICES ASSUME NEW l \in c.callbacks \cup {k}
                 PROVE  \E i \in DOMAIN disk[l.user] :
                            disk[l.user][i] = [id |-> l.id, write |-> l.write]
        BY DEF CallbackInv
    <2>1. CASE l = k
        <3>1. Len(q) + 1 \in DOMAIN Append(q, b)
            BY <1>5
        <3>2. [id |-> l.id, write |-> l.write] = b /\ l.user = c.user
            BY <1>4, <2>1
        <3> QED BY <1>5, <1>6, <3>1, <3>2
    <2>2. CASE l \in c.callbacks
        <3>1. l.user \in Users
            BY <1>1, <2>2 DEF Callbacks
        <3>2. PICK i \in DOMAIN c.disk[l.user] :
                  c.disk[l.user][i] = [id |-> l.id, write |-> l.write]
            BY <1>0, <2>2 DEF CallbackInv
        <3>3. CASE l.user # c.user
            BY <1>6, <3>1, <3>2, <3>3
        <3>4. CASE l.user = c.user
            <4>1. i \in DOMAIN q /\ q[i] = [id |-> l.id, write |-> l.write]
                BY <3>2, <3>4 DEF q
            <4>2. /\ i \in DOMAIN Append(q, b)
                  /\ Append(q, b)[i] = [id |-> l.id, write |-> l.write]
                BY <1>5, <4>1
            <4> QED BY <1>6, <3>4, <4>2
        <3> QED BY <3>3, <3>4
    <2> QED BY <2>1, <2>2
<1>9. PipeInv(c.pipeline, Append(q, b))
    <2>1. c.pipeline \in Seq(Batches)
        BY <1>0, WriterFields
    <2>2. Len(c.pipeline) \in Nat /\ DOMAIN c.pipeline = 1 .. Len(c.pipeline)
        BY <2>1
    <2>3. Begins(c.pipeline, q) /\ Len(c.pipeline) <= kMaxPendingWrites
        BY <1>0 DEF PipeInv
    <2>4. \A i \in DOMAIN c.pipeline : i \in DOMAIN q
        BY <1>5, <2>2, <2>3 DEF Begins
    <2> QED BY <1>5, <2>2, <2>3, <2>4 DEF PipeInv, Begins
<1>10. /\ local \in WriterType /\ local.ok /\ local.disk = disk
       /\ local.nextBatchId = c.nextBatchId + 1
       /\ local.callbacks = c.callbacks /\ local.user = c.user
       /\ local.pipeline = c.pipeline /\ local.stream = c.stream
       /\ local.net = c.net /\ local.shaken = c.shaken
       /\ local.network = c.network /\ local.told = c.told
    <2>1. c.nextBatchId + 1 \in Nat \ {0}
        BY <1>1
    <2> QED BY <1>0, <1>6, <2>1 DEF WriterType
<1> HIDE DEF local
<1>11. /\ d \in WriterType /\ d.ok /\ d.disk = disk
       /\ d.nextBatchId = c.nextBatchId + 1
       /\ d.callbacks \subseteq c.callbacks \cup {k} /\ d.user = c.user
       /\ d.pipeline = c.pipeline /\ d.stream = c.stream
       /\ d.net = c.net /\ d.shaken = c.shaken /\ d.network = c.network
       /\ d.told = c.told
    <2>1. CASE d = local
        BY <1>10, <2>1
    <2>2. CASE d = [local EXCEPT !.callbacks = c.callbacks \cup {k}]
        <3>1. c.callbacks \cup {k} \in SUBSET Callbacks
            BY <1>1, <1>4
        <3> HIDE DEF d, k
        <3> QED BY <1>10, <2>2, <3>1 DEF WriterType
    <2>3. \/ d = local
          \/ d = [local EXCEPT !.callbacks = c.callbacks \cup {k}]
        BY <1>10 DEF RegisterCallback
    <2> QED BY <2>1, <2>2, <2>3
<1> HIDE DEF d, k
<1>12. CallbackInv(d.callbacks, d.disk)
    BY <1>8, <1>11 DEF CallbackInv
<1>13. StreamInv(d) /\ WireInv(d)
    BY <1>0, <1>11 DEF StreamInv, WireInv
<1>14. CoreInv(d)
    BY <1>6, <1>7, <1>9, <1>11, <1>12, <1>13 DEF CoreInv
<1>15. d.network /\ d.disk[d.user] # << >>
    <2>1. Append(q, b) # << >>
        <3>1. Len(Append(q, b)) # 0
            BY <1>5
        <3> QED BY <3>1
    <2> QED BY <1>0, <1>6, <1>11, <2>1 DEF FilledInv
<1>16. /\ CoreInv(n) /\ Same(n, d) /\ KeepsOrder(n, d)
       /\ n.pipeline = << >> => n.disk[n.user] = << >>
       /\ n.pipeline # << >> => IsStarted(n.stream)
    BY <1>2, <1>14, <1>15, FillKeeps
<1>17. /\ n.network /\ n.shaken = c.shaken
       /\ (n.stream.state = "Open") = (c.stream.state = "Open")
       /\ n.net.out = c.net.out /\ n.net.closed = c.net.closed
    BY <1>11, <1>15, <1>16 DEF Same
<1>18. n.shaken => n.stream.state = "Open"
    BY <1>0, <1>17 DEF FilledInv
<1>20. /\ n.disk = disk /\ n.told = c.told
       /\ \A l \in n.callbacks : l \in c.callbacks \/ l.write = w
    <2>1. /\ n.disk = disk /\ n.told = c.told
          /\ n.callbacks \subseteq c.callbacks \cup {k}
        BY <1>11, <1>16 DEF Same
    <2> QED BY <1>4, <2>1
<1>21. KeepsOrder(n, c)
    BY <1>11, <1>16 DEF KeepsOrder, Order
<1>22. ClientInv(n)
    BY <1>16, <1>17, <1>18 DEF ClientInv, FilledInv
<1>23. WriteDone(n, c, w)
    BY <1>19, <1>20, <1>21 DEF WriteDone
<1> QED BY <1>17, <1>22, <1>23

\* The handshake is answered: the pipeline goes out.
LEMMA HandshakeKeeps ==
    ASSUME NEW c \in WriterType, c.ok, DiskInv(c.disk, c.nextBatchId),
           CallbackInv(c.callbacks, c.disk), PipeInv(c.pipeline, c.disk[c.user]),
           StreamInv(c), c.network, ~c.shaken, c.stream.state = "Open",
           c.pipeline = << >> => c.disk[c.user] = << >>, Due(c.net) = 0,
           NEW n, n = OnWriteStreamHandshakeComplete(c)
    PROVE  /\ ClientInv(n) /\ n.stream.state = "Open"
           /\ n.net.out = c.net.out /\ n.net.closed = c.net.closed
           /\ Quiet(n, c) /\ \A applied : Order(n, applied)
<1> DEFINE d == [c EXCEPT !.shaken = TRUE]
<1>1. n = WriteMutations(d, c.pipeline)
    BY DEF OnWriteStreamHandshakeComplete
<1>2. /\ d \in WriterType /\ d.ok /\ d.shaken /\ d.network
      /\ d.disk = c.disk /\ d.nextBatchId = c.nextBatchId
      /\ d.callbacks = c.callbacks /\ d.user = c.user
      /\ d.pipeline = c.pipeline /\ d.stream = c.stream /\ d.net = c.net
      /\ d.told = c.told
    BY DEF WriterType
<1> HIDE DEF d
<1>3. c.stream.ok /\ ~c.stream.asked /\ ~c.stream.idle
    BY DEF StreamInv
<1>4. c.pipeline \in Seq(Batches) /\ Len(c.net.sent) \in Nat /\ Len(c.net.out) \in Nat
    BY WriterFields
<1>5. IsStarted(n.stream) \/ n.stream.state # "Open"
    BY DEF IsStarted
<1>8. /\ c.net \in Calls /\ c.net.sent = << >> /\ c.net.out = << >>
      /\ ~c.net.closed
    <2>1. /\ c.net \in Calls /\ c.net.sent \in Seq(Nat)
          /\ c.net.out \in Seq({"answer"})
        BY WriterFields
    <2>2. PICK s \in Nat : s = Len(c.net.sent)
        BY <1>4
    <2>3. PICK o \in Nat : o = Len(c.net.out)
        BY <1>4
    <2>4. /\ c.net.closed => s + o + 1 = 0
          /\ ~c.net.closed => s + o = 0
        <3>1. /\ c.net.closed => Due(c.net) = s + o + 1
              /\ ~c.net.closed => Due(c.net) = s + o
            BY <2>2, <2>3, DueIs
        <3> QED BY <3>1
    <2>5. s = 0 /\ o = 0 /\ ~c.net.closed
        BY <2>4
    <2> QED BY <2>1, <2>2, <2>3, <2>5, EmptySeq
<1>9. \A applied : OrderOf(<< >>, c.net, applied)
    BY <1>8 DEF OrderOf
<1>6. CASE c.pipeline = << >>
    <2>1. n = d
        BY <1>1, <1>6 DEF WriteMutations
    <2>2. StreamInv(n) /\ WireInv(n)
        BY <1>2, <1>3, <1>6, <2>1 DEF StreamInv, WireInv
    <2>3. Quiet(n, c) /\ \A applied : Order(n, applied)
        BY <1>2, <1>6, <1>9, <2>1 DEF Quiet, Order
    <2> QED BY <1>2, <1>6, <2>1, <2>2, <2>3 DEF ClientInv, CoreInv, FilledInv
<1>7. CASE c.pipeline # << >>
    <2>1. /\ n \in WriterType /\ n.ok /\ Same(n, d) /\ n.pipeline = d.pipeline
          /\ n.stream.ok /\ n.stream.asked = d.stream.asked
          /\ ~n.stream.idle /\ n.stream.state = "Open"
          /\ Len(n.net.sent) = Len(d.net.sent) + Len(c.pipeline)
          /\ n.net.sent = d.net.sent \o WritesOf(c.pipeline)
        <3>1. d.stream.ok /\ d.stream.state = "Open"
            BY <1>2, <1>3
        <3> QED BY Zenon, <1>1, <1>2, <1>4, <1>7, <3>1, WriteKeeps
    <2>2. /\ n.network /\ n.shaken /\ n.user = c.user
          /\ n.callbacks = c.callbacks /\ n.disk = c.disk
          /\ n.nextBatchId = c.nextBatchId /\ n.pipeline = c.pipeline
          /\ n.net.out = c.net.out /\ n.net.closed = c.net.closed
          /\ Len(n.net.sent) = Len(c.net.sent) + Len(c.pipeline)
        BY <1>2, <2>1 DEF Same
    <2>3. StreamInv(n)
        BY <1>2, <1>3, <2>1 DEF StreamInv
    <2>4. Due(n.net) = Len(n.pipeline)
        <3>1. Len(c.pipeline) \in Nat
            BY <1>4
        <3>2. Due(n.net) = Due(c.net) + Len(c.pipeline)
            BY <1>4, <2>2, <3>1, DueGrows
        <3> QED BY <2>2, <3>1, <3>2
    <2>5. WireInv(n)
        BY <2>1, <2>2, <2>4 DEF WireInv
    <2>6. ClientInv(n)
        BY <1>5, <1>7, <2>1, <2>2, <2>3, <2>5 DEF ClientInv, CoreInv, FilledInv
    <2>7. Quiet(n, c)
        BY <1>2, <2>1, <2>2 DEF Quiet, Same
    <2>8. \A applied : Order(n, applied)
        <3> TAKE applied
        <3>1. << >> \in Seq(Batches) /\ Len(<< >>) = 0
            OBVIOUS
        <3>2. n.net \in Calls /\ n.net.sent = c.net.sent \o WritesOf(c.pipeline)
            BY <1>2, <2>1, WriterFields
        <3>3. OrderOf(<< >> \o c.pipeline, n.net, applied)
            <4>1. Due(c.net) = Len(<< >>)
                BY <3>1
            <4>2. OrderOf(<< >>, c.net, applied)
                BY <1>9
            <4> QED BY Zenon, <1>4, <1>8, <2>2, <3>1, <3>2, <4>1, <4>2, OrderExtends
        <3>4. << >> \o c.pipeline = c.pipeline
            BY <1>4, ConcatEmptySeq
        <3> QED BY <2>2, <3>3, <3>4 DEF Order
    <2> QED BY <2>1, <2>2, <2>6, <2>7, <2>8
<1> QED BY <1>6, <1>7

-----------------------------------------------------------------------------
(* The blocks of the worker queue.                                          *)

LEMMA OpenNet ==
    ASSUME NEW c, CoreInv(c), c.net # NewCall
    PROVE  c.stream.state = "Open"
BY DEF CoreInv, WireInv

\* The order stays when the answer to the head of the pipeline is read.
LEMMA OrderShrinks ==
    ASSUME NEW p \in Seq(Batches), p # << >>, NEW applied, NEW net \in Calls,
           NEW m \in Calls, net.out # << >>, m.out = Tail(net.out),
           m.closed = net.closed, m.sent = net.sent,
           OrderOf(p, net, applied), Due(net) = Len(p)
    PROVE  Head(p).write \in applied /\ OrderOf(Tail(p), m, applied)
<1>1. /\ Len(p) \in Nat \ {0} /\ Tail(p) \in Seq(Batches)
      /\ Len(Tail(p)) = Len(p) - 1 /\ Head(p) = p[1]
      /\ \A i \in 1 .. Len(p) - 1 : Tail(p)[i] = p[i + 1]
    BY EmptySeq
<1>2. /\ net.out \in Seq({"answer"}) /\ net.sent \in Seq(Nat)
      /\ Len(net.sent) \in Nat /\ DOMAIN net.sent = 1 .. Len(net.sent)
    BY DEF Calls
<1>3. /\ Len(net.out) \in Nat \ {0} /\ DOMAIN net.out = 1 .. Len(net.out)
      /\ Len(m.out) = Len(net.out) - 1 /\ DOMAIN m.out = 1 .. Len(net.out) - 1
    <2>1. \A s \in Seq({"answer"}) : s # << >> =>
              /\ Len(s) \in Nat \ {0} /\ DOMAIN s = 1 .. Len(s)
              /\ Len(Tail(s)) = Len(s) - 1 /\ DOMAIN Tail(s) = 1 .. Len(s) - 1
        BY EmptySeq
    <2> QED BY <1>2, <2>1
<1>4. PICK s \in Nat, o \in Nat, l \in Nat :
          /\ s = Len(net.sent) /\ Len(net.out) = o + 1 /\ Len(p) = l + 1
    <2>1. \A a \in Nat \ {0} : a - 1 \in Nat /\ (a - 1) + 1 = a
        OBVIOUS
    <2>2. Len(net.out) - 1 \in Nat /\ (Len(net.out) - 1) + 1 = Len(net.out)
        BY <1>3, <2>1
    <2>3. Len(p) - 1 \in Nat /\ (Len(p) - 1) + 1 = Len(p)
        BY <1>1, <2>1
    <2> QED BY <1>2, <2>2, <2>3
<1>5. /\ net.closed => s + o + 1 = l
      /\ ~net.closed => s + o = l
    <2>1. /\ net.closed => Due(net) = s + (o + 1) + 1
          /\ ~net.closed => Due(net) = s + (o + 1)
        <3>1. Len(net.sent) = s /\ Len(net.out) = o + 1
            BY <1>4
        <3> QED BY <3>1, DueIs
    <2>2. Due(net) = l + 1
        BY <1>4
    <2> QED BY <2>1, <2>2
<1>6. /\ Len(Tail(p)) = l /\ \A i \in 1 .. l : Tail(p)[i] = p[i + 1]
      /\ Len(m.out) = o /\ DOMAIN m.out = 1 .. o
      /\ DOMAIN net.out = 1 .. o + 1 /\ DOMAIN net.sent = 1 .. s
    <2>1. Len(p) - 1 = l /\ Len(net.out) - 1 = o
        BY <1>4
    <2> QED BY <1>1, <1>2, <1>3, <1>4, <2>1
<1>7. Head(p).write \in applied
    <2>1. 1 \in 1 .. o + 1
        OBVIOUS
    <2> QED BY <1>1, <1>6, <2>1 DEF OrderOf
<1>8. \A i \in DOMAIN m.out : Tail(p)[i].write \in applied
    <2> TAKE i \in DOMAIN m.out
    <2>1. i \in 1 .. l /\ i + 1 \in 1 .. o + 1
        BY <1>5, <1>6, SMTT(20)
    <2> QED BY <1>6, <2>1 DEF OrderOf
<1>9. m.closed => Tail(p)[Len(m.out) + 1].write \in Refused
    <2>1. net.closed => o + 1 \in 1 .. l /\ Len(net.out) + 1 = (o + 1) + 1
        BY <1>4, <1>5
    <2> QED BY <1>6, <2>1 DEF OrderOf
<1>10. ASSUME NEW i \in DOMAIN m.sent
       PROVE  m.sent[i] = Tail(p)[Len(Tail(p)) - Len(m.sent) + i].write
    <2>1. i \in 1 .. s
        BY <1>6
    <2>2. l - s + i \in 1 .. l /\ (l + 1) - s + i = (l - s + i) + 1
        BY <1>5, <2>1
    <2>3. net.sent[i] = p[Len(p) - Len(net.sent) + i].write
        BY DEF OrderOf
    <2>4. net.sent[i] = p[(l - s + i) + 1].write
        BY <1>4, <2>2, <2>3
    <2>5. Tail(p)[l - s + i] = p[(l - s + i) + 1]
        BY <1>6, <2>2
    <2> QED BY <1>4, <1>6, <2>4, <2>5
<1> QED BY <1>7, <1>8, <1>9, <1>10 DEF OrderOf

\* What the block of an answer does to the write at the head of the queue.
ReadDone(n, c) ==
    IF c.shaken
    THEN /\ c.pipeline # << >> /\ Done(n, c, "success")
         /\ \A applied \in SUBSET Writes : Order(c, applied) =>
                Head(c.pipeline).write \in applied /\ Order(n, applied)
    ELSE Quiet(n, c) /\ \A applied : Order(n, applied)

LEMMA ReadKeeps ==
    ASSUME NEW c, ClientInv(c), c.net.out # << >>, NEW n, n = OnRead(c)
    PROVE  /\ ClientInv(n) /\ n.stream.state = "Open"
           /\ n.net.closed = c.net.closed /\ ReadDone(n, c)
<1> DEFINE net == [c.net EXCEPT !.out = Tail(c.net.out)]
           read == [c EXCEPT !.net = net]
<1>0. /\ CoreInv(c) /\ FilledInv(c) /\ c \in WriterType /\ c.ok
      /\ DiskInv(c.disk, c.nextBatchId) /\ CallbackInv(c.callbacks, c.disk)
      /\ PipeInv(c.pipeline, c.disk[c.user]) /\ StreamInv(c) /\ WireInv(c)
    BY DEF ClientInv, CoreInv
<1>1. c.net \in Calls /\ c.net.out \in Seq({"answer"}) /\ c.net.sent \in Seq(Nat)
    BY <1>0, WriterFields
<1>2. c.stream.state = "Open"
    <2>1. c.net # NewCall
        BY DEF NewCall
    <2> QED BY <1>0, <2>1, OpenNet
<1>3. /\ Tail(c.net.out) \in Seq({"answer"}) /\ Len(c.net.out) \in Nat \ {0}
      /\ Len(Tail(c.net.out)) = Len(c.net.out) - 1 /\ Len(c.net.sent) \in Nat
    <2>1. \A s \in Seq({"answer"}) : s # << >> =>
              /\ Tail(s) \in Seq({"answer"}) /\ Len(s) \in Nat \ {0}
              /\ Len(Tail(s)) = Len(s) - 1
        BY EmptySeq
    <2> QED BY <1>1, <2>1
<1>4. /\ net \in Calls /\ net.sent = c.net.sent /\ net.out = Tail(c.net.out)
      /\ net.closed = c.net.closed
    BY <1>1, <1>3 DEF Calls
<1> HIDE DEF net
<1>5. read = [c EXCEPT !.net.out = Tail(@)]
    BY <1>0 DEF WriterType, net
<1>6. n = IF read.shaken THEN OnWriteStreamMutationResult(read)
          ELSE OnWriteStreamHandshakeComplete(read)
    <2>1. read.shaken = c.shaken
        BY <1>0 DEF WriterType
    <2> HIDE DEF read
    <2> QED BY <1>5, <2>1 DEF OnRead
<1>7. /\ read \in WriterType /\ read.ok /\ read.disk = c.disk
      /\ read.nextBatchId = c.nextBatchId /\ read.callbacks = c.callbacks
      /\ read.user = c.user /\ read.pipeline = c.pipeline
      /\ read.stream = c.stream /\ read.net = net
      /\ read.shaken = c.shaken /\ read.network = c.network
      /\ read.told = c.told
    BY <1>0, <1>4 DEF WriterType
<1> HIDE DEF read
<1>8. Due(c.net) = IF c.shaken THEN Len(c.pipeline) ELSE 1
    BY <1>0, <1>2 DEF WireInv
<1>9. Due(net) \in Nat /\ Due(net) = Due(c.net) - 1
    <2>1. PICK s \in Nat : s = Len(c.net.sent)
        BY <1>3
    <2>2. PICK o \in Nat : o + 1 = Len(c.net.out)
        <3>1. \A l \in Nat \ {0} : l - 1 \in Nat /\ (l - 1) + 1 = l
            OBVIOUS
        <3>2. /\ Len(c.net.out) - 1 \in Nat
              /\ (Len(c.net.out) - 1) + 1 = Len(c.net.out)
            BY <1>3, <3>1
        <3> QED BY <3>2
    <2>3. Len(net.sent) = s /\ Len(net.out) = o
        <3>1. Len(net.out) = Len(c.net.out) - 1
            BY <1>3, <1>4
        <3> QED BY <1>4, <2>1, <2>2, <3>1
    <2>4. /\ net.closed => Due(net) = s + o + 1
          /\ ~net.closed => Due(net) = s + o
        BY <2>3, DueIs
    <2>5. /\ c.net.closed => Due(c.net) = s + (o + 1) + 1
          /\ ~c.net.closed => Due(c.net) = s + (o + 1)
        BY <2>1, <2>2, DueIs
    <2>6. CASE c.net.closed
        BY <1>4, <2>4, <2>5, <2>6
    <2>7. CASE ~c.net.closed
        BY <1>4, <2>4, <2>5, <2>7
    <2> QED BY <2>6, <2>7
<1>10. read.network /\ StreamInv(read) /\ read.stream.state = "Open"
    BY <1>0, <1>2, <1>7 DEF FilledInv, StreamInv
<1>11. CASE c.shaken
    <2>1. n = OnWriteStreamMutationResult(read)
        BY <1>6, <1>7, <1>11
    <2>2. Due(read.net) = Len(read.pipeline) - 1
        BY <1>7, <1>8, <1>9, <1>11
    <2>3. read.pipeline # << >>
        <3>1. Len(c.pipeline) # 0
            BY <1>8, <1>9, <1>11
        <3> QED BY <1>7, <3>1
    <2>4. /\ ClientInv(n) /\ n.stream.state = "Open"
          /\ n.net.out = read.net.out /\ n.net.closed = read.net.closed
          /\ Done(n, read, "success")
          /\ \A applied \in SUBSET Writes :
                 OrderOf(Tail(read.pipeline), read.net, applied) => Order(n, applied)
        <3>1. /\ DiskInv(read.disk, read.nextBatchId)
              /\ CallbackInv(read.callbacks, read.disk)
              /\ PipeInv(read.pipeline, read.disk[read.user]) /\ read.shaken
            BY <1>0, <1>7, <1>11
        <3> QED BY Zenon, <1>7, <1>10, <2>1, <2>2, <2>3, <3>1, ResultKeeps
    <2>5. Done(n, c, "success")
        BY <1>7, <2>4 DEF Done, ToldAfter
    <2>6. ASSUME NEW applied \in SUBSET Writes, Order(c, applied)
          PROVE  Head(c.pipeline).write \in applied /\ Order(n, applied)
        <3>1. c.pipeline \in Seq(Batches) /\ c.pipeline # << >>
            BY <1>0, <1>7, <2>3, WriterFields
        <3>2. OrderOf(c.pipeline, c.net, applied) /\ Due(c.net) = Len(c.pipeline)
            BY <1>2, <1>8, <1>11, <2>6 DEF Order
        <3>3. /\ Head(c.pipeline).write \in applied
              /\ OrderOf(Tail(c.pipeline), net, applied)
            BY <1>1, <1>4, <3>1, <3>2, OrderShrinks
        <3> QED BY <1>7, <2>4, <3>3
    <2>7. ReadDone(n, c)
        BY <1>7, <1>11, <2>3, <2>5, <2>6 DEF ReadDone
    <2> QED BY <1>4, <1>7, <2>4, <2>7
<1>12. CASE ~c.shaken
    <2>1. n = OnWriteStreamHandshakeComplete(read)
        BY <1>6, <1>7, <1>12
    <2>2. Due(read.net) = 0
        BY <1>7, <1>8, <1>9, <1>12
    <2>3. read.pipeline = << >> => read.disk[read.user] = << >>
        BY <1>0, <1>7 DEF FilledInv
    <2>4. /\ ClientInv(n) /\ n.stream.state = "Open"
          /\ n.net.out = read.net.out /\ n.net.closed = read.net.closed
          /\ Quiet(n, read) /\ \A applied : Order(n, applied)
        <3>1. /\ DiskInv(read.disk, read.nextBatchId)
              /\ CallbackInv(read.callbacks, read.disk)
              /\ PipeInv(read.pipeline, read.disk[read.user]) /\ ~read.shaken
            BY <1>0, <1>7, <1>12
        <3> QED BY Zenon, <1>7, <1>10, <2>1, <2>2, <2>3, <3>1, HandshakeKeeps
    <2>5. ReadDone(n, c)
        BY <1>7, <1>12, <2>4 DEF ReadDone, Quiet
    <2> QED BY <1>4, <1>7, <2>4, <2>5
<1> QED BY <1>11, <1>12

LEMMA FailedKeeps ==
    ASSUME NEW c, ClientInv(c), c.net.closed, NEW n, n = OnOperationFailed(c)
    PROVE  /\ ClientInv(n) /\ n.stream.state # "Open" /\ c.shaken
           /\ c.pipeline # << >> /\ Done(n, c, "failure")
           /\ \A applied : Order(c, applied) =>
                  \E i \in DOMAIN c.disk[c.user] : c.disk[c.user][i].write \in Refused
<1>1. CoreInv(c) /\ FilledInv(c) /\ c.network
    BY DEF ClientInv, FilledInv
<1>2. c.net # NewCall
    BY DEF NewCall
<1>3. IsStarted(c.stream)
    BY <1>1, <1>2, OpenNet DEF IsStarted
<1>4. n = CloseWriteStream(c, FALSE, TRUE)
    BY DEF OnOperationFailed
<1>5. c.network /\ c.pipeline = << >> => c.disk[c.user] = << >>
    BY <1>1 DEF FilledInv
<1>6. c.stream.state = "Open" /\ c.shaken /\ Due(c.net) = Len(c.pipeline)
    BY <1>1, <1>2, OpenNet DEF CoreInv, WireInv
<1>7. PICK o \in Nat : o = Len(c.net.out) /\ o + 1 \in 1 .. Len(c.pipeline)
    <2>1. c.net.sent \in Seq(Nat) /\ c.net.out \in Seq({"answer"})
        BY <1>1, WriterFields DEF CoreInv
    <2>2. PICK s \in Nat, o \in Nat : s = Len(c.net.sent) /\ o = Len(c.net.out)
        BY <2>1
    <2>3. Due(c.net) = s + o + 1
        BY <2>2, DueIs
    <2>4. Len(c.pipeline) = s + o + 1
        BY <1>6, <2>3
    <2>5. o + 1 \in 1 .. s + o + 1
        OBVIOUS
    <2> QED BY <2>2, <2>4, <2>5
<1>8. c.pipeline \in Seq(Batches) /\ c.disk[c.user] \in Seq(Batches)
    BY <1>1, WriterFields DEF CoreInv
<1>9. c.pipeline # << >>
    <2>1. \A p \in Seq(Batches) : 1 .. Len(p) # {} => p # << >>
        OBVIOUS
    <2> QED BY <1>7, <1>8, <2>1
<1>10. ASSUME NEW applied, Order(c, applied)
       PROVE  \E i \in DOMAIN c.disk[c.user] : c.disk[c.user][i].write \in Refused
    <2>1. c.pipeline[o + 1].write \in Refused
        BY <1>6, <1>7, <1>10 DEF Order, OrderOf
    <2>2. Begins(c.pipeline, c.disk[c.user])
        BY <1>1 DEF CoreInv, PipeInv
    <2>3. o + 1 \in DOMAIN c.disk[c.user] /\ c.pipeline[o + 1] = c.disk[c.user][o + 1]
        <3>1. \A p, q \in Seq(Batches) : Begins(p, q) =>
                  \A i \in 1 .. Len(p) : i \in DOMAIN q /\ p[i] = q[i]
            BY DEF Begins
        <3> QED BY Zenon, <1>7, <1>8, <2>2, <3>1
    <2> QED BY <2>1, <2>3
<1>11. /\ CoreInv(n) /\ n.stream.state # "Open" /\ FilledInv(n)
       /\ Done(n, c, "failure")
    <2>1. /\ CoreInv(n) /\ n.stream.state # "Open"
          /\ c.network => FilledInv(n)
          /\ IF TRUE /\ c.shaken /\ c.pipeline # << >>
             THEN Done(n, c, "failure") ELSE Quiet(n, c)
        <3>1. TRUE \in BOOLEAN /\ FALSE \in BOOLEAN
            OBVIOUS
        <3> QED BY <1>1, <1>3, <1>4, <1>5, <3>1, CloseWriteKeeps
    <2> QED BY <1>1, <1>6, <1>9, <2>1
<1> QED BY <1>6, <1>9, <1>10, <1>11 DEF ClientInv

\* Closing without a refusal: the connection breaks, or the idle timer runs.
LEMMA BreakKeeps ==
    ASSUME NEW c, CoreInv(c), FilledInv(c), IsStarted(c.stream),
           NEW graceful \in BOOLEAN, graceful => c.pipeline = << >>,
           NEW permanent \in BOOLEAN, permanent => ~c.shaken,
           NEW n, n = CloseWriteStream(c, graceful, permanent)
    PROVE  ClientInv(n) /\ n.stream.state # "Open" /\ Quiet(n, c)
<1>1. /\ c.network
      /\ c.network /\ c.pipeline = << >> => c.disk[c.user] = << >>
    BY DEF FilledInv
<1>2. /\ CoreInv(n) /\ n.stream.state # "Open" /\ ~n.shaken
      /\ c.network => FilledInv(n)
      /\ IF permanent /\ c.shaken /\ c.pipeline # << >>
         THEN Done(n, c, "failure") ELSE Quiet(n, c)
    BY <1>1, CloseWriteKeeps
<1>3. Quiet(n, c)
    BY <1>2
<1> QED BY <1>1, <1>2, <1>3 DEF ClientInv

\* A step of the stream alone, or of the call under it.
StreamOnly(n, c, s, net) ==
    /\ Quiet(n, c) /\ n.pipeline = c.pipeline /\ n.user = c.user
    /\ n.shaken = c.shaken /\ n.net = net /\ n.stream = s

LEMMA StreamStep ==
    ASSUME NEW c, ClientInv(c), NEW s \in StreamType, s.ok,
           s.asked => s.state = "Starting",
           s.idle => s.state = "Open" /\ c.shaken /\ c.pipeline = << >>,
           IsStarted(c.stream) => IsStarted(s), c.shaken => s.state = "Open",
           NEW net \in Calls,
           IF s.state = "Open"
           THEN /\ Due(net) = IF c.shaken THEN Len(c.pipeline) ELSE 1
                /\ ~c.shaken => /\ ~net.closed
                                /\ \A i \in DOMAIN net.sent : net.sent[i] = Handshake
           ELSE net = NewCall,
           NEW n, n = [c EXCEPT !.stream = s, !.net = net]
    PROVE  ClientInv(n) /\ StreamOnly(n, c, s, net)
<1>0. /\ c \in WriterType /\ c.ok /\ FilledInv(c)
      /\ DiskInv(c.disk, c.nextBatchId) /\ CallbackInv(c.callbacks, c.disk)
      /\ PipeInv(c.pipeline, c.disk[c.user])
    BY DEF ClientInv, CoreInv
<1>1. /\ n \in WriterType /\ n.ok /\ n.disk = c.disk
      /\ n.nextBatchId = c.nextBatchId /\ n.callbacks = c.callbacks
      /\ n.user = c.user /\ n.pipeline = c.pipeline
      /\ n.stream = s /\ n.net = net /\ n.shaken = c.shaken
      /\ n.network = c.network /\ n.told = c.told
    BY <1>0 DEF WriterType
<1>2. StreamInv(n)
    BY <1>1 DEF StreamInv
<1>3. WireInv(n)
    BY <1>1 DEF WireInv
<1>4. FilledInv(n)
    BY <1>0, <1>1 DEF FilledInv
<1> QED BY <1>0, <1>1, <1>2, <1>3, <1>4 DEF ClientInv, CoreInv, Quiet, StreamOnly

-----------------------------------------------------------------------------
(* The invariant of the specification.                                      *)

Blocks == [op : {"write"}, write : Writes] \cup [op : {"user"}, user : Users]

\* A read completes for an answer, and an operation fails once the server has
\* closed the stream; at most one of each waits on the worker queue.
CompletionsInv(queued, net) ==
    \/ queued = << >>
    \/ queued = <<"read">> /\ net.out # << >>
    \/ queued = <<"failed">> /\ net.closed
    \/ queued = <<"read", "failed">> /\ net.out # << >> /\ net.closed

WriteIInv ==
    /\ ClientInv(writer)
    /\ CompletionsInv(completions, writer.net)
    /\ workerQ \in Seq(Blocks)
    /\ made \in Nat /\ made <= MaxWrites

LEMMA SurvivingNone ==
    ASSUME NEW queued, Surviving(queued), writer'.stream.state # "Open"
    PROVE  CompletionsInv(completions', writer.net')
BY DEF Surviving, IsOpen, CompletionsInv

LEMMA WriterImplies == ASSUME ClientInv(writer) PROVE WriterInv
<1> DEFINE p == writer.pipeline
           q == writer.disk[writer.user]
<1>0. /\ writer \in WriterType /\ writer.ok /\ writer.stream.ok
      /\ CallbackInv(writer.callbacks, writer.disk) /\ PipeInv(p, q)
    BY DEF ClientInv, CoreInv, StreamInv
<1>1. WriterTypeOK
    BY <1>0, WriterFields DEF WriterTypeOK, Callbacks
<1>2. IsPrefix(p, q)
    <2>1. /\ p \in Seq(Batches) /\ q \in Seq(Batches)
          /\ Len(p) \in Nat /\ Len(q) \in Nat /\ DOMAIN p = 1 .. Len(p)
        BY <1>0, WriterFields
    <2>2. Len(p) <= Len(q) /\ \A i \in 1 .. Len(p) : p[i] = q[i]
        BY <1>0, <2>1 DEF PipeInv, Begins
    <2> HIDE DEF p, q
    <2> QED BY <2>1, <2>2 DEF IsPrefix
<1>3. Len(p) <= kMaxPendingWrites
    BY <1>0 DEF PipeInv
<1>4. \A k \in writer.callbacks :
          [id |-> k.id, write |-> k.write] \in ToSet(writer.disk[k.user])
    BY <1>0 DEF CallbackInv, ToSet
<1> QED BY <1>0, <1>1, <1>2, <1>3, <1>4 DEF WriterInv

LEMMA SignedInUserIs ==
    ASSUME WriteIInv PROVE SignedInUser \in Users
<1> DEFINE changes == {i \in DOMAIN workerQ : workerQ[i].op = "user"}
<1>1. workerQ \in Seq(Blocks) /\ writer.user \in Users
    BY WriterFields DEF WriteIInv, ClientInv, CoreInv
<1>2. \A i \in changes : workerQ[i].user \in Users
    <2> TAKE i \in changes
    <2>1. workerQ[i] \in Blocks /\ workerQ[i].op = "user"
        BY <1>1
    <2> QED BY <2>1 DEF Blocks
<1>3. SignedInUser = IF changes = {} THEN writer.user ELSE workerQ[Max(changes)].user
    BY DEF SignedInUser
<1>4. changes # {} => Max(changes) \in changes
    <2>1. /\ changes \subseteq Nat /\ Len(workerQ) + 1 \in Nat
          /\ \A x \in changes : x < Len(workerQ) + 1
        BY <1>1
    <2> HIDE DEF changes
    <2> QED BY <2>1, GreatestIs
<1> HIDE DEF changes
<1> QED BY <1>1, <1>2, <1>3, <1>4

LEMMA WriteInitInv == WriteInit => WriteIInv
<1> SUFFICES ASSUME WriteInit PROVE WriteIInv
    OBVIOUS
<1> DEFINE disk == [v \in Users |-> << >>]
           told == [w \in Writes |-> << >>]
<1>1. PICK u \in Users : writer = NewWriter(u, disk, told)
    BY DEF WriteInit
<1>2. DiskInv(disk, 1)
    BY DEF DiskInv, Increasing
<1>3. told \in [Writes -> Seq({"success", "failure"})]
    OBVIOUS
<1> HIDE DEF disk, told
<1>4. ClientInv(writer)
    <2>1. 1 \in Nat \ {0}
        OBVIOUS
    <2> QED BY <1>1, <1>2, <1>3, <2>1, NewWriterKeeps
<1>5. completions = << >> /\ workerQ = << >> /\ made = 0
    BY DEF WriteInit
<1> QED BY <1>4, <1>5, WriteAssumption DEF WriteIInv, CompletionsInv

\* A process starts again, with what the disk and the user were told.
Reborn(n, disk, told) ==
    /\ n.stream.state # "Open" /\ n.callbacks = {}
    /\ n.disk = disk /\ n.told = told

LEMMA RestartStep ==
    ASSUME WriteIInv, NEW disk, NEW m \in Nat \ {0}, DiskInv(disk, m),
           NEW told \in [Writes -> Seq({"success", "failure"})],
           Restart(disk, told)
    PROVE  WriteIInv' /\ Reborn(writer', disk, told)
<1>1. SignedInUser \in Users /\ writer' = NewWriter(SignedInUser, disk, told)
    BY SignedInUserIs DEF Restart
<1>2. ClientInv(writer') /\ Reborn(writer', disk, told)
    BY <1>1, NewWriterKeeps DEF Reborn
<1> QED BY <1>2 DEF Restart, WriteIInv, CompletionsInv

LEMMA RunBlockInv ==
    ASSUME WriteIInv, RunBlock PROVE WriteIInv'
<1> DEFINE b == Head(workerQ)
<1>1. /\ workerQ \in Seq(Blocks) /\ workerQ # << >> /\ workerQ' = Tail(workerQ)
      /\ b \in Blocks /\ Tail(workerQ) \in Seq(Blocks)
    BY DEF WriteIInv, RunBlock
<1>2. /\ writer' = IF b.op = "write"
                   THEN SyncEngineWriteMutations(writer, b.write)
                   ELSE HandleCredentialChange(writer, b.user)
      /\ Surviving(completions) /\ made' = made
    BY DEF RunBlock
<1>3. ClientInv(writer) /\ CompletionsInv(completions, writer.net)
    BY DEF WriteIInv
<1> HIDE DEF b
<1>4. ClientInv(writer') /\ CompletionsInv(completions', writer.net')
    <2>1. CASE b.op = "write"
        <3>1. b.write \in Writes
            BY <1>1, <2>1 DEF Blocks
        <3>2. writer' = SyncEngineWriteMutations(writer, b.write)
            BY <1>2, <2>1
        <3>3. /\ ClientInv(writer')
              /\ (writer'.stream.state = "Open") = (writer.stream.state = "Open")
              /\ writer'.net.out = writer.net.out
              /\ writer'.net.closed = writer.net.closed
            <4>1. ClientInv(writer)
                BY <1>3
            <4> QED BY Zenon, <3>1, <3>2, <4>1, WriteCallKeeps
        <3>4. completions' = completions \/ completions' = << >>
            BY <1>2 DEF Surviving
        <3> QED BY <1>3, <3>3, <3>4 DEF CompletionsInv
    <2>2. CASE b.op # "write"
        <3>1. b.user \in Users
            BY <1>1, <2>2 DEF Blocks
        <3>2. writer' = HandleCredentialChange(writer, b.user)
            BY <1>2, <2>2
        <3>3. ClientInv(writer') /\ writer'.stream.state # "Open"
            BY <1>3, <3>1, <3>2, UserKeeps
        <3> QED BY <1>2, <3>3, SurvivingNone
    <2> QED BY <2>1, <2>2
<1> QED BY <1>1, <1>2, <1>4 DEF WriteIInv

LEMMA RunCompletionInv ==
    ASSUME WriteIInv, RunCompletion PROVE WriteIInv'
<1>1. /\ writer' = IF Head(completions) = "read"
                   THEN OnRead(writer) ELSE OnOperationFailed(writer)
      /\ Surviving(Tail(completions)) /\ made' = made /\ workerQ' = workerQ
      /\ completions # << >>
    BY DEF RunCompletion
<1>2. ClientInv(writer) /\ CompletionsInv(completions, writer.net)
    BY DEF WriteIInv
<1>3. ClientInv(writer') /\ CompletionsInv(completions', writer.net')
    <2>1. CASE Head(completions) = "read"
        <3>1. writer' = OnRead(writer)
            BY <1>1, <2>1
        <3>2. /\ writer.net.out # << >>
              /\ \/ Tail(completions) = << >>
                 \/ Tail(completions) = <<"failed">> /\ writer.net.closed
            <4>1. Tail(<<"read">>) = << >> /\ Head(<<"failed">>) = "failed"
                OBVIOUS
            <4>2. Tail(<<"read", "failed">>) = <<"failed">>
                OBVIOUS
            <4> QED BY <1>1, <1>2, <2>1, <4>1, <4>2 DEF CompletionsInv
        <3>3. /\ ClientInv(writer') /\ writer'.stream.state = "Open"
              /\ writer'.net.closed = writer.net.closed
            BY <1>2, <3>1, <3>2, ReadKeeps
        <3>4. completions' = Tail(completions)
            BY <1>1, <3>3 DEF Surviving, IsOpen
        <3> QED BY <3>2, <3>3, <3>4 DEF CompletionsInv
    <2>2. CASE Head(completions) # "read"
        <3>1. writer' = OnOperationFailed(writer)
            BY <1>1, <2>2
        <3>2. writer.net.closed
            BY <1>1, <1>2, <2>2 DEF CompletionsInv
        <3>3. ClientInv(writer') /\ writer'.stream.state # "Open"
            BY <1>2, <3>1, <3>2, FailedKeeps
        <3> QED BY <1>1, <3>3, SurvivingNone
    <2> QED BY <2>1, <2>2
<1> QED BY <1>1, <1>3 DEF WriteIInv

LEMMA TokenArrivesInv ==
    ASSUME WriteIInv, TokenArrives PROVE WriteIInv'
<1> DEFINE s == Write(ResumeStartWithCredentials(writer.stream))
           net == [writer.net EXCEPT !.sent = <<Handshake>>]
<1>1. /\ ClientInv(writer) /\ CoreInv(writer) /\ FilledInv(writer)
      /\ writer \in WriterType /\ StreamInv(writer) /\ WireInv(writer)
      /\ writer.stream \in StreamType /\ writer.net \in Calls
    BY WriterFields DEF WriteIInv, ClientInv, CoreInv
<1>2. writer.stream.ok /\ writer.stream.state = "Starting" /\ ~writer.stream.idle
    BY <1>1 DEF TokenArrives, StreamInv
<1>3. ~writer.shaken /\ writer.net = NewCall
    BY <1>1, <1>2 DEF FilledInv, WireInv
<1>4. s \in StreamType /\ s.ok /\ s.state = "Open" /\ ~s.asked /\ ~s.idle
    <2> DEFINE t == ResumeStartWithCredentials(writer.stream)
    <2>1. t \in StreamType /\ t.ok /\ t.state = "Open" /\ ~t.asked
        BY <1>1, <1>2, TokenKeeps
    <2>2. s = Write(t)
        OBVIOUS
    <2> HIDE DEF t, s
    <2> QED BY <2>1, <2>2, OpenKeeps
<1>5. /\ net.sent = <<Handshake>> /\ net.out = writer.net.out
      /\ net.closed = writer.net.closed /\ net \in Calls
    <2>1. <<Handshake>> \in Seq(Nat)
        BY DEF Handshake
    <2> QED BY <1>1, <2>1 DEF Calls
<1>6. ~net.closed /\ Due(net) = 1
    <2>1. net.out = << >> /\ ~net.closed
        BY <1>3, <1>5 DEF NewCall
    <2>2. Len(net.sent) = 1 /\ Len(net.out) = 0
        BY <1>5, <2>1
    <2> HIDE DEF net
    <2>3. Due(net) = 1 + 0
        BY <2>1, <2>2, DueIs
    <2> QED BY <2>1, <2>3
<1>7. writer' = [writer EXCEPT !.stream = s, !.net = net]
    <2>1. writer.ok = TRUE
        BY <1>1 DEF CoreInv, WriterType
    <2>2. HardAssert(writer, ~writer.shaken) = writer
        BY <1>1, <1>3, <2>1 DEF HardAssert, WriterType
    <2> QED BY <1>1, <2>2 DEF TokenArrives, WriterType
<1> HIDE DEF s, net
<1>8. \A i \in DOMAIN net.sent : net.sent[i] = Handshake
    BY <1>5
<1>9. ClientInv(writer')
    BY <1>1, <1>3, <1>4, <1>5, <1>6, <1>7, <1>8, StreamStep DEF IsStarted
<1>10. writer'.net = net
    BY <1>1, <1>7 DEF WriterType
<1>11. CompletionsInv(completions', writer'.net)
    BY <1>5, <1>10 DEF TokenArrives, WriteIInv, CompletionsInv
<1> QED BY <1>9, <1>11 DEF TokenArrives, WriteIInv

\* A closed stream leaves no completion on the worker queue.
LEMMA ClosedStep ==
    ASSUME WriteIInv, ClientInv(writer'), writer'.stream.state # "Open",
           Surviving(completions), workerQ' = workerQ, made' = made
    PROVE  WriteIInv'
BY SurvivingNone DEF WriteIInv

LEMMA TokenFailsInv ==
    ASSUME WriteIInv, TokenFails
    PROVE  WriteIInv' /\ Quiet(writer', writer) /\ writer'.stream.state # "Open"
<1> DEFINE s == [writer.stream EXCEPT !.asked = FALSE]
           c == [writer EXCEPT !.stream = s, !.net = writer.net]
<1>1. /\ ClientInv(writer) /\ CoreInv(writer) /\ FilledInv(writer)
      /\ writer \in WriterType /\ StreamInv(writer) /\ WireInv(writer)
      /\ writer.stream \in StreamType /\ writer.net \in Calls
    BY WriterFields DEF WriteIInv, ClientInv, CoreInv
<1>2. writer.stream.ok /\ writer.stream.state = "Starting" /\ ~writer.stream.idle
    BY <1>1 DEF TokenFails, StreamInv
<1>3. /\ s \in StreamType /\ s.ok /\ s.state = "Starting" /\ ~s.asked /\ ~s.idle
    BY <1>1, <1>2 DEF StreamType
<1>4. ~writer.shaken /\ writer.net = NewCall
    BY <1>1, <1>2 DEF FilledInv, WireInv
<1>5. c = [writer EXCEPT !.stream.asked = FALSE] /\ c.stream = s
    BY <1>1 DEF WriterType
<1> HIDE DEF s
<1>6. ClientInv(c) /\ Quiet(c, writer)
    <2>1. c = [writer EXCEPT !.stream = s, !.net = writer.net]
        OBVIOUS
    <2> HIDE DEF c
    <2>2. ClientInv(c) /\ StreamOnly(c, writer, s, writer.net)
        BY <1>1, <1>3, <1>4, <2>1, StreamStep DEF IsStarted
    <2> QED BY <2>2 DEF StreamOnly
<1>7. writer' = CloseWriteStream(c, FALSE, FALSE)
    BY <1>5 DEF TokenFails
<1> HIDE DEF c
<1>8. /\ ClientInv(writer') /\ writer'.stream.state # "Open"
      /\ Quiet(writer', c)
    <2>1. CoreInv(c) /\ FilledInv(c) /\ IsStarted(c.stream)
        BY <1>3, <1>5, <1>6 DEF ClientInv, IsStarted
    <2> QED BY <1>7, <2>1, BreakKeeps
<1>9. Quiet(writer', writer)
    BY <1>6, <1>8 DEF Quiet
<1> QED BY <1>8, <1>9, ClosedStep DEF TokenFails

LEMMA TimersInv ==
    ASSUME WriteIInv, StaleTokenArrives \/ BackoffTimer
    PROVE  /\ WriteIInv' /\ Quiet(writer', writer)
           /\ writer'.pipeline = writer.pipeline /\ writer'.net = writer.net
           /\ writer'.shaken = writer.shaken
           /\ (writer'.stream.state = "Open") = (writer.stream.state = "Open")
<1>1. /\ ClientInv(writer) /\ CoreInv(writer) /\ FilledInv(writer)
      /\ writer \in WriterType /\ StreamInv(writer) /\ WireInv(writer)
      /\ writer.stream \in StreamType /\ writer.net \in Calls
    BY WriterFields DEF WriteIInv, ClientInv, CoreInv
<1>2. SUFFICES ASSUME NEW s \in StreamType, s.ok,
                      s.asked => s.state = "Starting",
                      s.idle = writer.stream.idle,
                      (s.state = "Open") = (writer.stream.state = "Open"),
                      IsStarted(writer.stream) => IsStarted(s),
                      writer' = [writer EXCEPT !.stream = s]
               PROVE  /\ WriteIInv' /\ Quiet(writer', writer)
                      /\ writer'.pipeline = writer.pipeline
                      /\ writer'.net = writer.net
                      /\ writer'.shaken = writer.shaken
                      /\ (writer'.stream.state = "Open") =
                             (writer.stream.state = "Open")
    <2>1. CASE StaleTokenArrives
        <3> DEFINE s == IgnoreCredentials(writer.stream)
        <3>1. s = [writer.stream EXCEPT !.stale = writer.stream.stale - 1]
            BY DEF IgnoreCredentials
        <3>2. writer.stream.stale - 1 \in Nat
            BY <1>1, <2>1 DEF StaleTokenArrives, StreamType
        <3>3. writer' = [writer EXCEPT !.stream = s]
            BY <2>1 DEF StaleTokenArrives
        <3> HIDE DEF s
        <3>4. /\ s \in StreamType /\ s.ok = writer.stream.ok
              /\ s.asked = writer.stream.asked /\ s.idle = writer.stream.idle
              /\ s.state = writer.stream.state
            BY <1>1, <3>1, <3>2 DEF StreamType
        <3> QED BY <1>1, <1>2, <3>3, <3>4 DEF StreamInv, IsStarted
    <2>2. CASE BackoffTimer
        <3> DEFINE s == BackoffElapsed(writer.stream)
        <3>1. /\ writer.stream.ok /\ ~writer.stream.asked /\ ~writer.stream.idle
              /\ writer.stream.state = "Backoff"
            BY <1>1, <2>2 DEF BackoffTimer, StreamInv
        <3>2. /\ s \in StreamType /\ s.ok /\ IsStarted(s) /\ ~s.idle
              /\ s.state = "Starting"
            BY <1>1, <3>1, BackoffKeeps
        <3>3. writer' = [writer EXCEPT !.stream = s]
            BY <2>2 DEF BackoffTimer
        <3> HIDE DEF s
        <3>4. s.idle = writer.stream.idle
            BY <1>1, <3>1, <3>2 DEF StreamType
        <3> QED BY <1>2, <3>1, <3>2, <3>3, <3>4
    <2> QED BY <2>1, <2>2
<1>3. writer' = [writer EXCEPT !.stream = s, !.net = writer.net]
    BY <1>1, <1>2 DEF WriterType
<1>4. ClientInv(writer') /\ StreamOnly(writer', writer, s, writer.net)
    <2>1. s.idle => s.state = "Open" /\ writer.shaken /\ writer.pipeline = << >>
        BY <1>1, <1>2 DEF StreamInv
    <2>2. writer.shaken => s.state = "Open"
        BY <1>1, <1>2 DEF FilledInv
    <2>3. IF s.state = "Open"
          THEN /\ Due(writer.net) = IF writer.shaken THEN Len(writer.pipeline) ELSE 1
               /\ ~writer.shaken =>
                      /\ ~writer.net.closed
                      /\ \A i \in DOMAIN writer.net.sent :
                             writer.net.sent[i] = Handshake
          ELSE writer.net = NewCall
        BY <1>1, <1>2 DEF WireInv
    <2>4. ClientInv(writer) /\ writer.net \in Calls
        BY <1>1
    <2>5. /\ s \in StreamType /\ s.ok /\ (s.asked => s.state = "Starting")
          /\ IsStarted(writer.stream) => IsStarted(s)
        BY <1>2
    <2> QED BY <1>3, <2>1, <2>2, <2>3, <2>4, <2>5, StreamStep
<1>5. writer'.net = writer.net
    BY <1>1, <1>3 DEF WriterType
<1>6. completions' = completions /\ workerQ' = workerQ /\ made' = made
    BY DEF StaleTokenArrives, BackoffTimer
<1>7. WriteIInv'
    BY <1>4, <1>5, <1>6 DEF WriteIInv
<1> QED BY <1>2, <1>4, <1>7 DEF StreamOnly

LEMMA BreaksInv ==
    ASSUME WriteIInv, IdleTimer \/ StreamFails
    PROVE  WriteIInv' /\ Quiet(writer', writer) /\ writer'.stream.state # "Open"
<1>1. CoreInv(writer) /\ FilledInv(writer) /\ StreamInv(writer)
    BY DEF WriteIInv, ClientInv, CoreInv
<1>2. CASE IdleTimer
    <2>1. /\ IsStarted(writer.stream) /\ writer.pipeline = << >>
          /\ writer' = CloseWriteStream(writer, TRUE, FALSE)
        BY <1>1, <1>2 DEF IdleTimer, StreamInv, IsStarted
    <2>2. /\ ClientInv(writer') /\ writer'.stream.state # "Open"
          /\ Quiet(writer', writer)
        BY <1>1, <2>1, BreakKeeps
    <2> QED BY <1>2, <2>2, ClosedStep DEF IdleTimer
<1>3. CASE StreamFails
    <2>1. PICK permanent \in BOOLEAN :
              /\ permanent => ~writer.shaken
              /\ writer' = CloseWriteStream(writer, FALSE, permanent)
        BY <1>3 DEF StreamFails
    <2>2. IsStarted(writer.stream)
        BY <1>3 DEF StreamFails, IsOpen, IsStarted
    <2>3. /\ ClientInv(writer') /\ writer'.stream.state # "Open"
          /\ Quiet(writer', writer)
        BY <1>1, <2>1, <2>2, BreakKeeps
    <2> QED BY <1>3, <2>3, ClosedStep DEF StreamFails
<1> QED BY <1>2, <1>3

\* A process may die with the head of the pipeline half done with.
Died ==
    \/ Reborn(writer', writer.disk, writer.told)
    \/ \E n : /\ ReadDone(n, writer) /\ writer.shaken
              /\ Reborn(writer', writer.disk, n.told)
    \/ \E n : /\ Done(n, writer, "failure") /\ writer.net.closed
              /\ Reborn(writer', n.disk, writer.told)

LEMMA DeathsInv ==
    ASSUME WriteIInv, ProcessDies \/ DiesInAnswer PROVE WriteIInv' /\ Died
<1>1. /\ ClientInv(writer) /\ CompletionsInv(completions, writer.net)
      /\ DiskInv(writer.disk, writer.nextBatchId) /\ writer.nextBatchId \in Nat \ {0}
      /\ writer.told \in [Writes -> Seq({"success", "failure"})]
    BY WriterFields DEF WriteIInv, ClientInv, CoreInv
<1>2. CASE ProcessDies
    BY <1>1, <1>2, RestartStep DEF ProcessDies, Died
<1>3. CASE DiesInAnswer /\ Head(completions) = "read"
    <2> DEFINE after == OnRead(writer)
    <2>1. Restart(writer.disk, after.told)
        BY <1>3 DEF DiesInAnswer
    <2>2. writer.net.out # << >>
        BY <1>1, <1>3 DEF DiesInAnswer, CompletionsInv
    <2>3. ClientInv(after) /\ ReadDone(after, writer)
        BY <1>1, <2>2, ReadKeeps
    <2> HIDE DEF after
    <2>4. after.told \in [Writes -> Seq({"success", "failure"})]
        BY <2>3, WriterFields DEF ClientInv, CoreInv
    <2>5. WriteIInv' /\ Reborn(writer', writer.disk, after.told)
        BY <1>1, <2>1, <2>4, RestartStep
    <2>6. writer.shaken
        BY <1>3 DEF DiesInAnswer
    <2> QED BY Zenon, <2>3, <2>5, <2>6 DEF Died
<1>4. CASE DiesInAnswer /\ Head(completions) # "read"
    <2> DEFINE after == OnOperationFailed(writer)
    <2>1. Restart(after.disk, writer.told)
        BY <1>4 DEF DiesInAnswer
    <2>2. writer.net.closed
        BY <1>1, <1>4 DEF DiesInAnswer, CompletionsInv
    <2>3. ClientInv(after) /\ Done(after, writer, "failure")
        BY <1>1, <2>2, FailedKeeps
    <2> HIDE DEF after
    <2>4. DiskInv(after.disk, after.nextBatchId) /\ after.nextBatchId \in Nat \ {0}
        BY <2>3, WriterFields DEF ClientInv, CoreInv
    <2>5. WriteIInv' /\ Reborn(writer', after.disk, writer.told)
        BY <1>1, <2>1, <2>4, RestartStep
    <2> QED BY Zenon, <2>2, <2>3, <2>5 DEF Died
<1> QED BY <1>2, <1>3, <1>4

\* What the server has taken from the wire.
Received(n, c) ==
    /\ Quiet(n, c) /\ n.pipeline = c.pipeline /\ n.user = c.user
    /\ n.shaken = c.shaken /\ n.stream = c.stream /\ c.stream.state = "Open"
    /\ n.net \in Calls /\ n.net.sent = Tail(c.net.sent) /\ c.net.sent # << >>
    /\ ~c.net.closed
    /\ IF Head(c.net.sent) \in Refused
       THEN n.net.closed /\ n.net.out = c.net.out
       ELSE ~n.net.closed /\ n.net.out = Append(c.net.out, "answer")

LEMMA ServerReceivesInv ==
    ASSUME WriteIInv, ServerReceives PROVE WriteIInv' /\ Received(writer', writer)
<1> DEFINE request == Head(writer.net.sent)
           rest == Tail(writer.net.sent)
           net == IF request \in Refused
                  THEN [writer.net EXCEPT !.sent = rest, !.closed = TRUE]
                  ELSE [writer.net EXCEPT !.sent = rest,
                                          !.out = Append(writer.net.out, "answer")]
<1>1. /\ ClientInv(writer) /\ CoreInv(writer) /\ FilledInv(writer)
      /\ writer \in WriterType /\ StreamInv(writer) /\ WireInv(writer)
      /\ writer.stream \in StreamType /\ writer.net \in Calls
      /\ writer.net.sent \in Seq(Nat) /\ writer.net.out \in Seq({"answer"})
    BY WriterFields DEF WriteIInv, ClientInv, CoreInv
<1>2. writer.net.sent # << >> /\ ~writer.net.closed
    BY DEF ServerReceives
<1>3. writer.stream.state = "Open"
    <2>1. writer.net # NewCall
        BY <1>2 DEF NewCall
    <2> QED BY <1>1, <2>1, OpenNet
<1>4. /\ rest \in Seq(Nat) /\ Len(writer.net.sent) \in Nat \ {0}
      /\ Len(rest) = Len(writer.net.sent) - 1
      /\ \A i \in DOMAIN rest : /\ i + 1 \in DOMAIN writer.net.sent
                                /\ rest[i] = writer.net.sent[i + 1]
      /\ request = writer.net.sent[1] /\ 1 \in DOMAIN writer.net.sent
    <2>1. \A s \in Seq(Nat) : s # << >> =>
              /\ Tail(s) \in Seq(Nat) /\ Len(s) \in Nat \ {0}
              /\ Len(Tail(s)) = Len(s) - 1
              /\ \A i \in DOMAIN Tail(s) : i + 1 \in DOMAIN s /\ Tail(s)[i] = s[i + 1]
              /\ Head(s) = s[1] /\ 1 \in DOMAIN s
        BY EmptySeq
    <2> QED BY <1>1, <1>2, <2>1
<1>5. /\ Append(writer.net.out, "answer") \in Seq({"answer"})
      /\ Len(Append(writer.net.out, "answer")) = Len(writer.net.out) + 1
      /\ Append(writer.net.out, "answer") # << >> /\ Len(writer.net.out) \in Nat
    <2>1. \A s \in Seq({"answer"}) :
              /\ Append(s, "answer") \in Seq({"answer"}) /\ Len(s) \in Nat
              /\ Len(Append(s, "answer")) = Len(s) + 1
        OBVIOUS
    <2>2. Len(Append(writer.net.out, "answer")) # 0
        BY <1>1, <2>1
    <2> QED BY <1>1, <2>1, <2>2
<1>6. writer' = [writer EXCEPT !.stream = writer.stream, !.net = net]
    <2>1. CASE request \in Refused
        BY <1>1, <2>1 DEF ServerReceives, WriterType, Calls
    <2>2. CASE request \notin Refused
        BY <1>1, <2>2 DEF ServerReceives, WriterType, Calls
    <2> QED BY <2>1, <2>2
<1>7. /\ net \in Calls /\ net.sent = rest
      /\ IF request \in Refused
         THEN net.closed /\ net.out = writer.net.out
         ELSE ~net.closed /\ net.out = Append(writer.net.out, "answer")
    <2>1. CASE request \in Refused
        BY <1>1, <1>4, <2>1 DEF Calls
    <2>2. CASE request \notin Refused
        BY <1>1, <1>2, <1>4, <1>5, <2>2 DEF Calls
    <2> QED BY <2>1, <2>2
<1> HIDE DEF net, request, rest
<1>8. Due(net) = Due(writer.net)
    <2>1. PICK s \in Nat : Len(rest) = s /\ Len(writer.net.sent) = s + 1
        <3>1. \A l \in Nat \ {0} : l - 1 \in Nat /\ (l - 1) + 1 = l
            OBVIOUS
        <3> QED BY <1>4, <3>1
    <2>2. PICK o \in Nat : Len(writer.net.out) = o
        BY <1>5
    <2>3. Due(writer.net) = (s + 1) + o
        BY <1>2, <2>1, <2>2, DueIs
    <2>4. CASE request \in Refused
        <3>1. net.closed /\ Len(net.sent) = s /\ Len(net.out) = o
            BY <1>7, <2>1, <2>2, <2>4
        <3>2. Due(net) = s + o + 1
            BY <3>1, DueIs
        <3> QED BY <2>3, <3>2
    <2>5. CASE request \notin Refused
        <3>1. ~net.closed /\ Len(net.sent) = s /\ Len(net.out) = o + 1
            BY <1>5, <1>7, <2>1, <2>2, <2>5
        <3>2. Due(net) = s + (o + 1)
            BY <3>1, DueIs
        <3> QED BY <2>3, <3>2
    <2> QED BY <2>4, <2>5
<1>9. ClientInv(writer') /\ StreamOnly(writer', writer, writer.stream, net)
    <2>1. ~writer.shaken => /\ ~net.closed
                            /\ \A i \in DOMAIN net.sent : net.sent[i] = Handshake
        <3> SUFFICES ASSUME ~writer.shaken
                     PROVE  /\ ~net.closed
                            /\ \A i \in DOMAIN net.sent : net.sent[i] = Handshake
            OBVIOUS
        <3>1. \A i \in DOMAIN writer.net.sent : writer.net.sent[i] = Handshake
            BY <1>1, <1>3 DEF WireInv
        <3>2. request = 0
            BY <1>4, <3>1 DEF Handshake
        <3>3. request \notin Refused
            BY <3>2, WriteAssumption
        <3>4. \A i \in DOMAIN rest : rest[i] = Handshake
            BY <1>4, <3>1
        <3> QED BY <1>7, <3>3, <3>4
    <2>2. Due(net) = IF writer.shaken THEN Len(writer.pipeline) ELSE 1
        BY <1>1, <1>3, <1>8 DEF WireInv
    <2>3. /\ writer.stream.ok
          /\ writer.stream.asked => writer.stream.state = "Starting"
          /\ writer.stream.idle =>
                 /\ writer.stream.state = "Open" /\ writer.shaken
                 /\ writer.pipeline = << >>
        BY <1>1 DEF StreamInv
    <2>4. IF writer.stream.state = "Open"
          THEN /\ Due(net) = IF writer.shaken THEN Len(writer.pipeline) ELSE 1
               /\ ~writer.shaken => /\ ~net.closed
                                    /\ \A i \in DOMAIN net.sent :
                                           net.sent[i] = Handshake
          ELSE net = NewCall
        BY <1>3, <2>1, <2>2
    <2>5. ClientInv(writer) /\ writer.stream \in StreamType /\ net \in Calls
        BY <1>1, <1>7
    <2> QED BY <1>3, <1>6, <2>3, <2>4, <2>5, StreamStep
<1>10. CompletionsInv(completions', writer'.net)
    <2>1. /\ writer.net.out # << >> => net.out # << >>
          /\ completions' = completions
        BY <1>5, <1>7 DEF ServerReceives
    <2>2. CompletionsInv(completions, writer.net)
        BY DEF WriteIInv
    <2>3. CompletionsInv(completions', net)
        BY <1>2, <2>1, <2>2 DEF CompletionsInv
    <2>4. writer'.net = net
        BY <1>1, <1>6 DEF WriterType
    <2> QED BY <2>3, <2>4
<1>11. Received(writer', writer)
    BY <1>2, <1>3, <1>7, <1>9 DEF Received, StreamOnly, request, rest
<1>12. WriteIInv'
    BY <1>9, <1>10 DEF ServerReceives, WriteIInv
<1> QED BY <1>11, <1>12

LEMMA CompletionsStep ==
    ASSUME WriteIInv, ReadCompletes \/ OperationFails PROVE WriteIInv'
<1>1. CompletionsInv(completions, writer.net) /\ writer' = writer
    BY DEF WriteIInv, ReadCompletes, OperationFails
<1>2. CASE ReadCompletes
    BY <1>1, <1>2 DEF ReadCompletes, CompletionsInv, WriteIInv
<1>3. CASE OperationFails
    <2>1. /\ writer.net.closed /\ "failed" \notin ToSet(completions)
          /\ completions' = Append(completions, "failed")
        BY <1>3 DEF OperationFails
    <2>2. completions # <<"failed">> /\ completions # <<"read", "failed">>
        <3>1. "failed" \in ToSet(<<"failed">>)
            <4>1. 1 \in DOMAIN <<"failed">> /\ <<"failed">>[1] = "failed"
                OBVIOUS
            <4> QED BY <4>1 DEF ToSet
        <3>2. "failed" \in ToSet(<<"read", "failed">>)
            <4>1. /\ 2 \in DOMAIN <<"read", "failed">>
                  /\ <<"read", "failed">>[2] = "failed"
                OBVIOUS
            <4> QED BY <4>1 DEF ToSet
        <3> QED BY <2>1, <3>1, <3>2
    <2>3. /\ Append(<< >>, "failed") = <<"failed">>
          /\ Append(<<"read">>, "failed") = <<"read", "failed">>
        <3> DEFINE K == {"read", "failed"}
                   a == Append(<<"read">>, "failed")
                   b == <<"read", "failed">>
        <3>1. /\ a \in Seq(K) /\ Len(a) = 2
              /\ a[1] = "read" /\ a[2] = "failed"
            <4>1. <<"read">> \in Seq(K) /\ "failed" \in K /\ Len(<<"read">>) = 1
                OBVIOUS
            <4>2. <<"read">>[1] = "read"
                OBVIOUS
            <4> QED BY <4>1, <4>2, AppendProperties
        <3>2. b \in Seq(K) /\ Len(b) = 2 /\ b[1] = "read" /\ b[2] = "failed"
            OBVIOUS
        <3> HIDE DEF a, b, K
        <3>3. \A i \in 1 .. Len(a) : a[i] = b[i]
            BY <3>1, <3>2
        <3>4. a = b
            BY <3>1, <3>2, <3>3, SeqEqual
        <3>5. Append(<< >>, "failed") = <<"failed">>
            OBVIOUS
        <3> QED BY <3>4, <3>5 DEF a, b
    <2>4. CompletionsInv(completions', writer.net)
        BY <1>1, <2>1, <2>2, <2>3 DEF CompletionsInv
    <2> QED BY <1>1, <1>3, <2>4 DEF OperationFails, WriteIInv
<1> QED BY <1>2, <1>3

LEMMA MainQueueInv ==
    ASSUME WriteIInv, SetData \/ \E u \in Users : UserChanges(u)
    PROVE  WriteIInv'
<1>1. PICK b \in Blocks : workerQ' = Append(workerQ, b) /\ made' \in Nat
                          /\ made' <= MaxWrites
    <2>1. CASE SetData
        <3>1. made + 1 \in Writes /\ made' = made + 1
            BY <2>1, WriteAssumption DEF SetData, WriteIInv, Writes
        <3>2. [op |-> "write", write |-> made + 1] \in Blocks
            BY <3>1 DEF Blocks
        <3> QED BY <2>1, <3>1, <3>2 DEF SetData, Writes
    <2>2. CASE \E u \in Users : UserChanges(u)
        <3>1. PICK u \in Users : UserChanges(u)
            BY <2>2
        <3>2. [op |-> "user", user |-> u] \in Blocks
            BY DEF Blocks
        <3> QED BY <3>1, <3>2 DEF UserChanges, WriteIInv
    <2> QED BY <2>1, <2>2
<1>2. workerQ' \in Seq(Blocks)
    BY <1>1 DEF WriteIInv
<1>3. writer' = writer /\ completions' = completions
    BY DEF SetData, UserChanges
<1> QED BY <1>1, <1>2, <1>3 DEF WriteIInv

LEMMA WriteNextInv == WriteIInv /\ [WriteNext]_writeVars => WriteIInv'
<1> SUFFICES ASSUME WriteIInv, [WriteNext]_writeVars PROVE WriteIInv'
    OBVIOUS
<1>1. CASE SetData \/ \E u \in Users : UserChanges(u)
    BY <1>1, MainQueueInv
<1>2. CASE WriterStep
    <2>1. CASE RunBlock
        BY <2>1, RunBlockInv
    <2>2. CASE RunCompletion
        BY <2>2, RunCompletionInv
    <2>3. CASE TokenArrives
        BY <2>3, TokenArrivesInv
    <2>4. CASE TokenFails
        BY <2>4, TokenFailsInv
    <2>5. CASE StaleTokenArrives \/ BackoffTimer
        BY <2>5, TimersInv
    <2>6. CASE IdleTimer
        BY <2>6, BreaksInv
    <2> QED BY <1>2, <2>1, <2>2, <2>3, <2>4, <2>5, <2>6 DEF WriterStep
<1>3. CASE NetworkStep
    BY <1>3, CompletionsStep, ServerReceivesInv DEF NetworkStep
<1>4. CASE StreamFails
    BY <1>4, BreaksInv
<1>5. CASE ProcessDies \/ DiesInAnswer
    BY <1>5, DeathsInv
<1>6. CASE UNCHANGED writeVars
    BY <1>6 DEF writeVars, WriteIInv
<1> QED BY <1>1, <1>2, <1>3, <1>4, <1>5, <1>6 DEF WriteNext

\* For any number of writes, users, pending batches and faults: no assertion of
\* the stream, the remote store or the mutation queue fails, the pipeline is the
\* beginning of the queue on disk of the user, and who waits for a completion has
\* a batch on disk with that id, whatever the connection, the user and the
\* process do.
THEOREM WriterSafe == WriteSpec => []WriterInv
<1>1. WriteIInv => WriterInv
    BY WriterImplies DEF WriteIInv
<1> QED BY <1>1, WriteInitInv, WriteNextInv, PTL DEF WriteSpec

-----------------------------------------------------------------------------
(* The client implements DurableWrites.                                     *)

\* Each write is on disk once.
Distinct(disk) ==
    \A u, v \in Users : \A i \in DOMAIN disk[u], j \in DOMAIN disk[v] :
        disk[u][i].write = disk[v][j].write => u = v /\ i = j

\* A completion that waits was not called.
Waiting(c) == \A k \in c.callbacks : c.told[k.write] = << >>

OnDisk(disk, w) == \E u \in Users : \E i \in DOMAIN disk[u] : disk[u][i].write = w

\* The writes that have left the queue of blocks.
Seen(disk, told, applied, w) ==
    OnDisk(disk, w) \/ told[w] # << >> \/ w \in applied

\* Writes are made, and leave the queue of blocks, in the order of their numbers.
IsWrite(b) == b.op = "write"
FreshInv ==
    /\ \A w \in Writes :
           Seen(writer.disk, writer.told, store.applied, w) => w <= made
    /\ \A i \in DOMAIN workerQ : IsWrite(workerQ[i]) =>
           /\ workerQ[i].write <= made
           /\ \A w \in Writes : Seen(writer.disk, writer.told, store.applied, w) =>
                  w < workerQ[i].write
           /\ \A j \in DOMAIN workerQ : j < i /\ IsWrite(workerQ[j]) =>
                  workerQ[j].write < workerQ[i].write

ContractInv ==
    /\ WriteIInv /\ Distinct(writer.disk) /\ Waiting(writer) /\ FreshInv
    /\ store.applied \in SUBSET Writes /\ Order(writer, store.applied)

\* What the head of the pipeline being done with changes.
HeadGone(n, c, q, w, outcome) ==
    /\ q \in Seq(Batches) /\ q # << >> /\ c.user \in Users /\ w \in Writes
    /\ w = Head(c.pipeline).write /\ OnDisk(c.disk, w)
    /\ n.disk = [c.disk EXCEPT ![c.user] = Tail(@)]
    /\ \/ n.told = c.told
       \/ c.told[w] = << >> /\ n.told = [c.told EXCEPT ![w] = <<outcome>>]
    /\ Distinct(n.disk) /\ Waiting(n)
    /\ \A x : OnDisk(n.disk, x) => OnDisk(c.disk, x)

LEMMA DoneIs ==
    ASSUME NEW c, ClientInv(c), Distinct(c.disk), Waiting(c), c.pipeline # << >>,
           NEW outcome, NEW n, Done(n, c, outcome),
           NEW q, q = c.disk[c.user], NEW w, w = Head(q).write
    PROVE  HeadGone(n, c, q, w, outcome)
<1> DEFINE head == Head(c.pipeline)
           callbacks == {k \in c.callbacks : ~(k.user = c.user /\ k.id = head.id)}
           disk == [c.disk EXCEPT ![c.user] = Tail(@)]
<1>0. /\ c \in WriterType /\ DiskInv(c.disk, c.nextBatchId)
      /\ CallbackInv(c.callbacks, c.disk) /\ PipeInv(c.pipeline, c.disk[c.user])
      /\ c.user \in Users /\ q \in Seq(Batches) /\ Increasing(q)
      /\ c.disk \in [Users -> Seq(Batches)] /\ c.callbacks \in SUBSET Callbacks
      /\ c.told \in [Writes -> Seq({"success", "failure"})]
    BY WriterFields DEF ClientInv, CoreInv, DiskInv
<1>1. q # << >> /\ head = Head(q)
    <2>1. callbacks \subseteq c.callbacks
        OBVIOUS
    <2>2. \A k \in callbacks : ~(k.user = c.user /\ k.id = Head(c.pipeline).id)
        OBVIOUS
    <2> HIDE DEF callbacks
    <2> QED BY <1>0, <2>1, <2>2, HeadDone
<1>2. /\ Tail(q) \in Seq(Batches) /\ Head(q) = q[1] /\ Head(q) \in Batches
      /\ Len(q) \in Nat \ {0}
      /\ DOMAIN q = 1 .. Len(q) /\ DOMAIN Tail(q) = 1 .. Len(q) - 1
      /\ \A i \in DOMAIN Tail(q) : i + 1 \in DOMAIN q /\ Tail(q)[i] = q[i + 1]
      /\ \A i \in DOMAIN q : i # 1 => q[i].id # q[1].id
    BY <1>0, <1>1, TailOfQueue
<1>3. /\ w \in Writes /\ w = head.write /\ w = q[1].write /\ 1 \in DOMAIN q
      /\ OnDisk(c.disk, w)
    <2>1. w \in Writes /\ w = head.write /\ w = q[1].write
        BY <1>1, <1>2 DEF Batches
    <2>2. 1 \in DOMAIN q
        BY <1>2
    <2> QED BY <1>0, <2>1, <2>2 DEF OnDisk
<1>4. /\ n.disk = disk /\ disk[c.user] = Tail(q)
      /\ \A u \in Users : u # c.user => disk[u] = c.disk[u]
      /\ n.told = ToldAfter(c, head.id, outcome) /\ n.callbacks \subseteq callbacks
    BY <1>0 DEF Done
<1>5. \A k \in c.callbacks : k.user \in Users /\ k.write \in Writes
          /\ \E i \in DOMAIN c.disk[k.user] :
                 c.disk[k.user][i].id = k.id /\ c.disk[k.user][i].write = k.write
    <2> TAKE k \in c.callbacks
    <2>1. k \in Callbacks
        BY <1>0
    <2>2. PICK i \in DOMAIN c.disk[k.user] :
              c.disk[k.user][i] = [id |-> k.id, write |-> k.write]
        BY <1>0 DEF CallbackInv
    <2>3. c.disk[k.user][i].id = k.id /\ c.disk[k.user][i].write = k.write
        BY <2>2
    <2> QED BY <2>1, <2>3 DEF Callbacks
<1> HIDE DEF disk, head
<1>6. \A k \in c.callbacks : k.user = c.user /\ k.id = head.id => k.write = w
    <2> SUFFICES ASSUME NEW k \in c.callbacks, k.user = c.user, k.id = head.id
                 PROVE  k.write = w
        OBVIOUS
    <2>1. PICK i \in DOMAIN q : q[i].id = k.id /\ q[i].write = k.write
        BY <1>5
    <2>2. i = 1
        BY <1>1, <1>2, <2>1
    <2> QED BY <1>3, <2>1, <2>2
<1>7. \/ n.told = c.told
      \/ c.told[w] = << >> /\ n.told = [c.told EXCEPT ![w] = <<outcome>>]
    <2>1. CASE \E k \in c.callbacks : k.user = c.user /\ k.id = head.id
        <3>1. PICK k \in c.callbacks : k.user = c.user /\ k.id = head.id
            BY <2>1
        <3>2. c.told[w] = << >>
            BY <1>6, <3>1 DEF Waiting
        <3>3. Append(c.told[w], outcome) = <<outcome>>
            BY <3>2
        <3>4. n.told = [x \in Writes |-> IF x = w THEN <<outcome>> ELSE c.told[x]]
            <4>1. \A x \in Writes :
                      (\E l \in c.callbacks :
                           l.user = c.user /\ l.id = head.id /\ l.write = x) <=> x = w
                BY <1>6, <3>1
            <4> DEFINE F(x) == IF \E l \in c.callbacks :
                                     l.user = c.user /\ l.id = head.id /\ l.write = x
                               THEN Append(c.told[x], outcome) ELSE c.told[x]
            <4>2. n.told = [x \in Writes |-> F(x)]
                BY <1>4 DEF ToldAfter
            <4>3. \A x \in Writes : F(x) = IF x = w THEN <<outcome>> ELSE c.told[x]
                BY Zenon, <3>3, <4>1
            <4> HIDE DEF F
            <4> QED BY <4>2, <4>3
        <3> QED BY <1>0, <3>2, <3>4
    <2>2. CASE ~\E k \in c.callbacks : k.user = c.user /\ k.id = head.id
        <3>1. n.told = [x \in Writes |-> c.told[x]]
            BY <1>4, <2>2 DEF ToldAfter
        <3> QED BY <1>0, <3>1
    <2> QED BY <2>1, <2>2
<1>8. ASSUME NEW u \in Users, NEW i \in DOMAIN disk[u]
      PROVE  \E j \in DOMAIN c.disk[u] :
                 /\ disk[u][i] = c.disk[u][j]
                 /\ j = IF u = c.user THEN i + 1 ELSE i
    <2>1. CASE u = c.user
        <3>1. i \in DOMAIN Tail(q) /\ disk[u][i] = Tail(q)[i]
            BY Zenon, <1>4, <2>1
        <3>2. i + 1 \in DOMAIN c.disk[u] /\ disk[u][i] = c.disk[u][i + 1]
            BY Zenon, <1>0, <1>2, <2>1, <3>1
        <3> QED BY Zenon, <2>1, <3>2
    <2>2. CASE u # c.user
        <3>1. disk[u] = c.disk[u]
            BY Zenon, <1>4, <2>2
        <3> QED BY Zenon, <2>2, <3>1
    <2> QED BY Zenon, <2>1, <2>2
<1>9. Distinct(n.disk)
    <2> SUFFICES ASSUME NEW u \in Users, NEW v \in Users,
                        NEW i \in DOMAIN disk[u], NEW j \in DOMAIN disk[v],
                        disk[u][i].write = disk[v][j].write
                 PROVE  u = v /\ i = j
        BY <1>4 DEF Distinct
    <2>1. PICK k \in DOMAIN c.disk[u] : /\ disk[u][i] = c.disk[u][k]
                                        /\ k = IF u = c.user THEN i + 1 ELSE i
        BY <1>8
    <2>2. PICK l \in DOMAIN c.disk[v] : /\ disk[v][j] = c.disk[v][l]
                                        /\ l = IF v = c.user THEN j + 1 ELSE j
        BY <1>8
    <2>3. u = v /\ k = l
        BY <2>1, <2>2 DEF Distinct
    <2>4. CASE u # c.user
        BY <2>1, <2>2, <2>3, <2>4
    <2>5. CASE u = c.user
        <3>1. i \in Nat /\ j \in Nat
            <4>1. disk[u] = Tail(q) /\ disk[v] = Tail(q)
                BY <1>4, <2>3, <2>5
            <4>2. i \in 1 .. Len(q) - 1 /\ j \in 1 .. Len(q) - 1
                BY <1>2, <4>1
            <4> QED BY <1>2, <4>2
        <3>2. i + 1 = j + 1
            BY <2>1, <2>2, <2>3, <2>5
        <3> QED BY <2>3, <3>1, <3>2
    <2> QED BY <2>4, <2>5
<1>10. Waiting(n)
    <2> SUFFICES ASSUME NEW k \in n.callbacks PROVE n.told[k.write] = << >>
        BY DEF Waiting
    <2>1. k \in c.callbacks /\ ~(k.user = c.user /\ k.id = head.id)
        BY <1>4 DEF head
    <2>2. c.told[k.write] = << >> /\ k.user \in Users /\ k.write \in Writes
        BY <1>5, <2>1 DEF Waiting
    <2>3. k.write # w
        <3>1. PICK i \in DOMAIN c.disk[k.user] :
                  c.disk[k.user][i].id = k.id /\ c.disk[k.user][i].write = k.write
            BY <1>5, <2>1
        <3>2. SUFFICES ASSUME k.write = w PROVE FALSE
            OBVIOUS
        <3>3. k.user = c.user /\ i = 1
            BY <1>0, <1>3, <2>2, <3>1, <3>2 DEF Distinct
        <3>4. k.id = head.id
            BY <1>1, <1>2, <3>1, <3>3
        <3> QED BY <2>1, <3>3, <3>4
    <2> QED BY <1>0, <1>7, <2>2, <2>3
<1>11. \A x : OnDisk(n.disk, x) => OnDisk(c.disk, x)
    BY <1>4, <1>8 DEF OnDisk
<1> QED BY <1>0, <1>1, <1>3, <1>4, <1>7, <1>9, <1>10, <1>11 DEF disk, head, HeadGone

\* The writes of a queue, as the contract sees them.
LEMMA WritesOfQueue ==
    ASSUME NEW q \in Seq(Batches)
    PROVE  /\ q # << >> => /\ WritesOf(q) # << >>
                           /\ Head(WritesOf(q)) = Head(q).write
                           /\ WritesOf(Tail(q)) = Tail(WritesOf(q))
           /\ \A b \in Batches : WritesOf(Append(q, b)) = Append(WritesOf(q), b.write)
           /\ ToSet(WritesOf(q)) = {q[i].write : i \in DOMAIN q}
<1> DEFINE s == WritesOf(q)
<1>1. /\ s \in Seq(Nat) /\ Len(s) = Len(q) /\ DOMAIN s = 1 .. Len(q)
      /\ DOMAIN q = 1 .. Len(q) /\ Len(q) \in Nat
      /\ \A i \in 1 .. Len(q) : s[i] = q[i].write
    BY WritesOfType
<1> HIDE DEF s
<1>2. ASSUME q # << >>
      PROVE  s # << >> /\ Head(s) = Head(q).write /\ WritesOf(Tail(q)) = Tail(s)
    <2>1. /\ Len(q) \in Nat \ {0} /\ Tail(q) \in Seq(Batches) /\ Head(q) = q[1]
          /\ Len(Tail(q)) = Len(q) - 1
          /\ \A i \in 1 .. Len(q) - 1 : Tail(q)[i] = q[i + 1]
        BY <1>2, EmptySeq
    <2>2. /\ s # << >> /\ Head(s) = s[1] /\ Tail(s) \in Seq(Nat)
          /\ Len(Tail(s)) = Len(q) - 1
          /\ \A i \in 1 .. Len(q) - 1 : Tail(s)[i] = s[i + 1]
        <3>1. \A t \in Seq(Nat) : Len(t) # 0 =>
                  /\ t # << >> /\ Head(t) = t[1] /\ Tail(t) \in Seq(Nat)
                  /\ Len(Tail(t)) = Len(t) - 1
                  /\ \A i \in 1 .. Len(t) - 1 : Tail(t)[i] = t[i + 1]
            BY EmptySeq
        <3> QED BY <1>1, <2>1, <3>1
    <2>3. 1 \in 1 .. Len(q)
        BY <2>1
    <2>4. /\ WritesOf(Tail(q)) \in Seq(Nat)
          /\ Len(WritesOf(Tail(q))) = Len(q) - 1
          /\ \A i \in 1 .. Len(q) - 1 : WritesOf(Tail(q))[i] = Tail(q)[i].write
        <3>1. /\ WritesOf(Tail(q)) \in Seq(Nat)
              /\ Len(WritesOf(Tail(q))) = Len(Tail(q))
              /\ \A i \in 1 .. Len(Tail(q)) :
                     WritesOf(Tail(q))[i] = Tail(q)[i].write
            BY <2>1, WritesOfType
        <3> QED BY <2>1, <3>1
    <2>5. \A i \in 1 .. Len(q) - 1 : WritesOf(Tail(q))[i] = Tail(s)[i]
        <3> TAKE i \in 1 .. Len(q) - 1
        <3>1. i + 1 \in 1 .. Len(q)
            BY <1>1
        <3> QED BY <1>1, <2>1, <2>2, <2>4, <3>1
    <2>6. WritesOf(Tail(q)) = Tail(s)
        BY <2>2, <2>4, <2>5, SeqEqual
    <2> QED BY <1>1, <2>1, <2>2, <2>3, <2>6
<1>3. ASSUME NEW b \in Batches
      PROVE  WritesOf(Append(q, b)) = Append(s, b.write)
    <2>1. b.write \in Nat
        BY WriteAssumption DEF Batches, Writes
    <2>2. /\ Append(q, b) \in Seq(Batches) /\ Len(Append(q, b)) = Len(q) + 1
          /\ \A i \in 1 .. Len(q) : Append(q, b)[i] = q[i]
          /\ Append(q, b)[Len(q) + 1] = b
        OBVIOUS
    <2>3. /\ Append(s, b.write) \in Seq(Nat) /\ Len(Append(s, b.write)) = Len(q) + 1
          /\ \A i \in 1 .. Len(q) : Append(s, b.write)[i] = s[i]
          /\ Append(s, b.write)[Len(q) + 1] = b.write
        <3>1. \A t \in Seq(Nat), x \in Nat :
                  /\ Append(t, x) \in Seq(Nat) /\ Len(Append(t, x)) = Len(t) + 1
                  /\ \A i \in 1 .. Len(t) : Append(t, x)[i] = t[i]
                  /\ Append(t, x)[Len(t) + 1] = x
            OBVIOUS
        <3> QED BY <1>1, <2>1, <3>1
    <2>4. /\ WritesOf(Append(q, b)) \in Seq(Nat)
          /\ Len(WritesOf(Append(q, b))) = Len(q) + 1
          /\ \A i \in 1 .. Len(q) + 1 :
                 WritesOf(Append(q, b))[i] = Append(q, b)[i].write
        <3> DEFINE r == Append(q, b)
        <3>1. r \in Seq(Batches) /\ Len(r) = Len(q) + 1
            BY <2>2
        <3> HIDE DEF r
        <3>2. /\ WritesOf(r) \in Seq(Nat) /\ Len(WritesOf(r)) = Len(q) + 1
              /\ \A i \in 1 .. Len(q) + 1 : WritesOf(r)[i] = r[i].write
            BY <3>1, WritesOfType
        <3> QED BY <3>2 DEF r
    <2>5. \A i \in 1 .. Len(q) + 1 :
              WritesOf(Append(q, b))[i] = Append(s, b.write)[i]
        <3> TAKE i \in 1 .. Len(q) + 1
        <3>1. i \in 1 .. Len(q) \/ i = Len(q) + 1
            BY <1>1
        <3> QED BY <1>1, <2>2, <2>3, <2>4, <3>1
    <2> QED BY <2>3, <2>4, <2>5, SeqEqual
<1>4. ToSet(s) = {q[i].write : i \in DOMAIN q}
    BY <1>1 DEF ToSet
<1> QED BY <1>2, <1>3, <1>4 DEF s

\* The steps of the contract, on the queues of the disk.
Pending == [u \in Users |-> WritesOf(writer.disk[u])]

LEMMA PendingIs ==
    ASSUME writer.disk \in [Users -> Seq(Batches)], NEW u \in Users,
           NEW q, q = writer.disk[u]
    PROVE  /\ Pending[u] = WritesOf(q)
           /\ writer'.disk = [writer.disk EXCEPT ![u] = Tail(@)] /\ q # << >> =>
                  Pending' = [Pending EXCEPT ![u] = Tail(@)]
           /\ writer'.disk = writer.disk => Pending' = Pending
           /\ \A b \in Batches : writer'.disk = [writer.disk EXCEPT ![u] = Append(@, b)]
                  => Pending' = [Pending EXCEPT ![u] = Append(@, b.write)]
<1>1. Pending[u] = WritesOf(q) /\ q \in Seq(Batches)
    BY DEF Pending
<1>2. ASSUME writer'.disk = [writer.disk EXCEPT ![u] = Tail(@)], q # << >>
      PROVE  Pending' = [Pending EXCEPT ![u] = Tail(@)]
    <2>1. WritesOf(Tail(q)) = Tail(Pending[u])
        BY <1>1, <1>2, WritesOfQueue
    <2>2. /\ writer'.disk[u] = Tail(q)
          /\ \A v \in Users : v # u => writer'.disk[v] = writer.disk[v]
        BY <1>2
    <2>3. \A v \in Users : WritesOf(writer'.disk[v]) =
                               IF v = u THEN Tail(Pending[u]) ELSE Pending[v]
        BY <2>1, <2>2 DEF Pending
    <2>4. Pending' = [v \in Users |-> WritesOf(writer'.disk[v])]
        BY DEF Pending, WritesOf
    <2>5. Pending' = [v \in Users |-> IF v = u THEN Tail(Pending[u]) ELSE Pending[v]]
        BY <2>3, <2>4
    <2> QED BY <2>5 DEF Pending
<1>3. ASSUME writer'.disk = writer.disk PROVE Pending' = Pending
    BY <1>3 DEF Pending, WritesOf
<1>4. ASSUME NEW b \in Batches, writer'.disk = [writer.disk EXCEPT ![u] = Append(@, b)]
      PROVE  Pending' = [Pending EXCEPT ![u] = Append(@, b.write)]
    <2>1. WritesOf(Append(q, b)) = Append(Pending[u], b.write)
        BY <1>1, WritesOfQueue
    <2>2. /\ writer'.disk[u] = Append(q, b)
          /\ \A v \in Users : v # u => writer'.disk[v] = writer.disk[v]
        BY <1>4
    <2>3. \A v \in Users : WritesOf(writer'.disk[v]) =
                  IF v = u THEN Append(Pending[u], b.write) ELSE Pending[v]
        BY <2>1, <2>2 DEF Pending
    <2>4. Pending' = [v \in Users |-> WritesOf(writer'.disk[v])]
        BY DEF Pending, WritesOf
    <2>5. Pending' = [v \in Users |->
                  IF v = u THEN Append(Pending[u], b.write) ELSE Pending[v]]
        BY <2>3, <2>4
    <2> QED BY <2>5 DEF Pending
<1> QED BY <1>1, <1>2, <1>3, <1>4

LEMMA SucceedStep ==
    ASSUME writer.disk \in [Users -> Seq(Batches)], NEW u \in Users,
           NEW q, q = writer.disk[u], q # << >>, NEW w, w = Head(q).write,
           w \in store.applied, store' = store,
           \/ writer'.disk = [writer.disk EXCEPT ![u] = Tail(@)]
           \/ writer'.disk = writer.disk,
           \/ writer'.told = writer.told
           \/ /\ writer.told[w] = << >>
              /\ writer'.told = [writer.told EXCEPT ![w] = <<"success">>]
    PROVE  Contract!WritesNext
<1>1. /\ Pending[u] # << >> /\ Head(Pending[u]) = w
      /\ \/ Pending' = [Pending EXCEPT ![u] = Tail(@)]
         \/ Pending' = Pending
    <2>1. q \in Seq(Batches)
        OBVIOUS
    <2>2. WritesOf(q) # << >> /\ Head(WritesOf(q)) = w
        BY <2>1, WritesOfQueue
    <2> QED BY <2>2, PendingIs
<1>2. \/ writer'.told = writer.told
      \/ /\ writer.told[Head(Pending[u])] = << >>
         /\ writer'.told = [writer.told EXCEPT ![Head(Pending[u])] = <<"success">>]
    BY <1>1
<1>3. Head(Pending[u]) \in store.applied
    BY <1>1
<1>4. Contract!Succeed(u)
    BY <1>1, <1>2, <1>3 DEF Contract!Succeed, Contract!Tell, Pending, WritesOf
<1> QED BY <1>4 DEF Contract!WritesNext

LEMMA GiveUpStep ==
    ASSUME writer.disk \in [Users -> Seq(Batches)], NEW u \in Users,
           NEW q, q = writer.disk[u], q # << >>, NEW w, w = Head(q).write,
           \E i \in DOMAIN q : q[i].write \in Refused, store' = store,
           writer'.disk = [writer.disk EXCEPT ![u] = Tail(@)],
           \/ writer'.told = writer.told
           \/ /\ writer.told[w] = << >>
              /\ writer'.told = [writer.told EXCEPT ![w] = <<"failure">>]
    PROVE  Contract!WritesNext
<1>1. /\ Pending[u] # << >> /\ Head(Pending[u]) = w
      /\ Pending' = [Pending EXCEPT ![u] = Tail(@)]
      /\ ToSet(Pending[u]) \cap Refused # {}
    <2>1. q \in Seq(Batches)
        OBVIOUS
    <2>2. WritesOf(q) # << >> /\ Head(WritesOf(q)) = w
        BY <2>1, WritesOfQueue
    <2>3. ToSet(WritesOf(q)) \cap Refused # {}
        <3>1. ToSet(WritesOf(q)) = {q[i].write : i \in DOMAIN q}
            BY <2>1, WritesOfQueue
        <3> QED BY <3>1
    <2> QED BY <2>2, <2>3, PendingIs
<1>2. \/ writer'.told = writer.told
      \/ /\ writer.told[Head(Pending[u])] = << >>
         /\ writer'.told = [writer.told EXCEPT ![Head(Pending[u])] = <<"failure">>]
    BY <1>1
<1>3. Contract!GiveUp(u)
    BY <1>1, <1>2 DEF Contract!GiveUp, Contract!Tell, Contract!ToSet, ToSet, Pending, WritesOf
<1> QED BY <1>3 DEF Contract!WritesNext

LEMMA AcceptStep ==
    ASSUME writer.disk \in [Users -> Seq(Batches)], NEW u \in Users,
           NEW b \in Batches, NEW w, w = b.write,
           ~Seen(writer.disk, writer.told, store.applied, w), store' = store,
           writer'.disk = [writer.disk EXCEPT ![u] = Append(@, b)],
           writer'.told = writer.told
    PROVE  Contract!WritesNext
<1>1. \A v \in Users : w \notin ToSet(Pending[v])
    <2> TAKE v \in Users
    <2>1. ToSet(WritesOf(writer.disk[v])) =
              {writer.disk[v][i].write : i \in DOMAIN writer.disk[v]}
        BY WritesOfQueue
    <2>2. Pending[v] = WritesOf(writer.disk[v])
        BY DEF Pending
    <2>3. \A i \in DOMAIN writer.disk[v] : writer.disk[v][i].write # w
        BY DEF Seen, OnDisk
    <2> QED BY <2>1, <2>2, <2>3
<1>2. Pending' = [Pending EXCEPT ![u] = Append(@, w)]
    BY PendingIs
<1>3. w \in 1 .. MaxWrites
    BY DEF Batches, Writes
<1>4. writer.told[w] = << >> /\ w \notin store.applied
    BY DEF Seen
<1>5. Contract!Accept(u, w)
    BY <1>1, <1>2, <1>4 DEF Contract!Accept, Contract!ToSet, ToSet, Pending, WritesOf
<1> QED BY <1>3, <1>5 DEF Contract!WritesNext

LEMMA ApplyStep ==
    ASSUME writer.disk \in [Users -> Seq(Batches)], NEW w \in Writes,
           OnDisk(writer.disk, w), w \notin Refused,
           store' = [applied |-> store.applied \cup {w}, latest |-> w],
           writer'.disk = writer.disk, writer'.told = writer.told
    PROVE  Contract!WritesNext
<1>1. PICK u \in Users : w \in ToSet(Pending[u])
    <2>1. PICK u \in Users : \E i \in DOMAIN writer.disk[u] : writer.disk[u][i].write = w
        BY DEF OnDisk
    <2>2. ToSet(WritesOf(writer.disk[u])) =
              {writer.disk[u][i].write : i \in DOMAIN writer.disk[u]}
        BY WritesOfQueue
    <2> QED BY <2>1, <2>2, PendingIs
<1>2. Pending' = Pending
    BY PendingIs
<1>3. Contract!Apply(u, w)
    BY <1>1, <1>2 DEF Contract!Apply, Contract!ToSet, ToSet, Pending, WritesOf
<1> QED BY <1>1, <1>3 DEF Contract!WritesNext, Writes

\* The queue of blocks stays, loses its head, is lost or gets a change of user.
QueueKept ==
    /\ made' = made
    /\ \/ workerQ' = workerQ \/ workerQ' = << >>
       \/ workerQ # << >> /\ workerQ' = Tail(workerQ)
       \/ \E b \in Blocks : ~IsWrite(b) /\ workerQ' = Append(workerQ, b)

\* Nothing is seen that was not.
NothingNew ==
    \A w \in Writes : Seen(writer'.disk, writer'.told, store'.applied, w) =>
                          Seen(writer.disk, writer.told, store.applied, w)

LEMMA TailOfBlocks ==
    ASSUME NEW s \in Seq(Blocks), s # << >>
    PROVE  /\ Tail(s) \in Seq(Blocks) /\ Head(s) = s[1] /\ 1 \in DOMAIN s
           /\ DOMAIN Tail(s) \subseteq Nat \ {0}
           /\ \A i \in DOMAIN Tail(s) : i + 1 \in DOMAIN s /\ Tail(s)[i] = s[i + 1]
BY EmptySeq

LEMMA FreshStays ==
    ASSUME WriteIInv, FreshInv, QueueKept, NothingNew PROVE FreshInv'
<1>1. PICK k \in {0, 1} : \A i \in DOMAIN workerQ' : IsWrite(workerQ'[i]) =>
          i \in Nat /\ i + k \in DOMAIN workerQ /\ workerQ'[i] = workerQ[i + k]
    <2>0. workerQ \in Seq(Blocks) /\ DOMAIN workerQ \subseteq Nat
        BY DEF WriteIInv
    <2>1. CASE workerQ' = workerQ
        <3>1. \A i \in DOMAIN workerQ' : IsWrite(workerQ'[i]) =>
                  i \in Nat /\ i + 0 \in DOMAIN workerQ /\ workerQ'[i] = workerQ[i + 0]
            BY <2>0, <2>1
        <3> QED BY <3>1
    <2>2. CASE workerQ' = << >>
        BY <2>2
    <2>3. CASE workerQ # << >> /\ workerQ' = Tail(workerQ)
        BY <2>0, <2>3, TailOfBlocks
    <2>4. CASE \E b \in Blocks : ~IsWrite(b) /\ workerQ' = Append(workerQ, b)
        <3>1. PICK b \in Blocks : ~IsWrite(b) /\ workerQ' = Append(workerQ, b)
            BY <2>4
        <3>2. \A i \in DOMAIN Append(workerQ, b) :
                  \/ i \in DOMAIN workerQ /\ Append(workerQ, b)[i] = workerQ[i]
                  \/ Append(workerQ, b)[i] = b
            BY <2>0
        <3>3. \A i \in DOMAIN workerQ' : IsWrite(workerQ'[i]) =>
                  i \in Nat /\ i + 0 \in DOMAIN workerQ /\ workerQ'[i] = workerQ[i + 0]
            BY <2>0, <3>1, <3>2
        <3> QED BY <3>3
    <2> QED BY <2>1, <2>2, <2>3, <2>4 DEF QueueKept
<1>2. made' = made
    BY DEF QueueKept
<1>3. \A w \in Writes :
          Seen(writer'.disk, writer'.told, store'.applied, w) => w <= made'
    BY <1>2 DEF FreshInv, NothingNew
<1>4. ASSUME NEW i \in DOMAIN workerQ', IsWrite(workerQ'[i])
      PROVE  /\ workerQ'[i].write <= made'
             /\ \A w \in Writes :
                    Seen(writer'.disk, writer'.told, store'.applied, w) =>
                        w < workerQ'[i].write
             /\ \A j \in DOMAIN workerQ' : j < i /\ IsWrite(workerQ'[j]) =>
                    workerQ'[j].write < workerQ'[i].write
    <2>1. /\ i \in Nat /\ i + k \in DOMAIN workerQ /\ workerQ'[i] = workerQ[i + k]
          /\ IsWrite(workerQ[i + k])
        BY <1>1, <1>4
    <2>2. ASSUME NEW j \in DOMAIN workerQ', j < i, IsWrite(workerQ'[j])
          PROVE  workerQ'[j].write < workerQ'[i].write
        <3>1. /\ j \in Nat /\ j + k \in DOMAIN workerQ
              /\ workerQ'[j] = workerQ[j + k] /\ IsWrite(workerQ[j + k])
            BY <1>1, <2>2
        <3>2. j + k < i + k
            BY <2>1, <2>2, <3>1
        <3> QED BY <2>1, <3>1, <3>2 DEF FreshInv
    <2>3. /\ workerQ[i + k].write <= made
          /\ \A w \in Writes : Seen(writer.disk, writer.told, store.applied, w) =>
                 w < workerQ[i + k].write
        BY <2>1 DEF FreshInv
    <2> QED BY <1>2, <2>1, <2>2, <2>3 DEF NothingNew
<1> QED BY <1>3, <1>4 DEF FreshInv, Seen, OnDisk, IsWrite

\* A step that the contract does not see.
LEMMA QuietStep ==
    ASSUME ContractInv, WriteIInv', QueueKept, Quiet(writer', writer),
           store' = store, Order(writer', store.applied)
    PROVE  ContractInv' /\ UNCHANGED Contract!writesVars
<1>1. /\ writer'.disk = writer.disk /\ writer'.told = writer.told
      /\ writer'.callbacks \subseteq writer.callbacks
    BY DEF Quiet
<1>2. NothingNew
    BY <1>1 DEF NothingNew
<1>3. FreshInv'
    BY <1>2, FreshStays DEF ContractInv
<1>4. Distinct(writer'.disk) /\ Waiting(writer')
    BY <1>1 DEF ContractInv, Waiting
<1>5. UNCHANGED Contract!writesVars
    BY <1>1 DEF Contract!writesVars
<1> QED BY <1>3, <1>4, <1>5 DEF ContractInv, Distinct, Waiting, Order, OrderOf

\* The invariant after a step that only takes from the disk and the completions.
LEMMA ContractKept ==
    ASSUME ContractInv, WriteIInv', QueueKept, store' = store, NothingNew,
           Distinct(writer'.disk), Waiting(writer'), Order(writer', store.applied)
    PROVE  ContractInv'
<1>1. FreshInv'
    BY FreshStays DEF ContractInv
<1> QED BY <1>1 DEF ContractInv, Distinct, Waiting, Order, OrderOf

LEMMA SetDataStep ==
    ASSUME ContractInv, WriteIInv', SetData
    PROVE  ContractInv' /\ UNCHANGED Contract!writesVars
<1> DEFINE b == [op |-> "write", write |-> made + 1]
<1>1. /\ writer' = writer /\ store' = store /\ made' = made + 1
      /\ workerQ' = Append(workerQ, b) /\ made \in Nat
      /\ workerQ \in Seq(Blocks) /\ IsWrite(b) /\ b.write = made + 1
    BY DEF SetData, ContractInv, WriteIInv, IsWrite
<1> HIDE DEF b
<1>2. FreshInv'
    <2>1. \A i \in DOMAIN workerQ' :
              \/ /\ i \in DOMAIN workerQ /\ workerQ'[i] = workerQ[i]
                 /\ i \in 1 .. Len(workerQ)
              \/ i = Len(workerQ) + 1 /\ workerQ'[i] = b
        BY <1>1
    <2>2. Len(workerQ) \in Nat
        BY <1>1
    <2>3. \A w \in Writes : Seen(writer.disk, writer.told, store.applied, w) =>
              w \in Nat /\ w <= made
        BY WriteAssumption DEF ContractInv, FreshInv, Writes
    <2>4. ASSUME NEW i \in DOMAIN workerQ, IsWrite(workerQ[i])
          PROVE  workerQ[i].write \in Nat /\ workerQ[i].write <= made
        <3>1. workerQ[i] \in Blocks /\ workerQ[i].op = "write"
            BY <1>1, <2>4 DEF IsWrite
        <3>2. workerQ[i].write \in Writes
            BY <3>1 DEF Blocks
        <3> QED BY <2>4, <3>2, WriteAssumption DEF ContractInv, FreshInv, Writes
    <2>5. ASSUME NEW i \in DOMAIN workerQ', IsWrite(workerQ'[i])
          PROVE  /\ workerQ'[i].write <= made + 1
                 /\ \A w \in Writes :
                        Seen(writer.disk, writer.told, store.applied, w) =>
                            w < workerQ'[i].write
                 /\ \A j \in DOMAIN workerQ' : j < i /\ IsWrite(workerQ'[j]) =>
                        workerQ'[j].write < workerQ'[i].write
        <3>1. CASE i \in DOMAIN workerQ /\ workerQ'[i] = workerQ[i]
                       /\ i \in 1 .. Len(workerQ)
            <4>1. \A j \in DOMAIN workerQ' : j < i =>
                      j \in DOMAIN workerQ /\ workerQ'[j] = workerQ[j]
                BY <2>1, <2>2, <3>1
            <4>2. workerQ[i].write <= made + 1
                BY <1>1, <2>4, <2>5, <3>1
            <4> QED BY <2>5, <3>1, <4>1, <4>2 DEF ContractInv, FreshInv
        <3>2. CASE i = Len(workerQ) + 1 /\ workerQ'[i] = b
            <4>1. \A j \in DOMAIN workerQ' : j < i =>
                      j \in DOMAIN workerQ /\ workerQ'[j] = workerQ[j]
                BY <2>1, <2>2, <3>2
            <4>2. \A j \in DOMAIN workerQ' : j < i /\ IsWrite(workerQ'[j]) =>
                      workerQ'[j].write < made + 1
                BY <1>1, <2>4, <4>1
            <4> QED BY <1>1, <2>3, <3>2, <4>2
        <3> QED BY <2>1, <3>1, <3>2
    <2>6. \A w \in Writes : Seen(writer.disk, writer.told, store.applied, w) =>
              w <= made + 1
        BY <1>1, <2>3
    <2> QED BY <1>1, <2>5, <2>6 DEF FreshInv, Seen, OnDisk, IsWrite
<1> QED BY <1>1, <1>2 DEF ContractInv, Distinct, Waiting, Order, OrderOf,
                          Contract!writesVars

LEMMA UserChangesStep ==
    ASSUME ContractInv, WriteIInv', NEW u \in Users, UserChanges(u)
    PROVE  ContractInv' /\ UNCHANGED Contract!writesVars
<1> DEFINE b == [op |-> "user", user |-> u]
<1>1. b \in Blocks /\ ~IsWrite(b)
    BY DEF Blocks, IsWrite
<1>2. QueueKept /\ writer' = writer /\ store' = store
    BY <1>1 DEF UserChanges, QueueKept
<1>3. Quiet(writer', writer) /\ Order(writer', store.applied)
    BY <1>2 DEF Quiet, ContractInv
<1> QED BY <1>2, <1>3, QuietStep

\* The block of a setData call accepts its write.
LEMMA WriteBlockStep ==
    ASSUME ContractInv, WriteIInv', RunBlock, Head(workerQ).op = "write"
    PROVE  ContractInv' /\ Contract!WritesNext
<1> DEFINE w == Head(workerQ).write
           b == [id |-> writer.nextBatchId, write |-> w]
<1>1. /\ workerQ \in Seq(Blocks) /\ workerQ # << >> /\ ClientInv(writer)
      /\ store' = store /\ made' = made /\ workerQ' = Tail(workerQ)
      /\ writer' = SyncEngineWriteMutations(writer, w) /\ Head(workerQ) \in Blocks
    BY DEF RunBlock, ContractInv, WriteIInv
<1>2. w \in Writes
    BY <1>1 DEF Blocks
<1>3. WriteDone(writer', writer, w)
    <2> HIDE DEF w
    <2> QED BY Zenon, <1>1, <1>2, WriteCallKeeps
<1>4. /\ writer.user \in Users /\ writer.disk \in [Users -> Seq(Batches)]
      /\ writer.nextBatchId \in Nat \ {0}
      /\ writer.callbacks \in SUBSET Callbacks
      /\ CallbackInv(writer.callbacks, writer.disk)
    BY <1>1, WriterFields DEF ClientInv, CoreInv
<1>5. b \in Batches /\ b.write = w
    BY <1>2, <1>4 DEF Batches
<1>6. /\ Head(workerQ) = workerQ[1] /\ 1 \in DOMAIN workerQ /\ IsWrite(workerQ[1])
      /\ w = workerQ[1].write
    BY <1>1, TailOfBlocks DEF IsWrite
<1>7. /\ writer'.disk = [writer.disk EXCEPT ![writer.user] = Append(@, b)]
      /\ writer'.told = writer.told /\ KeepsOrder(writer', writer)
      /\ \A k \in writer'.callbacks : k \in writer.callbacks \/ k.write = w
    BY <1>3 DEF WriteDone
<1> HIDE DEF b, w
<1>8. ~Seen(writer.disk, writer.told, store.applied, w)
    <2>1. SUFFICES ASSUME Seen(writer.disk, writer.told, store.applied, w)
                   PROVE  FALSE
        OBVIOUS
    <2>2. w < w
        BY <1>2, <1>6, <2>1 DEF ContractInv, FreshInv
    <2> QED BY <1>2, <2>2, WriteAssumption DEF Writes
<1>9. Contract!WritesNext
    BY <1>1, <1>4, <1>5, <1>7, <1>8, AcceptStep
<1>10. ASSUME NEW u \in Users, NEW i \in DOMAIN writer'.disk[u]
       PROVE  \/ i \in DOMAIN writer.disk[u] /\ writer'.disk[u][i] = writer.disk[u][i]
              \/ /\ u = writer.user /\ i = Len(writer.disk[u]) + 1
                 /\ writer'.disk[u][i].write = w
    <2>1. CASE u # writer.user
        BY <1>4, <1>7, <2>1
    <2>2. CASE u = writer.user
        <3> DEFINE q == writer.disk[u]
        <3>1. writer'.disk[u] = Append(q, b) /\ q \in Seq(Batches)
            BY <1>4, <1>7, <2>2
        <3> HIDE DEF q
        <3>2. \A j \in DOMAIN Append(q, b) :
                  \/ j \in DOMAIN q /\ Append(q, b)[j] = q[j]
                  \/ j = Len(q) + 1 /\ Append(q, b)[j] = b
            BY <1>5, <3>1
        <3>3. \/ i \in DOMAIN q /\ writer'.disk[u][i] = q[i]
              \/ i = Len(q) + 1 /\ writer'.disk[u][i] = b
            BY <3>1, <3>2
        <3> QED BY <1>5, <2>2, <3>3 DEF q
    <2> QED BY <2>1, <2>2
<1>11. Distinct(writer'.disk)
    <2> SUFFICES ASSUME NEW u \in Users, NEW v \in Users,
                        NEW i \in DOMAIN writer'.disk[u],
                        NEW j \in DOMAIN writer'.disk[v],
                        writer'.disk[u][i].write = writer'.disk[v][j].write
                 PROVE  u = v /\ i = j
        BY DEF Distinct
    <2>1. \A x \in Users : \A k \in DOMAIN writer.disk[x] : writer.disk[x][k].write # w
        BY <1>8 DEF Seen, OnDisk
    <2>2. Distinct(writer.disk)
        BY DEF ContractInv
    <2> QED BY <1>10, <2>1, <2>2 DEF Distinct
<1>12. Waiting(writer')
    <2>1. writer.told[w] = << >> /\ Waiting(writer)
        BY <1>8 DEF Seen, ContractInv
    <2> QED BY <1>7, <2>1 DEF Waiting
<1>13. \A x \in Writes : Seen(writer'.disk, writer'.told, store'.applied, x) =>
           x = w \/ Seen(writer.disk, writer.told, store.applied, x)
    BY <1>1, <1>7, <1>10 DEF Seen, OnDisk
<1>14. FreshInv'
    <2>1. /\ \A i \in DOMAIN Tail(workerQ) :
                 /\ i \in Nat \ {0} /\ i + 1 \in DOMAIN workerQ
                 /\ Tail(workerQ)[i] = workerQ[i + 1]
        BY <1>1, TailOfBlocks
    <2>2. \A x \in Writes : Seen(writer'.disk, writer'.told, store'.applied, x) => x <= made
        BY <1>6, <1>13 DEF ContractInv, FreshInv
    <2>3. ASSUME NEW i \in DOMAIN workerQ', IsWrite(workerQ'[i])
          PROVE  /\ workerQ'[i].write <= made
                 /\ \A x \in Writes :
                        Seen(writer'.disk, writer'.told, store'.applied, x) =>
                            x < workerQ'[i].write
                 /\ \A j \in DOMAIN workerQ' : j < i /\ IsWrite(workerQ'[j]) =>
                        workerQ'[j].write < workerQ'[i].write
        <3>1. /\ i \in Nat \ {0} /\ i + 1 \in DOMAIN workerQ
              /\ workerQ'[i] = workerQ[i + 1] /\ IsWrite(workerQ[i + 1])
            BY <1>1, <2>1, <2>3
        <3>2. /\ workerQ[i + 1].write <= made
              /\ \A x \in Writes : Seen(writer.disk, writer.told, store.applied, x) =>
                     x < workerQ[i + 1].write
              /\ \A j \in DOMAIN workerQ : j < i + 1 /\ IsWrite(workerQ[j]) =>
                     workerQ[j].write < workerQ[i + 1].write
            BY <3>1 DEF ContractInv, FreshInv
        <3>3. w < workerQ[i + 1].write
            <4>1. 1 < i + 1
                BY <3>1
            <4> QED BY <1>6, <3>2, <4>1
        <3>4. ASSUME NEW j \in DOMAIN workerQ', j < i, IsWrite(workerQ'[j])
              PROVE  workerQ'[j].write < workerQ'[i].write
            <4>1. /\ j \in Nat /\ j + 1 \in DOMAIN workerQ
                  /\ workerQ'[j] = workerQ[j + 1] /\ IsWrite(workerQ[j + 1])
                BY <1>1, <2>1, <3>4
            <4>2. j + 1 < i + 1
                BY <3>1, <3>4, <4>1
            <4> QED BY <3>1, <3>2, <4>1, <4>2
        <3> QED BY <1>13, <3>1, <3>2, <3>3, <3>4
    <2> QED BY <1>1, <2>2, <2>3 DEF FreshInv, Seen, OnDisk, IsWrite
<1>15. Order(writer', store.applied)
    BY <1>7 DEF ContractInv, KeepsOrder
<1> QED BY <1>1, <1>9, <1>11, <1>12, <1>14, <1>15
        DEF ContractInv, Distinct, Waiting, Order, OrderOf

LEMMA UserBlockStep ==
    ASSUME ContractInv, WriteIInv', RunBlock, Head(workerQ).op # "write"
    PROVE  ContractInv' /\ UNCHANGED Contract!writesVars
<1> DEFINE u == Head(workerQ).user
<1>1. /\ workerQ \in Seq(Blocks) /\ workerQ # << >> /\ ClientInv(writer)
      /\ store' = store /\ made' = made /\ workerQ' = Tail(workerQ)
      /\ writer' = HandleCredentialChange(writer, u) /\ Head(workerQ) \in Blocks
    BY DEF RunBlock, ContractInv, WriteIInv
<1>2. u \in Users
    BY <1>1 DEF Blocks
<1> HIDE DEF u
<1>3. Quiet(writer', writer) /\ writer'.stream.state # "Open"
    BY Zenon, <1>1, <1>2, UserKeeps
<1>4. QueueKept /\ Order(writer', store.applied)
    BY <1>1, <1>3 DEF QueueKept, Order
<1> QED BY <1>1, <1>3, <1>4, QuietStep

\* The head of the pipeline is done with: nothing new is seen.
LEMMA DoneNothingNew ==
    ASSUME NEW c, ClientInv(c), Distinct(c.disk), Waiting(c), c.pipeline # << >>,
           NEW outcome, NEW n, Done(n, c, outcome), NEW applied,
           NEW disk, disk = n.disk \/ disk = c.disk,
           NEW told, told = n.told \/ told = c.told, NEW x \in Writes
    PROVE  Seen(disk, told, applied, x) => Seen(c.disk, c.told, applied, x)
<1> DEFINE q == c.disk[c.user]
           w == Head(q).write
<1>0. HeadGone(n, c, q, w, outcome)
    BY Zenon, DoneIs
<1>1. /\ OnDisk(c.disk, w)
      /\ \/ n.told = c.told
         \/ c.told[w] = << >> /\ n.told = [c.told EXCEPT ![w] = <<outcome>>]
      /\ \A y : OnDisk(n.disk, y) => OnDisk(c.disk, y)
    BY <1>0 DEF HeadGone
<1>2. c.told \in [Writes -> Seq({"success", "failure"})]
    BY WriterFields DEF ClientInv, CoreInv
<1> HIDE DEF w
<1>3. told[x] # << >> => x = w \/ c.told[x] # << >>
    BY <1>1, <1>2
<1> QED BY <1>1, <1>3 DEF Seen

LEMMA ReadStep ==
    ASSUME ContractInv, WriteIInv', RunCompletion, Head(completions) = "read"
    PROVE  ContractInv' /\ [Contract!WritesNext]_(Contract!writesVars)
<1>1. /\ writer' = OnRead(writer) /\ store' = store /\ made' = made
      /\ workerQ' = workerQ /\ completions # << >>
      /\ CompletionsInv(completions, writer.net) /\ ClientInv(writer)
    BY DEF RunCompletion, ContractInv, WriteIInv
<1>2. writer.net.out # << >>
    BY <1>1 DEF CompletionsInv
<1>3. ReadDone(writer', writer)
    BY Zenon, <1>1, <1>2, ReadKeeps
<1>4. QueueKept
    BY <1>1 DEF QueueKept
<1>5. CASE ~writer.shaken
    <2>1. Quiet(writer', writer) /\ Order(writer', store.applied)
        BY <1>3, <1>5 DEF ReadDone
    <2> QED BY <1>1, <1>4, <2>1, QuietStep
<1>6. CASE writer.shaken
    <2> DEFINE q == writer.disk[writer.user]
               w == Head(q).write
    <2>1. /\ writer.pipeline # << >> /\ Done(writer', writer, "success")
          /\ Head(writer.pipeline).write \in store.applied
          /\ Order(writer', store.applied)
        BY <1>3, <1>6 DEF ReadDone, ContractInv
    <2>2. Distinct(writer.disk) /\ Waiting(writer)
        BY DEF ContractInv
    <2>9. HeadGone(writer', writer, q, w, "success")
        BY Zenon, <1>1, <2>1, <2>2, DoneIs
    <2>3. /\ q # << >> /\ writer.user \in Users /\ w = Head(writer.pipeline).write
          /\ writer'.disk = [writer.disk EXCEPT ![writer.user] = Tail(@)]
          /\ \/ writer'.told = writer.told
             \/ /\ writer.told[w] = << >>
                /\ writer'.told = [writer.told EXCEPT ![w] = <<"success">>]
          /\ Distinct(writer'.disk) /\ Waiting(writer')
        BY <2>9 DEF HeadGone
    <2>4. writer.disk \in [Users -> Seq(Batches)]
        BY <1>1, WriterFields DEF ClientInv, CoreInv
    <2>5. w \in store.applied
        BY <2>1, <2>3
    <2> HIDE DEF w, q
    <2>6. Contract!WritesNext
        <3>1. q = writer.disk[writer.user] /\ w = Head(q).write
            BY DEF q, w
        <3> QED BY <1>1, <2>3, <2>4, <2>5, <3>1, SucceedStep
    <2>7. NothingNew
        BY <1>1, <2>1, <2>2, DoneNothingNew DEF NothingNew
    <2>8. ContractInv'
        BY <1>1, <1>4, <2>1, <2>3, <2>7, ContractKept
    <2> QED BY <2>6, <2>8
<1> QED BY <1>5, <1>6

\* A refusal gives up the head of the queue, which holds what was refused.
LEMMA FailedStep ==
    ASSUME ContractInv, WriteIInv', RunCompletion, Head(completions) # "read"
    PROVE  ContractInv' /\ Contract!WritesNext
<1> DEFINE q == writer.disk[writer.user]
           w == Head(q).write
<1>1. /\ writer' = OnOperationFailed(writer) /\ store' = store /\ made' = made
      /\ workerQ' = workerQ /\ completions # << >>
      /\ CompletionsInv(completions, writer.net) /\ ClientInv(writer)
      /\ Distinct(writer.disk) /\ Waiting(writer) /\ Order(writer, store.applied)
    BY DEF RunCompletion, ContractInv, WriteIInv
<1>2. writer.net.closed
    BY <1>1 DEF CompletionsInv
<1>3. /\ writer'.stream.state # "Open" /\ writer.pipeline # << >>
      /\ Done(writer', writer, "failure")
      /\ \E i \in DOMAIN q : q[i].write \in Refused
    BY <1>1, <1>2, FailedKeeps
<1>10. HeadGone(writer', writer, q, w, "failure")
    BY Zenon, <1>1, <1>3, DoneIs
<1>4. /\ q # << >> /\ writer.user \in Users
      /\ writer'.disk = [writer.disk EXCEPT ![writer.user] = Tail(@)]
      /\ \/ writer'.told = writer.told
         \/ /\ writer.told[w] = << >>
            /\ writer'.told = [writer.told EXCEPT ![w] = <<"failure">>]
      /\ Distinct(writer'.disk) /\ Waiting(writer')
    BY <1>10 DEF HeadGone
<1>5. writer.disk \in [Users -> Seq(Batches)]
    BY <1>1, WriterFields DEF ClientInv, CoreInv
<1> HIDE DEF w, q
<1>6. Contract!WritesNext
    <2>1. q = writer.disk[writer.user] /\ w = Head(q).write
        BY DEF q, w
    <2> QED BY <1>1, <1>3, <1>4, <1>5, <2>1, GiveUpStep
<1>7. NothingNew
    BY <1>1, <1>3, DoneNothingNew DEF NothingNew
<1>8. QueueKept /\ Order(writer', store.applied)
    BY <1>1, <1>3 DEF QueueKept, Order
<1>9. ContractInv'
    BY <1>1, <1>4, <1>7, <1>8, ContractKept
<1> QED BY <1>6, <1>9

\* Tokens, timers and breaks change nothing of what the contract sees.
LEMMA StreamSteps ==
    ASSUME ContractInv, WriteIInv',
           \/ TokenArrives \/ TokenFails \/ StaleTokenArrives
           \/ BackoffTimer \/ IdleTimer \/ StreamFails
    PROVE  ContractInv' /\ UNCHANGED Contract!writesVars
<1>1. /\ WriteIInv /\ writer \in WriterType /\ ClientInv(writer)
      /\ Order(writer, store.applied)
    BY DEF ContractInv, WriteIInv, ClientInv, CoreInv
<1>2. QueueKept /\ store' = store
    BY DEF TokenArrives, TokenFails, StaleTokenArrives, BackoffTimer, IdleTimer,
           StreamFails, QueueKept
<1>3. Quiet(writer', writer) /\ Order(writer', store.applied)
    <2>1. CASE TokenArrives
        <3>1. /\ writer'.disk = writer.disk /\ writer'.told = writer.told
              /\ writer'.callbacks = writer.callbacks
              /\ writer'.shaken = writer.shaken
            BY <1>1, <2>1 DEF TokenArrives, HardAssert, WriterType
        <3>2. ~writer.shaken
            BY <1>1, <2>1 DEF TokenArrives, ClientInv, FilledInv, CoreInv, StreamInv
        <3> QED BY <3>1, <3>2 DEF Quiet, Order
    <2>2. CASE TokenFails
        BY <1>1, <2>2, TokenFailsInv DEF Order
    <2>3. CASE StaleTokenArrives \/ BackoffTimer
        BY <1>1, <2>3, TimersInv DEF Order
    <2>4. CASE IdleTimer \/ StreamFails
        BY <1>1, <2>4, BreaksInv DEF Order
    <2> QED BY <2>1, <2>2, <2>3, <2>4
<1> QED BY <1>2, <1>3, QuietStep

LEMMA CompletesStep ==
    ASSUME ContractInv, WriteIInv', ReadCompletes \/ OperationFails
    PROVE  ContractInv' /\ UNCHANGED Contract!writesVars
<1>1. QueueKept /\ store' = store /\ writer' = writer
    BY DEF ReadCompletes, OperationFails, QueueKept
<1>2. Quiet(writer', writer) /\ Order(writer', store.applied)
    BY <1>1 DEF Quiet, ContractInv
<1> QED BY <1>1, <1>2, QuietStep

\* A process that dies in the middle of an answer has told of it and kept the
\* write, or has given it up without telling.
LEMMA DeathStep ==
    ASSUME ContractInv, WriteIInv', ProcessDies \/ DiesInAnswer
    PROVE  ContractInv' /\ [Contract!WritesNext]_(Contract!writesVars)
<1> DEFINE q == writer.disk[writer.user]
           w == Head(q).write
<1>1. /\ WriteIInv /\ ClientInv(writer) /\ Distinct(writer.disk) /\ Waiting(writer)
      /\ Order(writer, store.applied)
    BY DEF ContractInv, WriteIInv
<1>2. QueueKept /\ store' = store
    BY DEF ProcessDies, DiesInAnswer, Restart, QueueKept
<1>3. writer.disk \in [Users -> Seq(Batches)]
    BY <1>1, WriterFields DEF ClientInv, CoreInv
<1>4. Died
    BY <1>1, DeathsInv
<1>5. CASE Reborn(writer', writer.disk, writer.told)
    <2>1. Quiet(writer', writer) /\ Order(writer', store.applied)
        BY <1>5 DEF Reborn, Quiet, Order
    <2> QED BY <1>2, <2>1, QuietStep
<1>6. CASE \E n : /\ ReadDone(n, writer) /\ writer.shaken
                  /\ Reborn(writer', writer.disk, n.told)
    <2>1. PICK n : /\ ReadDone(n, writer) /\ writer.shaken
                   /\ Reborn(writer', writer.disk, n.told)
        BY <1>6
    <2>2. /\ writer.pipeline # << >> /\ Done(n, writer, "success")
          /\ Head(writer.pipeline).write \in store.applied
        BY <1>1, <2>1 DEF ReadDone, ContractInv
    <2>10. HeadGone(n, writer, q, w, "success")
        BY Zenon, <1>1, <2>2, DoneIs
    <2>3. /\ q # << >> /\ writer.user \in Users /\ w = Head(writer.pipeline).write
          /\ \/ n.told = writer.told
             \/ /\ writer.told[w] = << >>
                /\ n.told = [writer.told EXCEPT ![w] = <<"success">>]
        BY <2>10 DEF HeadGone
    <2>4. /\ writer'.disk = writer.disk /\ writer'.told = n.told
          /\ Waiting(writer') /\ Order(writer', store.applied)
        BY <2>1 DEF Reborn, Waiting, Order
    <2>5. w \in store.applied
        BY <2>2, <2>3
    <2> HIDE DEF w, q
    <2>6. Contract!WritesNext
        <3>1. q = writer.disk[writer.user] /\ w = Head(q).write
            BY DEF q, w
        <3> QED BY <1>2, <1>3, <2>3, <2>4, <2>5, <3>1, SucceedStep
    <2>7. NothingNew
        BY <1>1, <1>2, <2>2, <2>4, DoneNothingNew DEF NothingNew
    <2>8. Distinct(writer'.disk)
        BY <1>1, <2>4
    <2>9. ContractInv'
        BY <1>2, <2>4, <2>7, <2>8, ContractKept
    <2> QED BY <2>6, <2>9
<1>7. CASE \E n : /\ Done(n, writer, "failure") /\ writer.net.closed
                  /\ Reborn(writer', n.disk, writer.told)
    <2>1. PICK n : /\ Done(n, writer, "failure") /\ writer.net.closed
                   /\ Reborn(writer', n.disk, writer.told)
        BY <1>7
    <2>2. /\ writer.pipeline # << >>
          /\ \E i \in DOMAIN q : q[i].write \in Refused
        BY <1>1, <2>1, FailedKeeps
    <2>9. HeadGone(n, writer, q, w, "failure")
        BY Zenon, <1>1, <2>1, <2>2, DoneIs
    <2>3. /\ q # << >> /\ writer.user \in Users /\ Distinct(n.disk)
          /\ n.disk = [writer.disk EXCEPT ![writer.user] = Tail(@)]
        BY <2>9 DEF HeadGone
    <2>4. /\ writer'.disk = n.disk /\ writer'.told = writer.told
          /\ Waiting(writer') /\ Order(writer', store.applied)
        BY <2>1 DEF Reborn, Waiting, Order
    <2> HIDE DEF w, q
    <2>5. Contract!WritesNext
        <3>1. q = writer.disk[writer.user] /\ w = Head(q).write
            BY DEF q, w
        <3> QED BY <1>2, <1>3, <2>2, <2>3, <2>4, <3>1, GiveUpStep
    <2>6. NothingNew
        BY <1>1, <1>2, <2>1, <2>2, <2>4, DoneNothingNew DEF NothingNew
    <2>7. Distinct(writer'.disk)
        BY <2>3, <2>4
    <2>8. ContractInv'
        BY <1>2, <2>4, <2>6, <2>7, ContractKept
    <2> QED BY <2>5, <2>8
<1> QED BY <1>4, <1>5, <1>6, <1>7 DEF Died

\* What the server's step does to a call: a refused request closes it, another
\* one is answered.
Answered(net, m, r) ==
    IF r \in Refused THEN m.closed /\ m.out = net.out
                     ELSE ~m.closed /\ m.out = Append(net.out, "answer")

\* The request is a write of the pipeline, and the order holds after it.
Served(p, m, r, applied) ==
    /\ \E k \in DOMAIN p : p[k].write = r
    /\ OrderOf(p, m, IF r \in Refused THEN applied ELSE applied \cup {r})

\* The order stays when the server takes a request: it is the first write of the
\* pipeline that is not answered.
LEMMA OrderServed ==
    ASSUME NEW p \in Seq(Batches), NEW applied, NEW net \in Calls, NEW m \in Calls,
           net.sent # << >>, ~net.closed, m.sent = Tail(net.sent),
           NEW r, r = Head(net.sent),
           Answered(net, m, r), OrderOf(p, net, applied), Due(net) = Len(p)
    PROVE  Served(p, m, r, applied)
<1>1. net.sent \in Seq(Nat) /\ net.out \in Seq({"answer"}) /\ Len(p) \in Nat
    BY DEF Calls
<1>2. PICK s \in Nat, o \in Nat :
          /\ Len(net.sent) = s + 1 /\ Len(net.out) = o /\ Len(m.sent) = s
          /\ DOMAIN net.sent = 1 .. s + 1 /\ DOMAIN m.sent = 1 .. s
          /\ \A i \in 1 .. s : m.sent[i] = net.sent[i + 1]
          /\ r = net.sent[1] /\ DOMAIN net.out = 1 .. o
          /\ DOMAIN Append(net.out, "answer") = 1 .. o + 1
          /\ Len(Append(net.out, "answer")) = o + 1
    <2>1. \A t \in Seq(Nat) : t # << >> =>
              /\ Len(t) - 1 \in Nat /\ Len(t) = (Len(t) - 1) + 1
              /\ Len(Tail(t)) = Len(t) - 1 /\ DOMAIN t = 1 .. (Len(t) - 1) + 1
              /\ DOMAIN Tail(t) = 1 .. Len(t) - 1 /\ Head(t) = t[1]
              /\ \A i \in 1 .. Len(t) - 1 : Tail(t)[i] = t[i + 1]
        BY EmptySeq
    <2>2. \A t \in Seq({"answer"}) :
              /\ Len(t) \in Nat /\ DOMAIN t = 1 .. Len(t)
              /\ DOMAIN Append(t, "answer") = 1 .. Len(t) + 1
              /\ Len(Append(t, "answer")) = Len(t) + 1
        OBVIOUS
    <2>3. PICK s \in Nat : s = Len(net.sent) - 1
        BY <1>1, <2>1
    <2>4. PICK o \in Nat : o = Len(net.out)
        BY <1>1, <2>2
    <2>5. Len(net.sent) = s + 1 /\ Len(m.sent) = s /\ r = net.sent[1]
        BY <1>1, <2>1, <2>3
    <2>6. /\ DOMAIN net.sent = 1 .. s + 1 /\ DOMAIN m.sent = 1 .. s
          /\ \A i \in 1 .. s : m.sent[i] = net.sent[i + 1]
        BY <1>1, <2>1, <2>3
    <2>7. /\ Len(net.out) = o /\ DOMAIN net.out = 1 .. o
          /\ DOMAIN Append(net.out, "answer") = 1 .. o + 1
          /\ Len(Append(net.out, "answer")) = o + 1
        BY <1>1, <2>2, <2>4
    <2> QED BY <2>5, <2>6, <2>7
<1>3. Len(p) = s + 1 + o
    <2>1. Due(net) = (s + 1) + o
        BY <1>2, DueIs
    <2> QED BY <2>1
<1>4. DOMAIN p = 1 .. Len(p) /\ o + 1 \in DOMAIN p
    <2>1. o + 1 \in 1 .. s + 1 + o
        OBVIOUS
    <2> QED BY <1>3, <2>1
<1>5. \A i \in 1 .. s + 1 : net.sent[i] = p[o + i].write
    <2> TAKE i \in 1 .. s + 1
    <2>1. net.sent[i] = p[Len(p) - Len(net.sent) + i].write
        BY <1>2 DEF OrderOf
    <2>2. Len(p) - Len(net.sent) + i = o + i
        BY <1>2, <1>3
    <2> QED BY <2>1, <2>2
<1>6. p[o + 1].write = r
    <2>1. 1 \in 1 .. s + 1
        OBVIOUS
    <2> QED BY <1>2, <1>5, <2>1
<1>7. ASSUME NEW i \in DOMAIN m.sent
      PROVE  m.sent[i] = p[Len(p) - Len(m.sent) + i].write
    <2>1. i \in 1 .. s
        BY <1>2
    <2>2. i + 1 \in 1 .. s + 1 /\ s + 1 + o - s + i = o + (i + 1)
        BY <2>1
    <2>3. m.sent[i] = p[o + (i + 1)].write
        BY <1>2, <1>5, <2>1, <2>2
    <2>4. Len(p) = s + 1 + o /\ Len(m.sent) = s
        BY Zenon, <1>2, <1>3
    <2>5. Len(p) - Len(m.sent) + i = s + 1 + o - s + i
        <3>1. \A a, b : a = s + 1 + o /\ b = s => a - b + i = s + 1 + o - s + i
            BY <2>1
        <3> QED BY Zenon, <2>4, <3>1
    <2>6. Len(p) - Len(m.sent) + i = o + (i + 1)
        BY Zenon, <2>2, <2>5
    <2> QED BY Zenon, <2>3, <2>6
<1>8. CASE r \in Refused
    <2>1. m.closed /\ m.out = net.out
        BY <1>8 DEF Answered
    <2>2. \A i \in DOMAIN m.out : p[i].write \in applied
        BY <2>1 DEF OrderOf
    <2>3. p[Len(m.out) + 1].write \in Refused
        BY <1>2, <1>6, <1>8, <2>1
    <2>4. OrderOf(p, m, applied)
        BY <1>7, <2>2, <2>3 DEF OrderOf
    <2> QED BY <1>4, <1>6, <1>8, <2>4 DEF Served
<1>9. CASE r \notin Refused
    <2>1. ~m.closed /\ m.out = Append(net.out, "answer")
        BY <1>9 DEF Answered
    <2>2. \A i \in DOMAIN m.out : p[i].write \in applied \cup {r}
        <3> TAKE i \in DOMAIN m.out
        <3>1. i \in 1 .. o \/ i = o + 1
            BY <1>2, <2>1
        <3>2. i \in 1 .. o => p[i].write \in applied
            BY <1>2 DEF OrderOf
        <3> QED BY <1>6, <3>1, <3>2
    <2>3. OrderOf(p, m, applied \cup {r})
        BY <1>7, <2>1, <2>2 DEF OrderOf
    <2> QED BY <1>4, <1>6, <1>9, <2>3 DEF Served
<1> QED BY <1>8, <1>9

\* What the server stores is on the disk of the client.
LEMMA ServerStep ==
    ASSUME ContractInv, WriteIInv', ServerReceives
    PROVE  ContractInv' /\ [Contract!WritesNext]_(Contract!writesVars)
<1> DEFINE r == Head(writer.net.sent)
           p == writer.pipeline
           q == writer.disk[writer.user]
<1>1. /\ WriteIInv /\ ClientInv(writer) /\ CoreInv(writer) /\ writer \in WriterType
      /\ Distinct(writer.disk) /\ Waiting(writer) /\ WireInv(writer)
      /\ Order(writer, store.applied) /\ store.applied \in SUBSET Writes
    BY DEF ContractInv, WriteIInv, ClientInv, CoreInv
<1>2. Received(writer', writer) /\ QueueKept
    BY <1>1, ServerReceivesInv DEF ServerReceives, QueueKept
<1>3. Quiet(writer', writer)
    BY <1>2 DEF Received
<1>4. store' = IF r \in Refused \/ r = Handshake THEN store
               ELSE [applied |-> store.applied \cup {r}, latest |-> r]
    BY DEF ServerReceives
<1>5. CASE ~writer.shaken
    <2>1. r = Handshake
        <3>1. \A i \in DOMAIN writer.net.sent : writer.net.sent[i] = Handshake
            BY <1>1, <1>2, <1>5 DEF WireInv, Received
        <3>2. \A t \in Seq(Nat) : t # << >> => Head(t) = t[1] /\ 1 \in DOMAIN t
            BY EmptySeq
        <3>3. writer.net.sent \in Seq(Nat) /\ writer.net.sent # << >>
            BY <1>1, <1>2, WriterFields DEF Received
        <3> QED BY <3>1, <3>2, <3>3
    <2>2. store' = store /\ Order(writer', store.applied)
        BY <1>2, <1>4, <1>5, <2>1 DEF Received, Order
    <2> QED BY <1>2, <1>3, <2>2, QuietStep
<1>6. CASE writer.shaken
    <2>1. /\ writer.stream.state = "Open" /\ Due(writer.net) = Len(p)
          /\ OrderOf(p, writer.net, store.applied)
          /\ p \in Seq(Batches) /\ q \in Seq(Batches) /\ writer.net \in Calls
          /\ writer.disk \in [Users -> Seq(Batches)] /\ writer.user \in Users
          /\ Begins(p, q)
        BY <1>1, <1>2, <1>6, WriterFields DEF Received, WireInv, Order, CoreInv, PipeInv
    <2>2. /\ writer'.net \in Calls /\ writer'.net.sent = Tail(writer.net.sent)
          /\ writer.net.sent # << >> /\ ~writer.net.closed
          /\ IF r \in Refused
             THEN writer'.net.closed /\ writer'.net.out = writer.net.out
             ELSE ~writer'.net.closed /\ writer'.net.out = Append(writer.net.out, "answer")
          /\ writer'.pipeline = p /\ writer'.disk = writer.disk
          /\ writer'.told = writer.told
        BY <1>2 DEF Received, Quiet
    <2> HIDE DEF r, p, q
    <2>3. /\ \E k \in DOMAIN p : p[k].write = r
          /\ OrderOf(p, writer'.net,
                     IF r \in Refused THEN store.applied ELSE store.applied \cup {r})
        <3>1. r = Head(writer.net.sent)
            BY DEF r
        <3>2. Answered(writer.net, writer'.net, r)
            BY <2>2 DEF Answered
        <3>3. p \in Seq(Batches) /\ writer.net \in Calls /\ Due(writer.net) = Len(p)
              /\ OrderOf(p, writer.net, store.applied)
            BY <2>1
        <3>4. writer'.net \in Calls /\ writer'.net.sent = Tail(writer.net.sent)
              /\ writer.net.sent # << >> /\ ~writer.net.closed
            BY <2>2
        <3>5. Served(p, writer'.net, r, store.applied)
            BY Zenon, <3>1, <3>2, <3>3, <3>4, OrderServed
        <3> QED BY <3>5 DEF Served
    <2>4. r \in Writes /\ OnDisk(writer.disk, r) /\ r # Handshake
        <3>1. PICK k \in DOMAIN p : p[k].write = r
            BY <2>3
        <3>2. \A a, b \in Seq(Batches) : Begins(a, b) =>
                  \A i \in DOMAIN a : i \in DOMAIN b /\ a[i] = b[i] /\ b[i] \in Batches
            BY DEF Begins
        <3>3. k \in DOMAIN q /\ p[k] = q[k] /\ q[k] \in Batches
            BY Zenon, <2>1, <3>1, <3>2
        <3>4. r \in Writes
            BY <3>1, <3>3 DEF Batches
        <3>5. OnDisk(writer.disk, r)
            BY <2>1, <3>1, <3>3 DEF OnDisk, q
        <3> QED BY <3>4, <3>5, WriteAssumption DEF Writes, Handshake
    <2>5. CASE r \in Refused
        <3>1. store' = store
            BY <1>4, <2>5
        <3>2. Order(writer', store.applied)
            BY <2>2, <2>3, <2>5 DEF Order
        <3> QED BY <1>2, <1>3, <3>1, <3>2, QuietStep
    <2>6. CASE r \notin Refused
        <3>1. store' = [applied |-> store.applied \cup {r}, latest |-> r]
            BY <1>4, <2>4, <2>6
        <3>2. store'.applied = store.applied \cup {r}
            BY <3>1
        <3>3. Order(writer', store'.applied)
            BY <2>2, <2>3, <2>6, <3>2 DEF Order
        <3>4. Contract!WritesNext
            BY <2>1, <2>2, <2>4, <2>6, <3>1, ApplyStep
        <3>5. NothingNew
            BY <2>2, <2>4, <3>2 DEF NothingNew, Seen
        <3>6. FreshInv'
            BY <1>2, <3>5, FreshStays DEF ContractInv
        <3>7. Distinct(writer'.disk) /\ Waiting(writer')
            BY <1>1, <1>3 DEF Quiet, Waiting
        <3>8. store'.applied \in SUBSET Writes
            BY <1>1, <2>4, <3>2
        <3> QED BY <3>3, <3>4, <3>6, <3>7, <3>8
                DEF ContractInv, Distinct, Waiting, Order, OrderOf
    <2> QED BY <2>5, <2>6
<1> QED BY <1>5, <1>6

LEMMA ContractInit == WriteInit => ContractInv /\ Contract!WritesInit
<1> SUFFICES ASSUME WriteInit PROVE ContractInv /\ Contract!WritesInit
    OBVIOUS
<1> DEFINE disk == [v \in Users |-> << >>]
           told == [w \in Writes |-> << >>]
<1>1. PICK u \in Users : writer = NewWriter(u, disk, told)
    BY DEF WriteInit
<1>2. DiskInv(disk, 1) /\ 1 \in Nat \ {0}
    BY DEF DiskInv, Increasing
<1>3. told \in [Writes -> Seq({"success", "failure"})]
    OBVIOUS
<1> HIDE DEF disk, told
<1>4. /\ writer.disk = disk /\ writer.told = told /\ writer.callbacks = {}
      /\ writer.stream.state # "Open"
    BY <1>1, <1>2, <1>3, NewWriterKeeps
<1>5. store.applied = {} /\ store.latest = 0 /\ workerQ = << >> /\ made = 0
    BY DEF WriteInit
<1>6. \A w \in Writes : ~Seen(writer.disk, writer.told, store.applied, w)
    BY <1>4, <1>5 DEF Seen, OnDisk, disk, told
<1>7. ContractInv
    <2>1. WriteIInv
        BY WriteInitInv
    <2>2. Distinct(writer.disk)
        BY <1>4 DEF Distinct, disk
    <2>3. FreshInv
        BY <1>5, <1>6 DEF FreshInv
    <2> QED BY <1>4, <1>5, <2>1, <2>2, <2>3 DEF ContractInv, Waiting, Order
<1>8. Contract!WritesInit
    <2>1. \A v \in Users : [i \in 1 .. Len(writer.disk[v]) |-> writer.disk[v][i].write]
                               = << >>
        <3> TAKE v \in Users
        <3>1. writer.disk[v] = << >>
            BY <1>4 DEF disk
        <3>2. WritesOf(<< >>) = << >>
            <4>1. << >> \in Seq(Batches)
                OBVIOUS
            <4>2. WritesOf(<< >>) \in Seq(Nat) /\ Len(WritesOf(<< >>)) = 0
                BY <4>1, WritesOfType
            <4> QED BY <4>2, EmptySeq
        <3> QED BY <3>1, <3>2 DEF WritesOf
    <2> QED BY <1>4, <1>5, <2>1 DEF Contract!WritesInit, told, Writes
<1> QED BY <1>7, <1>8

LEMMA ContractNext ==
    ContractInv /\ [WriteNext]_writeVars =>
        ContractInv' /\ [Contract!WritesNext]_(Contract!writesVars)
<1> SUFFICES ASSUME ContractInv, [WriteNext]_writeVars
             PROVE  ContractInv' /\ [Contract!WritesNext]_(Contract!writesVars)
    OBVIOUS
<1>0. WriteIInv'
    BY WriteNextInv DEF ContractInv
<1>1. CASE SetData
    BY <1>0, <1>1, SetDataStep
<1>2. CASE \E u \in Users : UserChanges(u)
    BY <1>0, <1>2, UserChangesStep
<1>3. CASE RunBlock
    BY <1>0, <1>3, WriteBlockStep, UserBlockStep
<1>4. CASE RunCompletion
    BY <1>0, <1>4, ReadStep, FailedStep
<1>5. CASE \/ TokenArrives \/ TokenFails \/ StaleTokenArrives
           \/ BackoffTimer \/ IdleTimer \/ StreamFails
    BY <1>0, <1>5, StreamSteps
<1>6. CASE ReadCompletes \/ OperationFails
    BY <1>0, <1>6, CompletesStep
<1>7. CASE ServerReceives
    BY <1>0, <1>7, ServerStep
<1>8. CASE ProcessDies \/ DiesInAnswer
    BY <1>0, <1>8, DeathStep
<1>9. CASE UNCHANGED writeVars
    BY <1>0, <1>9 DEF writeVars, ContractInv, Distinct, Waiting, FreshInv, Seen, OnDisk,
           Order, OrderOf, Contract!writesVars
<1> QED BY <1>1, <1>2, <1>3, <1>4, <1>5, <1>6, <1>7, <1>8, <1>9
        DEF WriteNext, WriterStep, NetworkStep

\* For any number of writes, users, pending batches and faults, the client
\* implements DurableWrites: whatever breaks, dies in the middle of an answer or
\* changes user, a write leaves its user's queue only as its head, stored by the
\* server or given up after a refusal, is never stored again once it has left, and
\* its completion is called at most once.
THEOREM WriterImplementsDurableWrites == WriteSpec => ImplementsDurableWrites
<1> QED BY ContractInit, ContractNext, PTL
        DEF WriteSpec, ImplementsDurableWrites, Contract!WritesContract
=============================================================================
