-------------------------- MODULE FLRegularImageView --------------------------
(***************************************************************************)
(* FLRegularImageView.downloadImage and FirestoreManager.downloadImage     *)
(* behind it.  An address in the cache takes two blocks of the main queue  *)
(* to the view, any other address takes three and a download between the   *)
(* first and the second.  A cell that is reused asks again and its view is *)
(* not told which of its requests an image belongs to.                     *)
(***************************************************************************)
EXTENDS Naturals, Sequences, FiniteSets

CONSTANTS
    Cells,          \* the image views, one per reusable cell
    URLs,           \* the addresses that make a URL
    InvalidURLs,    \* the texts URL(string:) refuses
    Default         \* FLImages.defaultBackground

ASSUME ImageAssumption == Default \notin URLs /\ URLs \cap InvalidURLs = {}

VARIABLES
    mainQ,          \* the blocks posted to the main queue
    cache,          \* the addresses whose image FirestoreManager.cache holds
    image,          \* the image each view shows: its address, or Default
    tasks,          \* the data tasks that were resumed
    asked, drawn,   \* auxiliary: requests of each view, and the one it shows
    trap            \* "no", or what trapped

imageVars == <<cache, image, tasks, asked, drawn>>

Request == [cell : Cells, url : URLs \cup InvalidURLs, n : Nat \ {0},
            cached : BOOLEAN]

Loadable == [cell : Cells, url : URLs, n : Nat \ {0}, cached : BOOLEAN]

ImageBlock == [op : {"resume"}, request : Request]
                  \cup [op : {"completed", "setImage"}, request : Loadable]

NextHop(op, r) == [op |-> op, request |-> r]

ImageInit ==
    /\ cache = {}
    /\ image = [c \in Cells |-> Default]
    /\ tasks = {}
    /\ asked = [c \in Cells |-> 0] /\ drawn = [c \in Cells |-> 0]

\* Called with the cell of a row that comes into sight.
downloadImage(c, u) ==
    LET r == [cell |-> c, url |-> u, n |-> asked[c] + 1, cached |-> u \in cache]
    IN  /\ asked' = [asked EXCEPT ![c] = @ + 1]
        /\ mainQ' = Append(mainQ, NextHop(IF r.cached THEN "completed"
                                                      ELSE "resume", r))
        /\ UNCHANGED <<cache, image, tasks, drawn>>

-----------------------------------------------------------------------------
(* The blocks of one request.                                              *)

\* The network path starts: without a URL there is the placeholder, which
\* the assets do not have.
RunResume ==
    LET r == Head(mainQ).request
    IN  /\ Head(mainQ).op = "resume"
        /\ mainQ' = Tail(mainQ)
        /\ IF r.url \in InvalidURLs
           THEN trap' = "avatar-placeholder" /\ UNCHANGED tasks
           ELSE tasks' = tasks \cup {[request |-> r, stored |-> FALSE]}
                    /\ UNCHANGED trap
        /\ UNCHANGED <<cache, image, asked, drawn>>

RunCompleted ==
    /\ Head(mainQ).op = "completed"
    /\ mainQ' = Append(Tail(mainQ), NextHop("setImage", Head(mainQ).request))
    /\ UNCHANGED <<cache, image, tasks, asked, drawn, trap>>

RunSetImage ==
    LET r == Head(mainQ).request
    IN  /\ Head(mainQ).op = "setImage"
        /\ mainQ' = Tail(mainQ)
        /\ image' = [image EXCEPT ![r.cell] = r.url]
        /\ drawn' = [drawn EXCEPT ![r.cell] = r.n]
        /\ UNCHANGED <<cache, tasks, asked, trap>>

RunImageBlock == RunResume \/ RunCompleted \/ RunSetImage

-----------------------------------------------------------------------------
(* The queue of URLSession, which is not the main queue.                   *)

\* Any failure of a download unwraps the missing placeholder.
TaskFails ==
    /\ \E t \in tasks : ~t.stored /\ tasks' = tasks \ {t}
    /\ trap' = "avatar-placeholder"
    /\ UNCHANGED <<mainQ, cache, image, asked, drawn>>

TaskStores ==
    /\ \E t \in tasks :
           /\ ~t.stored
           /\ cache' = cache \cup {t.request.url}
           /\ tasks' = (tasks \ {t}) \cup {[t EXCEPT !.stored = TRUE]}
    /\ UNCHANGED <<mainQ, image, asked, drawn, trap>>

\* Variant: the download sets the image as it posts, a hop early.
TaskPostsImage ==
    /\ \E t \in tasks :
           /\ t.stored
           /\ image' = [image EXCEPT ![t.request.cell] = t.request.url]
           /\ drawn' = [drawn EXCEPT ![t.request.cell] = t.request.n]
           /\ tasks' = tasks \ {t}
    /\ UNCHANGED <<mainQ, cache, asked, trap>>

TaskPosts ==
    /\ \E t \in tasks :
           /\ t.stored
           /\ mainQ' = Append(mainQ, NextHop("completed", t.request))
           /\ tasks' = tasks \ {t}
    /\ UNCHANGED <<cache, image, asked, drawn, trap>>

\* NSCache gives an image up when memory is short.
Evict ==
    /\ \E u \in cache : cache' = cache \ {u}
    /\ UNCHANGED <<mainQ, image, tasks, asked, drawn, trap>>

-----------------------------------------------------------------------------
ImageTypeOK ==
    /\ cache \subseteq URLs
    /\ image \in [Cells -> URLs \cup {Default}]
    /\ tasks \subseteq [request : Loadable, stored : BOOLEAN]
    /\ asked \in [Cells -> Nat] /\ drawn \in [Cells -> Nat]

\* The request of a block and that of another one are of the same view, and
\* the other one is later.
Later(r, m) == m.cell = r.cell /\ m.n > r.n

Queued(i, ops) == i \in DOMAIN mainQ /\ mainQ[i].op \in ops

\* Requests are numbered as they are made, and what is downloaded was not in
\* the cache.
RequestsNumbered ==
    /\ \A c \in Cells : drawn[c] <= asked[c]
    /\ \A i \in DOMAIN mainQ :
           Queued(i, {"resume", "completed", "setImage"}) =>
               mainQ[i].request.n <= asked[mainQ[i].request.cell]
    /\ \A i \in DOMAIN mainQ :
           Queued(i, {"resume"}) => ~mainQ[i].request.cached
    /\ \A t \in tasks :
           t.request.n <= asked[t.request.cell] /\ ~t.request.cached

\* As long as the request r of block i, out of the cache, has to be completed,
\* every later one of its view is a block behind it that is not yet to set
\* the image; then it may be anywhere but ahead of it.
CachedFirst(i, r) ==
    /\ drawn[r.cell] <= r.n
    /\ \A j \in DOMAIN mainQ :
           Queued(j, {"setImage"}) /\ Later(r, mainQ[j].request) =>
               i < j /\ mainQ[i].op = "setImage"
    /\ mainQ[i].op = "completed" =>
           /\ \A t \in tasks : ~Later(r, t.request)
           /\ \A j \in DOMAIN mainQ :
                  Queued(j, {"resume", "completed"})
                      /\ Later(r, mainQ[j].request) => i < j

CachedInOrder ==
    /\ RequestsNumbered
    /\ \A i \in DOMAIN mainQ :
           Queued(i, {"completed", "setImage"}) /\ mainQ[i].request.cached =>
               CachedFirst(i, mainQ[i].request)

\* In this step a view goes back to the image of an earlier request of its.
GoesBack(c) == drawn'[c] < drawn[c]

=============================================================================
