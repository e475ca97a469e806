------------------------------- MODULE ImageView -------------------------------
(***************************************************************************)
(* CustomImageView: reused views that load pictures by URL through a       *)
(* global cache.  The download's callback runs on URLSession's queue, finds *)
(* out whether its view still wants the picture, and then queues the       *)
(* assignment to the main queue.                                           *)
(***************************************************************************)
EXTENDS Naturals, Sequences

CONSTANTS
    Views,    \* reused image views
    Urls,     \* the strings that loadImage is called with
    BadUrls,  \* those of them that are no URL
    MaxLoads, \* bound: calls of loadImage
    Nothing   \* nil

ASSUME UrlsAssumption == BadUrls \subseteq Urls /\ Nothing \notin Urls
ASSUME BoundAssumption == MaxLoads \in Nat

VARIABLES
    imageCache, \* the URLs whose picture is cached
    lastUrl,    \* [v]: lastImgUrlUsedToLoadImage
    image,      \* [v]: the URL of the picture that is shown
    tasks,      \* [v][u]: downloads of u for v in flight
    main,       \* assignments on their way to the main queue
    crashed,    \* the cache was read while it was being written
    loads,      \* calls of loadImage so far
    \* History.
    missed,     \* [v]: the picture that v wants could not be loaded
    overrun     \* views that took a cached picture while an assignment of
                \* another one was queued

vars == <<imageCache, lastUrl, image, tasks, main, crashed, loads, missed,
          overrun>>

TypeOK ==
    /\ imageCache \subseteq Urls
    /\ lastUrl \in [Views -> Urls \cup {Nothing}]
    /\ image \in [Views -> Urls \cup {Nothing}]
    /\ tasks \in [Views -> [Urls -> Nat]]
    /\ \A v \in Views, u \in BadUrls : tasks[v][u] = 0
    /\ main \in Seq([view : Views, url : Urls \cup {Nothing}])
    /\ crashed \in BOOLEAN
    /\ loads \in 0..MaxLoads
    /\ missed \in [Views -> BOOLEAN]
    /\ overrun \subseteq Views

Init ==
    /\ imageCache = {}
    /\ lastUrl = [v \in Views |-> Nothing]
    /\ image = [v \in Views |-> Nothing]
    /\ tasks = [v \in Views |-> [u \in Urls |-> 0]]
    /\ main = <<>>
    /\ crashed = FALSE
    /\ loads = 0
    /\ missed = [v \in Views |-> FALSE]
    /\ overrun = {}

-----------------------------------------------------------------------------
Queued(v) == \E i \in DOMAIN main : main[i].view = v

\* Mutant: the string is not checked to be a URL.
isUrlAlways(u) == TRUE

isUrl(u) == u \notin BadUrls

\* A picture in the cache is shown at once; otherwise its download starts.
loadImage(v, u) ==
    /\ ~crashed
    /\ loads < MaxLoads
    /\ loads' = loads + 1
    /\ lastUrl' = [lastUrl EXCEPT ![v] = u]
    /\ missed' = [missed EXCEPT ![v] = ~isUrl(u)]
    /\ \/ /\ u \in imageCache
          /\ image' = [image EXCEPT ![v] = u]
          /\ overrun' = IF Queued(v) THEN overrun \cup {v} ELSE overrun \ {v}
          /\ UNCHANGED tasks
       \/ /\ u \notin imageCache
          /\ image' = [image EXCEPT ![v] = Nothing]
          /\ overrun' = overrun \ {v}
          /\ tasks' = IF isUrl(u) THEN [tasks EXCEPT ![v][u] = @ + 1] ELSE tasks
    /\ UNCHANGED <<imageCache, main, crashed>>

\* Mutant: the callback does not look whether its view was reused.
wantsAlways(v, u) == TRUE

\* lastImgUrlUsedToLoadImage is still the URL of the download.
wants(v, u) == lastUrl[v] = u

\* The download of u for v has ended: with a picture, with data that is not a
\* picture (nil is assigned, which also removes the cache's entry), or without
\* data.  The callbacks of the shared session run one at a time, so the check,
\* the cache and the queue are one step as far as any view can tell.
taskDone(v, u, outcome) ==
    /\ ~crashed
    /\ tasks[v][u] > 0
    /\ tasks' = [tasks EXCEPT ![v][u] = @ - 1]
    /\ \/ /\ wants(v, u)
          /\ outcome = "picture"
          /\ imageCache' = imageCache \cup {u}
          /\ main' = Append(main, [view |-> v, url |-> u])
          /\ UNCHANGED missed
       \/ /\ wants(v, u)
          /\ outcome = "garbage"
          /\ imageCache' = imageCache \ {u}
          /\ main' = Append(main, [view |-> v, url |-> Nothing])
          /\ missed' = [missed EXCEPT ![v] = TRUE]
       \/ /\ wants(v, u)
          /\ outcome = "error"
          /\ missed' = [missed EXCEPT ![v] = TRUE]
          /\ UNCHANGED <<imageCache, main>>
       \/ /\ ~wants(v, u)
          /\ UNCHANGED <<imageCache, main, missed>>
    /\ UNCHANGED <<lastUrl, image, crashed, loads, overrun>>

setImage ==
    /\ ~crashed
    /\ main # <<>>
    /\ main' = Tail(main)
    /\ image' = [image EXCEPT ![Head(main).view] = Head(main).url]
    /\ UNCHANGED <<imageCache, lastUrl, tasks, crashed, loads, missed, overrun>>

\* The cache is a plain dictionary: a loadImage on the main thread that meets
\* the assignment of a callback on URLSession's queue may read freed memory.
readDuringWrite(v, u) ==
    /\ ~crashed
    /\ loads < MaxLoads
    /\ tasks[v][u] > 0
    /\ wants(v, u)
    /\ crashed' = TRUE
    /\ UNCHANGED <<imageCache, lastUrl, image, tasks, main, loads, missed,
                   overrun>>

-----------------------------------------------------------------------------
Next ==
    \/ \E v \in Views, u \in Urls :
           \/ loadImage(v, u)
           \/ \E outcome \in {"picture", "garbage", "error"} :
                  taskDone(v, u, outcome)
           \/ readDuringWrite(v, u)
    \/ setImage

Spec == Init /\ [][Next]_vars

-----------------------------------------------------------------------------
Quiet(v) == ~Queued(v) /\ \A u \in Urls : tasks[v][u] = 0

\* A reused view ends up with the picture it was asked for last, in whatever
\* order the downloads end, although an assignment queued for an earlier
\* picture may still pass: the one exception is a picture taken from the cache
\* while such an assignment is queued.
ImageSettles ==
    \A v \in Views :
        Quiet(v) /\ ~missed[v] /\ v \notin overrun => image[v] = lastUrl[v]

=============================================================================
