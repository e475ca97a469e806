------------------------------ MODULE ListScreen ------------------------------
(***************************************************************************)
(* A screen that observes a list in the database and shows a row for each  *)
(* entry: FeedVC on user-feed, UserProfileVC on user-posts, FollowLikeVC   *)
(* on user-followers or user-following, SearchVC on users.                 *)
(*                                                                         *)
(* Every entry that is added starts a chain of single-event reads; chains  *)
(* overtake each other, and each ends by appending a row and reloading.    *)
(* The profile also shows a header, which is dequeued again, from a pool   *)
(* of reused ones, at every layout after a reload, and each time asks for  *)
(* the statistics of its user anew.                                        *)
(***************************************************************************)
EXTENDS Naturals, Sequences, FiniteSets

CONSTANTS
    Ids,          \* the ids that lists may hold: posts or users
    CreationDate, \* [p]: of a post, in seconds; posts may share one
    Fetchable,    \* the ids with a record (of a post: whose owner has one too)
    Ownerless,    \* the posts with a record whose owner has none
    Headers,      \* the pool of reusable headers
    NoHeader,
    MaxAdds,      \* bound: MaxAdds[s][p], how often p is added to the list of s
    MaxChanges    \* bound: changes of the number of followers

Screens == {"feed", "profile", "follows", "search"}

ASSUME IdsAssumption == /\ Fetchable \cup Ownerless \subseteq Ids
                        /\ Fetchable \cap Ownerless = {}
ASSUME DateAssumption == CreationDate \in [Ids -> Nat]
ASSUME HeaderAssumption == Headers # {} /\ NoHeader \notin Headers
ASSUME BoundAssumption == MaxAdds \in [Screens -> [Ids -> Nat]] /\ MaxChanges \in Nat

VARIABLES
    screen,    \* which screen this is
    list,      \* the ids in the observed path, as the client has it
    events,    \* childAdded calls on their way to the main queue
    reading,   \* [p]: reads of the record of p in flight
    owning,    \* [p]: reads of users/ownerUid in flight, for p
    rows,      \* posts or users, as the screen holds them
    dirty,     \* reloadData has been called since the last layout
    shown,     \* the rows at the last layout
    \* The header of the profile.
    known,     \* the user of the profile has been fetched
    header,    \* the header in use
    labels,    \* [h]: what its labels say
    worker,    \* reads and observers on their way to Firebase's worker queue
    observing, \* the .value observers on user-followers/uid, each by its header
    followers, \* the number of children there
    calls,     \* answers to those observers and reads, on the main queue
    \* Bounds.
    adds,      \* [p]: how often p has been added to the list
    changes    \* changes of followers so far

fetching == <<events, reading, owning, rows>>
stats    == <<labels, worker, observing, followers, calls>>
vars     == <<screen, list, fetching, dirty, shown, known, header, stats, adds,
              changes>>

Labels == {"followers", "posts"}
Unset  == MaxChanges + 1000   \* the text of a new label

TypeOK ==
    /\ screen \in Screens
    /\ list \subseteq Ids
    /\ events \in Seq(Ids)
    /\ reading \in [Ids -> Nat]
    /\ owning \in [Ids -> Nat]
    /\ rows \in Seq(Fetchable)
    /\ dirty \in BOOLEAN
    /\ shown \in Seq(Fetchable)
    /\ known \in BOOLEAN
    /\ header \in Headers \cup {NoHeader}
    /\ labels \in [Headers -> [Labels -> Nat]]
    /\ worker \in Seq(Headers \X Labels)
    /\ observing \in Seq(Headers)
    /\ followers \in Nat
    /\ calls \in Seq(Headers \X Labels \X Nat)
    /\ adds \in [Ids -> Nat]
    /\ changes \in 0..MaxChanges

\* viewDidLoad has registered the observer.  The profile of the current user
\* has its user still to fetch, that of somebody else was given it.
Init ==
    /\ screen \in Screens
    /\ list = {}
    /\ events = <<>>
    /\ reading = [p \in Ids |-> 0]
    /\ owning = [p \in Ids |-> 0]
    /\ rows = <<>>
    /\ dirty = TRUE
    /\ shown = <<>>
    /\ known \in IF screen = "profile" THEN BOOLEAN ELSE {TRUE}
    /\ header = NoHeader
    /\ labels = [h \in Headers |-> [l \in Labels |-> Unset]]
    /\ worker = <<>>
    /\ observing = <<>>
    /\ followers = 0
    /\ calls = <<>>
    /\ adds = [p \in Ids |-> 0]
    /\ changes = 0

-----------------------------------------------------------------------------
(* The database.                                                           *)

listAdded(p) ==
    /\ p \notin list
    /\ adds[p] < MaxAdds[screen][p]
    /\ adds' = [adds EXCEPT ![p] = @ + 1]
    /\ list' = list \cup {p}
    /\ events' = Append(events, p)
    /\ UNCHANGED <<screen, reading, owning, rows, dirty, shown, known, header,
                   stats, changes>>

\* User.unfollow takes entries from feeds and from the relation; nobody
\* observes removals.
listRemoved(p) ==
    /\ screen \in {"feed", "follows"}
    /\ p \in list
    /\ list' = list \ {p}
    /\ UNCHANGED <<screen, fetching, dirty, shown, known, header, stats, adds,
                   changes>>

\* Every .value observer is called, in order of registration.
followersChanged ==
    /\ screen = "profile"
    /\ changes < MaxChanges
    /\ changes' = changes + 1
    /\ followers' \in {followers + 1, followers - 1} \cap Nat
    /\ calls' = calls \o [i \in DOMAIN observing |->
                              <<observing[i], "followers", followers'>>]
    /\ UNCHANGED <<screen, list, fetching, dirty, shown, known, header, labels,
                   worker, observing, adds>>

-----------------------------------------------------------------------------
(* The rows.                                                               *)

Occurrences(s, p) == Cardinality({i \in DOMAIN s : s[i] = p})

Descending(s) ==
    \A i, j \in DOMAIN s : i < j => CreationDate[s[i]] >= CreationDate[s[j]]

\* What sort may return: it is not stable.
Sorted(s) ==
    {t \in [DOMAIN s -> {s[i] : i \in DOMAIN s}] :
        /\ Descending(t)
        /\ \A p \in Ids : Occurrences(t, p) = Occurrences(s, p)}

\* Mutant: the screen is not reloaded.
appendRowNoReload(p) ==
    /\ rows' \in IF screen \in {"feed", "profile"} THEN Sorted(Append(rows, p))
                                                   ELSE {Append(rows, p)}
    /\ UNCHANGED dirty

\* The end of every chain; users are not sorted.
appendRow(p) ==
    /\ rows' \in IF screen \in {"feed", "profile"} THEN Sorted(Append(rows, p))
                                                   ELSE {Append(rows, p)}
    /\ dirty' = TRUE

\* Mutant: nothing is fetched while a fetch is running.
fetchRecordIfIdle(p) ==
    reading' = IF \A q \in Ids : reading[q] + owning[q] = 0
                 THEN [reading EXCEPT ![p] = @ + 1] ELSE reading

\* A read of posts/p or, for a user, of users/p.
fetchRecord(p) == reading' = [reading EXCEPT ![p] = @ + 1]

\* The users that SearchVC lists come with their records.
childAdded ==
    /\ events # <<>>
    /\ events' = Tail(events)
    /\ \/ /\ screen # "search"
          /\ fetchRecord(Head(events))
          /\ UNCHANGED <<rows, dirty>>
       \/ /\ screen = "search"
          /\ IF Head(events) \in Fetchable THEN appendRow(Head(events))
                                           ELSE UNCHANGED <<rows, dirty>>
          /\ UNCHANGED reading
    /\ UNCHANGED <<screen, list, owning, shown, known, header, stats, adds, changes>>

\* Without a record the chain ends.  FollowLikeVC has what it needs; for a post
\* the owner is read.
recordRead(p) ==
    /\ reading[p] > 0
    /\ reading' = [reading EXCEPT ![p] = @ - 1]
    /\ IF screen = "follows" /\ p \in Fetchable
         THEN appendRow(p) ELSE UNCHANGED <<rows, dirty>>
    /\ owning' = IF screen # "follows" /\ p \in Fetchable \cup Ownerless
                   THEN [owning EXCEPT ![p] = @ + 1] ELSE owning
    /\ UNCHANGED <<screen, list, events, shown, known, header, stats, adds, changes>>

\* Mutant: the row is made although there is no record.
ownerReadUnchecked(p) ==
    /\ owning[p] > 0
    /\ owning' = [owning EXCEPT ![p] = @ - 1]
    /\ appendRow(p)
    /\ UNCHANGED <<screen, list, events, reading, shown, known, header, stats,
                   adds, changes>>

\* Without the owner's record the post is dropped.
ownerRead(p) ==
    /\ owning[p] > 0
    /\ owning' = [owning EXCEPT ![p] = @ - 1]
    /\ IF p \in Fetchable THEN appendRow(p) ELSE UNCHANGED <<rows, dirty>>
    /\ UNCHANGED <<screen, list, events, reading, shown, known, header, stats,
                   adds, changes>>

-----------------------------------------------------------------------------
(* Layout, and the header of the profile.                                  *)

\* The number of followers is observed, by an observer that nobody removes,
\* and the posts are counted.  (The number of followed users is a second copy
\* of the first.)
setUserStats(h) == worker' = worker \o <<<<h, "followers">>, <<h, "posts">>>>

\* The screen asks for its rows; on the profile a header is dequeued and given
\* the user, whose didSet calls setUserStats.
layout ==
    /\ dirty
    /\ dirty' = FALSE
    /\ shown' = rows
    /\ \/ /\ screen = "profile"
          /\ header' \in Headers
          /\ IF known THEN setUserStats(header') ELSE UNCHANGED worker
       \/ /\ screen # "profile"
          /\ UNCHANGED <<header, worker>>
    /\ UNCHANGED <<screen, list, fetching, known, labels, observing, followers,
                   calls, adds, changes>>

\* The answer to fetchCurrentUserData.
currentUserFetched ==
    /\ ~known
    /\ known' = TRUE
    /\ dirty' = TRUE
    /\ UNCHANGED <<screen, list, fetching, shown, header, stats, adds, changes>>

\* Mutant: the followers are read once.
registerOnce(h) == UNCHANGED observing

register(h) == observing' = Append(observing, h)

\* An observer is registered, and gets its first call; or a read is answered.
runWorker ==
    /\ worker # <<>>
    /\ worker' = Tail(worker)
    /\ LET h == Head(worker)[1]
       IN  \/ /\ Head(worker)[2] = "followers"
              /\ register(h)
              /\ calls' = Append(calls, <<h, "followers", followers>>)
           \/ /\ Head(worker)[2] = "posts"
              /\ calls' = Append(calls, <<h, "posts", Cardinality(list)>>)
              /\ UNCHANGED observing
    /\ UNCHANGED <<screen, list, fetching, dirty, shown, known, header, labels,
                   followers, adds, changes>>

setLabel ==
    /\ calls # <<>>
    /\ calls' = Tail(calls)
    /\ labels' = [labels EXCEPT ![Head(calls)[1]][Head(calls)[2]] = Head(calls)[3]]
    /\ UNCHANGED <<screen, list, fetching, dirty, shown, known, header, worker,
                   observing, followers, adds, changes>>

-----------------------------------------------------------------------------
Next ==
    \/ childAdded
    \/ \E p \in Ids : \/ listAdded(p)
                      \/ listRemoved(p)
                      \/ recordRead(p)
                      \/ ownerRead(p)
    \/ followersChanged
    \/ layout
    \/ currentUserFetched
    \/ runWorker
    \/ setLabel

Spec == Init /\ [][Next]_vars

\* Callbacks run, reads are answered and the screen is laid out.
Fairness == /\ WF_vars(childAdded)
            /\ WF_vars(layout)
            /\ \A p \in Ids : WF_vars(recordRead(p)) /\ WF_vars(ownerRead(p))

FairSpec == Spec /\ Fairness

-----------------------------------------------------------------------------
\* However the reads overtake each other, an entry is on screen or on its way
\* exactly as often as its id was added: none is lost, and it is shown twice
\* only if its id was removed and added again.
ShownPerAdd ==
    \A p \in Fetchable :
        Occurrences(rows, p) + owning[p] + reading[p] + Occurrences(events, p)
            = adds[p]

\* The profile has been laid out and all answers for its header are in.
StatsIn == header # NoHeader /\ known /\ ~dirty /\ worker = <<>> /\ calls = <<>>

\* The header in use tells the number of followers, although every layout adds
\* another observer and they all keep writing to headers that may be in the
\* pool by now.  The posts are only counted when the header is laid out, but every
\* post on the screen is in that count, and the count never exceeds the list.
StatsCounted ==
    StatsIn => /\ labels[header]["followers"] = followers
               /\ Len(rows) <= labels[header]["posts"]
               /\ labels[header]["posts"] <= Cardinality(list)

\* Every fetchable entry of the list comes on screen.
ListedIsShown ==
    \A p \in Fetchable : p \in list ~> Occurrences(shown, p) > 0

=============================================================================
