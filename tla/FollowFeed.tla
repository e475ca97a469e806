------------------------------ MODULE FollowFeed ------------------------------
(***************************************************************************)
(* Following, unfollowing and publishing: User.follow and User.unfollow,   *)
(* UploadPostVC.handleUploadPost and updateUserFeeds, on top of the write  *)
(* queue of the Firebase Realtime Database client.                         *)
(*                                                                         *)
(* Every account is used on one device, so the client of an account is     *)
(* named by the account.  The database is a set of paths: every leaf these *)
(* operations write holds the constant 1 or a complete post, so all that   *)
(* matters of a path is whether it exists.                                 *)
(***************************************************************************)
EXTENDS Naturals, Sequences, FiniteSets

CONSTANTS
    Users,      \* uids
    Posts,      \* the postIds that childByAutoId will hand out
    Owner,      \* Owner[p]: the "ownerUid" of post p
    MaxTaps,    \* bound: MaxTaps[c] follow/unfollow taps of c on one user
    MaxFaults,  \* bound: MaxFaults[c] deaths plus refused writes of client c
    MaxDrops,   \* bound: MaxDrops[c] broken connections of client c
    MaxTrouble, \* bound: MaxTrouble[c] of the two together
    Leavers     \* bound: the users who ever sign out

ASSUME OwnerAssumption == Owner \in [Posts -> Users]
ASSUME BoundsAssumption == /\ MaxTaps \in [Users -> Nat]
                           /\ MaxFaults \in [Users -> Nat]
                           /\ MaxDrops \in [Users -> Nat]
                           /\ MaxTrouble \in [Users -> Nat]

VARIABLES
    db,              \* the server's tree: the set of paths that exist
    outstandingPuts, \* [client]: writes not yet acknowledged, oldest first
    acks,            \* [client]: answers the server has given, in this
                     \* connection, to the first writes of outstandingPuts
    observers,       \* [client][u]: .childAdded observers on user-posts/u,
                     \* each by the operation it performs on user-feed
    heard,           \* [client][p]: how many of those have been called for p
    upload,          \* [p]: how far handleUploadPost has come
    fanout,          \* [p]: the observer of updateUserFeeds is registered
    seen,            \* [client]: cached children of user-followers/client
    due,             \* [p]: followers whose .childAdded call is queued
    signedIn,        \* [client]: Auth.auth().currentUser is not nil
    faults,          \* [client]: process deaths and refused writes so far
    drops,           \* [client]: broken connections so far
    \* History: what failures and racing fan-outs have touched.
    torn,            \* pairs whose last follow/unfollow was cut short
    unposted,        \* posts whose own record the server refused
    fanned           \* [p]: followers updateUserFeeds has written to

link    == <<outstandingPuts, acks>>
feeders == <<observers, heard>>
sharing == <<upload, fanout, seen, due>>
counts  == <<faults, drops>>
history == <<torn, unposted, fanned>>
vars    == <<db, link, feeders, sharing, signedIn, counts, history>>

-----------------------------------------------------------------------------
(* Paths of the tree and the writes on them.                               *)

Following(c, u)  == <<"user-following", c, u>>
FollowerOf(u, c) == <<"user-followers", u, c>>
PostAt(p)        == <<"posts", Owner[p], p>>
UserPostAt(p)    == <<"user-posts", Owner[p], p>>
FeedAt(u, p)     == <<"user-feed", u, p>>

RelationPath == {"user-following", "user-followers"} \X Users \X Users
PostPath     == {"posts", "user-posts", "user-feed"} \X Users \X Posts
Path         == RelationPath \cup PostPath

Op    == {"set", "remove"}
Write == [op : Op, path : Path]

updateChildValues(x) == [op |-> "set", path |-> x]
removeValue(x)       == [op |-> "remove", path |-> x]

\* The phases of an upload in which a callback is still to come.
InFlight == {"storing", "locating", "posting", "completing"}
Phase    == InFlight \cup {"none", "shared", "unfed", "failed", "lost"}

\* A write on path x is waiting in the queue s.
Pending(s, x) == \E i \in DOMAIN s : s[i].path = x

\* What a write makes of a tree.
Apply(tree, w) == IF w.op = "set" THEN tree \cup {w.path} ELSE tree \ {w.path}

-----------------------------------------------------------------------------
TypeOK ==
    /\ db \in SUBSET Path
    /\ outstandingPuts \in [Users -> Seq(Write)]
    /\ acks \in [Users -> Seq({"ok", "err"})]
    /\ \A c \in Users : Len(acks[c]) <= Len(outstandingPuts[c])
    /\ observers \in [Users -> [Users -> Seq(Op)]]
    /\ heard \in [Users -> [Posts -> Nat]]
    /\ upload \in [Posts -> Phase]
    /\ fanout \in [Posts -> BOOLEAN]
    /\ seen \in [Users -> SUBSET Users]
    /\ due \in [Posts -> SUBSET Users]
    /\ signedIn \in [Users -> BOOLEAN]
    /\ faults \in [Users -> Nat]
    /\ \A c \in Users : faults[c] <= MaxFaults[c]
    /\ drops \in [Users -> Nat]
    /\ torn \in SUBSET (Users \X Users)
    /\ unposted \in SUBSET Posts
    /\ fanned \in [Posts -> SUBSET Users]

Init ==
    /\ db = {}
    /\ outstandingPuts = [c \in Users |-> <<>>]
    /\ acks = [c \in Users |-> <<>>]
    /\ observers = [c \in Users |-> [u \in Users |-> <<>>]]
    /\ heard = [c \in Users |-> [p \in Posts |-> 0]]
    /\ upload = [p \in Posts |-> "none"]
    /\ fanout = [p \in Posts |-> FALSE]
    /\ seen = [c \in Users |-> {}]
    /\ due = [p \in Posts |-> {}]
    /\ signedIn = [c \in Users |-> TRUE]
    /\ faults = [c \in Users |-> 0]
    /\ drops = [c \in Users |-> 0]
    /\ torn = {}
    /\ unposted = {}
    /\ fanned = [p \in Posts |-> {}]

\* Writes join the client's queue, in the order they are made.
put(c, writes) ==
    outstandingPuts' = [outstandingPuts EXCEPT ![c] = @ \o writes]

-----------------------------------------------------------------------------
(* Following.                                                              *)

\* Both writes are queued before control leaves the handler, and the observer
\* is added after the ones of earlier taps, which are never removed.  A tap is
\* not guarded by the current relation: the button's title or isFollowed, not
\* the database, decides which of the two handlers runs.
Tap(c, u, op, writes) ==
    /\ signedIn[c]
    /\ c # u
    /\ Len(observers[c][u]) < MaxTaps[c]
    /\ put(c, writes)
    /\ observers' = [observers EXCEPT ![c][u] = Append(@, op)]
    /\ torn' = torn \ {<<c, u>>}
    /\ UNCHANGED <<db, acks, heard, sharing, signedIn, counts, unposted,
                   fanned>>

\* Mutant: follow with the keys of the second write swapped.
followSwapped(c, u) ==
    Tap(c, u, "set", <<updateChildValues(Following(c, u)),
                       updateChildValues(FollowerOf(c, u))>>)

follow(c, u) ==
    Tap(c, u, "set", <<updateChildValues(Following(c, u)),
                       updateChildValues(FollowerOf(u, c))>>)

\* Mutants: unfollow that forgets user-followers; unfollow whose observer was
\* copied from follow.
unfollowHalf(c, u) ==
    Tap(c, u, "remove", <<removeValue(Following(c, u))>>)

unfollowKeepingFeed(c, u) ==
    Tap(c, u, "set", <<removeValue(Following(c, u)),
                       removeValue(FollowerOf(u, c))>>)

unfollow(c, u) ==
    Tap(c, u, "remove", <<removeValue(Following(c, u)),
                          removeValue(FollowerOf(u, c))>>)

\* Mutants: the newest observer is called first; the post goes to its owner.
feedWriteNewest(c, p, n) ==
    LET os == observers[c][Owner[p]]
    IN  [op |-> os[Len(os) + 1 - n], path |-> FeedAt(c, p)]

feedWriteToOwner(c, p, n) ==
    [op |-> observers[c][Owner[p]][n], path |-> FeedAt(Owner[p], p)]

\* The body of c's n-th observer on the posts of p's owner.
feedWrite(c, p, n) ==
    [op |-> observers[c][Owner[p]][n], path |-> FeedAt(c, p)]

\* The server's copy of user-posts/Owner[p] has reached the client c: the next
\* observer, in order of registration, is called for p and edits c's feed.
userPostsChildAdded(c, p) ==
    LET n == heard[c][p] + 1
    IN  /\ UserPostAt(p) \in db
        /\ n <= Len(observers[c][Owner[p]])
        /\ heard' = [heard EXCEPT ![c][p] = n]
        /\ put(c, <<feedWrite(c, p, n)>>)
        /\ UNCHANGED <<db, acks, observers, sharing, signedIn, counts,
                       history>>

-----------------------------------------------------------------------------
(* Publishing.                                                             *)

handleUploadPost(p) ==
    /\ signedIn[Owner[p]]
    /\ upload[p] = "none"
    /\ upload' = [upload EXCEPT ![p] = "storing"]
    /\ UNCHANGED <<db, link, feeders, fanout, seen, due, signedIn, counts,
                   history>>

putDataDone(p) ==
    /\ upload[p] = "storing"
    /\ upload' = [upload EXCEPT ![p] = "locating"]
    /\ UNCHANGED <<db, link, feeders, fanout, seen, due, signedIn, counts,
                   history>>

\* putData or downloadURL answers with an error: the callback returns.
storageFailed(p) ==
    /\ upload[p] \in {"storing", "locating"}
    /\ upload' = [upload EXCEPT ![p] = "failed"]
    /\ UNCHANGED <<db, link, feeders, fanout, seen, due, signedIn, counts,
                   history>>

\* Mutant: the post is listed before its record is written.
postWritesListedFirst(p) ==
    <<updateChildValues(UserPostAt(p)), updateChildValues(PostAt(p))>>

\* What is written once the image has its URL: the post under a fresh id.
postWrites(p) == <<updateChildValues(PostAt(p))>>

downloadURLDone(p) ==
    /\ upload[p] = "locating"
    /\ upload' = [upload EXCEPT ![p] = "posting"]
    /\ put(Owner[p], postWrites(p))
    /\ UNCHANGED <<db, acks, feeders, fanout, seen, due, signedIn, counts,
                   history>>

\* The completion block of the posts write; it does not look at err.  Without
\* a current user updateUserFeeds returns at once; otherwise it observes
\* user-followers/owner, whose cached children are reported first, and writes
\* the owner's own feed.
postCompletion(p) ==
    LET o == Owner[p]
    IN  /\ upload[p] = "completing"
        /\ \/ /\ signedIn[o]
              /\ upload' = [upload EXCEPT ![p] = "shared"]
              /\ fanout' = [fanout EXCEPT ![p] = TRUE]
              /\ due' = [due EXCEPT ![p] = seen[o]]
              /\ put(o, <<updateChildValues(UserPostAt(p)),
                          updateChildValues(FeedAt(o, p))>>)
           \/ /\ ~signedIn[o]
              /\ upload' = [upload EXCEPT ![p] = "unfed"]
              /\ put(o, <<updateChildValues(UserPostAt(p))>>)
              /\ UNCHANGED <<fanout, due>>
        /\ UNCHANGED <<db, acks, feeders, seen, signedIn, counts, history>>

\* The server's copy of user-followers/o reaches the owner's client, which
\* reports each new child to every observer updateUserFeeds has left there.
userFollowersUpdate(o) ==
    LET now == {f \in Users : FollowerOf(o, f) \in db}
    IN  /\ \E p \in Posts : Owner[p] = o /\ fanout[p]
        /\ now # seen[o]
        /\ seen' = [seen EXCEPT ![o] = now]
        /\ due' = [p \in Posts |-> IF Owner[p] = o /\ fanout[p]
                                     THEN due[p] \cup (now \ seen[o])
                                     ELSE due[p]]
        /\ UNCHANGED <<db, link, feeders, upload, fanout, signedIn, counts,
                       history>>

\* Mutant: the post goes to the owner's feed for every follower.
followerWriteToOwner(p, f) == updateChildValues(FeedAt(Owner[p], p))

followerWrite(p, f) == updateChildValues(FeedAt(f, p))

followerChildAdded(p, f) ==
    /\ f \in due[p]
    /\ due' = [due EXCEPT ![p] = @ \ {f}]
    /\ fanned' = [fanned EXCEPT ![p] = @ \cup {f}]
    /\ put(Owner[p], <<followerWrite(p, f)>>)
    /\ UNCHANGED <<db, acks, feeders, upload, fanout, seen, signedIn,
                   counts, torn, unposted>>

-----------------------------------------------------------------------------
(* The connection: writes are sent in order and stay queued until answered. *)

\* One more fault or broken connection is within the bound.
MoreTrouble(c) == faults[c] + drops[c] < MaxTrouble[c]

serverAccepts(c) ==
    LET n == Len(acks[c]) + 1
    IN  /\ n <= Len(outstandingPuts[c])
        /\ db' = Apply(db, outstandingPuts[c][n])
        /\ acks' = [acks EXCEPT ![c] = Append(@, "ok")]
        /\ UNCHANGED <<outstandingPuts, feeders, sharing, signedIn, counts,
                       history>>

serverRefuses(c) ==
    /\ Len(acks[c]) < Len(outstandingPuts[c])
    /\ faults[c] < MaxFaults[c]
    /\ MoreTrouble(c)
    /\ acks' = [acks EXCEPT ![c] = Append(@, "err")]
    /\ faults' = [faults EXCEPT ![c] = @ + 1]
    /\ UNCHANGED <<db, outstandingPuts, feeders, sharing, signedIn, drops,
                   history>>

\* Mutant: the completion block is called on success only.
callOnCompleteIfOk(w, p, err) == w.path = PostAt(p) /\ ~err

\* Only the posts write has a completion block, and it is called whatever the
\* answer is.
callOnComplete(w, p, err) == w.path = PostAt(p)

\* The answer to the oldest write arrives.
ackPut(c) ==
    LET w    == Head(outstandingPuts[c])
        rest == Tail(outstandingPuts[c])
        err  == Head(acks[c]) = "err"
    IN  /\ acks[c] # <<>>
        /\ outstandingPuts' = [outstandingPuts EXCEPT ![c] = rest]
        /\ acks' = [acks EXCEPT ![c] = Tail(@)]
        /\ upload' = [p \in Posts |-> IF callOnComplete(w, p, err)
                                        THEN "completing" ELSE upload[p]]
        /\ unposted' = unposted \cup {p \in Posts : err /\ w.path = PostAt(p)}
        /\ torn' = torn \cup {r \in {c} \X Users :
                       /\ err
                       /\ w.path \in {Following(c, r[2]), FollowerOf(r[2], c)}
                       /\ ~Pending(rest, w.path)}
        /\ UNCHANGED <<db, feeders, fanout, seen, due, signedIn, counts,
                       fanned>>

\* Mutant: the queue is lost with the connection.
onDisconnectDropsQueue(c) ==
    /\ drops[c] < MaxDrops[c]
    /\ MoreTrouble(c)
    /\ acks[c] # <<>>
    /\ drops' = [drops EXCEPT ![c] = @ + 1]
    /\ outstandingPuts' = [outstandingPuts EXCEPT ![c] = <<>>]
    /\ UNCHANGED <<db, acks, feeders, sharing, signedIn, faults, history>>

\* The connection breaks: answers on the way are lost, and restoreState sends
\* every queued write again, in the same order.
onDisconnect(c) ==
    /\ drops[c] < MaxDrops[c]
    /\ MoreTrouble(c)
    /\ acks[c] # <<>>
    /\ drops' = [drops EXCEPT ![c] = @ + 1]
    /\ acks' = [acks EXCEPT ![c] = <<>>]
    /\ UNCHANGED <<db, outstandingPuts, feeders, sharing, signedIn, faults,
                   history>>

\* The process dies and starts again.  Persistence is never enabled, so the
\* write queue, the caches and the observers are gone; no screen registers
\* the observers again.
processDeath(c) ==
    /\ faults[c] < MaxFaults[c]
    /\ MoreTrouble(c)
    /\ faults' = [faults EXCEPT ![c] = @ + 1]
    /\ outstandingPuts' = [outstandingPuts EXCEPT ![c] = <<>>]
    /\ acks' = [acks EXCEPT ![c] = <<>>]
    /\ observers' = [observers EXCEPT ![c] = [u \in Users |-> <<>>]]
    /\ heard' = [heard EXCEPT ![c] = [p \in Posts |-> 0]]
    /\ seen' = [seen EXCEPT ![c] = {}]
    /\ upload' = [p \in Posts |-> IF Owner[p] = c /\ upload[p] \in InFlight
                                    THEN "lost" ELSE upload[p]]
    /\ fanout' = [p \in Posts |-> fanout[p] /\ Owner[p] # c]
    /\ due' = [p \in Posts |-> IF Owner[p] = c THEN {} ELSE due[p]]
    /\ torn' = torn \cup {r \in {c} \X Users :
                   \/ Pending(outstandingPuts[c], Following(c, r[2]))
                   \/ Pending(outstandingPuts[c], FollowerOf(r[2], c))}
    /\ UNCHANGED <<db, signedIn, drops, unposted, fanned>>

\* FeedVC.handleLogout and LoginVC.handleLogin, as far as the handlers above
\* can tell: observers and queued writes survive a sign-out.
signOut(c) ==
    /\ c \in Leavers
    /\ signedIn[c]
    /\ signedIn' = [signedIn EXCEPT ![c] = FALSE]
    /\ UNCHANGED <<db, link, feeders, sharing, counts, history>>

signIn(c) ==
    /\ ~signedIn[c]
    /\ signedIn' = [signedIn EXCEPT ![c] = TRUE]
    /\ UNCHANGED <<db, link, feeders, sharing, counts, history>>

-----------------------------------------------------------------------------
Next ==
    \/ \E c, u \in Users : follow(c, u) \/ unfollow(c, u)
    \/ \E c \in Users, p \in Posts : userPostsChildAdded(c, p)
    \/ \E p \in Posts : \/ handleUploadPost(p)
                        \/ putDataDone(p)
                        \/ storageFailed(p)
                        \/ downloadURLDone(p)
                        \/ postCompletion(p)
    \/ \E o \in Users : userFollowersUpdate(o)
    \/ \E p \in Posts, f \in Users : followerChildAdded(p, f)
    \/ \E c \in Users : \/ serverAccepts(c)
                        \/ serverRefuses(c)
                        \/ ackPut(c)
                        \/ onDisconnect(c)
                        \/ processDeath(c)
                        \/ signOut(c)
                        \/ signIn(c)

Spec == Init /\ [][Next]_vars

\* Callbacks on the main queue and answers of the services come eventually:
\* storage calls give up after a retry limit, and the server answers what it
\* is sent once the connection stays up (MaxDrops bounds how often it breaks).
Fairness ==
    /\ \A p \in Posts : /\ WF_vars(putDataDone(p) \/ storageFailed(p))
                        /\ WF_vars(downloadURLDone(p) \/ storageFailed(p))
                        /\ WF_vars(postCompletion(p))
                        /\ \A u \in Users : /\ WF_vars(userPostsChildAdded(u, p))
                                            /\ WF_vars(followerChildAdded(p, u))
    /\ \A c \in Users : /\ WF_vars(serverAccepts(c) \/ serverRefuses(c))
                        /\ WF_vars(ackPut(c))
                        /\ WF_vars(userFollowersUpdate(c))

FairSpec == Spec /\ Fairness

-----------------------------------------------------------------------------
(* Safety.                                                                 *)

\* follow and unfollow keep user-following and user-followers as two copies
\* of one relation with two separate writes.  Once a client's writes are
\* acknowledged the copies agree for every user it has not been cut short on
\* (by a process death or a refused write since its last tap), whatever was
\* sent again after broken connections.
RelationSymmetric ==
    \A c, u \in Users :
        outstandingPuts[c] = <<>> /\ <<c, u>> \notin torn
            => (Following(c, u) \in db <=> FollowerOf(u, c) \in db)

\* handleUploadPost lists a post in user-posts and in feeds only after the
\* post itself is stored: whoever finds an id in those lists can fetch it.
\* The one exception is a refused posts write, whose error is ignored.
NoDanglingPost ==
    \A p \in Posts :
        \/ PostAt(p) \in db
        \/ p \in unposted
        \/ /\ UserPostAt(p) \notin db
           /\ \A u \in Users : FeedAt(u, p) \notin db

\* Client c has no write of its own outstanding, and all its observers have
\* been called for p.
Quiet(c, p) ==
    /\ outstandingPuts[c] = <<>>
    /\ heard[c][p] = Len(observers[c][Owner[p]])

\* "add followed users posts to current user-feed": however taps, posts and
\* broken connections interleave, a client that follows the owner, and the
\* owner itself, has the post in its feed when it has settled (and its process
\* never died and none of its writes was refused).
FeedComplete ==
    \A c \in Users, p \in Posts :
        /\ Quiet(c, p)
        /\ faults[c] = 0
        /\ \/ c = Owner[p] /\ upload[p] = "shared"
           \/ Following(c, Owner[p]) \in db /\ UserPostAt(p) \in db
        => FeedAt(c, p) \in db

\* After unfollow the feed of a settled client holds no post of the owner,
\* except one that the owner's own fan-out wrote there: the observers that
\* unfollow and follow leave behind never resurrect a post.
StaleOnlyByFanout ==
    \A c \in Users, p \in Posts :
        /\ Quiet(c, p)
        /\ faults[c] = 0
        /\ c # Owner[p]
        /\ Following(c, Owner[p]) \notin db
        /\ FeedAt(c, p) \in db
        => c \in fanned[p]

-----------------------------------------------------------------------------
(* Liveness, under FairSpec.                                               *)

\* Every upload the user starts comes to an end: shared, abandoned, or lost
\* with the process.
UploadSettles ==
    \A p \in Posts : upload[p] \in InFlight ~> upload[p] \notin InFlight

\* A shared post reaches the feed of every user to whom updateUserFeeds owes
\* a call, unless the owner's process dies or a write is refused.
FanoutDelivered ==
    \A p \in Posts, f \in Users :
        f \in due[p] ~> FeedAt(f, p) \in db \/ faults[Owner[p]] > 0

\* A follower gets a published post, unless it stops following, its process
\* dies or a write of its is refused.
FollowerFed ==
    \A c \in Users, p \in Posts :
        /\ UserPostAt(p) \in db
        /\ Following(c, Owner[p]) \in db
        ~> \/ FeedAt(c, p) \in db
           \/ Following(c, Owner[p]) \notin db
           \/ faults[c] > 0

-----------------------------------------------------------------------------
(* The inductive invariant behind NoDanglingPost: where a post stands in its *)
(* upload decides which writes about it can exist.                           *)

\* p is named in user-posts or in a feed.
Lists(x, p) == x = UserPostAt(p) \/ \E u \in Users : x = FeedAt(u, p)

\* The posts write of p is queued only while handleUploadPost waits for it,
\* once, by the owner, and it is never a removal.
PostWriteOnce ==
    \A c \in Users, p \in Posts :
        \A i \in 1..Len(outstandingPuts[c]) :
            outstandingPuts[c][i].path = PostAt(p) =>
                /\ c = Owner[p]
                /\ upload[p] = "posting"
                /\ outstandingPuts[c][i].op = "set"
                /\ \A j \in 1..Len(outstandingPuts[c]) :
                       outstandingPuts[c][j].path = PostAt(p) => i = j

\* A posts write answered "ok" is in the tree.
PostWriteApplied ==
    \A c \in Users, p \in Posts :
        \A i \in 1..Len(acks[c]) :
            outstandingPuts[c][i].path = PostAt(p) /\ acks[c][i] = "ok"
                => PostAt(p) \in db

\* The completion block runs after the posts write.
CompletedIsStored ==
    \A p \in Posts :
        upload[p] \in {"completing", "shared", "unfed"}
            => PostAt(p) \in db \/ p \in unposted

\* Nothing lists p, and no follower is owed p, before the completion block.
ListedIsCompleted ==
    \A p \in Posts :
        \/ upload[p] \in {"shared", "unfed"}
        \/ /\ ~fanout[p]
           /\ due[p] = {}
           /\ \A x \in db : ~Lists(x, p)
           /\ \A c \in Users : \A i \in 1..Len(outstandingPuts[c]) :
                  ~Lists(outstandingPuts[c][i].path, p)

\* The inductive invariant: the order posts, user-posts, feeds of
\* handleUploadPost survives queues, re-sent writes and process deaths.
PublishInv ==
    /\ TypeOK
    /\ PostWriteOnce
    /\ PostWriteApplied
    /\ CompletedIsStored
    /\ ListedIsCompleted

-----------------------------------------------------------------------------
(* The inductive invariant behind RelationSymmetric: the copies that the     *)
(* queued writes will leave behind agree.                                    *)

\* Only c's client writes c's half of the relation.
OwnRelationWrites ==
    \A c \in Users : \A i \in 1..Len(outstandingPuts[c]) :
        outstandingPuts[c][i].path \in RelationPath =>
            \E u \in Users :
                outstandingPuts[c][i].path \in {Following(c, u), FollowerOf(u, c)}

\* Of the relation writes the server has answered in this connection, the last
\* one on a path, if accepted, is what the tree shows.
LastAcceptedShows ==
    \A c \in Users : \A i \in 1..Len(acks[c]) :
        LET w == outstandingPuts[c][i]
        IN  /\ acks[c][i] = "ok"
            /\ w.path \in RelationPath
            /\ \A j \in (i + 1)..Len(acks[c]) :
                   outstandingPuts[c][j].path # w.path
            => (w.path \in db <=> w.op = "set")

\* The path x will exist when the queue s has been accepted by the tree t.
Settled(s, t, x) ==
    \/ ~Pending(s, x) /\ x \in t
    \/ \E i \in 1..Len(s) :
           /\ s[i] = updateChildValues(x)
           /\ \A j \in (i + 1)..Len(s) : s[j].path # x

\* Unless the last tap was cut short, the copies will agree.
SettledSymmetric ==
    \A c, u \in Users :
        <<c, u>> \notin torn =>
            (Settled(outstandingPuts[c], db, Following(c, u)) <=>
             Settled(outstandingPuts[c], db, FollowerOf(u, c)))

\* The inductive invariant: whatever is still queued, or sent again, the two
\* writes of follow and of unfollow end with copies that agree.
RelationInv ==
    /\ TypeOK
    /\ OwnRelationWrites
    /\ LastAcceptedShows
    /\ SettledSymmetric

-----------------------------------------------------------------------------
(* Refinement: user-followers implements the abstract relation.             *)

\* Who follows whom by user-followers, once the writes queued by the follower's
\* client are through.
FollowersRel ==
    {r \in Users \X Users :
        Settled(outstandingPuts[r[1]], db, FollowerOf(r[2], r[1]))}

\* The handler that c's last tap on u's button ran.
LastTap ==
    [r \in Users \X Users |->
        LET ops == observers[r[1]][r[2]]
        IN  IF ops = <<>> THEN "none"
            ELSE IF ops[Len(ops)] = "set" THEN "follow" ELSE "unfollow"]

ByFollowers == INSTANCE FollowRelation WITH rel <- FollowersRel, lastTap <- LastTap

\* user-followers, the copy that updateUserFeeds reads, lies under another user
\* and is written second; yet it changes by the follower's own taps only and is
\* as the last one says.  Answers, writes sent again after a broken connection,
\* the observers that taps leave behind and other clients change nothing, and a
\* failure changes nothing but the pairs it cuts short.
FollowersRefines == ByFollowers!Spec

=============================================================================
