------------------------------ MODULE FollowButton ------------------------------
(***************************************************************************)
(* The follow buttons of one signed-in user: FollowLikeCell and            *)
(* UserProfileHeader with the handlers of FollowLikeVC and UserProfileVC.  *)
(*                                                                         *)
(* A button asks checkIfUserIsFollowed whenever its cell is given a user,  *)
(* cells are reused, and the answer sets the button of the cell that asked. *)
(* Taps, reads and writes meet on two FIFO queues: Firebase's worker queue *)
(* and the main queue.                                                     *)
(***************************************************************************)
EXTENDS Naturals, Sequences

CONSTANTS
    Users,       \* the users in the list; one User object each
    Me,          \* the signed-in user
    Cells,       \* reusable cells of FollowLikeVC
    Header,      \* the header of the UserProfileVC opened from the list
    MaxDisplays, \* bound: how often cells are given a user
    MaxTaps,     \* bound: taps on buttons
    NoUser

Buttons == Cells \cup {Header}

ASSUME HeaderAssumption == Header \notin Cells
ASSUME UsersAssumption == Me \in Users /\ NoUser \notin Users
ASSUME BoundsAssumption == MaxDisplays \in Nat /\ MaxTaps \in Nat

VARIABLES
    following,  \* user-following/currentUid as the client sees it, its own
                \* writes included
    worker,     \* the worker queue: writes and new single-event observers
    waiting,    \* observers whose snapshot the client does not have yet
    main,       \* answers on their way to the main queue
    isFollowed, \* [u]: User.isFollowed
    user,       \* [b]: the user that the cell or header shows
    title,      \* [b]: the button's title
    hidden,     \* the buttons that are hidden
    \* Bounds and history.
    displays, taps,
    doubtful    \* buttons whose user was tapped elsewhere, or was tapped while
                \* a check on that user was under way

queues == <<worker, waiting, main>>
shown  == <<user, title, hidden>>
vars   == <<following, queues, isFollowed, shown, displays, taps, doubtful>>

Titles == {"Loading", "Follow", "Following", "Edit Profile"}
Check  == [button : Buttons, user : Users]
Write  == [user : Users, value : BOOLEAN]
Answer == [button : Buttons, user : Users, value : BOOLEAN]

TypeOK ==
    /\ following \subseteq Users
    /\ worker \in Seq(Write \cup Check)
    /\ waiting \in Seq(Check)
    /\ main \in Seq(Answer)
    /\ isFollowed \in [Users -> BOOLEAN]
    /\ user \in [Buttons -> Users \cup {NoUser}]
    /\ title \in [Buttons -> Titles]
    /\ hidden \subseteq Cells
    /\ displays \in 0..MaxDisplays
    /\ taps \in 0..MaxTaps
    /\ doubtful \subseteq Buttons

\* The list has just been fetched; whom it shows as followed is up to the
\* database.
Init ==
    /\ following \in SUBSET (Users \ {Me})
    /\ worker = <<>>
    /\ waiting = <<>>
    /\ main = <<>>
    /\ isFollowed = [u \in Users |-> FALSE]
    /\ user = [b \in Buttons |-> NoUser]
    /\ title = [b \in Buttons |-> "Loading"]
    /\ hidden = {}
    /\ displays = 0
    /\ taps = 0
    /\ doubtful = {}

-----------------------------------------------------------------------------
Elements(s) == {s[i] : i \in DOMAIN s}

\* The writes among the work that is queued.
Writes == {w \in Elements(worker) : w \in Write}

\* A check that button b asked for, or that is about user u, is under way.
Underway == (Elements(worker) \ Writes) \cup Elements(waiting) \cup Elements(main)
Asking(b)   == \E k \in Underway : k.button = b
Checking(u) == \E k \in Underway : k.user = u

titleFor(followed) == IF followed THEN "Following" ELSE "Follow"

\* Mutant: a user whose flag is set is not looked up again.
checkIfUserIsFollowedOnce(b, u) ==
    worker' = IF isFollowed[u] THEN worker
                               ELSE Append(worker, [button |-> b, user |-> u])

checkIfUserIsFollowed(b, u) ==
    worker' = Append(worker, [button |-> b, user |-> u])

\* Mutant: the cell of the current user keeps its button.
displayCellShown(c, u) ==
    /\ displays < MaxDisplays
    /\ displays' = displays + 1
    /\ user' = [user EXCEPT ![c] = u]
    /\ checkIfUserIsFollowed(c, u)
    /\ doubtful' = doubtful \ {c}
    /\ UNCHANGED <<following, waiting, main, isFollowed, title, hidden, taps>>

\* Cell c is given user u (didSet).  A reused cell keeps its title until the
\* answer is in, and stays hidden once it has shown the current user.
displayCell(c, u) ==
    /\ displays < MaxDisplays
    /\ displays' = displays + 1
    /\ user' = [user EXCEPT ![c] = u]
    /\ hidden' = hidden \cup (IF u = Me THEN {c} ELSE {})
    /\ checkIfUserIsFollowed(c, u)
    /\ doubtful' = doubtful \ {c}
    /\ UNCHANGED <<following, waiting, main, isFollowed, title, taps>>

\* configureEditProfileFollowButton, at every reload of the profile of u.
displayHeader(u) ==
    /\ displays < MaxDisplays
    /\ displays' = displays + 1
    /\ user[Header] \in {NoUser, u}
    /\ user' = [user EXCEPT ![Header] = u]
    /\ \/ /\ u = Me
          /\ title' = [title EXCEPT ![Header] = "Edit Profile"]
          /\ UNCHANGED worker
       \/ /\ u # Me
          /\ checkIfUserIsFollowed(Header, u)
          /\ UNCHANGED title
    /\ doubtful' = doubtful \ {Header}
    /\ UNCHANGED <<following, waiting, main, isFollowed, hidden, taps>>

\* Mutant: the flag is not set.
setFollowedNoFlag(b, u, value) ==
    /\ taps < MaxTaps
    /\ taps' = taps + 1
    /\ worker' = Append(worker, [user |-> u, value |-> value])
    /\ title' = [title EXCEPT ![b] = titleFor(value)]
    /\ doubtful' = doubtful \cup {x \in Buttons : user[x] = u /\ x # b}
                            \cup (IF Checking(u) THEN {b} ELSE {})
    /\ UNCHANGED <<following, waiting, main, isFollowed, user, hidden, displays>>

\* User.follow and User.unfollow, started by a tap on b.
setFollowed(b, u, value) ==
    /\ taps < MaxTaps
    /\ taps' = taps + 1
    /\ isFollowed' = [isFollowed EXCEPT ![u] = value]
    /\ worker' = Append(worker, [user |-> u, value |-> value])
    /\ title' = [title EXCEPT ![b] = titleFor(value)]
    /\ doubtful' = doubtful \cup {x \in Buttons : user[x] = u /\ x # b}
                            \cup (IF Checking(u) THEN {b} ELSE {})
    /\ UNCHANGED <<following, waiting, main, user, hidden, displays>>

\* FollowLikeVC: the flag of the user decides.
handleFollowTapped(c) ==
    LET u == user[c]
    IN  /\ u # NoUser
        /\ c \notin hidden
        /\ setFollowed(c, u, ~isFollowed[u])

\* Mutant: the header's user is not looked at.
handleEditFollowTappedUnguarded ==
    setFollowed(Header, user[Header], title[Header] = "Follow")

\* UserProfileVC: the title decides; anything but "Follow" unfollows.
handleEditFollowTapped ==
    LET u == user[Header]
    IN  /\ u # NoUser
        /\ title[Header] # "Edit Profile"
        /\ setFollowed(Header, u, title[Header] = "Follow")

-----------------------------------------------------------------------------
(* The worker queue and the main queue.                                    *)

runWorker ==
    /\ worker # <<>>
    /\ worker' = Tail(worker)
    /\ LET w == Head(worker)
       IN  \/ /\ w \in Write
              /\ following' = IF w.value THEN following \cup {w.user}
                                         ELSE following \ {w.user}
              /\ UNCHANGED waiting
           \/ /\ w \in Check
              /\ waiting' = Append(waiting, w)
              /\ UNCHANGED following
    /\ UNCHANGED <<main, isFollowed, shown, displays, taps, doubtful>>

\* The client has the data of user-following/currentUid: the observers get
\* their snapshot in the order in which they were added.
snapshot ==
    /\ waiting # <<>>
    /\ waiting' = Tail(waiting)
    /\ LET k == Head(waiting)
       IN  main' = Append(main, [button |-> k.button, user |-> k.user,
                                 value |-> k.user \in following])
    /\ UNCHANGED <<following, worker, isFollowed, shown, displays, taps, doubtful>>

\* Mutant: the completion block sets the title for the opposite case.
titleAnsweredSwapped(followed) == titleFor(~followed)

titleAnswered(followed) == titleFor(followed)

\* The block of checkIfUserIsFollowed and the completion it calls.
checkDone ==
    /\ main # <<>>
    /\ main' = Tail(main)
    /\ LET a == Head(main)
       IN  /\ isFollowed' = [isFollowed EXCEPT ![a.user] = a.value]
           /\ title' = [title EXCEPT ![a.button] = titleAnswered(a.value)]
    /\ UNCHANGED <<following, worker, waiting, user, hidden, displays, taps,
                   doubtful>>

-----------------------------------------------------------------------------
Next ==
    \/ \E c \in Cells, u \in Users : displayCell(c, u)
    \/ \E u \in Users : displayHeader(u)
    \/ \E c \in Cells : handleFollowTapped(c)
    \/ handleEditFollowTapped
    \/ runWorker
    \/ snapshot
    \/ checkDone

Spec == Init /\ [][Next]_vars

\* The queues make progress and the server answers.
FairSpec == Spec /\ WF_vars(runWorker) /\ WF_vars(snapshot) /\ WF_vars(checkDone)

-----------------------------------------------------------------------------
\* Button b shows a user and its own check and all writes are through.
Settled(b) == user[b] # NoUser /\ ~Asking(b) /\ Writes = {}

\* A button tells what the database holds, although cells are reused while
\* answers for the user they showed before are on their way: every answer sets
\* the title of a cell that may show somebody else by then, but the answer for
\* the user it shows comes last.  Taps race the answers only where doubtful
\* says so.
ButtonTruthful ==
    \A b \in Buttons : Settled(b) /\ b \notin doubtful
        => (title[b] = "Following" <=> user[b] \in following)

\* A tap in the list follows where the button says "Follow" and unfollows where
\* it says "Following", although the flag of the User object decides and not the
\* title (with the same exceptions).
TapAsLabelled ==
    \A c \in Cells : Settled(c) /\ c \notin doubtful /\ ~Checking(user[c])
        => (title[c] = "Following" <=> isFollowed[user[c]])

\* The current user never comes to follow himself: only the hidden button of his
\* own cell and the "Edit Profile" title of his own header stand between a tap
\* and User.follow, while cells are reused and late answers overwrite titles.
NoSelfFollow == Me \notin following /\ \A w \in Writes : w.user # Me

\* No button shows "Loading" for ever.
ButtonLoads ==
    \A b \in Buttons : user[b] # NoUser ~> title[b] # "Loading"

=============================================================================
