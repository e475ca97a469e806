--------------------------- MODULE FollowButtonProofs ---------------------------
(***************************************************************************)
(* Proofs about FollowButton, for every set of users and of cells and      *)
(* every bound.                                                            *)
(***************************************************************************)
EXTENDS FollowButton, TLAPS

-----------------------------------------------------------------------------
(* The inductive invariants.                                               *)

\* Nothing that stands between the current user and User.follow is missing: his
\* cells are hidden, his header has no check under way that would overwrite its
\* title, and no write about him is queued.
SelfInv ==
    /\ Me \notin following
    /\ \A i \in 1..Len(worker) : worker[i] \in Write => worker[i].user # Me
    /\ \A c \in Cells : user[c] = Me => c \in hidden
    /\ user[Header] = Me => title[Header] = "Edit Profile"
    /\ user[Header] \in {NoUser, Me} =>
           /\ \A i \in 1..Len(worker) : worker[i] \in Check => worker[i].button # Header
           /\ \A i \in 1..Len(waiting) : waiting[i].button # Header
           /\ \A i \in 1..Len(main) : main[i].button # Header

\* None of the entries of s from the i-th on is in S.
None(s, i, S) == \A j \in i..Len(s) : s[j] \notin S

\* The i-th entry of s is the last one in S.
LastIn(s, i, S) == i \in 1..Len(s) /\ s[i] \in S /\ None(s, i + 1, S)

\* The writes about u; the checks and the answers that are about one of the
\* pairs <<button, user>> in K.
WritesOn(u)  == {w \in Write : w.user = u}
ChecksOf(K)  == {k \in Check : <<k.button, k.user>> \in K}
AnswersOf(K) == {a \in Answer : <<a.button, a.user>> \in K}

(* In what follows ws is the worker queue, cs the checks that wait, qs the   *)
(* answers on their way and f the users that are followed.                   *)

\* The last check of K is in the worker queue, behind every write about u.
InWorker(ws, K, u) ==
    \E i \in 1..Len(ws) : /\ LastIn(ws, i, ChecksOf(K))
                          /\ ws[i].user = u
                          /\ None(ws, i + 1, WritesOn(u))

\* The last check of K waits for its snapshot.
InWaiting(ws, cs, K, u) ==
    /\ None(ws, 1, WritesOn(u)) /\ None(ws, 1, ChecksOf(K))
    /\ \E i \in 1..Len(cs) : LastIn(cs, i, ChecksOf(K)) /\ cs[i].user = u

\* The last check of K is answered, with what the client holds.
InMain(ws, cs, qs, f, K, u) ==
    /\ None(ws, 1, WritesOn(u)) /\ None(ws, 1, ChecksOf(K)) /\ None(cs, 1, ChecksOf(K))
    /\ \E i \in 1..Len(qs) : /\ LastIn(qs, i, AnswersOf(K))
                             /\ qs[i].user = u
                             /\ qs[i].value <=> u \in f

\* What the queued writes will leave about u is val.
WillBe(ws, f, u, val) ==
    \/ None(ws, 1, WritesOn(u)) /\ (val <=> u \in f)
    \/ \E i \in 1..Len(ws) : LastIn(ws, i, WritesOn(u)) /\ (ws[i].value <=> val)

\* No check of K is under way, and val is what the writes will leave.
Done(ws, cs, qs, f, K, u, val) ==
    /\ None(ws, 1, ChecksOf(K)) /\ None(cs, 1, ChecksOf(K)) /\ None(qs, 1, AnswersOf(K))
    /\ WillBe(ws, f, u, val)

\* The checks of K will find out the truth about u, or val is it already.
Tracks(ws, cs, qs, f, K, u, val) ==
    \/ InWorker(ws, K, u)
    \/ InWaiting(ws, cs, K, u)
    \/ InMain(ws, cs, qs, f, K, u)
    \/ Done(ws, cs, qs, f, K, u, val)

\* The title of a button follows the database.
TitleTracks(b) ==
    user[b] # NoUser /\ b \notin doubtful =>
        Tracks(worker, waiting, main, following,
               {b} \X Users, user[b], title[b] = "Following")

\* The flag that taps on a cell go by follows the database.
FlagTracks(c) ==
    user[c] # NoUser /\ c \notin doubtful =>
        Tracks(worker, waiting, main, following,
               Buttons \X {user[c]}, user[c], isFollowed[user[c]])

ButtonInv ==
    /\ TypeOK
    /\ SelfInv
    /\ \A b \in Buttons : TitleTracks(b)
    /\ \A c \in Cells : FlagTracks(c)

-----------------------------------------------------------------------------
(* Facts about the queues.                                                 *)

\* What joining a queue leaves.
LEMMA AppendProperties ==
    ASSUME NEW S, NEW s \in Seq(S), NEW e \in S
    PROVE  /\ Append(s, e) \in Seq(S)
           /\ Len(s) \in Nat
           /\ Len(Append(s, e)) = Len(s) + 1
           /\ \A i \in 1..Len(s) : Append(s, e)[i] = s[i]
           /\ Append(s, e)[Len(s) + 1] = e
           /\ \A i \in 1..Len(Append(s, e)) : i \in 1..Len(s) \/ i = Len(s) + 1
  BY SMT

\* What leaving a queue leaves.
LEMMA TailProperties ==
    ASSUME NEW S, NEW s \in Seq(S), s # <<>>
    PROVE  /\ Tail(s) \in Seq(S)
           /\ Len(s) \in Nat /\ Len(s) >= 1 /\ 1 \in 1..Len(s)
           /\ Len(Tail(s)) = Len(s) - 1
           /\ \A i \in 1..Len(Tail(s)) : i + 1 \in 1..Len(s) /\ Tail(s)[i] = s[i + 1]
           /\ Head(s) = s[1]
           /\ Head(s) \in S
  BY SMT

\* A write is not a check.
LEMMA WritesAreNotChecks == \A w \in Write : w \notin Check
  BY DEF Write, Check

-----------------------------------------------------------------------------
(* Type correctness.                                                       *)

\* Every variable has its type at the start.
LEMMA InitTypeOK == Init => TypeOK
  <1> SUFFICES ASSUME Init PROVE TypeOK
    OBVIOUS
  <1>1. isFollowed \in [Users -> BOOLEAN]
    BY DEF Init
  <1>2. title \in [Buttons -> Titles] /\ user \in [Buttons -> Users \cup {NoUser}]
    BY DEF Init, Titles
  <1>3. worker \in Seq(Write \cup Check) /\ waiting \in Seq(Check) /\ main \in Seq(Answer)
    BY DEF Init
  <1>4. displays \in 0..MaxDisplays /\ taps \in 0..MaxTaps
    BY BoundsAssumption DEF Init
  <1>5. QED
    BY <1>1, <1>2, <1>3, <1>4 DEF Init, TypeOK

\* Asking about a user queues a check.
LEMMA CheckTypes ==
    ASSUME TypeOK, NEW b \in Buttons, NEW u \in Users, checkIfUserIsFollowed(b, u)
    PROVE  /\ [button |-> b, user |-> u] \in Check
           /\ worker' = Append(worker, [button |-> b, user |-> u])
           /\ worker' \in Seq(Write \cup Check)
  <1>1. [button |-> b, user |-> u] \in Check
    BY DEF Check
  <1>2. QED
    BY <1>1, AppendProperties DEF checkIfUserIsFollowed, TypeOK

\* A tap queues a write.
LEMMA TapTypes ==
    ASSUME TypeOK, NEW b \in Buttons, NEW u \in Users, NEW x \in BOOLEAN,
           setFollowed(b, u, x)
    PROVE  /\ [user |-> u, value |-> x] \in Write
           /\ worker' = Append(worker, [user |-> u, value |-> x])
           /\ worker' \in Seq(Write \cup Check)
           /\ TypeOK'
  <1>1. [user |-> u, value |-> x] \in Write
    BY DEF Write
  <1>2. worker' = Append(worker, [user |-> u, value |-> x])
    BY DEF setFollowed
  <1>3. worker' \in Seq(Write \cup Check)
    BY <1>1, <1>2, AppendProperties DEF TypeOK
  <1>4. isFollowed' \in [Users -> BOOLEAN]
    BY DEF setFollowed, TypeOK
  <1>5. title' \in [Buttons -> Titles]
    BY DEF setFollowed, titleFor, Titles, TypeOK
  <1>6. taps' \in 0..MaxTaps /\ doubtful' \subseteq Buttons
    BY BoundsAssumption DEF setFollowed, TypeOK
  <1>7. UNCHANGED <<following, waiting, main, user, hidden, displays>>
    BY DEF setFollowed
  <1>8. QED
    BY <1>1, <1>2, <1>3, <1>4, <1>5, <1>6, <1>7 DEF TypeOK

\* Every step of the screens and the queues keeps the types.
LEMMA StepTypeOK == TypeOK /\ [Next]_vars => TypeOK'
  <1> SUFFICES ASSUME TypeOK, [Next]_vars PROVE TypeOK'
    OBVIOUS
  <1> Header \in Buttons /\ Cells \subseteq Buttons
    BY DEF Buttons
  <1>1. ASSUME NEW c \in Cells, NEW u \in Users, displayCell(c, u)
        PROVE  TypeOK'
    <2>1. worker' \in Seq(Write \cup Check)
      BY <1>1, CheckTypes DEF displayCell
    <2>2. displays' \in 0..MaxDisplays
      BY <1>1, BoundsAssumption DEF displayCell, TypeOK
    <2>3. /\ user' \in [Buttons -> Users \cup {NoUser}]
          /\ hidden' \subseteq Cells
          /\ doubtful' \subseteq Buttons
      BY <1>1 DEF displayCell, TypeOK
    <2>4. UNCHANGED <<following, waiting, main, isFollowed, title, taps>>
      BY <1>1 DEF displayCell
    <2>5. QED
      BY <2>1, <2>2, <2>3, <2>4 DEF TypeOK
  <1>2. ASSUME NEW u \in Users, displayHeader(u)
        PROVE  TypeOK'
    <2>1. worker' \in Seq(Write \cup Check)
      BY <1>2, CheckTypes DEF displayHeader, TypeOK
    <2>2. displays' \in 0..MaxDisplays
      <3>1. displays < MaxDisplays /\ displays' = displays + 1
        BY <1>2 DEF displayHeader
      <3>2. QED
        BY <3>1, BoundsAssumption DEF TypeOK
    <2>3. /\ user' \in [Buttons -> Users \cup {NoUser}]
          /\ title' \in [Buttons -> Titles]
          /\ doubtful' \subseteq Buttons
      BY <1>2 DEF displayHeader, TypeOK, Titles
    <2>4. UNCHANGED <<following, waiting, main, isFollowed, hidden, taps>>
      BY <1>2 DEF displayHeader
    <2>5. QED
      BY <2>1, <2>2, <2>3, <2>4 DEF TypeOK
  <1>3. ASSUME NEW c \in Cells, handleFollowTapped(c)
        PROVE  TypeOK'
    <2>1. user[c] \in Users
      BY <1>3 DEF handleFollowTapped, TypeOK
    <2>2. (~isFollowed[user[c]]) \in BOOLEAN
      BY <2>1 DEF TypeOK
    <2>3. QED
      BY <1>3, <2>1, <2>2, TapTypes DEF handleFollowTapped
  <1>4. CASE handleEditFollowTapped
    <2>1. user[Header] \in Users
      BY <1>4 DEF handleEditFollowTapped, TypeOK
    <2>2. (title[Header] = "Follow") \in BOOLEAN
      OBVIOUS
    <2>3. QED
      BY <1>4, <2>1, <2>2, TapTypes DEF handleEditFollowTapped
  <1>5. CASE runWorker
    <2>1. worker' \in Seq(Write \cup Check) /\ Head(worker) \in Write \cup Check
      BY <1>5, TailProperties DEF runWorker, TypeOK
    <2>2. following' \subseteq Users
      BY <1>5, <2>1 DEF runWorker, TypeOK, Write
    <2>3. waiting' \in Seq(Check)
      <3>1. \/ waiting' = waiting
            \/ Head(worker) \in Check /\ waiting' = Append(waiting, Head(worker))
        BY <1>5 DEF runWorker
      <3>2. QED
        BY <3>1, AppendProperties DEF TypeOK
    <2>4. UNCHANGED <<main, isFollowed, user, title, hidden, displays, taps, doubtful>>
      BY <1>5 DEF runWorker, shown
    <2>5. QED
      BY <2>1, <2>2, <2>3, <2>4 DEF TypeOK
  <1>6. CASE snapshot
    <2>1. waiting' \in Seq(Check) /\ Head(waiting) \in Check
      BY <1>6, TailProperties DEF snapshot, TypeOK
    <2>2. main' = Append(main, [button |-> Head(waiting).button, user |-> Head(waiting).user,
                                value |-> Head(waiting).user \in following])
      BY <1>6 DEF snapshot
    <2>3. [button |-> Head(waiting).button, user |-> Head(waiting).user,
           value |-> Head(waiting).user \in following] \in Answer
      BY <2>1 DEF Check, Answer
    <2>4. main' \in Seq(Answer)
      BY <2>2, <2>3, AppendProperties DEF TypeOK
    <2>5. UNCHANGED <<following, worker, isFollowed, user, title, hidden, displays, taps,
                      doubtful>>
      BY <1>6 DEF snapshot, shown
    <2>6. QED
      BY <2>1, <2>4, <2>5 DEF TypeOK
  <1>7. CASE checkDone
    <2>1. main' \in Seq(Answer) /\ Head(main) \in Answer
      BY <1>7, TailProperties DEF checkDone, TypeOK
    <2>2. isFollowed' \in [Users -> BOOLEAN]
      BY <1>7, <2>1 DEF checkDone, TypeOK, Answer
    <2>3. title' \in [Buttons -> Titles]
      BY <1>7, <2>1 DEF checkDone, TypeOK, Answer, titleAnswered, titleFor, Titles
    <2>4. UNCHANGED <<following, worker, waiting, user, hidden, displays, taps, doubtful>>
      BY <1>7 DEF checkDone
    <2>5. QED
      BY <2>1, <2>2, <2>3, <2>4 DEF TypeOK
  <1>8. CASE UNCHANGED vars
    BY <1>8 DEF vars, queues, shown, TypeOK
  <1>9. QED
    BY <1>1, <1>2, <1>3, <1>4, <1>5, <1>6, <1>7, <1>8 DEF Next

\* Every variable of FollowButton keeps its type: in particular no queue ever
\* holds work about somebody who is not in the list.
THEOREM TypeCorrect == Spec => []TypeOK
  BY InitTypeOK, StepTypeOK, PTL DEF Spec

-----------------------------------------------------------------------------
(* The current user cannot follow himself.                                 *)

\* At the start nothing is shown and nothing is queued.
LEMMA InitSelfInv == Init => SelfInv
  BY HeaderAssumption, UsersAssumption DEF Init, SelfInv, Buttons

\* Queueing a check keeps SelfInv, unless it is a check of the header while that
\* shows nobody or the current user.
LEMMA CheckKeepsSelf ==
    ASSUME TypeOK, SelfInv, NEW b \in Buttons, NEW u \in Users,
           checkIfUserIsFollowed(b, u), UNCHANGED <<waiting, main>>,
           user'[Header] = user[Header] \/ user'[Header] \notin {NoUser, Me},
           b = Header => user'[Header] \notin {NoUser, Me}
    PROVE  /\ \A i \in 1..Len(worker') : worker'[i] \in Write => worker'[i].user # Me
           /\ user'[Header] \in {NoUser, Me} =>
                  /\ \A i \in 1..Len(worker') : worker'[i] \in Check => worker'[i].button # Header
                  /\ \A i \in 1..Len(waiting') : waiting'[i].button # Header
                  /\ \A i \in 1..Len(main') : main'[i].button # Header
  <1> DEFINE k == [button |-> b, user |-> u]
  <1>1. k \in Check /\ k.button = b /\ worker' = Append(worker, k)
    BY CheckTypes
  <1>2. worker \in Seq(Write \cup Check) /\ k \in Write \cup Check
    BY <1>1 DEF TypeOK
  <1>3. /\ \A i \in 1..Len(worker) : worker'[i] = worker[i]
        /\ worker'[Len(worker) + 1] = k
        /\ \A i \in 1..Len(worker') : i \in 1..Len(worker) \/ i = Len(worker) + 1
    BY <1>1, <1>2, AppendProperties
  <1> HIDE DEF k
  <1>4. k \notin Write
    BY <1>1, WritesAreNotChecks
  <1>5. \A i \in 1..Len(worker') : worker'[i] \in Write => worker'[i].user # Me
    BY <1>3, <1>4 DEF SelfInv
  <1>6. QED
    BY <1>1, <1>3, <1>5 DEF SelfInv

\* A tap on a button of somebody else keeps SelfInv.
LEMMA TapKeepsSelf ==
    ASSUME TypeOK, SelfInv, NEW b \in Buttons, NEW u \in Users, NEW x \in BOOLEAN,
           setFollowed(b, u, x), u = user[b], u # Me
    PROVE  SelfInv'
  <1> DEFINE w == [user |-> u, value |-> x]
  <1>1. w \in Write /\ w.user = u /\ worker' = Append(worker, w)
    BY TapTypes
  <1>2. worker \in Seq(Write \cup Check) /\ w \in Write \cup Check
    BY <1>1 DEF TypeOK
  <1>3. /\ \A i \in 1..Len(worker) : worker'[i] = worker[i]
        /\ worker'[Len(worker) + 1] = w
        /\ \A i \in 1..Len(worker') : i \in 1..Len(worker) \/ i = Len(worker) + 1
    BY <1>1, <1>2, AppendProperties
  <1> HIDE DEF w
  <1>4. w \notin Check
    BY <1>1, WritesAreNotChecks
  <1>5. UNCHANGED <<following, waiting, main, user, hidden>>
    BY DEF setFollowed
  <1>6. user[Header] = Me => title'[Header] = title[Header]
    BY DEF setFollowed, TypeOK
  <1>7. \A i \in 1..Len(worker') : worker'[i] \in Write => worker'[i].user # Me
    BY <1>1, <1>3 DEF SelfInv
  <1>8. user[Header] \in {NoUser, Me} =>
            \A i \in 1..Len(worker') : worker'[i] \in Check => worker'[i].button # Header
    BY <1>3, <1>4 DEF SelfInv
  <1>9. QED
    BY <1>5, <1>6, <1>7, <1>8 DEF SelfInv

\* Every step keeps the current user's buttons out of his own reach.
LEMMA StepSelfInv == TypeOK /\ SelfInv /\ [Next]_vars => SelfInv'
  <1> SUFFICES ASSUME TypeOK, SelfInv, [Next]_vars PROVE SelfInv'
    OBVIOUS
  <1> Header \in Buttons /\ Cells \subseteq Buttons /\ Header \notin Cells /\ Me # NoUser
    BY HeaderAssumption, UsersAssumption DEF Buttons
  <1>1. ASSUME NEW c \in Cells, NEW u \in Users, displayCell(c, u)
        PROVE  SelfInv'
    <2>1. /\ user' = [user EXCEPT ![c] = u]
          /\ hidden' = hidden \cup (IF u = Me THEN {c} ELSE {})
          /\ checkIfUserIsFollowed(c, u)
          /\ UNCHANGED <<following, waiting, main, title>>
      BY <1>1 DEF displayCell
    <2>2. user'[Header] = user[Header] /\ c # Header
      BY <2>1 DEF TypeOK
    <2>3. \A d \in Cells : user'[d] = Me => d \in hidden'
      BY <2>1 DEF SelfInv, TypeOK
    <2>4. QED
      BY <2>1, <2>2, <2>3, CheckKeepsSelf DEF SelfInv
  <1>2. ASSUME NEW u \in Users, displayHeader(u)
        PROVE  SelfInv'
    <2>1. /\ user[Header] \in {NoUser, u}
          /\ user' = [user EXCEPT ![Header] = u]
          /\ UNCHANGED <<following, waiting, main, hidden>>
      BY <1>2 DEF displayHeader
    <2>2. user'[Header] = u /\ \A c \in Cells : user'[c] = user[c]
      BY <2>1 DEF TypeOK
    <2>3. CASE u = Me
      <3>1. title' = [title EXCEPT ![Header] = "Edit Profile"] /\ UNCHANGED worker
        BY <1>2, <2>3 DEF displayHeader
      <3>2. title'[Header] = "Edit Profile"
        BY <3>1 DEF TypeOK
      <3>3. user[Header] \in {NoUser, Me}
        BY <2>1, <2>3
      <3>4. QED
        BY <2>1, <2>2, <3>1, <3>2, <3>3 DEF SelfInv
    <2>4. CASE u # Me
      <3>1. checkIfUserIsFollowed(Header, u) /\ UNCHANGED title
        BY <1>2, <2>4 DEF displayHeader
      <3>2. u \notin {NoUser, Me}
        BY <2>4, UsersAssumption
      <3>3. QED
        BY <2>1, <2>2, <3>1, <3>2, CheckKeepsSelf DEF SelfInv
    <2>5. QED
      BY <2>3, <2>4
  <1>3. ASSUME NEW c \in Cells, handleFollowTapped(c)
        PROVE  SelfInv'
    <2>1. user[c] \in Users /\ user[c] # Me /\ setFollowed(c, user[c], ~isFollowed[user[c]])
      BY <1>3 DEF handleFollowTapped, TypeOK, SelfInv
    <2>2. (~isFollowed[user[c]]) \in BOOLEAN
      BY <2>1 DEF TypeOK
    <2>3. QED
      BY <2>1, <2>2, TapKeepsSelf
  <1>4. CASE handleEditFollowTapped
    <2>1. /\ user[Header] \in Users /\ user[Header] # Me
          /\ setFollowed(Header, user[Header], title[Header] = "Follow")
      BY <1>4 DEF handleEditFollowTapped, TypeOK, SelfInv
    <2>2. (title[Header] = "Follow") \in BOOLEAN
      OBVIOUS
    <2>3. QED
      BY <2>1, <2>2, TapKeepsSelf
  <1>5. CASE runWorker
    <2>1. /\ worker # <<>> /\ worker' = Tail(worker)
          /\ UNCHANGED <<main, user, title, hidden>>
      BY <1>5 DEF runWorker, shown
    <2>2. /\ 1 \in 1..Len(worker)
          /\ \A i \in 1..Len(worker') : i + 1 \in 1..Len(worker) /\ worker'[i] = worker[i + 1]
          /\ Head(worker) = worker[1]
      BY <2>1, TailProperties DEF TypeOK
    <2>3. Me \notin following'
      BY <1>5, <2>2 DEF runWorker, SelfInv
    <2>4. /\ \A i \in 1..Len(worker') : worker'[i] \in Write => worker'[i].user # Me
          /\ user[Header] \in {NoUser, Me} =>
                 \A i \in 1..Len(worker') : worker'[i] \in Check => worker'[i].button # Header
      BY <2>2 DEF SelfInv
    <2>5. ASSUME user[Header] \in {NoUser, Me}, NEW i \in 1..Len(waiting')
          PROVE  waiting'[i].button # Header
      <3>1. CASE waiting' = waiting
        BY <2>5, <3>1 DEF SelfInv
      <3>2. CASE worker[1] \in Check /\ waiting' = Append(waiting, worker[1])
        <4>1. waiting \in Seq(Check)
          BY DEF TypeOK
        <4>2. /\ \A j \in 1..Len(waiting) : waiting'[j] = waiting[j]
              /\ waiting'[Len(waiting) + 1] = worker[1]
              /\ i \in 1..Len(waiting) \/ i = Len(waiting) + 1
          BY <3>2, <4>1, AppendProperties
        <4>3. worker[1].button # Header
          BY <2>2, <2>5, <3>2 DEF SelfInv
        <4>4. QED
          BY <2>5, <4>2, <4>3 DEF SelfInv
      <3>3. QED
        BY <1>5, <2>2, <3>1, <3>2 DEF runWorker
    <2>6. QED
      BY <2>1, <2>3, <2>4, <2>5 DEF SelfInv
  <1>6. CASE snapshot
    <2>1. /\ waiting # <<>> /\ waiting' = Tail(waiting)
          /\ UNCHANGED <<following, worker, user, title, hidden>>
      BY <1>6 DEF snapshot, shown
    <2>2. /\ 1 \in 1..Len(waiting)
          /\ \A i \in 1..Len(waiting') : i + 1 \in 1..Len(waiting) /\ waiting'[i] = waiting[i + 1]
          /\ Head(waiting) = waiting[1]
          /\ waiting[1] \in Check
      BY <2>1, TailProperties DEF TypeOK
    <2> DEFINE a == [button |-> waiting[1].button, user |-> waiting[1].user,
                     value |-> waiting[1].user \in following]
    <2>3. a \in Answer /\ a.button = waiting[1].button /\ main' = Append(main, a)
      BY <1>6, <2>2 DEF snapshot, Check, Answer
    <2> HIDE DEF a
    <2>4. ASSUME user[Header] \in {NoUser, Me}
          PROVE  /\ \A i \in 1..Len(waiting') : waiting'[i].button # Header
                 /\ \A i \in 1..Len(main') : main'[i].button # Header
      <3>1. main \in Seq(Answer)
        BY DEF TypeOK
      <3>2. /\ \A j \in 1..Len(main) : main'[j] = main[j]
            /\ main'[Len(main) + 1] = a
            /\ \A j \in 1..Len(main') : j \in 1..Len(main) \/ j = Len(main) + 1
        BY <2>3, <3>1, AppendProperties
      <3>3. \A i \in 1..Len(waiting) : waiting[i].button # Header
        BY <2>4 DEF SelfInv
      <3>4. \A i \in 1..Len(waiting') : waiting'[i].button # Header
        BY <2>2, <3>3
      <3>5. a.button # Header /\ \A i \in 1..Len(main) : main[i].button # Header
        BY <2>2, <2>3, <2>4, <3>3 DEF SelfInv
      <3>6. QED
        BY <3>2, <3>4, <3>5
    <2>5. QED
      BY <2>1, <2>4 DEF SelfInv
  <1>7. CASE checkDone
    <2>1. /\ main # <<>> /\ main' = Tail(main)
          /\ title' = [title EXCEPT ![Head(main).button] = titleAnswered(Head(main).value)]
          /\ UNCHANGED <<following, worker, waiting, user, hidden>>
      BY <1>7 DEF checkDone
    <2>2. /\ 1 \in 1..Len(main)
          /\ \A i \in 1..Len(main') : i + 1 \in 1..Len(main) /\ main'[i] = main[i + 1]
          /\ Head(main) = main[1]
      BY <2>1, TailProperties DEF TypeOK
    <2>3. user[Header] = Me => title'[Header] = "Edit Profile"
      <3> SUFFICES ASSUME user[Header] = Me PROVE title'[Header] = "Edit Profile"
        OBVIOUS
      <3>1. Head(main).button # Header /\ title[Header] = "Edit Profile"
        BY <2>2 DEF SelfInv
      <3>2. QED
        BY <2>1, <3>1 DEF TypeOK
    <2>4. user[Header] \in {NoUser, Me} => \A i \in 1..Len(main') : main'[i].button # Header
      BY <2>2 DEF SelfInv
    <2>5. QED
      BY <2>1, <2>3, <2>4 DEF SelfInv
  <1>8. CASE UNCHANGED vars
    BY <1>8 DEF vars, queues, shown, SelfInv
  <1>9. QED
    BY <1>1, <1>2, <1>3, <1>4, <1>5, <1>6, <1>7, <1>8 DEF Next

\* However cells are reused and however late answers arrive, no tap of the
\* current user reaches User.follow for himself: neither the relation nor a
\* queued write ever names him.
THEOREM SelfSafe == Spec => []NoSelfFollow
  <1>1. Spec => [](TypeOK /\ SelfInv)
    BY InitTypeOK, InitSelfInv, StepTypeOK, StepSelfInv, PTL DEF Spec
  <1>2. TypeOK /\ SelfInv => NoSelfFollow
    <2> SUFFICES ASSUME TypeOK, SelfInv, NEW w \in Writes PROVE w.user # Me
      BY DEF SelfInv, NoSelfFollow
    <2>1. PICK i \in DOMAIN worker : w = worker[i]
      BY DEF Writes, Elements
    <2>2. i \in 1..Len(worker) /\ w \in Write
      BY DEF Writes, TypeOK
    <2>3. QED
      BY <2>1, <2>2 DEF SelfInv
  <1>3. QED
    BY <1>1, <1>2, PTL

-----------------------------------------------------------------------------
(* How the entries of a queue move.                                        *)

\* Entries move up when the first one leaves.
LEMMA NoneTail ==
    ASSUME NEW T, NEW s \in Seq(T), s # <<>>, NEW S, NEW i \in Nat \ {0}
    PROVE  None(Tail(s), i, S) <=> None(s, i + 1, S)
  <1>1. /\ Len(s) \in Nat /\ Len(Tail(s)) = Len(s) - 1
        /\ \A k \in 1..Len(Tail(s)) : Tail(s)[k] = s[k + 1]
    BY TailProperties
  <1>2. ASSUME None(Tail(s), i, S), NEW j \in (i + 1)..Len(s)
        PROVE  s[j] \notin S
    <2>1. j - 1 \in i..Len(Tail(s)) /\ j - 1 \in 1..Len(Tail(s)) /\ (j - 1) + 1 = j
      BY <1>1
    <2>2. QED
      BY <1>1, <1>2, <2>1 DEF None
  <1>3. ASSUME None(s, i + 1, S), NEW j \in i..Len(Tail(s))
        PROVE  Tail(s)[j] \notin S
    <2>1. j + 1 \in (i + 1)..Len(s) /\ j \in 1..Len(Tail(s))
      BY <1>1
    <2>2. QED
      BY <1>1, <1>3, <2>1 DEF None
  <1>4. QED
    BY <1>2, <1>3 DEF None

\* None from the first on is not the first and none from the second on.
LEMMA NoneFirst ==
    ASSUME NEW T, NEW s \in Seq(T), s # <<>>, NEW S
    PROVE  None(s, 1, S) <=> s[1] \notin S /\ None(Tail(s), 1, S)
  <1>1. Len(s) \in Nat /\ 1 \in 1..Len(s)
    BY TailProperties
  <1>2. \A j \in 1..Len(s) : j = 1 \/ j \in (1 + 1)..Len(s)
    BY <1>1
  <1>3. \A j \in (1 + 1)..Len(s) : j \in 1..Len(s)
    BY <1>1
  <1>4. None(s, 1, S) <=> s[1] \notin S /\ None(s, 1 + 1, S)
    BY <1>1, <1>2, <1>3 DEF None
  <1>5. QED
    BY <1>4, NoneTail

\* A new entry counts, and the others stay.
LEMMA NoneAppend ==
    ASSUME NEW T, NEW s \in Seq(T), NEW e \in T, NEW S, NEW i \in 1..(Len(s) + 1)
    PROVE  None(Append(s, e), i, S) <=> None(s, i, S) /\ e \notin S
  <1>1. /\ Len(s) \in Nat /\ Len(Append(s, e)) = Len(s) + 1
        /\ \A k \in 1..Len(s) : Append(s, e)[k] = s[k]
        /\ Append(s, e)[Len(s) + 1] = e
    BY AppendProperties
  <1>2. /\ \A j \in i..Len(s) : j \in i..(Len(s) + 1) /\ j \in 1..Len(s)
        /\ Len(s) + 1 \in i..(Len(s) + 1)
        /\ \A j \in i..(Len(s) + 1) : j \in i..Len(s) \/ j = Len(s) + 1
    BY <1>1
  <1>3. QED
    BY <1>1, <1>2 DEF None

\* The last entry in S moves up when another one leaves.
LEMMA LastTail ==
    ASSUME NEW T, NEW s \in Seq(T), s # <<>>, NEW S, NEW i, LastIn(s, i, S), i # 1
    PROVE  /\ i - 1 \in 1..Len(Tail(s))
           /\ LastIn(Tail(s), i - 1, S)
           /\ Tail(s)[i - 1] = s[i]
           /\ \A R : None(s, i + 1, R) => None(Tail(s), (i - 1) + 1, R)
  <1>1. /\ Len(s) \in Nat /\ Len(Tail(s)) = Len(s) - 1
        /\ \A k \in 1..Len(Tail(s)) : Tail(s)[k] = s[k + 1]
    BY TailProperties
  <1>2. i - 1 \in 1..Len(Tail(s)) /\ (i - 1) + 1 = i /\ i \in Nat \ {0}
    BY <1>1 DEF LastIn
  <1>3. Tail(s)[i - 1] = s[i]
    BY <1>1, <1>2
  <1>4. \A R : None(s, i + 1, R) => None(Tail(s), (i - 1) + 1, R)
    BY <1>2, NoneTail
  <1>5. QED
    BY <1>2, <1>3, <1>4 DEF LastIn

\* When the last entry in S leaves, none is left; what held behind it, holds.
LEMMA LastLeaves ==
    ASSUME NEW T, NEW s \in Seq(T), s # <<>>, NEW S, LastIn(s, 1, S)
    PROVE  /\ None(Tail(s), 1, S)
           /\ \A R : None(s, 1 + 1, R) => None(Tail(s), 1, R)
  BY NoneTail DEF LastIn

\* An entry that is not in S does not change which one is last.
LEMMA LastAppendOther ==
    ASSUME NEW T, NEW s \in Seq(T), NEW e \in T, NEW S, e \notin S,
           NEW i, LastIn(s, i, S)
    PROVE  /\ i \in 1..Len(Append(s, e))
           /\ LastIn(Append(s, e), i, S)
           /\ Append(s, e)[i] = s[i]
           /\ \A R : None(s, i + 1, R) /\ e \notin R => None(Append(s, e), i + 1, R)
  <1>1. /\ Len(s) \in Nat /\ Len(Append(s, e)) = Len(s) + 1
        /\ \A k \in 1..Len(s) : Append(s, e)[k] = s[k]
    BY AppendProperties
  <1>2. i \in 1..Len(s) /\ i \in 1..Len(Append(s, e)) /\ i + 1 \in 1..(Len(s) + 1)
    BY <1>1 DEF LastIn
  <1>3. \A R : None(s, i + 1, R) /\ e \notin R => None(Append(s, e), i + 1, R)
    BY <1>2, NoneAppend
  <1>4. QED
    BY <1>1, <1>2, <1>3 DEF LastIn

\* A new entry in S is the last one.
LEMMA LastAppendNew ==
    ASSUME NEW T, NEW s \in Seq(T), NEW e \in T, NEW S, e \in S
    PROVE  /\ Len(s) + 1 \in 1..Len(Append(s, e))
           /\ LastIn(Append(s, e), Len(s) + 1, S)
           /\ Append(s, e)[Len(s) + 1] = e
           /\ \A R : None(Append(s, e), (Len(s) + 1) + 1, R)
  <1>1. /\ Len(s) \in Nat /\ Len(Append(s, e)) = Len(s) + 1
        /\ Append(s, e)[Len(s) + 1] = e
    BY AppendProperties
  <1>2. \A j \in ((Len(s) + 1) + 1)..Len(Append(s, e)) : FALSE
    BY <1>1
  <1>3. \A R : None(Append(s, e), (Len(s) + 1) + 1, R)
    BY <1>2 DEF None
  <1>4. Len(s) + 1 \in 1..Len(Append(s, e))
    BY <1>1
  <1>5. QED
    BY <1>1, <1>3, <1>4 DEF LastIn

-----------------------------------------------------------------------------
(* What the queues do to a tracked user.                                   *)

Work == Write \cup Check

\* Which entries are in which of the sets.
LEMMA SetFacts ==
    ASSUME NEW K, NEW u
    PROVE  /\ \A w \in Write : w \notin ChecksOf(K)
           /\ \A k \in Check : k \notin WritesOn(u)
           /\ \A w \in Write : w \in WritesOn(u) <=> w.user = u
           /\ \A k \in Check : k \in ChecksOf(K) <=> <<k.button, k.user>> \in K
           /\ \A a \in Answer : a \in AnswersOf(K) <=> <<a.button, a.user>> \in K
  BY WritesAreNotChecks DEF ChecksOf, WritesOn, AnswersOf

\* The worker queue applies a write.
LEMMA TracksWrite ==
    ASSUME NEW ws \in Seq(Work), ws # <<>>, NEW cs, NEW qs, NEW f, NEW g, NEW K, NEW u,
           NEW val, ws[1] \in Write,
           g = IF ws[1].value THEN f \cup {ws[1].user} ELSE f \ {ws[1].user},
           Tracks(ws, cs, qs, f, K, u, val)
    PROVE  Tracks(Tail(ws), cs, qs, g, K, u, val)
  <1> DEFINE C == ChecksOf(K)
             W == WritesOn(u)
  <1>1. ws[1] \notin C
    BY SetFacts
  <1> HIDE DEF C, W
  <1>2. ASSUME NEW i \in 1..Len(ws), LastIn(ws, i, C), ws[i].user = u, None(ws, i + 1, W)
        PROVE  InWorker(Tail(ws), K, u)
    <2>1. i # 1
      BY <1>1, <1>2 DEF LastIn
    <2>2. /\ i - 1 \in 1..Len(Tail(ws)) /\ LastIn(Tail(ws), i - 1, C)
          /\ Tail(ws)[i - 1] = ws[i] /\ None(Tail(ws), (i - 1) + 1, W)
      BY <1>2, <2>1, LastTail
    <2>3. QED
      BY <1>2, <2>2 DEF InWorker, C, W
  <1>3. ASSUME None(ws, 1, W)
        PROVE  None(Tail(ws), 1, W) /\ (u \in g <=> u \in f)
    <2>1. None(Tail(ws), 1, W) /\ ws[1] \notin W
      BY <1>3, NoneFirst
    <2>2. ws[1].user # u
      BY <2>1, SetFacts DEF W
    <2>3. QED
      BY <2>1, <2>2
  <1>4. None(ws, 1, C) => None(Tail(ws), 1, C)
    BY NoneFirst
  <1>5. ASSUME NEW i \in 1..Len(ws), LastIn(ws, i, W), ws[i].value <=> val
        PROVE  WillBe(Tail(ws), g, u, val)
    <2>1. CASE i # 1
      <3>1. /\ i - 1 \in 1..Len(Tail(ws)) /\ LastIn(Tail(ws), i - 1, W)
            /\ Tail(ws)[i - 1] = ws[i]
        BY <1>5, <2>1, LastTail
      <3>2. QED
        BY <1>5, <3>1 DEF WillBe, W
    <2>2. CASE i = 1
      <3>1. None(Tail(ws), 1, W) /\ ws[1] \in W
        BY <1>5, <2>2, LastLeaves DEF LastIn
      <3>2. ws[1].user = u
        BY <3>1 DEF W, WritesOn
      <3>3. u \in g <=> ws[1].value
        BY <3>2
      <3>4. QED
        BY <1>5, <2>2, <3>1, <3>3 DEF WillBe, W
    <2>3. QED
      BY <2>1, <2>2
  <1>6. CASE InWorker(ws, K, u)
    BY <1>2, <1>6 DEF InWorker, Tracks, C, W
  <1>7. CASE InWaiting(ws, cs, K, u)
    <2>1. InWaiting(Tail(ws), cs, K, u)
      BY <1>3, <1>4, <1>7 DEF InWaiting, C, W
    <2>2. QED
      BY <2>1 DEF Tracks
  <1>8. CASE InMain(ws, cs, qs, f, K, u)
    <2>1. InMain(Tail(ws), cs, qs, g, K, u)
      BY <1>3, <1>4, <1>8 DEF InMain, C, W
    <2>2. QED
      BY <2>1 DEF Tracks
  <1>9. CASE Done(ws, cs, qs, f, K, u, val)
    <2>1. WillBe(ws, f, u, val) => WillBe(Tail(ws), g, u, val)
      BY <1>3, <1>5 DEF WillBe, W
    <2>2. Done(Tail(ws), cs, qs, g, K, u, val)
      BY <1>4, <1>9, <2>1 DEF Done, C
    <2>3. QED
      BY <2>2 DEF Tracks
  <1>10. QED
    BY <1>6, <1>7, <1>8, <1>9 DEF Tracks

\* The worker queue adds the observer of a check.
LEMMA TracksCheck ==
    ASSUME NEW ws \in Seq(Work), ws # <<>>, NEW cs \in Seq(Check), NEW qs, NEW f, NEW K,
           NEW u, NEW val, ws[1] \in Check, Tracks(ws, cs, qs, f, K, u, val)
    PROVE  Tracks(Tail(ws), Append(cs, ws[1]), qs, f, K, u, val)
  <1> DEFINE C == ChecksOf(K)
             W == WritesOn(u)
             ds == Append(cs, ws[1])
  <1>1. ws[1] \notin W
    BY SetFacts
  <1> HIDE DEF C, W
  <1>2. None(ws, 1, W) => None(Tail(ws), 1, W)
    BY NoneFirst
  <1>3. ASSUME None(ws, 1, C)
        PROVE  /\ None(Tail(ws), 1, C) /\ ws[1] \notin C
               /\ None(cs, 1, C) => None(ds, 1, C)
    <2>1. None(Tail(ws), 1, C) /\ ws[1] \notin C
      BY <1>3, NoneFirst
    <2>2. 1 \in 1..(Len(cs) + 1)
      BY AppendProperties
    <2>3. QED
      BY <2>1, <2>2, NoneAppend
  <1>4. CASE InWorker(ws, K, u)
    <2>1. PICK i \in 1..Len(ws) : /\ LastIn(ws, i, C) /\ ws[i].user = u
                                  /\ None(ws, i + 1, W)
      BY <1>4 DEF InWorker, C, W
    <2>2. CASE i # 1
      <3>1. /\ i - 1 \in 1..Len(Tail(ws)) /\ LastIn(Tail(ws), i - 1, C)
            /\ Tail(ws)[i - 1] = ws[i] /\ None(Tail(ws), (i - 1) + 1, W)
        BY <2>1, <2>2, LastTail
      <3>2. InWorker(Tail(ws), K, u)
        BY <2>1, <3>1 DEF InWorker, C, W
      <3>3. QED
        BY <3>2 DEF Tracks
    <2>3. CASE i = 1
      <3>1. None(Tail(ws), 1, C) /\ None(Tail(ws), 1, W) /\ ws[1] \in C
        BY <2>1, <2>3, LastLeaves DEF LastIn
      <3>2. /\ Len(cs) + 1 \in 1..Len(ds) /\ LastIn(ds, Len(cs) + 1, C)
            /\ ds[Len(cs) + 1] = ws[1]
        BY <3>1, LastAppendNew
      <3>3. InWaiting(Tail(ws), ds, K, u)
        BY <2>1, <2>3, <3>1, <3>2 DEF InWaiting, C, W
      <3>4. QED
        BY <3>3 DEF Tracks
    <2>4. QED
      BY <2>2, <2>3
  <1>5. CASE InWaiting(ws, cs, K, u)
    <2>1. PICK i \in 1..Len(cs) : LastIn(cs, i, C) /\ cs[i].user = u
      BY <1>5 DEF InWaiting, C
    <2>2. None(ws, 1, C) /\ None(ws, 1, W)
      BY <1>5 DEF InWaiting, C, W
    <2>3. i \in 1..Len(ds) /\ LastIn(ds, i, C) /\ ds[i] = cs[i]
      BY <1>3, <2>1, <2>2, LastAppendOther
    <2>4. InWaiting(Tail(ws), ds, K, u)
      BY <1>2, <1>3, <2>1, <2>2, <2>3 DEF InWaiting, C, W
    <2>5. QED
      BY <2>4 DEF Tracks
  <1>6. CASE InMain(ws, cs, qs, f, K, u)
    <2>1. InMain(Tail(ws), ds, qs, f, K, u)
      BY <1>2, <1>3, <1>6 DEF InMain, C, W
    <2>2. QED
      BY <2>1 DEF Tracks
  <1>7. CASE Done(ws, cs, qs, f, K, u, val)
    <2>1. ASSUME NEW i \in 1..Len(ws), LastIn(ws, i, W), ws[i].value <=> val
          PROVE  WillBe(Tail(ws), f, u, val)
      <3>1. i # 1
        BY <1>1, <2>1 DEF LastIn
      <3>2. /\ i - 1 \in 1..Len(Tail(ws)) /\ LastIn(Tail(ws), i - 1, W)
            /\ Tail(ws)[i - 1] = ws[i]
        BY <2>1, <3>1, LastTail
      <3>3. QED
        BY <2>1, <3>2 DEF WillBe, W
    <2>2. WillBe(Tail(ws), f, u, val)
      BY <1>2, <1>7, <2>1 DEF Done, WillBe, W
    <2>3. Done(Tail(ws), ds, qs, f, K, u, val)
      BY <1>3, <1>7, <2>2 DEF Done, C
    <2>4. QED
      BY <2>3 DEF Tracks
  <1>8. QED
    BY <1>4, <1>5, <1>6, <1>7 DEF Tracks

\* The snapshot of a check is taken.
LEMMA TracksSnapshot ==
    ASSUME NEW ws, NEW cs \in Seq(Check), cs # <<>>, NEW qs \in Seq(Answer), NEW f, NEW K,
           NEW u, NEW val, NEW a \in Answer,
           a.button = cs[1].button, a.user = cs[1].user, a.value = (cs[1].user \in f),
           Tracks(ws, cs, qs, f, K, u, val)
    PROVE  Tracks(ws, Tail(cs), Append(qs, a), f, K, u, val)
  <1> DEFINE C == ChecksOf(K)
             A == AnswersOf(K)
             bs == Append(qs, a)
  <1>1. cs[1] \in C <=> a \in A
    <2>1. cs[1] \in Check
      BY TailProperties
    <2>2. QED
      BY <2>1, SetFacts
  <1> HIDE DEF C, A
  <1>2. None(cs, 1, C) => None(Tail(cs), 1, C) /\ cs[1] \notin C
    BY NoneFirst
  <1>3. 1 \in 1..(Len(qs) + 1)
    <2>1. Len(qs) \in Nat
      OBVIOUS
    <2>2. QED
      BY <2>1
  <1>4. CASE InWorker(ws, K, u)
    BY <1>4 DEF Tracks
  <1>5. CASE InWaiting(ws, cs, K, u)
    <2>1. PICK i \in 1..Len(cs) : LastIn(cs, i, C) /\ cs[i].user = u
      BY <1>5 DEF InWaiting, C
    <2>2. CASE i # 1
      <3>1. /\ i - 1 \in 1..Len(Tail(cs)) /\ LastIn(Tail(cs), i - 1, C)
            /\ Tail(cs)[i - 1] = cs[i]
        BY <2>1, <2>2, LastTail
      <3>2. InWaiting(ws, Tail(cs), K, u)
        BY <1>5, <2>1, <3>1 DEF InWaiting, C
      <3>3. QED
        BY <3>2 DEF Tracks
    <2>3. CASE i = 1
      <3>1. None(Tail(cs), 1, C) /\ a \in A
        BY <1>1, <2>1, <2>3, LastLeaves DEF LastIn
      <3>2. /\ Len(qs) + 1 \in 1..Len(bs) /\ LastIn(bs, Len(qs) + 1, A)
            /\ bs[Len(qs) + 1] = a
        BY <3>1, LastAppendNew
      <3>3. InMain(ws, Tail(cs), bs, f, K, u)
        BY <1>5, <2>1, <2>3, <3>1, <3>2 DEF InWaiting, InMain, C, A
      <3>4. QED
        BY <3>3 DEF Tracks
    <2>4. QED
      BY <2>2, <2>3
  <1>6. CASE InMain(ws, cs, qs, f, K, u)
    <2>1. PICK i \in 1..Len(qs) : /\ LastIn(qs, i, A) /\ qs[i].user = u
                                  /\ qs[i].value <=> u \in f
      BY <1>6 DEF InMain, A
    <2>2. None(Tail(cs), 1, C) /\ a \notin A
      BY <1>1, <1>2, <1>6 DEF InMain, C
    <2>3. i \in 1..Len(bs) /\ LastIn(bs, i, A) /\ bs[i] = qs[i]
      <3>1. LastIn(qs, i, A) /\ a \notin A
        BY <2>1, <2>2
      <3>2. QED
        BY <3>1, LastAppendOther
    <2>4. InMain(ws, Tail(cs), bs, f, K, u)
      BY <1>6, <2>1, <2>2, <2>3 DEF InMain, C, A
    <2>5. QED
      BY <2>4 DEF Tracks
  <1>7. CASE Done(ws, cs, qs, f, K, u, val)
    <2>1. None(Tail(cs), 1, C) /\ a \notin A
      BY <1>1, <1>2, <1>7 DEF Done, C
    <2>2. None(bs, 1, A)
      BY <1>3, <1>7, <2>1, NoneAppend DEF Done, A
    <2>3. Done(ws, Tail(cs), bs, f, K, u, val)
      BY <1>7, <2>1, <2>2 DEF Done, C, A
    <2>4. QED
      BY <2>3 DEF Tracks
  <1>8. QED
    BY <1>4, <1>5, <1>6, <1>7 DEF Tracks

\* An answer reaches the main queue; if it is one of K, val becomes what it says.
LEMMA TracksAnswer ==
    ASSUME NEW ws, NEW cs, NEW qs \in Seq(Answer), qs # <<>>, NEW f, NEW K, NEW u, NEW val,
           NEW new, Tracks(ws, cs, qs, f, K, u, val),
           qs[1] \in AnswersOf(K) => (new <=> qs[1].value),
           qs[1] \notin AnswersOf(K) => (new <=> val)
    PROVE  Tracks(ws, cs, Tail(qs), f, K, u, new)
  <1> DEFINE A == AnswersOf(K)
  <1>1. CASE InWorker(ws, K, u) \/ InWaiting(ws, cs, K, u)
    BY <1>1 DEF Tracks
  <1>2. CASE InMain(ws, cs, qs, f, K, u)
    <2>1. PICK i \in 1..Len(qs) : /\ LastIn(qs, i, A) /\ qs[i].user = u
                                  /\ qs[i].value <=> u \in f
      BY <1>2 DEF InMain
    <2> HIDE DEF A
    <2>2. CASE i # 1
      <3>1. /\ i - 1 \in 1..Len(Tail(qs)) /\ LastIn(Tail(qs), i - 1, A)
            /\ Tail(qs)[i - 1] = qs[i]
        BY <2>1, <2>2, LastTail
      <3>2. InMain(ws, cs, Tail(qs), f, K, u)
        BY <1>2, <2>1, <3>1 DEF InMain, A
      <3>3. QED
        BY <3>2 DEF Tracks
    <2>3. CASE i = 1
      <3>1. None(Tail(qs), 1, A) /\ qs[1] \in A
        BY <2>1, <2>3, LastLeaves DEF LastIn
      <3>2. new <=> u \in f
        BY <2>1, <2>3, <3>1 DEF A
      <3>3. WillBe(ws, f, u, new)
        BY <1>2, <3>2 DEF InMain, WillBe
      <3>4. Done(ws, cs, Tail(qs), f, K, u, new)
        BY <1>2, <3>1, <3>3 DEF InMain, Done, A
      <3>5. QED
        BY <3>4 DEF Tracks
    <2>4. QED
      BY <2>2, <2>3
  <1>3. CASE Done(ws, cs, qs, f, K, u, val)
    <2>1. None(qs, 1, A)
      BY <1>3 DEF Done
    <2> HIDE DEF A
    <2>2. None(Tail(qs), 1, A) /\ qs[1] \notin A
      BY <2>1, NoneFirst
    <2>3. new <=> val
      BY <2>2 DEF A
    <2>4. WillBe(ws, f, u, new)
      BY <1>3, <2>3 DEF Done, WillBe
    <2>5. Done(ws, cs, Tail(qs), f, K, u, new)
      BY <1>3, <2>2, <2>4 DEF Done, A
    <2>6. QED
      BY <2>5 DEF Tracks
  <1>4. QED
    BY <1>1, <1>2, <1>3 DEF Tracks

\* Work that is neither a check of K nor a write about u joins the queue.
LEMMA TracksJoin ==
    ASSUME NEW ws \in Seq(Work), NEW cs, NEW qs, NEW f, NEW K, NEW u, NEW val,
           NEW e \in Work, e \notin ChecksOf(K), e \notin WritesOn(u),
           Tracks(ws, cs, qs, f, K, u, val)
    PROVE  Tracks(Append(ws, e), cs, qs, f, K, u, val)
  <1> DEFINE C == ChecksOf(K)
             W == WritesOn(u)
             vs == Append(ws, e)
  <1> e \notin C /\ e \notin W
    OBVIOUS
  <1> HIDE DEF C, W
  <1>1. 1 \in 1..(Len(ws) + 1)
    BY AppendProperties
  <1>2. /\ None(ws, 1, C) => None(vs, 1, C)
        /\ None(ws, 1, W) => None(vs, 1, W)
    BY <1>1, NoneAppend
  <1>3. CASE InWorker(ws, K, u)
    <2>1. PICK i \in 1..Len(ws) : /\ LastIn(ws, i, C) /\ ws[i].user = u
                                  /\ None(ws, i + 1, W)
      BY <1>3 DEF InWorker, C, W
    <2>2. i \in 1..Len(vs) /\ LastIn(vs, i, C) /\ vs[i] = ws[i] /\ None(vs, i + 1, W)
      BY <2>1, LastAppendOther
    <2>3. InWorker(vs, K, u)
      BY <2>1, <2>2 DEF InWorker, C, W
    <2>4. QED
      BY <2>3 DEF Tracks
  <1>4. CASE InWaiting(ws, cs, K, u)
    <2>1. InWaiting(vs, cs, K, u)
      BY <1>2, <1>4 DEF InWaiting, C, W
    <2>2. QED
      BY <2>1 DEF Tracks
  <1>5. CASE InMain(ws, cs, qs, f, K, u)
    <2>1. InMain(vs, cs, qs, f, K, u)
      BY <1>2, <1>5 DEF InMain, C, W
    <2>2. QED
      BY <2>1 DEF Tracks
  <1>6. CASE Done(ws, cs, qs, f, K, u, val)
    <2>1. ASSUME NEW i \in 1..Len(ws), LastIn(ws, i, W), ws[i].value <=> val
          PROVE  WillBe(vs, f, u, val)
      <3>1. i \in 1..Len(vs) /\ LastIn(vs, i, W) /\ vs[i] = ws[i]
        BY <2>1, LastAppendOther
      <3>2. QED
        BY <2>1, <3>1 DEF WillBe, W
    <2>2. WillBe(vs, f, u, val)
      BY <1>2, <1>6, <2>1 DEF Done, WillBe, W
    <2>3. Done(vs, cs, qs, f, K, u, val)
      BY <1>2, <1>6, <2>2 DEF Done, C
    <2>4. QED
      BY <2>3 DEF Tracks
  <1>7. QED
    BY <1>3, <1>4, <1>5, <1>6 DEF Tracks

\* A new check of K about u will find out the truth, whatever happened before.
LEMMA TracksAsk ==
    ASSUME NEW ws \in Seq(Work), NEW cs, NEW qs, NEW f, NEW K, NEW u, NEW val,
           NEW e \in Work, e \in ChecksOf(K), e.user = u
    PROVE  Tracks(Append(ws, e), cs, qs, f, K, u, val)
  <1> DEFINE vs == Append(ws, e)
             n  == Len(ws) + 1
  <1>1. /\ n \in 1..Len(vs) /\ LastIn(vs, n, ChecksOf(K)) /\ vs[n] = e
        /\ None(vs, n + 1, WritesOn(u))
    BY LastAppendNew
  <1>2. InWorker(vs, K, u)
    BY <1>1 DEF InWorker
  <1>3. QED
    BY <1>2 DEF Tracks

\* A tap while no check about u is under way sets the truth.
LEMMA TracksTap ==
    ASSUME NEW ws \in Seq(Work), NEW cs, NEW qs, NEW f, NEW K, NEW u, NEW val, NEW new,
           NEW e \in Write, e.user = u, e.value <=> new,
           \A i \in 1..Len(ws) : ws[i] \in Check => ws[i].user # u,
           \A i \in 1..Len(cs) : cs[i].user # u,
           \A i \in 1..Len(qs) : qs[i].user # u,
           Tracks(ws, cs, qs, f, K, u, val)
    PROVE  Tracks(Append(ws, e), cs, qs, f, K, u, new)
  <1> DEFINE C == ChecksOf(K)
             W == WritesOn(u)
             vs == Append(ws, e)
             n  == Len(ws) + 1
  <1>1. e \notin C /\ e \in W /\ e \in Work
    BY SetFacts DEF Work
  <1>2. Done(ws, cs, qs, f, K, u, val)
    BY DEF Tracks, InWorker, InWaiting, InMain, LastIn, ChecksOf
  <1> HIDE DEF C, W
  <1>3. n \in 1..Len(vs) /\ LastIn(vs, n, W) /\ vs[n] = e
    BY <1>1, LastAppendNew
  <1>4. WillBe(vs, f, u, new)
    BY <1>3 DEF WillBe, W
  <1>5. None(vs, 1, C)
    <2>1. 1 \in 1..(Len(ws) + 1)
      BY <1>1, AppendProperties
    <2>2. None(ws, 1, C)
      BY <1>2 DEF Done, C
    <2>3. QED
      BY <1>1, <2>1, <2>2, NoneAppend
  <1>6. Done(vs, cs, qs, f, K, u, new)
    BY <1>2, <1>4, <1>5 DEF Done, C
  <1>7. QED
    BY <1>6 DEF Tracks

-----------------------------------------------------------------------------
(* Titles and flags follow the database.                                   *)

TracksAll == (\A b \in Buttons : TitleTracks(b)) /\ (\A c \in Cells : FlagTracks(c))

\* Nobody is shown at the start.
LEMMA InitTracksAll == Init => TracksAll
  BY DEF Init, TracksAll, TitleTracks, FlagTracks, Buttons

\* A cell or header is given a user and asks.
LEMMA AskKeepsTracks ==
    ASSUME TypeOK, TracksAll, NEW x \in Buttons, NEW u \in Users,
           checkIfUserIsFollowed(x, u),
           user' = [user EXCEPT ![x] = u],
           doubtful' = doubtful \ {x},
           UNCHANGED <<following, waiting, main, isFollowed, title>>
    PROVE  TracksAll'
  <1> DEFINE e == [button |-> x, user |-> u]
  <1>1. /\ worker \in Seq(Work) /\ worker' = Append(worker, e)
        /\ e \in Check /\ e \in Work /\ e.user = u /\ e.button = x
    BY CheckTypes DEF TypeOK, Work
  <1> HIDE DEF e
  <1>2. user'[x] = u /\ \A b \in Buttons \ {x} : user'[b] = user[b]
    BY DEF TypeOK
  <1>3. \A b \in Buttons \ {x} : b \in doubtful' <=> b \in doubtful
    OBVIOUS
  <1>4. ASSUME NEW b \in Buttons, user'[b] # NoUser, b \notin doubtful'
        PROVE  Tracks(worker', waiting, main, following,
                      {b} \X Users, user'[b], title[b] = "Following")
    <2>1. CASE b = x
      <3>1. e \in ChecksOf({b} \X Users)
        BY <1>1, <2>1, SetFacts
      <3>2. QED
        BY <1>1, <1>2, <2>1, <3>1, TracksAsk
    <2>2. CASE b # x
      <3>1. e \notin ChecksOf({b} \X Users) /\ e \notin WritesOn(user[b])
        BY <1>1, <2>2, SetFacts
      <3>2. Tracks(worker, waiting, main, following,
                   {b} \X Users, user[b], title[b] = "Following")
        BY <1>2, <1>3, <1>4, <2>2 DEF TracksAll, TitleTracks
      <3>3. user'[b] = user[b]
        BY <1>2, <2>2
      <3>4. QED
        BY <1>1, <3>1, <3>2, <3>3, TracksJoin
    <2>3. QED
      BY <2>1, <2>2
  <1>5. ASSUME NEW c \in Cells, user'[c] # NoUser, c \notin doubtful'
        PROVE  Tracks(worker', waiting, main, following,
                      Buttons \X {user'[c]}, user'[c], isFollowed[user'[c]])
    <2> c \in Buttons
      BY DEF Buttons
    <2>1. CASE user'[c] = u
      <3>1. e \in ChecksOf(Buttons \X {u})
        BY <1>1, SetFacts
      <3>2. QED
        BY <1>1, <2>1, <3>1, TracksAsk
    <2>2. CASE user'[c] # u
      <3>1. user'[c] = user[c] /\ c \notin doubtful
        BY <1>2, <1>3, <1>5, <2>2
      <3>2. e \notin ChecksOf(Buttons \X {user[c]}) /\ e \notin WritesOn(user[c])
        BY <1>1, <2>2, <3>1, SetFacts
      <3>3. Tracks(worker, waiting, main, following,
                   Buttons \X {user[c]}, user[c], isFollowed[user[c]])
        BY <1>5, <3>1 DEF TracksAll, FlagTracks
      <3>4. QED
        BY <1>1, <3>1, <3>2, <3>3, TracksJoin
    <2>3. QED
      BY <2>1, <2>2
  <1>6. QED
    BY <1>4, <1>5 DEF TracksAll, TitleTracks, FlagTracks, Buttons

\* A tap sets title, flag and database alike, unless it races a check.
LEMMA TapKeepsTracks ==
    ASSUME TypeOK, TracksAll, NEW x \in Buttons, NEW u \in Users, NEW v \in BOOLEAN,
           setFollowed(x, u, v), u = user[x]
    PROVE  TracksAll'
  <1> DEFINE e == [user |-> u, value |-> v]
  <1>1. /\ worker \in Seq(Work) /\ worker' = Append(worker, e)
        /\ e \in Write /\ e \in Work /\ e.user = u /\ (e.value <=> v)
    BY TapTypes DEF TypeOK, Work
  <1> HIDE DEF e
  <1>2. UNCHANGED <<following, waiting, main, user>>
    BY DEF setFollowed
  <1>3. /\ title'[x] = titleFor(v)
        /\ \A b \in Buttons \ {x} : title'[b] = title[b]
    BY DEF setFollowed, TypeOK
  <1>4. /\ isFollowed'[u] = v
        /\ \A w \in Users \ {u} : isFollowed'[w] = isFollowed[w]
    BY DEF setFollowed, TypeOK
  <1>5. /\ \A b \in Buttons : b \in doubtful => b \in doubtful'
        /\ \A b \in Buttons \ {x} : user[b] = u => b \in doubtful'
        /\ Checking(u) => x \in doubtful'
    BY DEF setFollowed
  <1>6. ASSUME ~Checking(u)
        PROVE  /\ \A i \in 1..Len(worker) : worker[i] \in Check => worker[i].user # u
               /\ \A i \in 1..Len(waiting) : waiting[i].user # u
               /\ \A i \in 1..Len(main) : main[i].user # u
    <2>1. /\ \A i \in 1..Len(worker) : worker[i] \in Elements(worker)
          /\ \A i \in 1..Len(waiting) : waiting[i] \in Elements(waiting)
          /\ \A i \in 1..Len(main) : main[i] \in Elements(main)
      BY DEF Elements, TypeOK
    <2>2. \A i \in 1..Len(worker) : worker[i] \in Check => worker[i] \notin Writes
      BY WritesAreNotChecks DEF Writes
    <2>3. QED
      BY <1>6, <2>1, <2>2 DEF Checking, Underway
  <1>7. ASSUME NEW b \in Buttons, user[b] # NoUser, b \notin doubtful'
        PROVE  Tracks(worker', waiting, main, following,
                      {b} \X Users, user[b], title'[b] = "Following")
    <2>1. Tracks(worker, waiting, main, following,
                 {b} \X Users, user[b], title[b] = "Following")
      BY <1>5, <1>7 DEF TracksAll, TitleTracks
    <2>2. CASE b = x
      <3>1. ~Checking(u)
        BY <1>5, <1>7, <2>2
      <3>2. e.value <=> title'[b] = "Following"
        BY <1>1, <1>3, <2>2 DEF titleFor
      <3>3. QED
        BY <1>1, <1>6, <2>1, <2>2, <3>1, <3>2, TracksTap
    <2>3. CASE b # x
      <3>1. user[b] # u /\ title'[b] = title[b]
        BY <1>3, <1>5, <1>7, <2>3
      <3>2. e \notin ChecksOf({b} \X Users) /\ e \notin WritesOn(user[b])
        BY <1>1, <3>1, SetFacts
      <3>3. QED
        BY <1>1, <2>1, <3>1, <3>2, TracksJoin
    <2>4. QED
      BY <2>2, <2>3
  <1>8. ASSUME NEW c \in Cells, user[c] # NoUser, c \notin doubtful'
        PROVE  Tracks(worker', waiting, main, following,
                      Buttons \X {user[c]}, user[c], isFollowed'[user[c]])
    <2> c \in Buttons
      BY DEF Buttons
    <2>1. Tracks(worker, waiting, main, following,
                 Buttons \X {user[c]}, user[c], isFollowed[user[c]])
      BY <1>5, <1>8 DEF TracksAll, FlagTracks
    <2>2. CASE c = x
      <3>1. ~Checking(u)
        BY <1>5, <1>8, <2>2
      <3>2. e.value <=> isFollowed'[u]
        BY <1>1, <1>4
      <3>3. QED
        BY <1>1, <1>6, <2>1, <2>2, <3>1, <3>2, TracksTap
    <2>3. CASE c # x
      <3>1. user[c] # u
        BY <1>5, <1>8, <2>3
      <3>2. isFollowed'[user[c]] = isFollowed[user[c]]
        BY <1>4, <1>8, <3>1 DEF TypeOK
      <3>3. e \notin ChecksOf(Buttons \X {user[c]}) /\ e \notin WritesOn(user[c])
        BY <1>1, <3>1, SetFacts
      <3>4. QED
        BY <1>1, <2>1, <3>2, <3>3, TracksJoin
    <2>4. QED
      BY <2>2, <2>3
  <1>9. QED
    BY <1>2, <1>7, <1>8 DEF TracksAll, TitleTracks, FlagTracks, Buttons

\* Every step keeps titles and flags on the way to the truth.
LEMMA StepTracksAll == TypeOK /\ SelfInv /\ TracksAll /\ [Next]_vars => TracksAll'
  <1> SUFFICES ASSUME TypeOK, SelfInv, TracksAll, [Next]_vars PROVE TracksAll'
    OBVIOUS
  <1> Header \in Buttons /\ Cells \subseteq Buttons /\ Header \notin Cells
    BY HeaderAssumption DEF Buttons
  <1>1. ASSUME NEW c \in Cells, NEW u \in Users, displayCell(c, u)
        PROVE  TracksAll'
    BY <1>1, AskKeepsTracks DEF displayCell
  <1>2. ASSUME NEW u \in Users, displayHeader(u), u # Me
        PROVE  TracksAll'
    BY <1>2, AskKeepsTracks DEF displayHeader
  <1>3. CASE displayHeader(Me)
    <2>1. /\ user[Header] \in {NoUser, Me}
          /\ user' = [user EXCEPT ![Header] = Me]
          /\ title' = [title EXCEPT ![Header] = "Edit Profile"]
          /\ doubtful' = doubtful \ {Header}
          /\ UNCHANGED <<worker, following, waiting, main, isFollowed>>
      BY <1>3 DEF displayHeader
    <2>2. \A b \in Buttons \ {Header} : /\ user'[b] = user[b] /\ title'[b] = title[b]
                                        /\ b \in doubtful' <=> b \in doubtful
      BY <2>1 DEF TypeOK
    <2>3. user'[Header] = Me /\ title'[Header] = "Edit Profile"
      BY <2>1 DEF TypeOK
    <2>4. Tracks(worker, waiting, main, following,
                 {Header} \X Users, Me, title'[Header] = "Following")
      <3>1. /\ None(worker, 1, ChecksOf({Header} \X Users))
            /\ None(waiting, 1, ChecksOf({Header} \X Users))
            /\ None(main, 1, AnswersOf({Header} \X Users))
        BY <2>1 DEF SelfInv, None, ChecksOf, AnswersOf
      <3>2. None(worker, 1, WritesOn(Me)) /\ Me \notin following
        BY DEF SelfInv, None, WritesOn
      <3>3. WillBe(worker, following, Me, title'[Header] = "Following")
        BY <2>3, <3>2 DEF WillBe
      <3>4. QED
        BY <3>1, <3>3 DEF Tracks, Done
    <2>5. \A b \in Buttons : TitleTracks(b)'
      <3> SUFFICES ASSUME NEW b \in Buttons, user'[b] # NoUser, b \notin doubtful'
                   PROVE  Tracks(worker, waiting, main, following,
                                 {b} \X Users, user'[b], title'[b] = "Following")
        BY <2>1 DEF TitleTracks
      <3>1. CASE b = Header
        BY <2>3, <2>4, <3>1
      <3>2. CASE b # Header
        BY <2>2, <3>2 DEF TracksAll, TitleTracks
      <3>3. QED
        BY <3>1, <3>2
    <2>6. \A c \in Cells : FlagTracks(c)'
      BY <2>1, <2>2 DEF TracksAll, FlagTracks
    <2>7. QED
      BY <2>5, <2>6 DEF TracksAll
  <1>4. ASSUME NEW c \in Cells, handleFollowTapped(c)
        PROVE  TracksAll'
    <2>1. user[c] \in Users /\ setFollowed(c, user[c], ~isFollowed[user[c]])
      BY <1>4 DEF handleFollowTapped, TypeOK
    <2>2. (~isFollowed[user[c]]) \in BOOLEAN
      OBVIOUS
    <2>3. QED
      BY <2>1, <2>2, TapKeepsTracks
  <1>5. CASE handleEditFollowTapped
    <2>1. /\ user[Header] \in Users
          /\ setFollowed(Header, user[Header], title[Header] = "Follow")
      BY <1>5 DEF handleEditFollowTapped, TypeOK
    <2>2. (title[Header] = "Follow") \in BOOLEAN
      OBVIOUS
    <2>3. QED
      BY <2>1, <2>2, TapKeepsTracks
  <1>6. CASE runWorker
    <2>1. /\ worker # <<>> /\ worker' = Tail(worker)
          /\ UNCHANGED <<main, isFollowed, user, title, doubtful>>
      BY <1>6 DEF runWorker, shown
    <2>2. worker \in Seq(Work) /\ waiting \in Seq(Check) /\ Head(worker) = worker[1]
      BY <2>1, TailProperties DEF TypeOK, Work
    <2>3. ASSUME NEW K, NEW u, NEW val,
                 Tracks(worker, waiting, main, following, K, u, val)
          PROVE  Tracks(worker', waiting', main, following', K, u, val)
      <3>1. CASE worker[1] \in Write
        <4>1. /\ following' = IF worker[1].value THEN following \cup {worker[1].user}
                                                 ELSE following \ {worker[1].user}
              /\ waiting' = waiting
          BY <1>6, <2>2, <3>1, WritesAreNotChecks DEF runWorker
        <4>2. QED
          BY <2>1, <2>2, <2>3, <3>1, <4>1, TracksWrite
      <3>2. CASE worker[1] \in Check
        <4>1. waiting' = Append(waiting, worker[1]) /\ following' = following
          BY <1>6, <2>2, <3>2, WritesAreNotChecks DEF runWorker
        <4>2. QED
          BY <2>1, <2>2, <2>3, <3>2, <4>1, TracksCheck
      <3>3. QED
        BY <1>6, <2>2, <3>1, <3>2 DEF runWorker
    <2>4. QED
      BY <2>1, <2>3 DEF TracksAll, TitleTracks, FlagTracks
  <1>7. CASE snapshot
    <2>1. /\ waiting # <<>> /\ waiting' = Tail(waiting)
          /\ UNCHANGED <<following, worker, isFollowed, user, title, doubtful>>
      BY <1>7 DEF snapshot, shown
    <2>2. /\ waiting \in Seq(Check) /\ main \in Seq(Answer)
          /\ Head(waiting) = waiting[1] /\ waiting[1] \in Check
      BY <2>1, TailProperties DEF TypeOK
    <2> DEFINE a == [button |-> waiting[1].button, user |-> waiting[1].user,
                     value |-> waiting[1].user \in following]
    <2>3. /\ a \in Answer /\ main' = Append(main, a)
          /\ a.button = waiting[1].button /\ a.user = waiting[1].user
          /\ a.value = (waiting[1].user \in following)
      BY <1>7, <2>2 DEF snapshot, Check, Answer
    <2> HIDE DEF a
    <2>4. ASSUME NEW K, NEW u, NEW val,
                 Tracks(worker, waiting, main, following, K, u, val)
          PROVE  Tracks(worker, waiting', main', following, K, u, val)
      BY <2>1, <2>2, <2>3, <2>4, TracksSnapshot
    <2>5. QED
      BY <2>1, <2>4 DEF TracksAll, TitleTracks, FlagTracks
  <1>8. CASE checkDone
    <2>1. /\ main # <<>> /\ main' = Tail(main)
          /\ UNCHANGED <<following, worker, waiting, user, doubtful>>
      BY <1>8 DEF checkDone
    <2> DEFINE a == main[1]
    <2>2. main \in Seq(Answer) /\ Head(main) = a /\ a \in Answer
      BY <2>1, TailProperties DEF TypeOK
    <2>3. a.button \in Buttons /\ a.user \in Users
      BY <2>2 DEF Answer
    <2>4. /\ title' = [title EXCEPT ![a.button] = titleFor(a.value)]
          /\ isFollowed' = [isFollowed EXCEPT ![a.user] = a.value]
      BY <1>8, <2>2 DEF checkDone, titleAnswered
    <2> HIDE DEF a
    <2>5. /\ title'[a.button] = titleFor(a.value)
          /\ \A b \in Buttons : b # a.button => title'[b] = title[b]
          /\ isFollowed'[a.user] = a.value
          /\ \A u \in Users : u # a.user => isFollowed'[u] = isFollowed[u]
      BY <2>3, <2>4 DEF TypeOK
    <2>6. ASSUME NEW b \in Buttons, user[b] # NoUser, b \notin doubtful
          PROVE  Tracks(worker, waiting, main', following,
                        {b} \X Users, user[b], title'[b] = "Following")
      <3>1. Tracks(worker, waiting, main, following,
                   {b} \X Users, user[b], title[b] = "Following")
        BY <2>6 DEF TracksAll, TitleTracks
      <3>2. a \in AnswersOf({b} \X Users) <=> a.button = b
        <4>1. a \in Answer
          BY <2>2
        <4>2. <<a.button, a.user>> \in {b} \X Users <=> a.button = b
          BY <2>3
        <4>3. QED
          BY <4>1, <4>2 DEF AnswersOf
      <3>3. /\ a.button = b => (title'[b] = "Following" <=> a.value)
            /\ a.button # b => (title'[b] = "Following" <=> title[b] = "Following")
        BY <2>5 DEF titleFor
      <3>4. QED
        BY <2>1, <2>2, <3>1, <3>2, <3>3, TracksAnswer DEF a
    <2>7. ASSUME NEW c \in Cells, user[c] # NoUser, c \notin doubtful
          PROVE  Tracks(worker, waiting, main', following,
                        Buttons \X {user[c]}, user[c], isFollowed'[user[c]])
      <3>1. Tracks(worker, waiting, main, following,
                   Buttons \X {user[c]}, user[c], isFollowed[user[c]])
        BY <2>7 DEF TracksAll, FlagTracks
      <3>2. a \in AnswersOf(Buttons \X {user[c]}) <=> a.user = user[c]
        <4>1. a \in Answer
          BY <2>2
        <4>2. <<a.button, a.user>> \in Buttons \X {user[c]} <=> a.user = user[c]
          BY <2>3
        <4>3. QED
          BY <4>1, <4>2 DEF AnswersOf
      <3>3. user[c] \in Users
        BY <2>7 DEF TypeOK
      <3>4. /\ a.user = user[c] => (isFollowed'[user[c]] <=> a.value)
            /\ a.user # user[c] => (isFollowed'[user[c]] <=> isFollowed[user[c]])
        BY <2>5, <3>3
      <3>5. QED
        BY <2>1, <2>2, <3>1, <3>2, <3>4, TracksAnswer DEF a
    <2>8. QED
      BY <2>1, <2>6, <2>7 DEF TracksAll, TitleTracks, FlagTracks
  <1>9. CASE UNCHANGED vars
    BY <1>9 DEF vars, queues, shown, TracksAll, TitleTracks, FlagTracks
  <1>10. QED
    BY <1>1, <1>2, <1>3, <1>4, <1>5, <1>6, <1>7, <1>8, <1>9, UsersAssumption DEF Next

\* With no write queued and no check of K under way, val is the truth.
LEMMA TracksSettled ==
    ASSUME TypeOK, NEW K, NEW u, NEW val, Writes = {},
           \A k \in Underway : <<k.button, k.user>> \notin K,
           Tracks(worker, waiting, main, following, K, u, val)
    PROVE  val <=> u \in following
  <1>1. /\ \A i \in 1..Len(worker) : worker[i] \in Elements(worker)
        /\ \A i \in 1..Len(waiting) : waiting[i] \in Elements(waiting)
        /\ \A i \in 1..Len(main) : main[i] \in Elements(main)
    BY DEF Elements, TypeOK
  <1>2. \A i \in 1..Len(worker) : worker[i] \notin Write
    BY <1>1 DEF Writes
  <1>3. /\ \A i \in 1..Len(worker) : worker[i] \in Underway
        /\ \A i \in 1..Len(waiting) : waiting[i] \in Underway
        /\ \A i \in 1..Len(main) : main[i] \in Underway
    BY <1>1 DEF Underway
  <1>4. /\ \A i \in 1..Len(worker) : ~LastIn(worker, i, ChecksOf(K))
        /\ \A i \in 1..Len(waiting) : ~LastIn(waiting, i, ChecksOf(K))
        /\ \A i \in 1..Len(main) : ~LastIn(main, i, AnswersOf(K))
        /\ \A i \in 1..Len(worker) : ~LastIn(worker, i, WritesOn(u))
    BY <1>2, <1>3 DEF LastIn, ChecksOf, AnswersOf, WritesOn
  <1>5. Done(worker, waiting, main, following, K, u, val)
    BY <1>4 DEF Tracks, InWorker, InWaiting, InMain
  <1>6. WillBe(worker, following, u, val)
    BY <1>5 DEF Done
  <1>7. QED
    BY <1>4, <1>6 DEF WillBe

\* The invariant holds for the title of a settled button.
LEMMA TruthfulFromInv == ButtonInv => ButtonTruthful
  <1> SUFFICES ASSUME ButtonInv, NEW b \in Buttons, Settled(b), b \notin doubtful
               PROVE  title[b] = "Following" <=> user[b] \in following
    BY DEF ButtonTruthful
  <1>1. Tracks(worker, waiting, main, following,
               {b} \X Users, user[b], title[b] = "Following")
    BY DEF ButtonInv, TitleTracks, Settled
  <1>2. \A k \in Underway : <<k.button, k.user>> \notin {b} \X Users
    BY DEF Settled, Asking
  <1>3. Writes = {} /\ TypeOK
    BY DEF Settled, ButtonInv
  <1>4. QED
    BY <1>1, <1>2, <1>3, TracksSettled

\* The invariant holds for the flag behind a settled cell.
LEMMA LabelledFromInv == ButtonInv => TapAsLabelled
  <1> SUFFICES ASSUME ButtonInv, NEW c \in Cells, Settled(c), c \notin doubtful,
                      ~Checking(user[c])
               PROVE  title[c] = "Following" <=> isFollowed[user[c]]
    BY DEF TapAsLabelled
  <1>1. title[c] = "Following" <=> user[c] \in following
    BY TruthfulFromInv DEF ButtonTruthful, Buttons
  <1>2. Tracks(worker, waiting, main, following,
               Buttons \X {user[c]}, user[c], isFollowed[user[c]])
    BY DEF ButtonInv, FlagTracks, Settled
  <1>3. \A k \in Underway : <<k.button, k.user>> \notin Buttons \X {user[c]}
    BY DEF Checking
  <1>4. Writes = {} /\ TypeOK
    BY DEF Settled, ButtonInv
  <1>5. isFollowed[user[c]] <=> user[c] \in following
    BY <1>2, <1>3, <1>4, TracksSettled
  <1>6. QED
    BY <1>1, <1>5

\* The inductive invariant holds of every run of the buttons and the queues.
LEMMA ButtonInvHolds == Spec => []ButtonInv
  <1> DEFINE I == TypeOK /\ SelfInv /\ TracksAll
  <1>1. Init => I
    BY InitTypeOK, InitSelfInv, InitTracksAll
  <1>2. I /\ [Next]_vars => I'
    BY StepTypeOK, StepSelfInv, StepTracksAll
  <1>3. I => ButtonInv
    BY DEF TracksAll, ButtonInv
  <1> HIDE DEF I
  <1>4. QED
    BY <1>1, <1>2, <1>3, PTL DEF Spec

\* However cells are reused while answers for earlier users are on their way,
\* the title of a button whose check and writes are through says whether its
\* user is followed, unless a tap raced a check or was made elsewhere.
THEOREM TitlesTruthful == Spec => []ButtonTruthful
  BY ButtonInvHolds, TruthfulFromInv, PTL

\* Under the same exceptions the flag of the User object, by which a tap in the
\* list is decided, agrees with the title that the tapped button shows.
THEOREM TapsAsLabelled == Spec => []TapAsLabelled
  BY ButtonInvHolds, LabelledFromInv, PTL

=============================================================================
