-------------------------- MODULE FollowFeedProofs --------------------------
(***************************************************************************)
(* Machine-checked proofs about FollowFeed, for every set of users and     *)
(* posts and for every bound: that no feed names a post that was not       *)
(* stored (NoDanglingPost), that the two copies of the follow relation     *)
(* agree (RelationSymmetric), that the copy which lies under another user  *)
(* implements FollowRelation (FollowersRefines), and that the feeds follow *)
(* the taps (FeedComplete, StaleOnlyByFanout).                             *)
(***************************************************************************)
EXTENDS FollowFeed, TLAPS

-----------------------------------------------------------------------------
(* Facts about queues.                                                     *)

\* What joining two queues returns.
LEMMA ConcatProperties ==
    ASSUME NEW S, NEW s \in Seq(S), NEW t \in Seq(S)
    PROVE  /\ s \o t \in Seq(S)
           /\ Len(s \o t) = Len(s) + Len(t)
           /\ \A i \in 1..Len(s) : (s \o t)[i] = s[i]
           /\ \A i \in (Len(s) + 1)..(Len(s) + Len(t)) :
                  (s \o t)[i] = t[i - Len(s)]
  BY SMT

\* What appending an answer returns.
LEMMA AppendProperties ==
    ASSUME NEW S, NEW s \in Seq(S), NEW e \in S
    PROVE  /\ Append(s, e) \in Seq(S)
           /\ Len(Append(s, e)) = Len(s) + 1
           /\ \A i \in 1..Len(s) : Append(s, e)[i] = s[i]
           /\ Append(s, e)[Len(s) + 1] = e
  BY SMT

\* What taking the oldest entry off a queue leaves.
LEMMA TailProperties ==
    ASSUME NEW S, NEW s \in Seq(S), s # <<>>
    PROVE  /\ Tail(s) \in Seq(S)
           /\ Len(s) >= 1
           /\ Len(Tail(s)) = Len(s) - 1
           /\ \A i \in 1..Len(Tail(s)) : Tail(s)[i] = s[i + 1]
           /\ Head(s) = s[1]
           /\ Head(s) \in S
  BY SMT

\* Every path the handlers write is a path of the tree.
LEMMA PathTypes ==
    /\ \A c, u \in Users : Following(c, u) \in Path /\ FollowerOf(u, c) \in Path
    /\ \A p \in Posts : PostAt(p) \in Path /\ UserPostAt(p) \in Path
    /\ \A u \in Users, p \in Posts : FeedAt(u, p) \in Path
  BY OwnerAssumption DEF Following, FollowerOf, PostAt, UserPostAt, FeedAt,
     Path, RelationPath, PostPath

\* The writes of the handlers are writes.
LEMMA WriteTypes ==
    ASSUME NEW x \in Path
    PROVE  /\ updateChildValues(x) \in Write
           /\ removeValue(x) \in Write
           /\ \A o \in Op : [op |-> o, path |-> x] \in Write
  BY DEF updateChildValues, removeValue, Write, Op

\* A handler that queues writes keeps the queues well formed.
LEMMA PutTypes ==
    ASSUME TypeOK, NEW c \in Users, NEW ws \in Seq(Write), put(c, ws)
    PROVE  /\ outstandingPuts' \in [Users -> Seq(Write)]
           /\ \A d \in Users : Len(acks[d]) <= Len(outstandingPuts'[d])
  <1>1. /\ outstandingPuts[c] \o ws \in Seq(Write)
        /\ Len(outstandingPuts[c] \o ws) = Len(outstandingPuts[c]) + Len(ws)
    BY ConcatProperties DEF TypeOK
  <1>2. Len(ws) \in Nat /\ Len(outstandingPuts[c]) \in Nat /\ Len(acks[c]) \in Nat
    BY DEF TypeOK
  <1>3. QED
    BY <1>1, <1>2 DEF TypeOK, put

\* An answer to the next unanswered write keeps the answers well formed.
LEMMA AnswerTypes ==
    ASSUME TypeOK, NEW c \in Users, NEW a \in {"ok", "err"},
           Len(acks[c]) + 1 \in 1..Len(outstandingPuts[c]),
           acks' = [acks EXCEPT ![c] = Append(@, a)]
    PROVE  /\ acks' \in [Users -> Seq({"ok", "err"})]
           /\ \A d \in Users : Len(acks'[d]) <= Len(outstandingPuts[d])
  <1>1. /\ Append(acks[c], a) \in Seq({"ok", "err"})
        /\ Len(Append(acks[c], a)) = Len(acks[c]) + 1
    BY AppendProperties DEF TypeOK
  <1>2. acks' \in [Users -> Seq({"ok", "err"})]
    BY <1>1 DEF TypeOK
  <1>3. Len(acks'[c]) <= Len(outstandingPuts[c])
    BY <1>1 DEF TypeOK
  <1>4. \A d \in Users \ {c} : Len(acks'[d]) <= Len(outstandingPuts[d])
    BY DEF TypeOK
  <1>5. QED
    BY <1>2, <1>3, <1>4

-----------------------------------------------------------------------------
(* Type correctness.                                                       *)

\* Every variable has its type at the start.
LEMMA InitTypeOK == Init => TypeOK
  BY OwnerAssumption, BoundsAssumption DEF Init, TypeOK, Phase, InFlight

\* Every step of the handlers, the connection and the callbacks keeps the types.
LEMMA StepTypeOK == TypeOK /\ [Next]_vars => TypeOK'
  <1> SUFFICES ASSUME TypeOK, [Next]_vars PROVE TypeOK'
    OBVIOUS
  <1> USE OwnerAssumption, BoundsAssumption
  <1>1. ASSUME NEW c \in Users, NEW u \in Users, NEW o \in Op,
               NEW ws \in Seq(Write), Tap(c, u, o, ws)
        PROVE  TypeOK'
    <2>1. /\ outstandingPuts' \in [Users -> Seq(Write)]
          /\ \A d \in Users : Len(acks[d]) <= Len(outstandingPuts'[d])
      BY <1>1, PutTypes DEF Tap
    <2>2. observers[c] \in [Users -> Seq(Op)] /\ Append(observers[c][u], o) \in Seq(Op)
      BY AppendProperties DEF TypeOK
    <2>3. [observers[c] EXCEPT ![u] = Append(observers[c][u], o)]
              \in [Users -> Seq(Op)]
      BY <2>2
    <2>4. observers' \in [Users -> [Users -> Seq(Op)]]
      BY <1>1, <2>3 DEF Tap, TypeOK
    <2>5. QED
      BY <1>1, <2>1, <2>4 DEF TypeOK, Tap, sharing, counts
  <1>2. ASSUME NEW c \in Users, NEW u \in Users, follow(c, u)
        PROVE  TypeOK'
    <2>1. <<updateChildValues(Following(c, u)),
            updateChildValues(FollowerOf(u, c))>> \in Seq(Write)
      BY PathTypes, WriteTypes
    <2>2. QED
      BY <1>1, <1>2, <2>1 DEF follow, Op
  <1>3. ASSUME NEW c \in Users, NEW u \in Users, unfollow(c, u)
        PROVE  TypeOK'
    <2>1. <<removeValue(Following(c, u)), removeValue(FollowerOf(u, c))>>
              \in Seq(Write)
      BY PathTypes, WriteTypes
    <2>2. QED
      BY <1>1, <1>3, <2>1 DEF unfollow, Op
  <1>4. ASSUME NEW c \in Users, NEW p \in Posts, userPostsChildAdded(c, p)
        PROVE  TypeOK'
    <2> DEFINE os == observers[c][Owner[p]]
               n  == heard[c][p] + 1
    <2> Owner[p] \in Users
      OBVIOUS
    <2>a. observers \in [Users -> [Users -> Seq(Op)]] /\ heard \in [Users -> [Posts -> Nat]]
      BY Zenon DEF TypeOK
    <2>b. os \in Seq(Op) /\ heard[c] \in [Posts -> Nat]
      BY <2>a
    <2>0. /\ os \in Seq(Op)
          /\ Len(os) \in Nat
          /\ heard[c] \in [Posts -> Nat]
          /\ heard[c][p] \in Nat
      BY <2>b
    <2>1. n \in 1..Len(os)
      BY <1>4, <2>0 DEF userPostsChildAdded
    <2>2. os[n] \in Op
      BY <2>0, <2>1
    <2>3. <<[op |-> os[n], path |-> FeedAt(c, p)]>> \in Seq(Write)
      BY <2>2, PathTypes, WriteTypes
    <2>4. /\ outstandingPuts' \in [Users -> Seq(Write)]
          /\ \A d \in Users : Len(acks[d]) <= Len(outstandingPuts'[d])
      BY <1>4, <2>3, PutTypes DEF userPostsChildAdded, feedWrite
    <2>5. heard' \in [Users -> [Posts -> Nat]]
      <3>1. [heard[c] EXCEPT ![p] = n] \in [Posts -> Nat]
        BY <2>0
      <3>2. QED
        BY <1>4, <3>1 DEF userPostsChildAdded, TypeOK
    <2>6. QED
      BY <1>4, <2>4, <2>5 DEF TypeOK, userPostsChildAdded, sharing, counts,
         history
  <1>5. ASSUME NEW p \in Posts,
               handleUploadPost(p) \/ putDataDone(p) \/ storageFailed(p)
        PROVE  TypeOK'
    <2>1. upload' \in [Posts -> Phase]
      BY <1>5 DEF TypeOK, handleUploadPost, putDataDone, storageFailed, Phase,
         InFlight
    <2>2. QED
      BY <1>5, <2>1 DEF TypeOK, handleUploadPost, putDataDone, storageFailed,
         link, feeders, counts, history
  <1>6. ASSUME NEW p \in Posts, downloadURLDone(p)
        PROVE  TypeOK'
    <2>1. <<updateChildValues(PostAt(p))>> \in Seq(Write) /\ Owner[p] \in Users
      BY PathTypes, WriteTypes
    <2>2. /\ outstandingPuts' \in [Users -> Seq(Write)]
          /\ \A d \in Users : Len(acks[d]) <= Len(outstandingPuts'[d])
      BY <1>6, <2>1, PutTypes DEF downloadURLDone, postWrites
    <2>3. upload' \in [Posts -> Phase]
      BY <1>6 DEF TypeOK, downloadURLDone, Phase, InFlight
    <2>4. QED
      BY <1>6, <2>2, <2>3 DEF TypeOK, downloadURLDone, feeders, counts, history
  <1>7. ASSUME NEW p \in Posts, postCompletion(p)
        PROVE  TypeOK'
    <2>1. /\ <<updateChildValues(UserPostAt(p))>> \in Seq(Write)
          /\ <<updateChildValues(UserPostAt(p)),
               updateChildValues(FeedAt(Owner[p], p))>> \in Seq(Write)
          /\ Owner[p] \in Users
      BY PathTypes, WriteTypes
    <2>2. /\ outstandingPuts' \in [Users -> Seq(Write)]
          /\ \A d \in Users : Len(acks[d]) <= Len(outstandingPuts'[d])
      BY <1>7, <2>1, PutTypes DEF postCompletion
    <2>3. /\ upload' \in [Posts -> Phase]
          /\ fanout' \in [Posts -> BOOLEAN]
          /\ due' \in [Posts -> SUBSET Users]
      <3>1. /\ upload \in [Posts -> Phase] /\ fanout \in [Posts -> BOOLEAN]
            /\ seen \in [Users -> SUBSET Users] /\ due \in [Posts -> SUBSET Users]
        BY Zenon DEF TypeOK
      <3>2. "shared" \in Phase /\ "unfed" \in Phase
        BY DEF Phase
      <3>3. upload' \in [Posts -> Phase]
        BY <1>7, <3>1, <3>2 DEF postCompletion
      <3>4. fanout' \in [Posts -> BOOLEAN]
        BY <1>7, <3>1 DEF postCompletion
      <3>5. due' \in [Posts -> SUBSET Users]
        BY <1>7, <2>1, <3>1 DEF postCompletion
      <3>6. QED
        BY <3>3, <3>4, <3>5
    <2>4. QED
      BY <1>7, <2>2, <2>3 DEF TypeOK, postCompletion, feeders, counts, history
  <1>8. ASSUME NEW o \in Users, userFollowersUpdate(o)
        PROVE  TypeOK'
    <2>1. seen' \in [Users -> SUBSET Users] /\ due' \in [Posts -> SUBSET Users]
      BY <1>8 DEF TypeOK, userFollowersUpdate
    <2>2. QED
      BY <1>8, <2>1 DEF TypeOK, userFollowersUpdate, link, feeders, counts,
         history
  <1>9. ASSUME NEW p \in Posts, NEW f \in Users, followerChildAdded(p, f)
        PROVE  TypeOK'
    <2>1. <<updateChildValues(FeedAt(f, p))>> \in Seq(Write) /\ Owner[p] \in Users
      BY PathTypes, WriteTypes
    <2>2. /\ outstandingPuts' \in [Users -> Seq(Write)]
          /\ \A d \in Users : Len(acks[d]) <= Len(outstandingPuts'[d])
      BY <1>9, <2>1, PutTypes DEF followerChildAdded, followerWrite
    <2>3. due' \in [Posts -> SUBSET Users] /\ fanned' \in [Posts -> SUBSET Users]
      BY <1>9 DEF TypeOK, followerChildAdded
    <2>4. QED
      BY <1>9, <2>2, <2>3 DEF TypeOK, followerChildAdded, feeders, counts
  <1>10. ASSUME NEW c \in Users, serverAccepts(c)
         PROVE  TypeOK'
    <2> DEFINE n == Len(acks[c]) + 1
               w == outstandingPuts[c][n]
    <2>1. n \in 1..Len(outstandingPuts[c])
      BY <1>10 DEF serverAccepts, TypeOK
    <2>2. w \in Write
      BY <2>1 DEF TypeOK
    <2>3. db' \in SUBSET Path
      BY <1>10, <2>2 DEF serverAccepts, Apply, Write, TypeOK
    <2>4. /\ acks' \in [Users -> Seq({"ok", "err"})]
          /\ \A d \in Users : Len(acks'[d]) <= Len(outstandingPuts[d])
      BY <1>10, <2>1, AnswerTypes DEF serverAccepts
    <2>5. QED
      BY <1>10, <2>3, <2>4 DEF TypeOK, serverAccepts, feeders, sharing, counts,
         history
  <1>11. ASSUME NEW c \in Users, serverRefuses(c)
         PROVE  TypeOK'
    <2>1. Len(acks[c]) + 1 \in 1..Len(outstandingPuts[c])
      BY <1>11 DEF serverRefuses, TypeOK
    <2>2. /\ acks' \in [Users -> Seq({"ok", "err"})]
          /\ \A d \in Users : Len(acks'[d]) <= Len(outstandingPuts[d])
      BY <1>11, <2>1, AnswerTypes DEF serverRefuses
    <2>3. faults' \in [Users -> Nat] /\ \A d \in Users : faults'[d] <= MaxFaults[d]
      BY <1>11 DEF serverRefuses, TypeOK
    <2>4. QED
      BY <1>11, <2>2, <2>3 DEF TypeOK, serverRefuses, feeders, sharing, history
  <1>12. ASSUME NEW c \in Users, ackPut(c)
         PROVE  TypeOK'
    <2>1. outstandingPuts[c] # <<>>
      BY <1>12 DEF ackPut, TypeOK
    <2>2. /\ Tail(outstandingPuts[c]) \in Seq(Write)
          /\ Len(Tail(outstandingPuts[c])) = Len(outstandingPuts[c]) - 1
      BY <2>1, TailProperties DEF TypeOK
    <2>3. /\ Tail(acks[c]) \in Seq({"ok", "err"})
          /\ Len(Tail(acks[c])) = Len(acks[c]) - 1
      BY <1>12, TailProperties DEF ackPut, TypeOK
    <2>4. Len(acks[c]) \in Nat /\ Len(outstandingPuts[c]) \in Nat
      BY DEF TypeOK
    <2>5. /\ outstandingPuts' \in [Users -> Seq(Write)]
          /\ acks' \in [Users -> Seq({"ok", "err"})]
          /\ \A d \in Users : Len(acks'[d]) <= Len(outstandingPuts'[d])
      BY <1>12, <2>2, <2>3, <2>4 DEF ackPut, TypeOK
    <2>6. upload' \in [Posts -> Phase]
      BY <1>12 DEF ackPut, callOnComplete, TypeOK, Phase, InFlight
    <2>7. torn' \in SUBSET (Users \X Users) /\ unposted' \in SUBSET Posts
      BY <1>12 DEF ackPut, TypeOK
    <2>8. QED
      BY <1>12, <2>5, <2>6, <2>7 DEF TypeOK, ackPut, feeders, counts
  <1>13. ASSUME NEW c \in Users, onDisconnect(c)
         PROVE  TypeOK'
    <2>a. /\ acks \in [Users -> Seq({"ok", "err"})]
          /\ outstandingPuts \in [Users -> Seq(Write)]
          /\ \A d \in Users : Len(acks[d]) <= Len(outstandingPuts[d])
      BY Zenon DEF TypeOK
    <2>b. acks' = [acks EXCEPT ![c] = <<>>]
      BY <1>13 DEF onDisconnect
    <2>1. /\ acks' \in [Users -> Seq({"ok", "err"})]
          /\ \A d \in Users : Len(acks'[d]) <= Len(outstandingPuts[d])
      BY <2>a, <2>b
    <2>2. drops' \in [Users -> Nat]
      BY <1>13 DEF onDisconnect, TypeOK
    <2>3. QED
      BY <1>13, <2>1, <2>2 DEF TypeOK, onDisconnect, feeders, sharing, history
  <1>14. ASSUME NEW c \in Users, processDeath(c)
         PROVE  TypeOK'
    <2>1. /\ outstandingPuts' \in [Users -> Seq(Write)]
          /\ acks' \in [Users -> Seq({"ok", "err"})]
          /\ \A d \in Users : Len(acks'[d]) <= Len(outstandingPuts'[d])
      BY <1>14 DEF processDeath, TypeOK
    <2>a. observers \in [Users -> [Users -> Seq(Op)]] /\ heard \in [Users -> [Posts -> Nat]]
      BY Zenon DEF TypeOK
    <2>b. /\ observers' = [observers EXCEPT ![c] = [u \in Users |-> <<>>]]
          /\ heard' = [heard EXCEPT ![c] = [p \in Posts |-> 0]]
      BY <1>14 DEF processDeath
    <2>2. /\ observers' \in [Users -> [Users -> Seq(Op)]]
          /\ heard' \in [Users -> [Posts -> Nat]]
      BY <2>a, <2>b
    <2>3. /\ upload' \in [Posts -> Phase]
          /\ fanout' \in [Posts -> BOOLEAN]
          /\ seen' \in [Users -> SUBSET Users]
          /\ due' \in [Posts -> SUBSET Users]
      BY <1>14 DEF processDeath, TypeOK, Phase
    <2>4. faults' \in [Users -> Nat] /\ \A d \in Users : faults'[d] <= MaxFaults[d]
      BY <1>14 DEF processDeath, TypeOK
    <2>5. torn' \in SUBSET (Users \X Users)
      BY <1>14 DEF processDeath, TypeOK
    <2>6. QED
      BY <1>14, <2>1, <2>2, <2>3, <2>4, <2>5, ZenonT(40) DEF TypeOK, processDeath
  <1>15. ASSUME NEW c \in Users, signOut(c) \/ signIn(c)
         PROVE  TypeOK'
    BY <1>15, ZenonT(60) DEF TypeOK, signOut, signIn, link, feeders, sharing, counts, history
  <1>16. CASE UNCHANGED vars
    BY <1>16 DEF TypeOK, vars, link, feeders, sharing, counts, history
  <1>17. QED
    BY <1>2, <1>3, <1>4, <1>5, <1>6, <1>7, <1>8, <1>9, <1>10, <1>11, <1>12,
       <1>13, <1>14, <1>15, <1>16 DEF Next

\* Every variable keeps its type, the server never answers more writes than
\* are queued, and no client exceeds its bound on faults.
THEOREM TypeCorrect == Spec => []TypeOK
  BY InitTypeOK, StepTypeOK, PTL DEF Spec

-----------------------------------------------------------------------------
(* No list names a post that is not stored.                                *)

\* Which paths name a post: a posts record and a relation path never list
\* one, a user-posts or user-feed path lists exactly the post at its end.
LEMMA ListsFacts ==
    ASSUME NEW p \in Posts, NEW q \in Posts, NEW c \in Users, NEW u \in Users
    PROVE  /\ ~Lists(PostAt(q), p)
           /\ ~Lists(Following(c, u), p)
           /\ ~Lists(FollowerOf(u, c), p)
           /\ Lists(UserPostAt(q), p) => q = p
           /\ Lists(FeedAt(u, q), p) => q = p
           /\ PostAt(q) = PostAt(p) => q = p
           /\ PostAt(p) # Following(c, u)
           /\ PostAt(p) # FollowerOf(u, c)
           /\ PostAt(p) # UserPostAt(q)
           /\ PostAt(p) # FeedAt(u, q)
           /\ Lists(UserPostAt(p), p)
           /\ Lists(FeedAt(u, p), p)
  BY DEF Lists, PostAt, UserPostAt, FeedAt, Following, FollowerOf

\* Where each write of a queue comes from after more writes were queued.
LEMMA PutOrigin ==
    ASSUME TypeOK, NEW c \in Users, NEW ws \in Seq(Write), put(c, ws),
           NEW d \in Users, NEW i \in 1..Len(outstandingPuts'[d])
    PROVE  \/ /\ i \in 1..Len(outstandingPuts[d])
              /\ outstandingPuts'[d][i] = outstandingPuts[d][i]
           \/ \E k \in 1..Len(ws) : /\ d = c
                                    /\ i = Len(outstandingPuts[c]) + k
                                    /\ outstandingPuts'[d][i] = ws[k]
  <1> DEFINE s == outstandingPuts[c]
  <1>1. s \in Seq(Write) /\ Len(s) \in Nat /\ Len(ws) \in Nat
    BY SMTT(30) DEF TypeOK
  <1>2. /\ outstandingPuts'[c] = s \o ws
        /\ \A e \in Users \ {c} : outstandingPuts'[e] = outstandingPuts[e]
    BY DEF TypeOK, put
  <1>3. /\ Len(s \o ws) = Len(s) + Len(ws)
        /\ \A k \in 1..Len(s) : (s \o ws)[k] = s[k]
        /\ \A k \in (Len(s) + 1)..(Len(s) + Len(ws)) : (s \o ws)[k] = ws[k - Len(s)]
    BY <1>1, ConcatProperties
  <1>4. CASE d = c /\ i \notin 1..Len(s)
    <2>1. i - Len(s) \in 1..Len(ws) /\ i = Len(s) + (i - Len(s))
      BY <1>1, <1>2, <1>3, <1>4
    <2>2. outstandingPuts'[d][i] = ws[i - Len(s)]
      BY <1>1, <1>2, <1>3, <1>4, SMTT(30)
    <2>3. QED
      BY <1>4, <2>1, <2>2
  <1>5. CASE d = c /\ i \in 1..Len(s)
    BY <1>2, <1>3, <1>5
  <1>6. CASE d # c
    BY <1>2, <1>6
  <1>7. QED
    BY <1>4, <1>5, <1>6

\* The writes already queued keep their place when more are queued.
LEMMA PutKeeps ==
    ASSUME TypeOK, NEW c \in Users, NEW ws \in Seq(Write), put(c, ws)
    PROVE  \A d \in Users : \A i \in 1..Len(outstandingPuts[d]) :
               /\ i \in 1..Len(outstandingPuts'[d])
               /\ outstandingPuts'[d][i] = outstandingPuts[d][i]
  <1> DEFINE s == outstandingPuts[c]
  <1>1. s \in Seq(Write) /\ Len(s) \in Nat /\ Len(ws) \in Nat
    BY DEF TypeOK
  <1>2. /\ outstandingPuts'[c] = s \o ws
        /\ \A d \in Users \ {c} : outstandingPuts'[d] = outstandingPuts[d]
    BY DEF TypeOK, put
  <1>3. /\ Len(s \o ws) = Len(s) + Len(ws)
        /\ \A i \in 1..Len(s) : (s \o ws)[i] = s[i]
    BY <1>1, ConcatProperties
  <1>4. QED
    BY <1>1, <1>2, <1>3

\* Queueing writes other than posts writes keeps PostWriteOnce.
LEMMA PutKeepsPostWriteOnce ==
    ASSUME TypeOK, PostWriteOnce, NEW c \in Users, NEW ws \in Seq(Write),
           put(c, ws),
           \A k \in 1..Len(ws), p \in Posts : ws[k].path # PostAt(p),
           \A p \in Posts : upload[p] = "posting" => upload'[p] = "posting"
    PROVE  PostWriteOnce'
  <1> SUFFICES ASSUME NEW d \in Users, NEW p \in Posts,
                      NEW i \in 1..Len(outstandingPuts'[d]),
                      outstandingPuts'[d][i].path = PostAt(p)
               PROVE  /\ d = Owner[p]
                      /\ upload'[p] = "posting"
                      /\ outstandingPuts'[d][i].op = "set"
                      /\ \A j \in 1..Len(outstandingPuts'[d]) :
                            outstandingPuts'[d][j].path = PostAt(p) => i = j
    BY DEF PostWriteOnce, PostAt
  <1>1. ASSUME NEW j \in 1..Len(outstandingPuts'[d]),
               outstandingPuts'[d][j].path = PostAt(p)
        PROVE  /\ j \in 1..Len(outstandingPuts[d])
               /\ outstandingPuts'[d][j] = outstandingPuts[d][j]
    BY <1>1, PutOrigin
  <1>2. QED
    BY <1>1 DEF PostWriteOnce

\* Queueing writes does not touch the writes already answered.
LEMMA PutKeepsPostWriteApplied ==
    ASSUME TypeOK, PostWriteApplied, NEW c \in Users, NEW ws \in Seq(Write),
           put(c, ws), acks' = acks, db' = db
    PROVE  PostWriteApplied'
  <1> SUFFICES ASSUME NEW d \in Users, NEW p \in Posts, NEW i \in 1..Len(acks[d]),
                      outstandingPuts'[d][i].path = PostAt(p), acks[d][i] = "ok"
               PROVE  PostAt(p) \in db
    BY DEF PostWriteApplied, PostAt
  <1>1. i \in 1..Len(outstandingPuts[d])
    BY DEF TypeOK
  <1>2. outstandingPuts'[d][i] = outstandingPuts[d][i]
    BY <1>1, PutKeeps
  <1>3. QED
    BY <1>2 DEF PostWriteApplied

\* Queueing writes keeps ListedIsCompleted, if they list completed posts only.
LEMMA PutKeepsListedIsCompleted ==
    ASSUME TypeOK, ListedIsCompleted, NEW c \in Users, NEW ws \in Seq(Write),
           put(c, ws), db' = db,
           \A p \in Posts :
               \/ upload'[p] \in {"shared", "unfed"}
               \/ /\ upload[p] \notin {"shared", "unfed"}
                  /\ fanout'[p] = fanout[p]
                  /\ due'[p] = due[p]
                  /\ \A k \in 1..Len(ws) : ~Lists(ws[k].path, p)
    PROVE  ListedIsCompleted'
  <1> SUFFICES ASSUME NEW p \in Posts, upload'[p] \notin {"shared", "unfed"}
               PROVE  /\ ~fanout'[p]
                      /\ due'[p] = {}
                      /\ \A x \in db : ~Lists(x, p)
                      /\ \A d \in Users : \A i \in 1..Len(outstandingPuts'[d]) :
                             ~Lists(outstandingPuts'[d][i].path, p)
    BY DEF ListedIsCompleted, Lists, UserPostAt, FeedAt
  <1>1. /\ ~fanout'[p]
        /\ due'[p] = {}
        /\ \A x \in db : ~Lists(x, p)
        /\ \A d \in Users : \A i \in 1..Len(outstandingPuts[d]) :
               ~Lists(outstandingPuts[d][i].path, p)
        /\ \A k \in 1..Len(ws) : ~Lists(ws[k].path, p)
    BY DEF ListedIsCompleted
  <1>2. ASSUME NEW d \in Users, NEW i \in 1..Len(outstandingPuts'[d])
        PROVE  ~Lists(outstandingPuts'[d][i].path, p)
    <2>1. \/ /\ i \in 1..Len(outstandingPuts[d])
             /\ outstandingPuts'[d][i] = outstandingPuts[d][i]
          \/ \E k \in 1..Len(ws) : outstandingPuts'[d][i] = ws[k]
      BY PutOrigin
    <2>2. QED
      BY <1>1, <2>1
  <1>3. QED
    BY <1>1, <1>2

\* The same for a single write.
LEMMA PutOneOrigin ==
    ASSUME TypeOK, NEW c \in Users, NEW w \in Write, put(c, <<w>>),
           NEW d \in Users, NEW i \in 1..Len(outstandingPuts'[d])
    PROVE  \/ /\ i \in 1..Len(outstandingPuts[d])
              /\ outstandingPuts'[d][i] = outstandingPuts[d][i]
           \/ /\ d = c
              /\ i = Len(outstandingPuts[c]) + 1
              /\ outstandingPuts'[d][i] = w
  <1> DEFINE s == outstandingPuts[c]
             t == s \o <<w>>
  <1>1. s \in Seq(Write) /\ <<w>> \in Seq(Write) /\ Len(s) \in Nat
    BY DEF TypeOK
  <1>2. /\ outstandingPuts'[c] = t
        /\ \A e \in Users \ {c} : outstandingPuts'[e] = outstandingPuts[e]
    BY DEF TypeOK, put
  <1>3. /\ Len(t) = Len(s) + 1
        /\ \A k \in 1..Len(s) : t[k] = s[k]
        /\ t[Len(s) + 1] = w
    BY <1>1
  <1> HIDE DEF t
  <1>4. CASE d = c
    <2>1. i \in 1..(Len(s) + 1)
      BY <1>2, <1>3, <1>4
    <2>2. i \in 1..Len(s) \/ i = Len(s) + 1
      BY <1>1, <2>1
    <2>3. QED
      BY <1>2, <1>3, <1>4, <2>2
  <1>5. CASE d # c
    BY <1>2, <1>5
  <1>6. QED
    BY <1>4, <1>5

\* PostWriteOnce looks at the queues and at which uploads are posting.
LEMMA FramePostWriteOnce ==
    ASSUME PostWriteOnce, outstandingPuts' = outstandingPuts,
           \A p \in Posts : upload[p] = "posting" => upload'[p] = "posting"
    PROVE  PostWriteOnce'
  BY DEF PostWriteOnce, PostAt

\* An action that queues writes none of which is a posts write, changes no
\* upload into or out of "posting" or a completed phase, and lists nothing but
\* completed posts, keeps the invariant.
LEMMA QuietPut ==
    ASSUME PublishInv, TypeOK', NEW c \in Users, NEW ws \in Seq(Write),
           put(c, ws), UNCHANGED <<db, acks, upload, fanout, unposted>>,
           \A k \in 1..Len(ws), p \in Posts : ws[k].path # PostAt(p),
           \A p \in Posts :
               \/ upload[p] \in {"shared", "unfed"}
               \/ /\ due'[p] = due[p]
                  /\ \A k \in 1..Len(ws) : ~Lists(ws[k].path, p)
    PROVE  PublishInv'
  <1> USE DEF PublishInv
  <1>1. PostWriteOnce'
    BY PutKeepsPostWriteOnce
  <1>2. PostWriteApplied'
    BY PutKeepsPostWriteApplied
  <1>3. CompletedIsStored'
    BY DEF CompletedIsStored, PostAt
  <1>4. ListedIsCompleted'
    BY PutKeepsListedIsCompleted
  <1>5. QED
    BY <1>1, <1>2, <1>3, <1>4

\* An action that leaves the tree, the queues and the answers alone and moves
\* an upload between phases before "posting" keeps the invariant.
LEMMA QuietPhase ==
    ASSUME PublishInv, TypeOK',
           UNCHANGED <<db, outstandingPuts, acks, unposted>>,
           \A p \in Posts :
               \/ upload'[p] = upload[p]
               \/ /\ upload[p] \in {"none", "storing", "locating"}
                  /\ upload'[p] \in {"storing", "locating", "failed"},
           \A p \in Posts :
               \/ upload[p] \in {"shared", "unfed"}
               \/ fanout'[p] = fanout[p] /\ due'[p] = due[p]
    PROVE  PublishInv'
  <1> USE DEF PublishInv
  <1>1. PostWriteOnce'
    BY DEF PostWriteOnce, PostAt
  <1>2. PostWriteApplied'
    BY DEF PostWriteApplied, PostAt
  <1>3. CompletedIsStored'
    BY DEF CompletedIsStored, PostAt
  <1>4. ListedIsCompleted'
    BY DEF ListedIsCompleted, Lists, UserPostAt, FeedAt
  <1>5. QED
    BY <1>1, <1>2, <1>3, <1>4

\* Before the first upload nothing about any post exists.
LEMMA InitPublishInv == Init => PublishInv
  <1> SUFFICES ASSUME Init PROVE PublishInv
    OBVIOUS
  <1>1. \A c \in Users : outstandingPuts[c] = <<>> /\ acks[c] = <<>>
    BY DEF Init
  <1>2. PostWriteOnce /\ PostWriteApplied
    BY <1>1 DEF PostWriteOnce, PostWriteApplied
  <1>3. CompletedIsStored
    BY DEF Init, CompletedIsStored
  <1>4. ListedIsCompleted
    BY <1>1 DEF Init, ListedIsCompleted
  <1>5. QED
    BY <1>2, <1>3, <1>4, InitTypeOK DEF PublishInv

\* Every step keeps the order posts, user-posts, feeds of handleUploadPost.
LEMMA StepPublishInv == PublishInv /\ [Next]_vars => PublishInv'
  <1> SUFFICES ASSUME PublishInv, [Next]_vars PROVE PublishInv'
    OBVIOUS
  <1> TypeOK /\ TypeOK'
    BY StepTypeOK DEF PublishInv
  <1> USE OwnerAssumption
  <1>1. ASSUME NEW c \in Users, NEW u \in Users, follow(c, u)
        PROVE  PublishInv'
    <2> DEFINE ws == <<updateChildValues(Following(c, u)),
                       updateChildValues(FollowerOf(u, c))>>
    <2>1. ws \in Seq(Write)
      BY PathTypes, WriteTypes
    <2>2. \A k \in 1..Len(ws) :
              ws[k].path = Following(c, u) \/ ws[k].path = FollowerOf(u, c)
      BY DEF updateChildValues
    <2>3. /\ put(c, ws)
          /\ UNCHANGED <<db, acks, upload, fanout, unposted, due>>
      BY <1>1 DEF follow, Tap, sharing
    <2> HIDE DEF ws
    <2>4. QED
      BY <2>1, <2>2, <2>3, ListsFacts, QuietPut, SMTT(30)
  <1>2. ASSUME NEW c \in Users, NEW u \in Users, unfollow(c, u)
        PROVE  PublishInv'
    <2> DEFINE ws == <<removeValue(Following(c, u)), removeValue(FollowerOf(u, c))>>
    <2>1. ws \in Seq(Write)
      BY PathTypes, WriteTypes
    <2>2. \A k \in 1..Len(ws) :
              ws[k].path = Following(c, u) \/ ws[k].path = FollowerOf(u, c)
      BY DEF removeValue
    <2>3. /\ put(c, ws)
          /\ UNCHANGED <<db, acks, upload, fanout, unposted, due>>
      BY <1>2 DEF unfollow, Tap, sharing
    <2> HIDE DEF ws
    <2>4. QED
      BY <2>1, <2>2, <2>3, ListsFacts, QuietPut, SMTT(30)
  <1>3. ASSUME NEW c \in Users, NEW p \in Posts, userPostsChildAdded(c, p)
        PROVE  PublishInv'
    <2> DEFINE o  == observers[c][Owner[p]][heard[c][p] + 1]
               ws == <<[op |-> o, path |-> FeedAt(c, p)]>>
    <2>1. ws \in Seq(Write)
      <3>1. Owner[p] \in Users
        OBVIOUS
      <3>2. /\ heard[c][p] \in Nat
            /\ observers[c][Owner[p]] \in Seq(Op)
            /\ heard[c][p] + 1 <= Len(observers[c][Owner[p]])
        BY <1>3, <3>1 DEF TypeOK, userPostsChildAdded
      <3>3. o \in Op
        BY <3>2
      <3>4. QED
        BY <3>3, PathTypes, WriteTypes
    <2>2. Len(ws) = 1 /\ ws[1].path = FeedAt(c, p)
      OBVIOUS
    <2>3. /\ put(c, ws)
          /\ UNCHANGED <<db, acks, upload, fanout, unposted, due>>
      BY <1>3 DEF userPostsChildAdded, feedWrite, sharing, history
    <2>4. upload[p] \in {"shared", "unfed"}
      BY <1>3, ListsFacts DEF userPostsChildAdded, PublishInv, ListedIsCompleted
    <2> HIDE DEF ws
    <2>5. \A k \in 1..Len(ws) : ws[k].path = FeedAt(c, p)
      BY <2>2
    <2>6. QED
      BY <2>1, <2>3, <2>4, <2>5, ListsFacts, QuietPut
  <1>4. ASSUME NEW p \in Posts,
               handleUploadPost(p) \/ putDataDone(p) \/ storageFailed(p)
        PROVE  PublishInv'
    <2>1. /\ UNCHANGED <<db, outstandingPuts, acks, unposted, fanout, due>>
          /\ \A q \in Posts \ {p} : upload'[q] = upload[q]
          /\ upload[p] \in {"none", "storing", "locating"}
          /\ upload'[p] \in {"storing", "locating", "failed"}
      BY <1>4 DEF handleUploadPost, putDataDone, storageFailed, link, history,
         TypeOK
    <2>2. QED
      BY <2>1, QuietPhase
  <1>5. ASSUME NEW p \in Posts, downloadURLDone(p)
        PROVE  PublishInv'
    <2> DEFINE o  == Owner[p]
               ws == <<updateChildValues(PostAt(p))>>
    <2>1. o \in Users /\ ws \in Seq(Write) /\ updateChildValues(PostAt(p)) \in Write
      BY PathTypes, WriteTypes
    <2>2. /\ Len(ws) = 1
          /\ ws[1] = updateChildValues(PostAt(p))
          /\ ws[1].path = PostAt(p)
          /\ ws[1].op = "set"
      BY DEF updateChildValues
    <2>3. /\ put(o, ws)
          /\ UNCHANGED <<db, acks, fanout, due, unposted>>
          /\ upload[p] = "locating"
          /\ upload' = [upload EXCEPT ![p] = "posting"]
      BY <1>5 DEF downloadURLDone, postWrites, history
    <2> HIDE DEF ws, o
    <2>4. /\ upload'[p] = "posting"
          /\ \A q \in Posts \ {p} : upload'[q] = upload[q]
      BY <2>3 DEF TypeOK
    <2>5. PostWriteOnce'
      <3>1. ASSUME NEW d \in Users, NEW i \in 1..Len(outstandingPuts'[d])
            PROVE  \/ /\ i \in 1..Len(outstandingPuts[d])
                      /\ outstandingPuts'[d][i] = outstandingPuts[d][i]
                   \/ /\ d = o
                      /\ i = Len(outstandingPuts[o]) + 1
                      /\ outstandingPuts'[d][i] = ws[1]
        BY <2>1, <2>2, <2>3, PutOneOrigin DEF ws
      <3> SUFFICES ASSUME NEW d \in Users, NEW q \in Posts,
                          NEW i \in 1..Len(outstandingPuts'[d]),
                          outstandingPuts'[d][i].path = PostAt(q)
                   PROVE  /\ d = Owner[q]
                          /\ upload'[q] = "posting"
                          /\ outstandingPuts'[d][i].op = "set"
                          /\ \A j \in 1..Len(outstandingPuts'[d]) :
                                outstandingPuts'[d][j].path = PostAt(q) => i = j
        BY DEF PostWriteOnce, PostAt
      <3>2. \A j \in 1..Len(outstandingPuts[d]) : outstandingPuts[d][j].path # PostAt(p)
        BY <2>3 DEF PublishInv, PostWriteOnce
      <3>3. CASE q = p
        <4>1. \A j \in 1..Len(outstandingPuts'[d]) :
                  outstandingPuts'[d][j].path = PostAt(p) =>
                      /\ d = o
                      /\ j = Len(outstandingPuts[o]) + 1
                      /\ outstandingPuts'[d][j] = ws[1]
          BY <3>1, <3>2
        <4>2. QED
          BY <2>2, <2>4, <3>3, <4>1 DEF o
      <3>4. CASE q # p
        <4>1. PostAt(q) # PostAt(p)
          BY <3>4, <2>1, ListsFacts
        <4>2. \A j \in 1..Len(outstandingPuts'[d]) :
                  outstandingPuts'[d][j].path = PostAt(q) =>
                      /\ j \in 1..Len(outstandingPuts[d])
                      /\ outstandingPuts'[d][j] = outstandingPuts[d][j]
          BY <2>2, <3>1, <4>1
        <4>3. QED
          BY <2>4, <3>4, <4>2 DEF PublishInv, PostWriteOnce
      <3>5. QED
        BY <3>3, <3>4
    <2>6. PostWriteApplied'
      BY <2>1, <2>3, PutKeepsPostWriteApplied DEF PublishInv
    <2>7. CompletedIsStored'
      BY <2>3, <2>4 DEF PublishInv, CompletedIsStored, PostAt
    <2>8. ListedIsCompleted'
      <3>1. \A k \in 1..Len(ws), q \in Posts : ~Lists(ws[k].path, q)
        BY <2>1, <2>2, ListsFacts
      <3>2. QED
        BY <2>1, <2>3, <2>4, <3>1, PutKeepsListedIsCompleted DEF PublishInv
    <2>9. QED
      BY <2>5, <2>6, <2>7, <2>8 DEF PublishInv
  <1>6. ASSUME NEW p \in Posts, postCompletion(p)
        PROVE  PublishInv'
    <2> DEFINE o   == Owner[p]
               two == <<updateChildValues(UserPostAt(p)),
                        updateChildValues(FeedAt(o, p))>>
               one == <<updateChildValues(UserPostAt(p))>>
    <2>1. o \in Users /\ two \in Seq(Write) /\ one \in Seq(Write)
      BY PathTypes, WriteTypes
    <2>2. /\ \A k \in 1..Len(two) :
                 two[k].path = UserPostAt(p) \/ two[k].path = FeedAt(o, p)
          /\ \A k \in 1..Len(one) : one[k].path = UserPostAt(p)
      BY DEF updateChildValues
    <2>3. /\ UNCHANGED <<db, acks, unposted>>
          /\ upload[p] = "completing"
          /\ upload'[p] \in {"shared", "unfed"}
          /\ \A q \in Posts \ {p} : /\ upload'[q] = upload[q]
                                    /\ fanout'[q] = fanout[q]
                                    /\ due'[q] = due[q]
          /\ put(o, two) \/ put(o, one)
      BY <1>6, ZenonT(40) DEF postCompletion, history, TypeOK
    <2> HIDE DEF o, two, one
    <2>4. ASSUME NEW ws \in Seq(Write), put(o, ws),
                 \A k \in 1..Len(ws) :
                     ws[k].path = UserPostAt(p) \/ ws[k].path = FeedAt(o, p)
          PROVE  PublishInv'
      <3>1. \A k \in 1..Len(ws) : \A q \in Posts :
                /\ ws[k].path # PostAt(q)
                /\ q # p => ~Lists(ws[k].path, q)
        BY <2>1, <2>4, ListsFacts
      <3>2. PostWriteOnce'
        BY <2>1, <2>3, <2>4, <3>1, PutKeepsPostWriteOnce DEF PublishInv
      <3>3. PostWriteApplied'
        BY <2>1, <2>3, <2>4, PutKeepsPostWriteApplied DEF PublishInv
      <3>4. CompletedIsStored'
        BY <2>3 DEF PublishInv, CompletedIsStored, PostAt
      <3>5. ListedIsCompleted'
        <4>1. \A q \in Posts :
                  \/ upload'[q] \in {"shared", "unfed"}
                  \/ /\ upload[q] \notin {"shared", "unfed"}
                     /\ fanout'[q] = fanout[q]
                     /\ due'[q] = due[q]
                     /\ \A k \in 1..Len(ws) : ~Lists(ws[k].path, q)
          BY <2>3, <3>1
        <4>2. QED
          BY <2>1, <2>3, <2>4, <4>1, PutKeepsListedIsCompleted DEF PublishInv
      <3>6. QED
        BY <3>2, <3>3, <3>4, <3>5 DEF PublishInv
    <2>5. QED
      BY <2>1, <2>2, <2>3, <2>4
  <1>7. ASSUME NEW o \in Users, userFollowersUpdate(o)
        PROVE  PublishInv'
    <2>1. \A p \in Posts : upload[p] \in {"shared", "unfed"} \/ ~fanout[p]
      BY DEF PublishInv, ListedIsCompleted
    <2>2. /\ UNCHANGED <<db, outstandingPuts, acks, unposted, upload, fanout>>
          /\ \A p \in Posts : fanout[p] \/ due'[p] = due[p]
      BY <1>7 DEF userFollowersUpdate, link, history
    <2>3. QED
      BY <2>1, <2>2, QuietPhase
  <1>8. ASSUME NEW p \in Posts, NEW f \in Users, followerChildAdded(p, f)
        PROVE  PublishInv'
    <2> DEFINE ws == <<updateChildValues(FeedAt(f, p))>>
    <2>1. ws \in Seq(Write) /\ Owner[p] \in Users
      BY PathTypes, WriteTypes
    <2>2. \A k \in 1..Len(ws) : ws[k].path = FeedAt(f, p)
      BY DEF updateChildValues
    <2>3. /\ put(Owner[p], ws)
          /\ UNCHANGED <<db, acks, upload, fanout, unposted>>
          /\ \A q \in Posts \ {p} : due'[q] = due[q]
          /\ due[p] # {}
      BY <1>8 DEF followerChildAdded, followerWrite, TypeOK
    <2>4. upload[p] \in {"shared", "unfed"}
      BY <2>3 DEF PublishInv, ListedIsCompleted
    <2> HIDE DEF ws
    <2>5. \A k \in 1..Len(ws), q \in Posts :
              ws[k].path # PostAt(q) /\ (q # p => ~Lists(ws[k].path, q))
      BY <2>2, ListsFacts
    <2>6. QED
      BY <2>1, <2>3, <2>4, <2>5, QuietPut
  <1>9. ASSUME NEW c \in Users, serverAccepts(c)
        PROVE  PublishInv'
    <2> DEFINE n == Len(acks[c]) + 1
               w == outstandingPuts[c][n]
    <2>1. n \in 1..Len(outstandingPuts[c]) /\ Len(acks[c]) \in Nat
      BY <1>9 DEF serverAccepts, TypeOK
    <2>2. /\ db' = Apply(db, w)
          /\ acks' = [acks EXCEPT ![c] = Append(@, "ok")]
          /\ UNCHANGED <<outstandingPuts, upload, fanout, due, unposted>>
      BY <1>9 DEF serverAccepts, sharing, history
    <2>3. /\ Len(acks'[c]) = n
          /\ \A i \in 1..Len(acks[c]) : acks'[c][i] = acks[c][i]
          /\ \A d \in Users \ {c} : acks'[d] = acks[d]
      BY <2>2, AppendProperties DEF TypeOK
    <2>4. \A p \in Posts : PostAt(p) \in db => PostAt(p) \in db'
      BY <2>1, <2>2 DEF PublishInv, PostWriteOnce, Apply
    <2>5. \A p \in Posts : w.path = PostAt(p) => PostAt(p) \in db'
      BY <2>1, <2>2 DEF PublishInv, PostWriteOnce, Apply
    <2>6. PostWriteOnce'
      BY <2>2, FramePostWriteOnce DEF PublishInv
    <2>7. PostWriteApplied'
      <3> SUFFICES ASSUME NEW d \in Users, NEW p \in Posts,
                          NEW i \in 1..Len(acks'[d]),
                          outstandingPuts[d][i].path = PostAt(p),
                          acks'[d][i] = "ok"
                   PROVE  PostAt(p) \in db'
        BY <2>2 DEF PostWriteApplied, PostAt
      <3>1. CASE d = c /\ i = n
        BY <2>5, <3>1
      <3>2. CASE ~(d = c /\ i = n)
        <4>1. i \in 1..Len(acks[d]) /\ acks'[d][i] = acks[d][i]
          BY <2>1, <2>3, <3>2
        <4>2. QED
          BY <2>4, <4>1 DEF PublishInv, PostWriteApplied
      <3>3. QED
        BY <3>1, <3>2
    <2>8. CompletedIsStored'
      BY <2>2, <2>4 DEF PublishInv, CompletedIsStored, PostAt
    <2>9. ListedIsCompleted'
      <3> SUFFICES ASSUME NEW p \in Posts, upload[p] \notin {"shared", "unfed"}
                   PROVE  /\ ~fanout[p]
                          /\ due[p] = {}
                          /\ \A x \in db' : ~Lists(x, p)
                          /\ \A d \in Users : \A i \in 1..Len(outstandingPuts[d]) :
                                 ~Lists(outstandingPuts[d][i].path, p)
        BY <2>2 DEF ListedIsCompleted, Lists, UserPostAt, FeedAt
      <3>1. \A x \in db' : x \in db \/ x = w.path
        BY <2>2 DEF Apply
      <3>2. QED
        BY <2>1, <3>1 DEF PublishInv, ListedIsCompleted
    <2>10. QED
      BY <2>6, <2>7, <2>8, <2>9 DEF PublishInv
  <1>10. ASSUME NEW c \in Users, serverRefuses(c)
         PROVE  PublishInv'
    <2>1. /\ acks' = [acks EXCEPT ![c] = Append(@, "err")]
          /\ UNCHANGED <<db, outstandingPuts, upload, fanout, due, unposted>>
      BY <1>10 DEF serverRefuses, sharing, history
    <2>2. /\ Len(acks'[c]) = Len(acks[c]) + 1
          /\ acks'[c][Len(acks[c]) + 1] = "err"
          /\ \A i \in 1..Len(acks[c]) : acks'[c][i] = acks[c][i]
          /\ \A d \in Users \ {c} : acks'[d] = acks[d]
          /\ Len(acks[c]) \in Nat
      BY <2>1, AppendProperties DEF TypeOK
    <2>3. PostWriteOnce'
      BY <2>1, FramePostWriteOnce DEF PublishInv
    <2>4. PostWriteApplied'
      <3> SUFFICES ASSUME NEW d \in Users, NEW p \in Posts,
                          NEW i \in 1..Len(acks'[d]),
                          outstandingPuts[d][i].path = PostAt(p),
                          acks'[d][i] = "ok"
                   PROVE  PostAt(p) \in db
        BY <2>1 DEF PostWriteApplied, PostAt
      <3>1. i \in 1..Len(acks[d]) /\ acks'[d][i] = acks[d][i]
        BY <2>2
      <3>2. QED
        BY <3>1 DEF PublishInv, PostWriteApplied
    <2>5. CompletedIsStored'
      BY <2>1 DEF PublishInv, CompletedIsStored, PostAt
    <2>6. ListedIsCompleted'
      BY <2>1 DEF PublishInv, ListedIsCompleted, Lists, UserPostAt, FeedAt
    <2>7. QED
      BY <2>3, <2>4, <2>5, <2>6 DEF PublishInv
  <1>11. ASSUME NEW c \in Users, ackPut(c)
         PROVE  PublishInv'
    <2> DEFINE w == outstandingPuts[c][1]
    <2>1. /\ acks[c] # <<>> /\ outstandingPuts[c] # <<>>
          /\ acks[c] \in Seq({"ok", "err"}) /\ outstandingPuts[c] \in Seq(Write)
      BY <1>11 DEF ackPut, TypeOK
    <2>2. /\ outstandingPuts'[c] = Tail(outstandingPuts[c])
          /\ acks'[c] = Tail(acks[c])
          /\ \A d \in Users \ {c} : /\ outstandingPuts'[d] = outstandingPuts[d]
                                    /\ acks'[d] = acks[d]
          /\ UNCHANGED <<db, fanout, due>>
      BY <1>11 DEF ackPut, TypeOK
    <2>3. /\ Len(outstandingPuts[c]) \in Nat
          /\ Len(outstandingPuts[c]) >= 1
          /\ Len(outstandingPuts'[c]) = Len(outstandingPuts[c]) - 1
          /\ \A i \in 1..Len(outstandingPuts'[c]) :
                 outstandingPuts'[c][i] = outstandingPuts[c][i + 1]
          /\ Head(outstandingPuts[c]) = w
      BY <2>1, <2>2, TailProperties
    <2>4. /\ Len(acks[c]) \in Nat
          /\ Len(acks[c]) >= 1
          /\ Len(acks'[c]) = Len(acks[c]) - 1
          /\ \A i \in 1..Len(acks'[c]) : acks'[c][i] = acks[c][i + 1]
          /\ Head(acks[c]) = acks[c][1]
          /\ acks[c][1] \in {"ok", "err"}
      BY <2>1, <2>2, TailProperties
    <2>5. /\ \A p \in Posts : upload'[p] = IF w.path = PostAt(p) THEN "completing"
                                                                 ELSE upload[p]
          /\ unposted' = unposted \cup {p \in Posts : acks[c][1] = "err" /\ w.path = PostAt(p)}
      BY <1>11, <2>3, <2>4 DEF ackPut, callOnComplete
    <2>6. 1 \in 1..Len(outstandingPuts[c]) /\ 1 \in 1..Len(acks[c])
      BY <2>3, <2>4
    <2> HIDE DEF w
    <2>7. ASSUME NEW d \in Users, NEW i \in 1..Len(outstandingPuts'[d])
          PROVE  \E k \in 1..Len(outstandingPuts[d]) :
                     /\ outstandingPuts'[d][i] = outstandingPuts[d][k]
                     /\ d = c => k = i + 1
                     /\ d # c => k = i
      <3>1. CASE d = c
        <4>1. i + 1 \in 1..Len(outstandingPuts[d])
          BY <2>3, <3>1
        <4>2. outstandingPuts'[d][i] = outstandingPuts[d][i + 1]
          BY <2>3, <3>1
        <4>3. QED
          BY <4>1, <4>2, <3>1
      <3>2. CASE d # c
        BY <2>2, <3>2
      <3>3. QED
        BY <3>1, <3>2
    <2>8. ASSUME NEW p \in Posts, w.path = PostAt(p)
          PROVE  /\ c = Owner[p]
                 /\ upload[p] = "posting"
                 /\ \A j \in 1..Len(outstandingPuts[c]) :
                        outstandingPuts[c][j].path = PostAt(p) => 1 = j
      BY <2>6, <2>8 DEF PublishInv, PostWriteOnce, w
    <2>9. PostWriteOnce'
      <3> SUFFICES ASSUME NEW d \in Users, NEW p \in Posts,
                          NEW i \in 1..Len(outstandingPuts'[d]),
                          outstandingPuts'[d][i].path = PostAt(p)
                   PROVE  /\ d = Owner[p]
                          /\ upload'[p] = "posting"
                          /\ outstandingPuts'[d][i].op = "set"
                          /\ \A j \in 1..Len(outstandingPuts'[d]) :
                                outstandingPuts'[d][j].path = PostAt(p) => i = j
        BY DEF PostWriteOnce, PostAt
      <3>1. PICK k \in 1..Len(outstandingPuts[d]) :
                /\ outstandingPuts'[d][i] = outstandingPuts[d][k]
                /\ d = c => k = i + 1
                /\ d # c => k = i
        BY <2>7
      <3>2. /\ d = Owner[p]
            /\ upload[p] = "posting"
            /\ outstandingPuts[d][k].op = "set"
            /\ \A j \in 1..Len(outstandingPuts[d]) :
                   outstandingPuts[d][j].path = PostAt(p) => k = j
        BY <3>1 DEF PublishInv, PostWriteOnce
      <3>3. w.path # PostAt(p)
        <4> SUFFICES ASSUME w.path = PostAt(p) PROVE FALSE
          OBVIOUS
        <4>1. d = c
          BY <2>8, <3>2
        <4>2. k = 1
          BY <2>8, <3>1, <4>1
        <4>3. QED
          BY <3>1, <4>1, <4>2
      <3>4. ASSUME NEW j \in 1..Len(outstandingPuts'[d]),
                   outstandingPuts'[d][j].path = PostAt(p)
            PROVE  i = j
        <4>1. PICK m \in 1..Len(outstandingPuts[d]) :
                  /\ outstandingPuts'[d][j] = outstandingPuts[d][m]
                  /\ d = c => m = j + 1
                  /\ d # c => m = j
          BY <2>7
        <4>2. k = m
          BY <3>2, <3>4, <4>1
        <4>3. QED
          BY <3>1, <4>1, <4>2, <2>3
      <3>5. QED
        BY <2>5, <3>1, <3>2, <3>3, <3>4
    <2>10. PostWriteApplied'
      <3> SUFFICES ASSUME NEW d \in Users, NEW p \in Posts,
                          NEW i \in 1..Len(acks'[d]),
                          outstandingPuts'[d][i].path = PostAt(p),
                          acks'[d][i] = "ok"
                   PROVE  PostAt(p) \in db
        BY <2>2 DEF PostWriteApplied, PostAt
      <3>1. CASE d = c
        <4>0. Len(acks[c]) <= Len(outstandingPuts[c])
          BY DEF TypeOK
        <4>1. i \in 1..Len(outstandingPuts'[d]) /\ i + 1 \in 1..Len(acks[d])
          BY <2>3, <2>4, <3>1, <4>0
        <4>2. outstandingPuts[d][i + 1].path = PostAt(p) /\ acks[d][i + 1] = "ok"
          BY <2>3, <2>4, <3>1, <4>1
        <4>3. QED
          BY <4>1, <4>2 DEF PublishInv, PostWriteApplied
      <3>2. CASE d # c
        BY <2>2, <3>2 DEF PublishInv, PostWriteApplied
      <3>3. QED
        BY <3>1, <3>2
    <2>11. CompletedIsStored'
      <3> SUFFICES ASSUME NEW p \in Posts,
                          upload'[p] \in {"completing", "shared", "unfed"}
                   PROVE  PostAt(p) \in db \/ p \in unposted'
        BY <2>2 DEF CompletedIsStored, PostAt
      <3>1. CASE w.path = PostAt(p)
        <4>1. acks[c][1] = "ok" => PostAt(p) \in db
          BY <2>6, <3>1 DEF PublishInv, PostWriteApplied, w
        <4>2. QED
          BY <2>4, <2>5, <3>1, <4>1
      <3>2. CASE w.path # PostAt(p)
        BY <2>5, <3>2 DEF PublishInv, CompletedIsStored
      <3>3. QED
        BY <3>1, <3>2
    <2>12. ListedIsCompleted'
      <3> SUFFICES ASSUME NEW p \in Posts, upload'[p] \notin {"shared", "unfed"}
                   PROVE  /\ ~fanout'[p]
                          /\ due'[p] = {}
                          /\ \A x \in db : ~Lists(x, p)
                          /\ \A d \in Users : \A i \in 1..Len(outstandingPuts'[d]) :
                                 ~Lists(outstandingPuts'[d][i].path, p)
        BY <2>2 DEF ListedIsCompleted, Lists, UserPostAt, FeedAt
      <3>1. upload[p] \notin {"shared", "unfed"}
        BY <2>5, <2>8
      <3>2. /\ ~fanout[p]
            /\ due[p] = {}
            /\ \A x \in db : ~Lists(x, p)
            /\ \A d \in Users : \A i \in 1..Len(outstandingPuts[d]) :
                   ~Lists(outstandingPuts[d][i].path, p)
        BY <3>1 DEF PublishInv, ListedIsCompleted
      <3>3. ASSUME NEW d \in Users, NEW i \in 1..Len(outstandingPuts'[d])
            PROVE  ~Lists(outstandingPuts'[d][i].path, p)
        BY <2>7, <3>2
      <3>4. QED
        BY <2>2, <3>2, <3>3
    <2>13. QED
      BY <2>9, <2>10, <2>11, <2>12 DEF PublishInv
  <1>12. ASSUME NEW c \in Users, onDisconnect(c)
         PROVE  PublishInv'
    <2>1. /\ acks'[c] = <<>>
          /\ \A d \in Users \ {c} : acks'[d] = acks[d]
          /\ UNCHANGED <<db, outstandingPuts, upload, fanout, due, unposted>>
      BY <1>12 DEF onDisconnect, sharing, history, TypeOK
    <2>2. PostWriteOnce'
      BY <2>1, FramePostWriteOnce DEF PublishInv
    <2>3. PostWriteApplied'
      BY <2>1 DEF PublishInv, PostWriteApplied, PostAt
    <2>4. CompletedIsStored'
      BY <2>1 DEF PublishInv, CompletedIsStored, PostAt
    <2>5. ListedIsCompleted'
      BY <2>1 DEF PublishInv, ListedIsCompleted, Lists, UserPostAt, FeedAt
    <2>6. QED
      BY <2>2, <2>3, <2>4, <2>5 DEF PublishInv
  <1>13. ASSUME NEW c \in Users, processDeath(c)
         PROVE  PublishInv'
    <2>1. /\ outstandingPuts'[c] = <<>>
          /\ acks'[c] = <<>>
          /\ \A d \in Users \ {c} : /\ outstandingPuts'[d] = outstandingPuts[d]
                                    /\ acks'[d] = acks[d]
          /\ UNCHANGED <<db, unposted>>
      BY <1>13 DEF processDeath, TypeOK
    <2>2. \A p \in Posts :
              /\ upload'[p] = upload[p] \/ (upload'[p] = "lost" /\ Owner[p] = c)
              /\ upload[p] \in {"shared", "unfed"} => upload'[p] = upload[p]
              /\ fanout'[p] => fanout[p]
              /\ due'[p] \subseteq due[p]
      BY <1>13 DEF processDeath, TypeOK, InFlight
    <2>3. PostWriteOnce'
      <3> SUFFICES ASSUME NEW d \in Users, NEW p \in Posts,
                          NEW i \in 1..Len(outstandingPuts'[d]),
                          outstandingPuts'[d][i].path = PostAt(p)
                   PROVE  /\ d = Owner[p]
                          /\ upload'[p] = "posting"
                          /\ outstandingPuts'[d][i].op = "set"
                          /\ \A j \in 1..Len(outstandingPuts'[d]) :
                                outstandingPuts'[d][j].path = PostAt(p) => i = j
        BY DEF PostWriteOnce, PostAt
      <3>1. d # c /\ outstandingPuts'[d] = outstandingPuts[d]
        BY <2>1
      <3>2. /\ d = Owner[p]
            /\ upload[p] = "posting"
            /\ outstandingPuts[d][i].op = "set"
            /\ \A j \in 1..Len(outstandingPuts[d]) :
                   outstandingPuts[d][j].path = PostAt(p) => i = j
        BY <3>1 DEF PublishInv, PostWriteOnce
      <3>3. QED
        BY <2>2, <3>1, <3>2
    <2>4. PostWriteApplied'
      BY <2>1 DEF PublishInv, PostWriteApplied, PostAt
    <2>5. CompletedIsStored'
      BY <2>1, <2>2 DEF PublishInv, CompletedIsStored, PostAt
    <2>6. ListedIsCompleted'
      BY <2>1, <2>2, SMTT(30) DEF PublishInv, ListedIsCompleted, Lists, UserPostAt, FeedAt
    <2>7. QED
      BY <2>3, <2>4, <2>5, <2>6 DEF PublishInv
  <1>14. ASSUME NEW c \in Users, signOut(c) \/ signIn(c)
         PROVE  PublishInv'
    <2>1. UNCHANGED <<db, outstandingPuts, acks, unposted, upload, fanout, due>>
      BY <1>14 DEF signOut, signIn, link, sharing, history
    <2>2. QED
      BY <2>1, QuietPhase
  <1>15. CASE UNCHANGED vars
    <2>1. UNCHANGED <<db, outstandingPuts, acks, unposted, upload, fanout, due>>
      BY <1>15 DEF vars, link, sharing, history
    <2>2. QED
      BY <2>1, QuietPhase
  <1>16. QED
    BY <1>1, <1>2, <1>3, <1>4, <1>5, <1>6, <1>7, <1>8, <1>9, <1>10, <1>11,
       <1>12, <1>13, <1>14, <1>15 DEF Next

\* A post that is listed anywhere has been stored, or its write was refused.
LEMMA PublishInvImplies == PublishInv => NoDanglingPost
  <1> SUFFICES ASSUME PublishInv, NEW p \in Posts,
                      PostAt(p) \notin db, p \notin unposted
               PROVE  /\ UserPostAt(p) \notin db
                      /\ \A u \in Users : FeedAt(u, p) \notin db
    BY DEF NoDanglingPost
  <1>1. upload[p] \notin {"shared", "unfed"}
    BY DEF PublishInv, CompletedIsStored
  <1>2. \A x \in db : ~Lists(x, p)
    BY <1>1 DEF PublishInv, ListedIsCompleted
  <1>3. QED
    BY <1>2 DEF Lists

\* However uploads, taps, broken connections, refused writes and process
\* deaths interleave, user-posts and the feeds list only stored posts, up to
\* those whose posts write the server refused.
THEOREM PublishSafe == Spec => []NoDanglingPost
  <1>1. Spec => []PublishInv
    BY InitPublishInv, StepPublishInv, PTL DEF Spec
  <1>2. QED
    BY <1>1, PublishInvImplies, PTL

-----------------------------------------------------------------------------
(* What a queue of writes will leave at a path.                            *)

\* A path no queued write is on stays as it is.
LEMMA SettledIdle ==
    ASSUME NEW s \in Seq(Write), NEW t, NEW x, ~Pending(s, x)
    PROVE  Settled(s, t, x) <=> x \in t
  BY DEF Settled, Pending, updateChildValues

\* The n-th write of the queue s is the last one on the path x.
LastOn(s, n, x) ==
    /\ n \in 1..Len(s)
    /\ s[n].path = x
    /\ \A j \in (n + 1)..Len(s) : s[j].path # x

\* The last write on a path decides.
LEMMA SettledLast ==
    ASSUME NEW s \in Seq(Write), NEW t, NEW x, NEW n, LastOn(s, n, x)
    PROVE  Settled(s, t, x) <=> s[n].op = "set"
  <1>0. /\ n \in 1..Len(s)
        /\ s[n].path = x
        /\ \A j \in (n + 1)..Len(s) : s[j].path # x
    BY DEF LastOn
  <1>1. Pending(s, x)
    BY <1>0 DEF Pending
  <1>2. s[n].op = "set" => s[n] = updateChildValues(x)
    <2>1. s[n] \in Write
      BY <1>0
    <2>2. QED
      BY <1>0, <2>1 DEF updateChildValues, Write
  <1>3. ASSUME NEW i \in 1..Len(s), s[i] = updateChildValues(x),
               \A j \in (i + 1)..Len(s) : s[j].path # x
        PROVE  i = n
    <2>1. s[i].path = x
      BY <1>3 DEF updateChildValues
    <2>2. ~(i > n) /\ ~(n > i)
      BY <1>0, <1>3, <2>1
    <2>3. QED
      BY <1>0, <2>2
  <1>4. updateChildValues(x).op = "set"
    BY DEF updateChildValues
  <1>5. QED
    BY <1>0, <1>1, <1>2, <1>3, <1>4 DEF Settled

\* Writes on other paths do not matter.
LEMMA SettledOther ==
    ASSUME NEW s \in Seq(Write), NEW ws \in Seq(Write), NEW t, NEW x,
           \A k \in 1..Len(ws) : ws[k].path # x
    PROVE  Settled(s \o ws, t, x) <=> Settled(s, t, x)
  <1> DEFINE r == s \o ws
  <1>1. /\ r \in Seq(Write)
        /\ Len(r) = Len(s) + Len(ws)
        /\ Len(s) \in Nat /\ Len(ws) \in Nat
        /\ \A i \in 1..Len(s) : r[i] = s[i]
        /\ \A i \in (Len(s) + 1)..(Len(s) + Len(ws)) : r[i] = ws[i - Len(s)]
    BY ConcatProperties
  <1> HIDE DEF r
  <1>2. \A i \in 1..Len(r) : r[i].path = x => i \in 1..Len(s) /\ r[i] = s[i]
    BY <1>1, SMTT(30)
  <1>3. \A i \in 1..Len(s) : i \in 1..Len(r) /\ r[i] = s[i]
    BY <1>1
  <1>4. CASE Pending(s, x)
    <2>1. PICK i \in 1..Len(s) : s[i].path = x
      BY <1>4 DEF Pending
    <2>2. Pending(r, x)
      BY <1>1, <1>3, <2>1 DEF Pending
    <2>3. ASSUME NEW n \in 1..Len(s), s[n] = updateChildValues(x),
                 \A j \in (n + 1)..Len(s) : s[j].path # x
          PROVE  Settled(r, t, x)
      <3>1. \A j \in (n + 1)..Len(r) : r[j].path # x
        BY <1>1, <1>2, <2>3
      <3>2. QED
        BY <1>3, <2>3, <3>1 DEF Settled
    <2>4. ASSUME NEW n \in 1..Len(r), r[n] = updateChildValues(x),
                 \A j \in (n + 1)..Len(r) : r[j].path # x
          PROVE  Settled(s, t, x)
      <3>1. r[n].path = x
        BY <2>4 DEF updateChildValues
      <3>2. n \in 1..Len(s) /\ s[n] = updateChildValues(x)
        BY <1>2, <2>4, <3>1
      <3>3. \A j \in (n + 1)..Len(s) : s[j].path # x
        BY <1>1, <1>3, <2>4
      <3>4. QED
        BY <3>2, <3>3 DEF Settled
    <2>5. QED
      BY <1>4, <2>2, <2>3, <2>4 DEF Settled, r
  <1>5. CASE ~Pending(s, x)
    <2>1. ~Pending(r, x)
      BY <1>1, <1>2, <1>5 DEF Pending
    <2>2. QED
      BY <1>1, <1>5, <2>1, SettledIdle DEF r
  <1>6. QED
    BY <1>4, <1>5

\* Taking off the oldest write does not matter to a path it is not on, or on
\* which another write is queued.
LEMMA SettledTail ==
    ASSUME NEW s \in Seq(Write), s # <<>>, NEW t, NEW x,
           s[1].path # x \/ Pending(Tail(s), x)
    PROVE  Settled(Tail(s), t, x) <=> Settled(s, t, x)
  <1> DEFINE r == Tail(s)
  <1>1. /\ r \in Seq(Write)
        /\ Len(s) \in Nat /\ Len(s) >= 1
        /\ Len(r) = Len(s) - 1
        /\ \A i \in 1..Len(r) : r[i] = s[i + 1]
    BY TailProperties
  <1> HIDE DEF r
  <1>2. CASE Pending(r, x)
    <2>1. PICK i \in 1..Len(r) : r[i].path = x
      BY <1>1, <1>2 DEF Pending
    <2>2. i + 1 \in 1..Len(s) /\ s[i + 1].path = x
      BY <1>1, <2>1
    <2>3. Pending(s, x)
      BY <2>2 DEF Pending
    <2>4. ASSUME NEW n \in 1..Len(r), r[n] = updateChildValues(x),
                 \A j \in (n + 1)..Len(r) : r[j].path # x
          PROVE  Settled(s, t, x)
      <3>1. n + 1 \in 1..Len(s) /\ s[n + 1] = updateChildValues(x)
        BY <1>1, <2>4
      <3>2. ASSUME NEW j \in ((n + 1) + 1)..Len(s)
            PROVE  s[j].path # x
        <4>1. j - 1 \in (n + 1)..Len(r) /\ r[j - 1] = s[(j - 1) + 1]
          BY <1>1
        <4>2. (j - 1) + 1 = j
          BY <1>1
        <4>3. QED
          BY <2>4, <4>1, <4>2
      <3>3. QED
        BY <3>1, <3>2 DEF Settled
    <2>5. ASSUME NEW n \in 1..Len(s), s[n] = updateChildValues(x),
                 \A j \in (n + 1)..Len(s) : s[j].path # x
          PROVE  Settled(r, t, x)
      <3>1. ~(i + 1 > n) \/ i + 1 = n
        BY <1>1, <2>2, <2>5
      <3>2. n - 1 \in 1..Len(r)
        BY <1>1, <3>1
      <3>3. r[n - 1] = updateChildValues(x)
        <4>1. r[n - 1] = s[(n - 1) + 1]
          BY <1>1, <3>2
        <4>2. (n - 1) + 1 = n
          BY <1>1
        <4>3. QED
          BY <2>5, <4>1, <4>2
      <3>4. ASSUME NEW j \in ((n - 1) + 1)..Len(r)
            PROVE  r[j].path # x
        <4>1. j + 1 \in (n + 1)..Len(s) /\ j \in 1..Len(r)
          BY <1>1
        <4>2. QED
          BY <1>1, <2>5, <4>1
      <3>5. QED
        BY <3>2, <3>3, <3>4 DEF Settled
    <2>6. QED
      BY <1>2, <2>3, <2>4, <2>5 DEF Settled, r
  <1>3. CASE ~Pending(r, x)
    <2>1. s[1].path # x
      BY <1>3 DEF r
    <2>2. ASSUME NEW i \in 1..Len(s) PROVE s[i].path # x
      <3>1. CASE i = 1
        BY <2>1, <3>1
      <3>2. CASE i # 1
        <4>1. i - 1 \in 1..Len(r) /\ (i - 1) + 1 = i
          BY <1>1, <3>2
        <4>2. r[i - 1] = s[i]
          BY <1>1, <4>1
        <4>3. QED
          BY <1>1, <1>3, <4>1, <4>2 DEF Pending
      <3>3. QED
        BY <3>1, <3>2
    <2>3. ~Pending(s, x)
      BY <2>2 DEF Pending
    <2>4. QED
      BY <1>1, <1>3, <2>3, SettledIdle DEF r
  <1>4. QED
    BY <1>2, <1>3

\* A tree matters to a settled path only where the trees agree on it.
LEMMA SettledTree ==
    ASSUME NEW s \in Seq(Write), NEW t, NEW v, NEW x,
           Pending(s, x) \/ (x \in t <=> x \in v)
    PROVE  Settled(s, t, x) <=> Settled(s, v, x)
  BY DEF Settled

-----------------------------------------------------------------------------
(* Which paths belong to which pair.                                       *)

\* The paths that follow and unfollow write are relation paths, and each names
\* one pair.
LEMMA RelationFacts ==
    ASSUME NEW c \in Users, NEW u \in Users, NEW d \in Users, NEW v \in Users
    PROVE  /\ Following(c, u) # FollowerOf(v, d)
           /\ Following(c, u) = Following(d, v) => c = d /\ u = v
           /\ FollowerOf(u, c) = FollowerOf(v, d) => c = d /\ u = v
           /\ Following(c, u) \in RelationPath
           /\ FollowerOf(u, c) \in RelationPath
  BY DEF Following, FollowerOf, RelationPath

\* The paths that publishing writes are not relation paths.
LEMMA PostPathFacts ==
    ASSUME NEW p \in Posts, NEW u \in Users
    PROVE  /\ PostAt(p) \notin RelationPath
           /\ UserPostAt(p) \notin RelationPath
           /\ FeedAt(u, p) \notin RelationPath
  BY DEF PostAt, UserPostAt, FeedAt, RelationPath

\* Queueing writes does not touch the writes already answered.
LEMMA PutKeepsLastAccepted ==
    ASSUME TypeOK, LastAcceptedShows, NEW c \in Users, NEW ws \in Seq(Write),
           put(c, ws), acks' = acks, db' = db
    PROVE  LastAcceptedShows'
  <1> SUFFICES ASSUME NEW d \in Users, NEW i \in 1..Len(acks[d]),
                      acks[d][i] = "ok",
                      outstandingPuts'[d][i].path \in RelationPath,
                      \A j \in (i + 1)..Len(acks[d]) :
                          outstandingPuts'[d][j].path # outstandingPuts'[d][i].path
               PROVE  outstandingPuts'[d][i].path \in db
                          <=> outstandingPuts'[d][i].op = "set"
    BY DEF LastAcceptedShows, RelationPath
  <1>1. Len(acks[d]) <= Len(outstandingPuts[d]) /\ Len(acks[d]) \in Nat
            /\ Len(outstandingPuts[d]) \in Nat
    BY SMTT(30) DEF TypeOK
  <1>2. \A j \in 1..Len(acks[d]) : j \in 1..Len(outstandingPuts[d])
    BY <1>1
  <1>3. \A j \in 1..Len(acks[d]) : outstandingPuts'[d][j] = outstandingPuts[d][j]
    BY <1>2, PutKeeps
  <1>4. \A j \in (i + 1)..Len(acks[d]) : j \in 1..Len(acks[d])
    BY <1>1
  <1>5. QED
    BY <1>3, <1>4 DEF LastAcceptedShows

\* Queueing writes about posts leaves what becomes of the relation paths alone.
LEMMA PostPutSettled ==
    ASSUME TypeOK, NEW c \in Users, NEW ws \in Seq(Write), put(c, ws),
           \A k \in 1..Len(ws) : ws[k].path \notin RelationPath,
           NEW d \in Users, NEW x \in RelationPath
    PROVE  Settled(outstandingPuts'[d], db, x) <=> Settled(outstandingPuts[d], db, x)
  <1>1. CASE d = c
    <2>1. outstandingPuts'[c] = outstandingPuts[c] \o ws /\ outstandingPuts[c] \in Seq(Write)
      BY DEF TypeOK, put
    <2>2. \A k \in 1..Len(ws) : ws[k].path # x
      OBVIOUS
    <2>3. QED
      BY <1>1, <2>1, <2>2, SettledOther
  <1>2. CASE d # c
    BY <1>2 DEF TypeOK, put
  <1>3. QED
    BY <1>1, <1>2

\* Queueing writes about posts keeps the invariant.
LEMMA PostPutKeepsRelationInv ==
    ASSUME RelationInv, TypeOK', NEW c \in Users, NEW ws \in Seq(Write),
           put(c, ws), UNCHANGED <<db, acks, torn>>,
           \A k \in 1..Len(ws) : ws[k].path \notin RelationPath
    PROVE  RelationInv'
  <1> TypeOK /\ OwnRelationWrites /\ LastAcceptedShows /\ SettledSymmetric
    BY DEF RelationInv
  <1>1. OwnRelationWrites'
    <2> SUFFICES ASSUME NEW d \in Users, NEW i \in 1..Len(outstandingPuts'[d]),
                        outstandingPuts'[d][i].path \in RelationPath
                 PROVE  \E u \in Users : outstandingPuts'[d][i].path
                                             \in {Following(d, u), FollowerOf(u, d)}
      BY DEF OwnRelationWrites, RelationPath, Following, FollowerOf
    <2>1. i \in 1..Len(outstandingPuts[d]) /\ outstandingPuts'[d][i] = outstandingPuts[d][i]
      BY PutOrigin
    <2>2. QED
      BY <2>1 DEF OwnRelationWrites
  <1>2. LastAcceptedShows'
    BY PutKeepsLastAccepted
  <1>3. SettledSymmetric'
    <2> SUFFICES ASSUME NEW d \in Users, NEW u \in Users, <<d, u>> \notin torn
                 PROVE  Settled(outstandingPuts'[d], db, Following(d, u)) <=>
                        Settled(outstandingPuts'[d], db, FollowerOf(u, d))
      BY DEF SettledSymmetric
    <2>1. QED
      BY PostPutSettled, RelationFacts DEF SettledSymmetric
  <1>4. QED
    BY <1>1, <1>2, <1>3 DEF RelationInv

\* A step that leaves queues, answers, tree and torn alone keeps the invariant.
LEMMA FrameRelationInv ==
    ASSUME RelationInv, TypeOK', UNCHANGED <<db, outstandingPuts, acks, torn>>
    PROVE  RelationInv'
  <1> TypeOK /\ OwnRelationWrites /\ LastAcceptedShows /\ SettledSymmetric
    BY DEF RelationInv
  <1>1. OwnRelationWrites'
    BY DEF OwnRelationWrites, RelationPath, Following, FollowerOf
  <1>2. LastAcceptedShows'
    BY DEF LastAcceptedShows, RelationPath
  <1>3. SettledSymmetric'
    BY DEF SettledSymmetric
  <1>4. QED
    BY <1>1, <1>2, <1>3 DEF RelationInv

\* Where the paths in a queue come from after more writes were queued.
LEMMA PutPaths ==
    ASSUME TypeOK, NEW c \in Users, NEW ws \in Seq(Write), put(c, ws),
           NEW S, \A k \in 1..Len(ws) : ws[k].path \in S,
           NEW d \in Users, NEW i \in 1..Len(outstandingPuts'[d])
    PROVE  \/ /\ i \in 1..Len(outstandingPuts[d])
              /\ outstandingPuts'[d][i] = outstandingPuts[d][i]
           \/ d = c /\ outstandingPuts'[d][i].path \in S
  <1>1. \/ /\ i \in 1..Len(outstandingPuts[d])
           /\ outstandingPuts'[d][i] = outstandingPuts[d][i]
        \/ \E k \in 1..Len(ws) : /\ d = c
                                 /\ i = Len(outstandingPuts[c]) + k
                                 /\ outstandingPuts'[d][i] = ws[k]
    BY PutOrigin
  <1>2. QED
    BY <1>1

\* A client that queues writes on its own pairs keeps OwnRelationWrites.
LEMMA OwnPutKeepsOwn ==
    ASSUME TypeOK, OwnRelationWrites, NEW c \in Users, NEW u \in Users,
           NEW ws \in Seq(Write), put(c, ws),
           \A k \in 1..Len(ws) : ws[k].path \in {Following(c, u), FollowerOf(u, c)}
    PROVE  OwnRelationWrites'
  <1> SUFFICES ASSUME NEW d \in Users, NEW i \in 1..Len(outstandingPuts'[d]),
                      outstandingPuts'[d][i].path \in RelationPath
               PROVE  \E v \in Users : outstandingPuts'[d][i].path
                                           \in {Following(d, v), FollowerOf(v, d)}
    BY DEF OwnRelationWrites, RelationPath, Following, FollowerOf
  <1> DEFINE S == {Following(c, u), FollowerOf(u, c)}
  <1>1. \A k \in 1..Len(ws) : ws[k].path \in S
    OBVIOUS
  <1> HIDE DEF S
  <1>2. \/ /\ i \in 1..Len(outstandingPuts[d])
           /\ outstandingPuts'[d][i] = outstandingPuts[d][i]
        \/ d = c /\ outstandingPuts'[d][i].path \in S
    BY <1>1, PutPaths
  <1>3. QED
    BY <1>2 DEF OwnRelationWrites, S

\* After a tap both paths of its pair will be as the tap says, and every other
\* pair as before.
LEMMA TapSettled ==
    ASSUME TypeOK, NEW c \in Users, NEW u \in Users, NEW o \in Op,
           put(c, <<[op |-> o, path |-> Following(c, u)],
                    [op |-> o, path |-> FollowerOf(u, c)]>>)
    PROVE  /\ Settled(outstandingPuts'[c], db, Following(c, u)) <=> o = "set"
           /\ Settled(outstandingPuts'[c], db, FollowerOf(u, c)) <=> o = "set"
           /\ \A d, v \in Users : \A x \in {Following(d, v), FollowerOf(v, d)} :
                  <<d, v>> # <<c, u>> =>
                      (Settled(outstandingPuts'[d], db, x) <=>
                       Settled(outstandingPuts[d], db, x))
  <1> DEFINE ws == <<[op |-> o, path |-> Following(c, u)],
                     [op |-> o, path |-> FollowerOf(u, c)]>>
             s  == outstandingPuts[c]
             r  == outstandingPuts'[c]
  <1>1. /\ ws \in Seq(Write)
        /\ Len(ws) = 2
        /\ ws[1].path = Following(c, u) /\ ws[1].op = o
        /\ ws[2].path = FollowerOf(u, c) /\ ws[2].op = o
    BY PathTypes, WriteTypes
  <1>2. put(c, ws)
    OBVIOUS
  <1> HIDE DEF ws
  <1>3. /\ s \in Seq(Write)
        /\ r = s \o ws
        /\ \A d \in Users \ {c} : outstandingPuts'[d] = outstandingPuts[d]
    BY <1>2 DEF TypeOK, put
  <1> HIDE DEF s, r
  <1>4. /\ r \in Seq(Write)
        /\ Len(s) \in Nat
        /\ Len(r) = Len(s) + Len(ws)
        /\ \A i \in (Len(s) + 1)..(Len(s) + Len(ws)) : r[i] = ws[i - Len(s)]
    <2>1. /\ s \o ws \in Seq(Write)
          /\ Len(s \o ws) = Len(s) + Len(ws)
          /\ \A i \in (Len(s) + 1)..(Len(s) + Len(ws)) : (s \o ws)[i] = ws[i - Len(s)]
      BY <1>1, <1>3, ConcatProperties, ZenonT(40)
    <2>2. Len(s) \in Nat
      BY <1>3
    <2>3. QED
      BY <1>3, <2>1, <2>2
  <1>5. /\ r[Len(s) + 1].path = Following(c, u) /\ r[Len(s) + 1].op = o
        /\ r[Len(s) + 2].path = FollowerOf(u, c) /\ r[Len(s) + 2].op = o
    <2>1. /\ Len(s) + 1 \in (Len(s) + 1)..(Len(s) + Len(ws))
          /\ Len(s) + 2 \in (Len(s) + 1)..(Len(s) + Len(ws))
          /\ (Len(s) + 1) - Len(s) = 1
          /\ (Len(s) + 2) - Len(s) = 2
      BY <1>1, <1>4
    <2>2. r[Len(s) + 1] = ws[1] /\ r[Len(s) + 2] = ws[2]
      BY <1>4, <2>1
    <2>3. QED
      BY <1>1, <2>2
  <1>6. Settled(r, db, Following(c, u)) <=> o = "set"
    <2> DEFINE n == Len(s) + 1
    <2>1. n \in 1..Len(r)
      BY <1>1, <1>4
    <2>2. \A j \in (n + 1)..Len(r) : j = Len(s) + 2
      BY <1>1, <1>4
    <2>3. \A j \in (n + 1)..Len(r) : r[j].path # Following(c, u)
      BY <1>5, <2>2, RelationFacts
    <2>4. r[n].path = Following(c, u) /\ r[n].op = o
      BY <1>5
    <2> HIDE DEF n
    <2>5. LastOn(r, n, Following(c, u))
      BY <2>1, <2>3, <2>4 DEF LastOn
    <2>6. QED
      BY <1>4, <2>4, <2>5, SettledLast
  <1>7. Settled(r, db, FollowerOf(u, c)) <=> o = "set"
    <2> DEFINE n == Len(s) + 2
    <2>1. n \in 1..Len(r)
      BY <1>1, <1>4
    <2>2. \A j \in (n + 1)..Len(r) : r[j].path # FollowerOf(u, c)
      BY <1>1, <1>4
    <2>3. r[n].path = FollowerOf(u, c) /\ r[n].op = o
      BY <1>5
    <2> HIDE DEF n
    <2>4. LastOn(r, n, FollowerOf(u, c))
      BY <2>1, <2>2, <2>3 DEF LastOn
    <2>5. QED
      BY <1>4, <2>3, <2>4, SettledLast
  <1>8. ASSUME NEW d \in Users, NEW v \in Users, <<d, v>> # <<c, u>>,
               NEW x \in {Following(d, v), FollowerOf(v, d)}
        PROVE  Settled(outstandingPuts'[d], db, x) <=> Settled(outstandingPuts[d], db, x)
    <2>1. CASE d = c
      <3>1. \A k \in 1..Len(ws) : ws[k].path # x
        BY <1>1, <1>8, <2>1, RelationFacts
      <3>2. Settled(r, db, x) <=> Settled(s, db, x)
        BY <1>1, <1>3, <3>1, SettledOther
      <3>3. QED
        BY <2>1, <3>2 DEF s, r
    <2>2. CASE d # c
      BY <1>3, <2>2
    <2>3. QED
      BY <2>1, <2>2
  <1>9. QED
    BY <1>6, <1>7, <1>8 DEF r

\* A tap, follow or unfollow, keeps the invariant.
LEMMA TapKeepsRelationInv ==
    ASSUME RelationInv, TypeOK', NEW c \in Users, NEW u \in Users, NEW o \in Op,
           put(c, <<[op |-> o, path |-> Following(c, u)],
                    [op |-> o, path |-> FollowerOf(u, c)]>>),
           UNCHANGED <<db, acks>>,
           torn' = torn \ {<<c, u>>}
    PROVE  RelationInv'
  <1> DEFINE ws == <<[op |-> o, path |-> Following(c, u)],
                     [op |-> o, path |-> FollowerOf(u, c)]>>
  <1> TypeOK /\ OwnRelationWrites /\ LastAcceptedShows /\ SettledSymmetric
    BY DEF RelationInv
  <1>1. /\ ws \in Seq(Write)
        /\ Len(ws) = 2
        /\ ws[1].path = Following(c, u) /\ ws[1].op = o
        /\ ws[2].path = FollowerOf(u, c) /\ ws[2].op = o
    BY PathTypes, WriteTypes
  <1>2. put(c, ws)
    OBVIOUS
  <1> HIDE DEF ws
  <1>3. OwnRelationWrites'
    <2>1. \A k \in 1..Len(ws) : ws[k].path \in {Following(c, u), FollowerOf(u, c)}
      BY <1>1
    <2>2. QED
      BY <1>1, <1>2, <2>1, OwnPutKeepsOwn
  <1>4. LastAcceptedShows'
    BY <1>1, <1>2, PutKeepsLastAccepted
  <1>5. SettledSymmetric'
    <2> SUFFICES ASSUME NEW d \in Users, NEW v \in Users, <<d, v>> \notin torn'
                 PROVE  Settled(outstandingPuts'[d], db, Following(d, v)) <=>
                        Settled(outstandingPuts'[d], db, FollowerOf(v, d))
      BY DEF SettledSymmetric
    <2>1. CASE <<d, v>> = <<c, u>>
      BY <2>1, TapSettled
    <2>2. CASE <<d, v>> # <<c, u>>
      BY <2>2, TapSettled DEF SettledSymmetric
    <2>3. QED
      BY <2>1, <2>2
  <1>6. QED
    BY <1>3, <1>4, <1>5 DEF RelationInv

\* An accepted write is still queued on its path, so it leaves what becomes of
\* every relation path alone.
LEMMA AcceptSettled ==
    ASSUME TypeOK, OwnRelationWrites, NEW c \in Users, serverAccepts(c),
           NEW d \in Users, NEW u \in Users,
           NEW x \in {Following(d, u), FollowerOf(u, d)}
    PROVE  Settled(outstandingPuts[d], db', x) <=> Settled(outstandingPuts[d], db, x)
  <1> DEFINE n == Len(acks[c]) + 1
             w == outstandingPuts[c][n]
  <1>1. n \in 1..Len(outstandingPuts[c]) /\ w \in Write
    <2>1. /\ acks[c] \in Seq({"ok", "err"})
          /\ outstandingPuts[c] \in Seq(Write)
          /\ n <= Len(outstandingPuts[c])
      BY DEF serverAccepts, TypeOK
    <2>2. QED
      BY <2>1
  <1>2. \A y : y # w.path => (y \in db' <=> y \in db)
    <2>1. db' = Apply(db, w)
      BY DEF serverAccepts
    <2>2. QED
      BY <1>1, <2>1 DEF Apply, Write, Op
  <1> HIDE DEF w
  <1>3. outstandingPuts[d] \in Seq(Write)
    BY DEF TypeOK
  <1>4. CASE x # w.path
    BY <1>2, <1>3, <1>4, SettledTree
  <1>5. CASE x = w.path
    <2>1. w.path \in RelationPath
      BY <1>5, RelationFacts
    <2>2. PICK v \in Users : w.path \in {Following(c, v), FollowerOf(v, c)}
      BY <1>1, <2>1 DEF OwnRelationWrites, w
    <2>3. d = c
      BY <1>5, <2>2, RelationFacts
    <2>4. Pending(outstandingPuts[d], x)
      BY <1>1, <1>3, <1>5, <2>3 DEF Pending, w
    <2>5. QED
      BY <1>3, <2>4, SettledTree
  <1>6. QED
    BY <1>4, <1>5

\* An accepted write keeps the invariant: it changes one path, on which it is
\* still queued, and no pair of another client.
LEMMA AcceptKeepsRelationInv ==
    ASSUME RelationInv, TypeOK', NEW c \in Users, serverAccepts(c)
    PROVE  RelationInv'
  <1> TypeOK /\ OwnRelationWrites /\ LastAcceptedShows /\ SettledSymmetric
    BY DEF RelationInv
  <1> DEFINE n == Len(acks[c]) + 1
             w == outstandingPuts[c][n]
  <1>1. /\ n \in 1..Len(outstandingPuts[c])
        /\ Len(acks[c]) \in Nat
        /\ w \in Write
    BY DEF serverAccepts, TypeOK
  <1>2. /\ db' = Apply(db, w)
        /\ acks' = [acks EXCEPT ![c] = Append(@, "ok")]
        /\ UNCHANGED <<outstandingPuts, torn>>
    BY DEF serverAccepts, history
  <1>3. /\ Len(acks'[c]) = n
        /\ \A i \in 1..Len(acks[c]) : acks'[c][i] = acks[c][i]
        /\ \A d \in Users \ {c} : acks'[d] = acks[d]
    BY <1>2, AppendProperties DEF TypeOK
  <1>4. /\ w.path \in db' <=> w.op = "set"
        /\ \A x : x # w.path => (x \in db' <=> x \in db)
    BY <1>1, <1>2 DEF Apply, Write, Op
  <1>5. ASSUME NEW d \in Users, d # c, NEW i \in 1..Len(outstandingPuts[d]),
               outstandingPuts[d][i].path \in RelationPath
        PROVE  outstandingPuts[d][i].path # w.path
    <2>1. PICK u \in Users : outstandingPuts[d][i].path
                                 \in {Following(d, u), FollowerOf(u, d)}
      BY <1>5 DEF OwnRelationWrites
    <2>2. w.path \in RelationPath =>
              \E v \in Users : w.path \in {Following(c, v), FollowerOf(v, c)}
      BY <1>1 DEF OwnRelationWrites
    <2>3. QED
      BY <1>5, <2>1, <2>2, RelationFacts
  <1> HIDE DEF w
  <1>6. OwnRelationWrites'
    BY <1>2 DEF OwnRelationWrites, RelationPath, Following, FollowerOf
  <1>7. LastAcceptedShows'
    <2> SUFFICES ASSUME NEW d \in Users, NEW i \in 1..Len(acks'[d]),
                        acks'[d][i] = "ok",
                        outstandingPuts[d][i].path \in RelationPath,
                        \A j \in (i + 1)..Len(acks'[d]) :
                            outstandingPuts[d][j].path # outstandingPuts[d][i].path
                 PROVE  outstandingPuts[d][i].path \in db'
                            <=> outstandingPuts[d][i].op = "set"
      BY <1>2, SMTT(30) DEF LastAcceptedShows, RelationPath
    <2>1. CASE d = c /\ i = n
      BY <1>4, <2>1 DEF w
    <2>2. CASE d = c /\ i # n
      <3>1. i \in 1..Len(acks[c]) /\ acks[c][i] = "ok"
        BY <1>1, <1>3, <2>2
      <3>2. n \in (i + 1)..Len(acks'[c])
        BY <1>1, <1>3, <3>1
      <3>3. outstandingPuts[c][i].path # w.path
        BY <2>2, <3>2 DEF w
      <3>4. \A j \in (i + 1)..Len(acks[c]) :
                outstandingPuts[c][j].path # outstandingPuts[c][i].path
        BY <1>1, <1>3, <2>2
      <3>5. outstandingPuts[c][i].path \in db <=> outstandingPuts[c][i].op = "set"
        BY <2>2, <3>1, <3>4 DEF LastAcceptedShows
      <3>6. QED
        BY <1>4, <2>2, <3>3, <3>5
    <2>3. CASE d # c
      <3>1. /\ acks'[d] = acks[d]
            /\ i \in 1..Len(outstandingPuts[d])
        BY <1>3, <2>3 DEF TypeOK
      <3>2. outstandingPuts[d][i].path # w.path
        BY <1>5, <2>3, <3>1
      <3>3. outstandingPuts[d][i].path \in db <=> outstandingPuts[d][i].op = "set"
        BY <3>1 DEF LastAcceptedShows
      <3>4. QED
        BY <1>4, <3>2, <3>3
    <2>4. QED
      BY <2>1, <2>2, <2>3
  <1>8. SettledSymmetric'
    <2> SUFFICES ASSUME NEW d \in Users, NEW u \in Users, <<d, u>> \notin torn
                 PROVE  Settled(outstandingPuts[d], db', Following(d, u)) <=>
                        Settled(outstandingPuts[d], db', FollowerOf(u, d))
      BY <1>2 DEF SettledSymmetric
    <2>1. QED
      BY AcceptSettled, RelationFacts DEF SettledSymmetric
  <1>9. QED
    BY <1>6, <1>7, <1>8 DEF RelationInv

\* A refused write keeps the invariant.
LEMMA RefuseKeepsRelationInv ==
    ASSUME RelationInv, TypeOK', NEW c \in Users, serverRefuses(c)
    PROVE  RelationInv'
  <1> TypeOK /\ OwnRelationWrites /\ LastAcceptedShows /\ SettledSymmetric
    BY DEF RelationInv
  <1>1. /\ acks' = [acks EXCEPT ![c] = Append(@, "err")]
        /\ UNCHANGED <<db, outstandingPuts, torn>>
    BY DEF serverRefuses, history
  <1>2. /\ Len(acks'[c]) = Len(acks[c]) + 1
        /\ acks'[c][Len(acks[c]) + 1] = "err"
        /\ \A i \in 1..Len(acks[c]) : acks'[c][i] = acks[c][i]
        /\ \A d \in Users \ {c} : acks'[d] = acks[d]
        /\ Len(acks[c]) \in Nat
    BY <1>1, AppendProperties DEF TypeOK
  <1>3. OwnRelationWrites'
    BY <1>1 DEF OwnRelationWrites, RelationPath, Following, FollowerOf
  <1>4. LastAcceptedShows'
    <2> SUFFICES ASSUME NEW d \in Users, NEW i \in 1..Len(acks'[d]),
                        acks'[d][i] = "ok",
                        outstandingPuts[d][i].path \in RelationPath,
                        \A j \in (i + 1)..Len(acks'[d]) :
                            outstandingPuts[d][j].path # outstandingPuts[d][i].path
                 PROVE  outstandingPuts[d][i].path \in db
                            <=> outstandingPuts[d][i].op = "set"
      BY <1>1, SMTT(30) DEF LastAcceptedShows, RelationPath
    <2>1. i \in 1..Len(acks[d]) /\ acks[d][i] = "ok"
      BY <1>2
    <2>2. \A j \in (i + 1)..Len(acks[d]) : j \in (i + 1)..Len(acks'[d])
      BY <1>2
    <2>3. QED
      BY <2>1, <2>2 DEF LastAcceptedShows
  <1>5. SettledSymmetric'
    BY <1>1 DEF SettledSymmetric
  <1>6. QED
    BY <1>3, <1>4, <1>5 DEF RelationInv

\* The answer to the oldest write leaves what becomes of the relation paths
\* alone, except where it tears a pair: a write that was the last on its path is
\* shown by the tree (accepted) or its pair is torn (refused).
LEMMA AckSettled ==
    ASSUME TypeOK, LastAcceptedShows, NEW c \in Users, ackPut(c),
           NEW d \in Users, NEW u \in Users, d # c \/ <<d, u>> \notin torn',
           NEW x \in {Following(d, u), FollowerOf(u, d)}
    PROVE  Settled(outstandingPuts'[d], db, x) <=> Settled(outstandingPuts[d], db, x)
  <1> DEFINE s == outstandingPuts[c]
             r == Tail(s)
             w == s[1]
  <1>1. /\ acks[c] # <<>> /\ s # <<>>
        /\ acks[c] \in Seq({"ok", "err"}) /\ s \in Seq(Write)
        /\ Len(acks[c]) <= Len(s)
    BY DEF ackPut, TypeOK
  <1>2. /\ outstandingPuts'[c] = r
        /\ acks'[c] = Tail(acks[c])
        /\ \A e \in Users \ {c} : outstandingPuts'[e] = outstandingPuts[e]
    BY DEF ackPut, TypeOK
  <1>3. /\ r \in Seq(Write)
        /\ Len(s) \in Nat /\ Len(s) >= 1
        /\ Len(r) = Len(s) - 1
        /\ \A i \in 1..Len(r) : r[i] = s[i + 1]
        /\ Head(s) = w
        /\ w \in Write
    BY <1>1, TailProperties
  <1>4. /\ Len(acks[c]) \in Nat /\ Len(acks[c]) >= 1
        /\ Len(acks'[c]) = Len(acks[c]) - 1
        /\ \A i \in 1..Len(acks'[c]) : acks'[c][i] = acks[c][i + 1]
        /\ Head(acks[c]) = acks[c][1]
        /\ acks[c][1] \in {"ok", "err"}
    BY <1>1, <1>2, TailProperties
  <1>5. torn' = torn \cup {q \in {c} \X Users :
                     /\ acks[c][1] = "err"
                     /\ w.path \in {Following(c, q[2]), FollowerOf(q[2], c)}
                     /\ ~Pending(r, w.path)}
    BY <1>3, <1>4 DEF ackPut
  <1> HIDE DEF w, r, s
  <1>6. CASE d = c
    <2> SUFFICES Settled(r, db, x) <=> Settled(s, db, x)
      BY <1>2, <1>6 DEF s
    <2>1. CASE s[1].path # x \/ Pending(r, x)
      BY <1>1, <2>1, SettledTail DEF r
    <2>2. CASE s[1].path = x /\ ~Pending(r, x)
      <3>1. acks[c][1] = "ok"
        <4> SUFFICES ASSUME acks[c][1] = "err" PROVE FALSE
          BY <1>4
        <4>1. <<c, u>> \in {q \in {c} \X Users :
                  /\ acks[c][1] = "err"
                  /\ w.path \in {Following(c, q[2]), FollowerOf(q[2], c)}
                  /\ ~Pending(r, w.path)}
          BY <1>6, <2>2 DEF w
        <4>2. QED
          BY <1>5, <1>6, <4>1
      <3>2. \A j \in (1 + 1)..Len(s) : s[j].path # x
        <4> SUFFICES ASSUME NEW j \in (1 + 1)..Len(s) PROVE s[j].path # x
          OBVIOUS
        <4>1. j - 1 \in 1..Len(r) /\ (j - 1) + 1 = j
          BY <1>3
        <4>2. r[j - 1] = s[j]
          BY <1>3, <4>1
        <4>3. QED
          BY <1>3, <2>2, <4>1, <4>2 DEF Pending
      <3>3. Settled(s, db, x) <=> s[1].op = "set"
        <4>1. 1 \in 1..Len(s)
          BY <1>3
        <4>2. LastOn(s, 1, x)
          BY <2>2, <3>2, <4>1 DEF LastOn
        <4>3. QED
          BY <1>1, <4>2, SettledLast
      <3>4. s[1].path \in db <=> s[1].op = "set"
        <4>1. 1 \in 1..Len(acks[c])
          BY <1>4
        <4>2. s[1].path \in RelationPath
          BY <2>2, RelationFacts
        <4>3. \A j \in (1 + 1)..Len(acks[c]) : s[j].path # s[1].path
          BY <1>1, <1>3, <1>4, <2>2, <3>2
        <4>4. QED
          BY <3>1, <4>1, <4>2, <4>3 DEF LastAcceptedShows, s
      <3>5. Settled(r, db, x) <=> x \in db
        BY <1>3, <2>2, SettledIdle
      <3>6. QED
        BY <2>2, <3>3, <3>4, <3>5
    <2>3. QED
      BY <2>1, <2>2
  <1>7. CASE d # c
    BY <1>2, <1>7
  <1>8. QED
    BY <1>6, <1>7

\* The answer to the oldest write keeps the invariant.  If that write was the
\* last on its path, the tree shows it (accepted) or its pair is torn (refused).
LEMMA AckKeepsRelationInv ==
    ASSUME RelationInv, TypeOK', NEW c \in Users, ackPut(c)
    PROVE  RelationInv'
  <1> TypeOK /\ OwnRelationWrites /\ LastAcceptedShows /\ SettledSymmetric
    BY DEF RelationInv
  <1> DEFINE s == outstandingPuts[c]
             r == Tail(s)
             w == s[1]
  <1>1. /\ acks[c] # <<>> /\ s # <<>>
        /\ acks[c] \in Seq({"ok", "err"}) /\ s \in Seq(Write)
        /\ Len(acks[c]) <= Len(s)
    BY DEF ackPut, TypeOK
  <1>2. /\ outstandingPuts'[c] = r
        /\ acks'[c] = Tail(acks[c])
        /\ \A d \in Users \ {c} : /\ outstandingPuts'[d] = outstandingPuts[d]
                                  /\ acks'[d] = acks[d]
        /\ db' = db
    BY DEF ackPut, TypeOK
  <1>3. /\ r \in Seq(Write)
        /\ Len(s) \in Nat /\ Len(s) >= 1
        /\ Len(r) = Len(s) - 1
        /\ \A i \in 1..Len(r) : r[i] = s[i + 1]
        /\ Head(s) = w
        /\ w \in Write
    BY <1>1, TailProperties
  <1>4. /\ Len(acks[c]) \in Nat /\ Len(acks[c]) >= 1
        /\ Len(acks'[c]) = Len(acks[c]) - 1
        /\ \A i \in 1..Len(acks'[c]) : acks'[c][i] = acks[c][i + 1]
        /\ Head(acks[c]) = acks[c][1]
        /\ acks[c][1] \in {"ok", "err"}
    BY <1>1, <1>2, TailProperties
  <1>5. torn' = torn \cup {q \in {c} \X Users :
                     /\ acks[c][1] = "err"
                     /\ w.path \in {Following(c, q[2]), FollowerOf(q[2], c)}
                     /\ ~Pending(r, w.path)}
    BY <1>3, <1>4 DEF ackPut
  <1>6. \A i \in 1..Len(r) : i + 1 \in 1..Len(s)
    BY <1>3
  <1> HIDE DEF w, r, s
  <1>7. OwnRelationWrites'
    <2> SUFFICES ASSUME NEW d \in Users, NEW i \in 1..Len(outstandingPuts'[d]),
                        outstandingPuts'[d][i].path \in RelationPath
                 PROVE  \E v \in Users : outstandingPuts'[d][i].path
                                             \in {Following(d, v), FollowerOf(v, d)}
      BY DEF OwnRelationWrites, RelationPath, Following, FollowerOf
    <2>1. CASE d = c
      <3>1. i + 1 \in 1..Len(outstandingPuts[d])
                /\ outstandingPuts'[d][i] = outstandingPuts[d][i + 1]
        BY <1>2, <1>3, <1>6, <2>1 DEF s
      <3>2. QED
        BY <3>1 DEF OwnRelationWrites
    <2>2. CASE d # c
      BY <1>2, <2>2 DEF OwnRelationWrites
    <2>3. QED
      BY <2>1, <2>2
  <1>8. LastAcceptedShows'
    <2> SUFFICES ASSUME NEW d \in Users, NEW i \in 1..Len(acks'[d]),
                        acks'[d][i] = "ok",
                        outstandingPuts'[d][i].path \in RelationPath,
                        \A j \in (i + 1)..Len(acks'[d]) :
                            outstandingPuts'[d][j].path # outstandingPuts'[d][i].path
                 PROVE  outstandingPuts'[d][i].path \in db
                            <=> outstandingPuts'[d][i].op = "set"
      BY <1>2 DEF LastAcceptedShows, RelationPath
    <2>1. CASE d = c
      <3>1. \A j \in 1..Len(acks'[c]) : outstandingPuts'[c][j] = s[j + 1]
        BY <1>1, <1>2, <1>3, <1>4
      <3>2. i + 1 \in 1..Len(acks[c]) /\ acks[c][i + 1] = "ok"
        BY <1>4, <2>1
      <3>3. outstandingPuts'[c][i] = s[i + 1]
        BY <2>1, <3>1
      <3>4. ASSUME NEW j \in ((i + 1) + 1)..Len(acks[c])
            PROVE  s[j].path # s[i + 1].path
        <4>1. /\ j - 1 \in (i + 1)..Len(acks'[c])
              /\ j - 1 \in 1..Len(acks'[c])
              /\ (j - 1) + 1 = j
          BY <1>4, <2>1
        <4>2. outstandingPuts'[c][j - 1] = s[j]
          BY <3>1, <4>1
        <4>3. QED
          BY <2>1, <3>3, <4>1, <4>2
      <3>5. s[i + 1].path \in db <=> s[i + 1].op = "set"
        BY <2>1, <3>2, <3>3, <3>4 DEF LastAcceptedShows, s
      <3>6. QED
        BY <2>1, <3>3, <3>5
    <2>2. CASE d # c
      BY <1>2, <2>2 DEF LastAcceptedShows
    <2>3. QED
      BY <2>1, <2>2
  <1>9. SettledSymmetric'
    <2> SUFFICES ASSUME NEW d \in Users, NEW u \in Users, <<d, u>> \notin torn'
                 PROVE  Settled(outstandingPuts'[d], db, Following(d, u)) <=>
                        Settled(outstandingPuts'[d], db, FollowerOf(u, d))
      BY <1>2 DEF SettledSymmetric
    <2>1. <<d, u>> \notin torn
      BY <1>5
    <2>2. QED
      BY <1>2, <2>1, AckSettled DEF SettledSymmetric
  <1>10. QED
    BY <1>7, <1>8, <1>9 DEF RelationInv

\* Losing the answers on the way keeps the invariant.
LEMMA DisconnectKeepsRelationInv ==
    ASSUME RelationInv, TypeOK', NEW c \in Users, onDisconnect(c)
    PROVE  RelationInv'
  <1> TypeOK /\ OwnRelationWrites /\ LastAcceptedShows /\ SettledSymmetric
    BY DEF RelationInv
  <1>1. /\ acks'[c] = <<>>
        /\ \A d \in Users \ {c} : acks'[d] = acks[d]
        /\ UNCHANGED <<db, outstandingPuts, torn>>
    BY DEF onDisconnect, history, TypeOK
  <1>2. OwnRelationWrites'
    BY <1>1 DEF OwnRelationWrites, RelationPath, Following, FollowerOf
  <1>3. LastAcceptedShows'
    <2> SUFFICES ASSUME NEW d \in Users, NEW i \in 1..Len(acks'[d]),
                        acks'[d][i] = "ok",
                        outstandingPuts[d][i].path \in RelationPath,
                        \A j \in (i + 1)..Len(acks'[d]) :
                            outstandingPuts[d][j].path # outstandingPuts[d][i].path
                 PROVE  outstandingPuts[d][i].path \in db
                            <=> outstandingPuts[d][i].op = "set"
      BY <1>1, SMTT(30) DEF LastAcceptedShows, RelationPath
    <2>1. d # c
      BY <1>1
    <2>2. QED
      BY <1>1, <2>1 DEF LastAcceptedShows
  <1>4. SettledSymmetric'
    BY <1>1 DEF SettledSymmetric
  <1>5. QED
    BY <1>2, <1>3, <1>4 DEF RelationInv

\* Losing the queue leaves what becomes of a relation path alone, unless a
\* write on it was queued, and then its pair is torn.
LEMMA DeathSettled ==
    ASSUME TypeOK, NEW c \in Users, processDeath(c),
           NEW d \in Users, NEW u \in Users, d # c \/ <<d, u>> \notin torn',
           NEW x \in {Following(d, u), FollowerOf(u, d)}
    PROVE  Settled(outstandingPuts'[d], db, x) <=> Settled(outstandingPuts[d], db, x)
  <1>1. /\ outstandingPuts'[c] = <<>>
        /\ \A e \in Users \ {c} : outstandingPuts'[e] = outstandingPuts[e]
        /\ torn' = torn \cup {q \in {c} \X Users :
                       \/ Pending(outstandingPuts[c], Following(c, q[2]))
                       \/ Pending(outstandingPuts[c], FollowerOf(q[2], c))}
    BY DEF processDeath, TypeOK
  <1>2. CASE d = c
    <2>1. ~Pending(outstandingPuts[c], x)
      BY <1>1, <1>2
    <2>2. ~Pending(<<>>, x) /\ <<>> \in Seq(Write) /\ outstandingPuts[c] \in Seq(Write)
      BY DEF Pending, TypeOK
    <2>3. /\ Settled(outstandingPuts[c], db, x) <=> x \in db
          /\ Settled(<<>>, db, x) <=> x \in db
      BY <2>1, <2>2, SettledIdle
    <2>4. QED
      BY <1>1, <1>2, <2>3
  <1>3. CASE d # c
    BY <1>1, <1>3
  <1>4. QED
    BY <1>2, <1>3

\* Losing the queue keeps the invariant: pairs with queued writes are torn.
LEMMA DeathKeepsRelationInv ==
    ASSUME RelationInv, TypeOK', NEW c \in Users, processDeath(c)
    PROVE  RelationInv'
  <1> TypeOK /\ OwnRelationWrites /\ LastAcceptedShows /\ SettledSymmetric
    BY DEF RelationInv
  <1>1. /\ outstandingPuts'[c] = <<>>
        /\ acks'[c] = <<>>
        /\ \A d \in Users \ {c} : /\ outstandingPuts'[d] = outstandingPuts[d]
                                  /\ acks'[d] = acks[d]
        /\ db' = db
        /\ torn' = torn \cup {q \in {c} \X Users :
                       \/ Pending(outstandingPuts[c], Following(c, q[2]))
                       \/ Pending(outstandingPuts[c], FollowerOf(q[2], c))}
    BY DEF processDeath, TypeOK
  <1>2. OwnRelationWrites'
    BY <1>1 DEF OwnRelationWrites, RelationPath, Following, FollowerOf
  <1>3. LastAcceptedShows'
    BY <1>1, SMTT(30) DEF LastAcceptedShows, RelationPath
  <1>4. SettledSymmetric'
    <2> SUFFICES ASSUME NEW d \in Users, NEW u \in Users, <<d, u>> \notin torn'
                 PROVE  Settled(outstandingPuts'[d], db, Following(d, u)) <=>
                        Settled(outstandingPuts'[d], db, FollowerOf(u, d))
      BY <1>1 DEF SettledSymmetric
    <2>1. <<d, u>> \notin torn
      BY <1>1
    <2>2. QED
      BY <1>1, <2>1, DeathSettled DEF SettledSymmetric
  <1>5. QED
    BY <1>2, <1>3, <1>4 DEF RelationInv

-----------------------------------------------------------------------------
\* The empty relation is symmetric.
LEMMA InitRelationInv == Init => RelationInv
  <1> SUFFICES ASSUME Init PROVE RelationInv
    OBVIOUS
  <1>1. \A c \in Users : outstandingPuts[c] = <<>> /\ acks[c] = <<>>
    BY DEF Init
  <1>2. OwnRelationWrites /\ LastAcceptedShows
    BY <1>1 DEF OwnRelationWrites, LastAcceptedShows
  <1>3. SettledSymmetric
    <2>1. \A x : ~Settled(<<>>, {}, x)
      BY DEF Settled
    <2>2. db = {}
      BY DEF Init
    <2>3. QED
      BY <1>1, <2>1, <2>2 DEF SettledSymmetric
  <1>4. QED
    BY <1>2, <1>3, InitTypeOK DEF RelationInv

\* Every step keeps what the queued follow and unfollow writes will leave symmetric.
LEMMA StepRelationInv == RelationInv /\ [Next]_vars => RelationInv'
  <1> SUFFICES ASSUME RelationInv, [Next]_vars PROVE RelationInv'
    OBVIOUS
  <1> TypeOK /\ TypeOK'
    BY StepTypeOK DEF RelationInv
  <1> USE OwnerAssumption
  <1>1. ASSUME NEW c \in Users, NEW u \in Users, follow(c, u)
        PROVE  RelationInv'
    <2>1. /\ put(c, <<[op |-> "set", path |-> Following(c, u)],
                      [op |-> "set", path |-> FollowerOf(u, c)]>>)
          /\ UNCHANGED <<db, acks>>
          /\ torn' = torn \ {<<c, u>>}
      BY <1>1 DEF follow, Tap, updateChildValues
    <2>2. QED
      BY <2>1, TapKeepsRelationInv DEF Op
  <1>2. ASSUME NEW c \in Users, NEW u \in Users, unfollow(c, u)
        PROVE  RelationInv'
    <2>1. /\ put(c, <<[op |-> "remove", path |-> Following(c, u)],
                      [op |-> "remove", path |-> FollowerOf(u, c)]>>)
          /\ UNCHANGED <<db, acks>>
          /\ torn' = torn \ {<<c, u>>}
      BY <1>2 DEF unfollow, Tap, removeValue
    <2>2. QED
      BY <2>1, TapKeepsRelationInv DEF Op
  <1>3. ASSUME NEW c \in Users, NEW p \in Posts, userPostsChildAdded(c, p)
        PROVE  RelationInv'
    <2> DEFINE o  == observers[c][Owner[p]][heard[c][p] + 1]
               ws == <<[op |-> o, path |-> FeedAt(c, p)]>>
    <2>1. ws \in Seq(Write)
      <3>1. Owner[p] \in Users
        OBVIOUS
      <3>2. /\ heard[c][p] \in Nat
            /\ observers[c][Owner[p]] \in Seq(Op)
            /\ heard[c][p] + 1 <= Len(observers[c][Owner[p]])
        BY <1>3, <3>1 DEF TypeOK, userPostsChildAdded
      <3>3. o \in Op
        BY <3>2
      <3>4. QED
        BY <3>3, PathTypes, WriteTypes
    <2>2. \A k \in 1..Len(ws) : ws[k].path = FeedAt(c, p)
      OBVIOUS
    <2>3. put(c, ws) /\ UNCHANGED <<db, acks, torn>>
      BY <1>3 DEF userPostsChildAdded, feedWrite, history
    <2> HIDE DEF ws
    <2>4. QED
      BY <2>1, <2>2, <2>3, PostPathFacts, PostPutKeepsRelationInv
  <1>4. ASSUME NEW p \in Posts,
               handleUploadPost(p) \/ putDataDone(p) \/ storageFailed(p)
        PROVE  RelationInv'
    <2>1. UNCHANGED <<db, outstandingPuts, acks, torn>>
      BY <1>4 DEF handleUploadPost, putDataDone, storageFailed, link, history
    <2>2. QED
      BY <2>1, FrameRelationInv
  <1>5. ASSUME NEW p \in Posts, downloadURLDone(p)
        PROVE  RelationInv'
    <2> DEFINE ws == <<updateChildValues(PostAt(p))>>
    <2>1. Owner[p] \in Users /\ ws \in Seq(Write)
      BY PathTypes, WriteTypes
    <2>2. \A k \in 1..Len(ws) : ws[k].path = PostAt(p)
      BY DEF updateChildValues
    <2>3. put(Owner[p], ws) /\ UNCHANGED <<db, acks, torn>>
      BY <1>5 DEF downloadURLDone, postWrites, history
    <2> HIDE DEF ws
    <2>4. \A k \in 1..Len(ws) : ws[k].path \notin RelationPath
      BY <2>1, <2>2, PostPathFacts
    <2>5. QED
      BY <2>1, <2>3, <2>4, PostPutKeepsRelationInv
  <1>6. ASSUME NEW p \in Posts, postCompletion(p)
        PROVE  RelationInv'
    <2> DEFINE o   == Owner[p]
               two == <<updateChildValues(UserPostAt(p)),
                        updateChildValues(FeedAt(o, p))>>
               one == <<updateChildValues(UserPostAt(p))>>
    <2>1. o \in Users /\ two \in Seq(Write) /\ one \in Seq(Write)
      BY PathTypes, WriteTypes
    <2>2. /\ \A k \in 1..Len(two) :
                 two[k].path = UserPostAt(p) \/ two[k].path = FeedAt(o, p)
          /\ \A k \in 1..Len(one) : one[k].path = UserPostAt(p)
      BY DEF updateChildValues
    <2>3. /\ UNCHANGED <<db, acks, torn>>
          /\ put(o, two) \/ put(o, one)
      BY <1>6 DEF postCompletion, history
    <2> HIDE DEF o, two, one
    <2>4. /\ \A k \in 1..Len(two) : two[k].path \notin RelationPath
          /\ \A k \in 1..Len(one) : one[k].path \notin RelationPath
      BY <2>1, <2>2, PostPathFacts
    <2>5. QED
      BY <2>1, <2>3, <2>4, PostPutKeepsRelationInv
  <1>7. ASSUME NEW o \in Users, userFollowersUpdate(o)
        PROVE  RelationInv'
    <2>1. UNCHANGED <<db, outstandingPuts, acks, torn>>
      BY <1>7 DEF userFollowersUpdate, link, history
    <2>2. QED
      BY <2>1, FrameRelationInv
  <1>8. ASSUME NEW p \in Posts, NEW f \in Users, followerChildAdded(p, f)
        PROVE  RelationInv'
    <2> DEFINE ws == <<updateChildValues(FeedAt(f, p))>>
    <2>1. Owner[p] \in Users /\ ws \in Seq(Write)
      BY PathTypes, WriteTypes
    <2>2. \A k \in 1..Len(ws) : ws[k].path = FeedAt(f, p)
      BY DEF updateChildValues
    <2>3. put(Owner[p], ws) /\ UNCHANGED <<db, acks, torn>>
      BY <1>8 DEF followerChildAdded, followerWrite
    <2> HIDE DEF ws
    <2>4. QED
      BY <2>1, <2>2, <2>3, PostPathFacts, PostPutKeepsRelationInv
  <1>9. ASSUME NEW c \in Users, signOut(c) \/ signIn(c)
        PROVE  RelationInv'
    <2>1. UNCHANGED <<db, outstandingPuts, acks, torn>>
      BY <1>9 DEF signOut, signIn, link, history
    <2>2. QED
      BY <2>1, FrameRelationInv
  <1>10. CASE UNCHANGED vars
    <2>1. UNCHANGED <<db, outstandingPuts, acks, torn>>
      BY <1>10 DEF vars, link, history
    <2>2. QED
      BY <2>1, FrameRelationInv
  <1>11. QED
    BY <1>1, <1>2, <1>3, <1>4, <1>5, <1>6, <1>7, <1>8, <1>9, <1>10,
       AcceptKeepsRelationInv, RefuseKeepsRelationInv, AckKeepsRelationInv,
       DisconnectKeepsRelationInv, DeathKeepsRelationInv DEF Next

\* With an empty queue, what the writes will leave is what the tree holds.
LEMMA RelationInvImplies == RelationInv => RelationSymmetric
  <1> SUFFICES ASSUME RelationInv, NEW c \in Users, NEW u \in Users,
                      outstandingPuts[c] = <<>>, <<c, u>> \notin torn
               PROVE  Following(c, u) \in db <=> FollowerOf(u, c) \in db
    BY DEF RelationSymmetric
  <1>1. <<>> \in Seq(Write) /\ \A x : ~Pending(<<>>, x)
    BY DEF Pending
  <1>2. \A x : Settled(<<>>, db, x) <=> x \in db
    BY <1>1, SettledIdle
  <1>3. QED
    BY <1>2 DEF RelationInv, SettledSymmetric

\* However taps, broken connections and process deaths interleave, a client
\* with no write outstanding has left user-following and user-followers in
\* agreement about every pair that no failure has cut short.
THEOREM RelationSafe == Spec => []RelationSymmetric
  <1>1. Spec => []RelationInv
    BY InitRelationInv, StepRelationInv, PTL DEF Spec
  <1>2. QED
    BY <1>1, RelationInvImplies, PTL

-----------------------------------------------------------------------------
(* user-followers implements the relation of FollowRelation.                *)

\* A step that neither taps nor fails changes nothing in FollowRelation.
LEMMA QuietRefines ==
    ASSUME TypeOK, UNCHANGED <<observers, torn>>,
           \A c, u \in Users :
               Settled(outstandingPuts'[c], db', FollowerOf(u, c)) <=>
               Settled(outstandingPuts[c], db, FollowerOf(u, c))
    PROVE  UNCHANGED ByFollowers!relVars
  <1>1. FollowersRel' = FollowersRel
    BY DEF FollowersRel, FollowerOf
  <1>2. LastTap' = LastTap
    BY DEF LastTap
  <1>3. QED
    BY <1>1, <1>2 DEF ByFollowers!relVars

\* A tap is the same tap in FollowRelation.
LEMMA TapRefines ==
    ASSUME TypeOK, NEW c \in Users, NEW u \in Users, NEW o \in Op,
           Tap(c, u, o, <<[op |-> o, path |-> Following(c, u)],
                          [op |-> o, path |-> FollowerOf(u, c)]>>)
    PROVE  /\ o = "set" => ByFollowers!Follow(c, u)
           /\ o = "remove" => ByFollowers!Unfollow(c, u)
  <1>1. /\ put(c, <<[op |-> o, path |-> Following(c, u)],
                    [op |-> o, path |-> FollowerOf(u, c)]>>)
        /\ observers' = [observers EXCEPT ![c][u] = Append(@, o)]
        /\ db' = db
        /\ torn' = torn \ {<<c, u>>}
    BY DEF Tap
  <1>2. /\ Settled(outstandingPuts'[c], db', FollowerOf(u, c)) <=> o = "set"
        /\ \A d, v \in Users : <<d, v>> # <<c, u>> =>
               (Settled(outstandingPuts'[d], db', FollowerOf(v, d)) <=>
                Settled(outstandingPuts[d], db, FollowerOf(v, d)))
    BY <1>1, TapSettled
  <1>3. FollowersRel' = IF o = "set" THEN FollowersRel \cup {<<c, u>>}
                                     ELSE FollowersRel \ {<<c, u>>}
    BY <1>2 DEF FollowersRel, FollowerOf
  <1>4. /\ observers'[c][u] = Append(observers[c][u], o)
        /\ \A d, v \in Users : <<d, v>> # <<c, u>> => observers'[d][v] = observers[d][v]
        /\ observers[c][u] \in Seq(Op)
    BY <1>1 DEF TypeOK
  <1>5. /\ observers'[c][u] # <<>>
        /\ observers'[c][u][Len(observers'[c][u])] = o
    <2> DEFINE s == observers[c][u]
    <2>1. s \in Seq(Op) /\ observers'[c][u] = Append(s, o)
      BY <1>4
    <2> HIDE DEF s
    <2>2. /\ Append(s, o) \in Seq(Op) /\ Len(Append(s, o)) = Len(s) + 1
          /\ Append(s, o)[Len(s) + 1] = o
      BY <2>1, AppendProperties
    <2>3. Len(s) + 1 # 0 /\ Len(<<>>) = 0
      BY <2>1
    <2>4. Append(s, o) # <<>>
      BY <2>2, <2>3
    <2> QED BY <2>1, <2>2, <2>4
  <1>6. LastTap' = [LastTap EXCEPT ![<<c, u>>] =
                       IF o = "set" THEN "follow" ELSE "unfollow"]
    <2> DEFINE now == IF o = "set" THEN "follow" ELSE "unfollow"
    <2>1. LastTap'[<<c, u>>] = now
      BY <1>5 DEF LastTap
    <2>2. ASSUME NEW q \in Users \X Users, q # <<c, u>>
          PROVE  LastTap'[q] = LastTap[q]
      <3>1. PICK d \in Users, v \in Users : q = <<d, v>>
        OBVIOUS
      <3>2. observers'[d][v] = observers[d][v]
        BY <1>4, <2>2, <3>1
      <3>3. QED
        BY <3>1, <3>2 DEF LastTap
    <2>3. /\ LastTap = [q \in Users \X Users |-> LastTap[q]]
          /\ LastTap' = [q \in Users \X Users |-> LastTap'[q]]
      BY DEF LastTap
    <2> HIDE DEF now
    <2>4. LastTap' = [LastTap EXCEPT ![<<c, u>>] = now]
      BY <2>1, <2>2, <2>3
    <2>5. QED
      BY <2>4 DEF now
  <1>7. QED
    BY <1>1, <1>3, <1>6 DEF ByFollowers!Follow, ByFollowers!Unfollow

\* A failure that leaves the pairs it does not tear alone is a Cut.
LEMMA CutRefines ==
    ASSUME NEW c \in Users, torn \subseteq torn', torn' \ torn \subseteq {c} \X Users,
           \A d, u \in Users :
               d # c \/ <<d, u>> \notin torn' =>
                   (Settled(outstandingPuts'[d], db', FollowerOf(u, d)) <=>
                    Settled(outstandingPuts[d], db, FollowerOf(u, d))),
           \/ LastTap' = LastTap
           \/ LastTap' = [q \in Users \X Users |->
                             IF q[1] = c THEN "none" ELSE LastTap[q]]
    PROVE  ByFollowers!Cut(c)
  <1>1. FollowersRel' \subseteq Users \X Users
    BY DEF FollowersRel
  <1>2. ASSUME NEW q \in Users \X Users, q \notin {c} \X Users \/ q \notin torn'
        PROVE  q \in FollowersRel' <=> q \in FollowersRel
    BY <1>2 DEF FollowersRel, FollowerOf
  <1>3. QED
    BY <1>1, <1>2 DEF ByFollowers!Cut

\* The empty tree is the empty relation.
LEMMA InitRefines == Init => ByFollowers!Init
  <1> SUFFICES ASSUME Init PROVE ByFollowers!Init
    OBVIOUS
  <1>1. FollowersRel = {}
    BY DEF Init, FollowersRel, Settled
  <1>2. LastTap = [q \in Users \X Users |-> "none"]
    BY DEF Init, LastTap
  <1>3. QED
    BY <1>1, <1>2 DEF Init, ByFollowers!Init

\* Every step of the clients and of the server is a step of FollowRelation.
LEMMA StepRefines ==
    RelationInv /\ [Next]_vars => [ByFollowers!Next]_(ByFollowers!relVars)
  <1> SUFFICES ASSUME RelationInv, [Next]_vars
               PROVE  ByFollowers!Next \/ UNCHANGED ByFollowers!relVars
    OBVIOUS
  <1> TypeOK /\ OwnRelationWrites /\ LastAcceptedShows
    BY DEF RelationInv
  <1> USE OwnerAssumption
  <1>1. ASSUME NEW c \in Users, NEW u \in Users, follow(c, u)
        PROVE  ByFollowers!Next
    <2>1. Tap(c, u, "set", <<[op |-> "set", path |-> Following(c, u)],
                             [op |-> "set", path |-> FollowerOf(u, c)]>>)
      BY <1>1 DEF follow, updateChildValues
    <2>2. ByFollowers!Follow(c, u)
      BY <2>1, TapRefines DEF Op
    <2>3. QED
      BY <2>2 DEF ByFollowers!Next
  <1>2. ASSUME NEW c \in Users, NEW u \in Users, unfollow(c, u)
        PROVE  ByFollowers!Next
    <2>1. Tap(c, u, "remove", <<[op |-> "remove", path |-> Following(c, u)],
                                [op |-> "remove", path |-> FollowerOf(u, c)]>>)
      BY <1>2 DEF unfollow, removeValue
    <2>2. ByFollowers!Unfollow(c, u)
      BY <2>1, TapRefines DEF Op
    <2>3. QED
      BY <2>2 DEF ByFollowers!Next
  <1>3. ASSUME NEW c \in Users, NEW ws \in Seq(Write), put(c, ws),
               UNCHANGED <<db, observers, torn>>,
               \A k \in 1..Len(ws) : ws[k].path \notin RelationPath
        PROVE  UNCHANGED ByFollowers!relVars
    BY <1>3, PostPutSettled, RelationFacts, QuietRefines
  <1>4. ASSUME UNCHANGED <<db, outstandingPuts, observers, torn>>
        PROVE  UNCHANGED ByFollowers!relVars
    BY <1>4, QuietRefines
  <1>5. ASSUME NEW c \in Users, NEW p \in Posts, userPostsChildAdded(c, p)
        PROVE  UNCHANGED ByFollowers!relVars
    <2> DEFINE o  == observers[c][Owner[p]][heard[c][p] + 1]
               ws == <<[op |-> o, path |-> FeedAt(c, p)]>>
    <2>1. ws \in Seq(Write)
      <3>1. Owner[p] \in Users
        OBVIOUS
      <3>2. /\ heard[c][p] \in Nat
            /\ observers[c][Owner[p]] \in Seq(Op)
            /\ heard[c][p] + 1 <= Len(observers[c][Owner[p]])
        BY <1>5, <3>1 DEF TypeOK, userPostsChildAdded
      <3>3. o \in Op
        BY <3>2
      <3>4. QED
        BY <3>3, PathTypes, WriteTypes
    <2>2. \A k \in 1..Len(ws) : ws[k].path = FeedAt(c, p)
      OBVIOUS
    <2>3. put(c, ws) /\ UNCHANGED <<db, observers, torn>>
      BY <1>5 DEF userPostsChildAdded, feedWrite, history
    <2> HIDE DEF ws
    <2>4. QED
      BY <1>3, <2>1, <2>2, <2>3, PostPathFacts
  <1>6. ASSUME NEW p \in Posts,
               handleUploadPost(p) \/ putDataDone(p) \/ storageFailed(p)
        PROVE  UNCHANGED ByFollowers!relVars
    BY <1>4, <1>6 DEF handleUploadPost, putDataDone, storageFailed, link, feeders, history
  <1>7. ASSUME NEW p \in Posts, downloadURLDone(p)
        PROVE  UNCHANGED ByFollowers!relVars
    <2> DEFINE ws == <<updateChildValues(PostAt(p))>>
    <2>1. Owner[p] \in Users /\ ws \in Seq(Write)
      BY PathTypes, WriteTypes
    <2>2. \A k \in 1..Len(ws) : ws[k].path = PostAt(p)
      BY DEF updateChildValues
    <2>3. put(Owner[p], ws) /\ UNCHANGED <<db, observers, torn>>
      BY <1>7 DEF downloadURLDone, postWrites, feeders, history
    <2> HIDE DEF ws
    <2>4. \A k \in 1..Len(ws) : ws[k].path \notin RelationPath
      BY <2>1, <2>2, PostPathFacts
    <2>5. QED
      BY <1>3, <2>1, <2>3, <2>4
  <1>8. ASSUME NEW p \in Posts, postCompletion(p)
        PROVE  UNCHANGED ByFollowers!relVars
    <2> DEFINE o   == Owner[p]
               two == <<updateChildValues(UserPostAt(p)),
                        updateChildValues(FeedAt(o, p))>>
               one == <<updateChildValues(UserPostAt(p))>>
    <2>1. o \in Users /\ two \in Seq(Write) /\ one \in Seq(Write)
      BY PathTypes, WriteTypes
    <2>2. /\ \A k \in 1..Len(two) :
                 two[k].path = UserPostAt(p) \/ two[k].path = FeedAt(o, p)
          /\ \A k \in 1..Len(one) : one[k].path = UserPostAt(p)
      BY DEF updateChildValues
    <2>3. /\ UNCHANGED <<db, observers, torn>>
          /\ put(o, two) \/ put(o, one)
      BY <1>8 DEF postCompletion, feeders, history
    <2> HIDE DEF o, two, one
    <2>4. /\ \A k \in 1..Len(two) : two[k].path \notin RelationPath
          /\ \A k \in 1..Len(one) : one[k].path \notin RelationPath
      BY <2>1, <2>2, PostPathFacts
    <2>5. QED
      BY <1>3, <2>1, <2>3, <2>4
  <1>9. ASSUME NEW p \in Posts, NEW f \in Users, followerChildAdded(p, f)
        PROVE  UNCHANGED ByFollowers!relVars
    <2> DEFINE ws == <<updateChildValues(FeedAt(f, p))>>
    <2>1. Owner[p] \in Users /\ ws \in Seq(Write)
      BY PathTypes, WriteTypes
    <2>2. \A k \in 1..Len(ws) : ws[k].path = FeedAt(f, p)
      BY DEF updateChildValues
    <2>3. put(Owner[p], ws) /\ UNCHANGED <<db, observers, torn>>
      BY <1>9 DEF followerChildAdded, followerWrite, feeders
    <2> HIDE DEF ws
    <2>4. QED
      BY <1>3, <2>1, <2>2, <2>3, PostPathFacts
  <1>10. ASSUME NEW c \in Users, serverAccepts(c)
         PROVE  UNCHANGED ByFollowers!relVars
    <2>1. UNCHANGED <<outstandingPuts, observers, torn>>
      BY <1>10 DEF serverAccepts, feeders, history
    <2>2. \A d, u \in Users :
              Settled(outstandingPuts'[d], db', FollowerOf(u, d)) <=>
              Settled(outstandingPuts[d], db, FollowerOf(u, d))
      BY <1>10, <2>1, AcceptSettled
    <2>3. QED
      BY <2>1, <2>2, QuietRefines
  <1>11. ASSUME NEW c \in Users,
                \/ userFollowersUpdate(c) \/ serverRefuses(c) \/ onDisconnect(c)
                \/ signOut(c) \/ signIn(c)
         PROVE  UNCHANGED ByFollowers!relVars
    BY <1>4, <1>11 DEF userFollowersUpdate, serverRefuses, onDisconnect, signOut, signIn,
       link, feeders, history
  <1>12. ASSUME NEW c \in Users, ackPut(c)
         PROVE  ByFollowers!Next
    <2>1. db' = db /\ observers' = observers
      BY <1>12 DEF ackPut, feeders
    <2>2. torn \subseteq torn' /\ torn' \ torn \subseteq {c} \X Users
      BY <1>12 DEF ackPut
    <2>3. LastTap' = LastTap
      BY <2>1 DEF LastTap
    <2>4. \A d, u \in Users :
              d # c \/ <<d, u>> \notin torn' =>
                  (Settled(outstandingPuts'[d], db', FollowerOf(u, d)) <=>
                   Settled(outstandingPuts[d], db, FollowerOf(u, d)))
      BY <1>12, <2>1, AckSettled
    <2>5. QED
      BY <2>2, <2>3, <2>4, CutRefines DEF ByFollowers!Next
  <1>13. ASSUME NEW c \in Users, processDeath(c)
         PROVE  ByFollowers!Next
    <2>1. db' = db /\ observers' = [observers EXCEPT ![c] = [u \in Users |-> <<>>]]
      BY <1>13 DEF processDeath
    <2>2. torn \subseteq torn' /\ torn' \ torn \subseteq {c} \X Users
      BY <1>13 DEF processDeath
    <2>3. LastTap' = [q \in Users \X Users |-> IF q[1] = c THEN "none" ELSE LastTap[q]]
      <3>1. \A d, u \in Users : observers'[d][u] = IF d = c THEN <<>> ELSE observers[d][u]
        BY <2>1 DEF TypeOK
      <3>2. \A q \in Users \X Users :
                observers'[q[1]][q[2]] = IF q[1] = c THEN <<>> ELSE observers[q[1]][q[2]]
        BY <3>1
      <3>3. QED
        BY <3>2 DEF LastTap
    <2>4. \A d, u \in Users :
              d # c \/ <<d, u>> \notin torn' =>
                  (Settled(outstandingPuts'[d], db', FollowerOf(u, d)) <=>
                   Settled(outstandingPuts[d], db, FollowerOf(u, d)))
      BY <1>13, <2>1, DeathSettled
    <2>5. QED
      BY <2>2, <2>3, <2>4, CutRefines DEF ByFollowers!Next
  <1>14. CASE UNCHANGED vars
    BY <1>4, <1>14 DEF vars, link, feeders, history
  <1>15. QED
    BY <1>1, <1>2, <1>5, <1>6, <1>7, <1>8, <1>9, <1>10, <1>11, <1>12, <1>13, <1>14
       DEF Next

\* user-followers implements the abstract relation: every run of the clients and
\* of the server is, by what user-followers will hold once the queued writes are
\* through, a run in which only taps change the relation, and failures only the
\* pairs they cut short.
THEOREM FollowersImplement == Spec => FollowersRefines
  <1>1. Spec => []RelationInv
    BY InitRelationInv, StepRelationInv, PTL DEF Spec
  <1>2. QED
    BY <1>1, InitRefines, StepRefines, PTL DEF Spec, FollowersRefines, ByFollowers!Spec


-----------------------------------------------------------------------------
(* The inductive invariant: what a client last decided about a path is what  *)
(* its queue will leave there, although other clients may set it meanwhile.  *)

\* Of the first n writes of the queue s, which the server has taken since the
\* connection was made, the last one on x is what the tree t shows; or, where
\* that is allowed (lax), another client has set x again.
LastTakenShows(s, n, t, x, lax) ==
    \A i \in 1..n :
        /\ s[i].path = x
        /\ \A j \in (i + 1)..n : s[j].path # x
        => /\ s[i].op = "set" => x \in t
           /\ s[i].op = "remove" => x \notin t \/ lax

\* Once the queue s is through, x will exist if v says so, and only then, or lax.
Intended(s, t, x, v, lax) ==
    /\ v => Settled(s, t, x)
    /\ Settled(s, t, x) => v \/ lax

Tracked(s, n, t, x, v, lax) ==
    LastTakenShows(s, n, t, x, lax) /\ Intended(s, t, x, v, lax)

\* c's last tap on u was follow.
TappedFollow(c, u) ==
    observers[c][u] # <<>> /\ observers[c][u][Len(observers[c][u])] = "set"

\* The owner shares its post with itself; anyone else has it by the last of its
\* observers that was called for it.
WantsPost(c, p) ==
    IF c = Owner[p] THEN upload[p] = "shared"
    ELSE heard[c][p] > 0 /\ observers[c][Owner[p]][heard[c][p]] = "set"

\* Others may put p in c's feed.
MayBeGiven(c, p) == c = Owner[p] \/ c \in fanned[p]

\* The paths of a client whose process has not died and whose writes have not
\* been refused.
ClientTracked(c) ==
    /\ \A u \in Users : Tracked(outstandingPuts[c], Len(acks[c]), db, Following(c, u),
                                TappedFollow(c, u), FALSE)
    /\ \A p \in Posts : Tracked(outstandingPuts[c], Len(acks[c]), db, FeedAt(c, p),
                                WantsPost(c, p), MayBeGiven(c, p))

\* The client d may queue the write w: what is another's it only gives, and only
\* by a fan-out.
Permitted(d, w, given) ==
    \A c \in Users \ {d} :
        /\ \A u \in Users : w.path # Following(c, u)
        /\ \A p \in Posts : w.path = FeedAt(c, p) => w.op = "set" /\ c \in given[p]

QueuesPermitted ==
    \A d \in Users : \A i \in 1..Len(outstandingPuts[d]) :
        Permitted(d, outstandingPuts[d][i], fanned)

\* Nobody follows himself, and an observer is called only once it is there.
ObserversSane ==
    /\ \A c \in Users : observers[c][c] = <<>>
    /\ \A c \in Users, p \in Posts : heard[c][p] <= Len(observers[c][Owner[p]])

FeedInv ==
    /\ TypeOK
    /\ QueuesPermitted
    /\ ObserversSane
    /\ \A c \in Users : faults[c] = 0 => ClientTracked(c)

-----------------------------------------------------------------------------
(* How a tracked path fares, whatever the path is.                           *)

\* What was taken stays in place when writes are queued.
LEMMA TakenPut ==
    ASSUME NEW s \in Seq(Write), NEW ws \in Seq(Write), NEW n \in 0..Len(s),
           NEW t, NEW x, NEW lax, LastTakenShows(s, n, t, x, lax)
    PROVE  LastTakenShows(s \o ws, n, t, x, lax)
  <1>1. \A i \in 1..n : (s \o ws)[i] = s[i]
    BY ConcatProperties
  <1>2. Len(s) \in Nat /\ \A i \in 1..n : \A j \in (i + 1)..n : j \in 1..n
    OBVIOUS
  <1>3. QED
    BY <1>1, <1>2 DEF LastTakenShows

\* Writes on other paths are queued.
LEMMA TrackedPutOther ==
    ASSUME NEW s \in Seq(Write), NEW ws \in Seq(Write), NEW n \in 0..Len(s),
           NEW t, NEW x, NEW v, NEW lax,
           \A k \in 1..Len(ws) : ws[k].path # x,
           Tracked(s, n, t, x, v, lax)
    PROVE  Tracked(s \o ws, n, t, x, v, lax)
  <1>1. Settled(s \o ws, t, x) <=> Settled(s, t, x)
    BY SettledOther
  <1>2. LastTakenShows(s \o ws, n, t, x, lax)
    BY TakenPut DEF Tracked
  <1>3. QED
    BY <1>1, <1>2 DEF Tracked, Intended

\* The last on the path of the writes that are queued decides.
LEMMA SettledPut ==
    ASSUME NEW s \in Seq(Write), NEW ws \in Seq(Write), NEW t, NEW x, NEW k,
           LastOn(ws, k, x)
    PROVE  Settled(s \o ws, t, x) <=> ws[k].op = "set"
  <1> DEFINE r == s \o ws
  <1>1. /\ r \in Seq(Write) /\ Len(r) = Len(s) + Len(ws)
        /\ \A i \in 1..Len(s) : r[i] = s[i]
        /\ \A i \in (Len(s) + 1)..(Len(s) + Len(ws)) : r[i] = ws[i - Len(s)]
        /\ Len(s) \in Nat /\ Len(ws) \in Nat
    BY ConcatProperties
  <1>2. /\ k \in 1..Len(ws) /\ ws[k].path = x
        /\ \A j \in (k + 1)..Len(ws) : ws[j].path # x
    BY DEF LastOn
  <1> HIDE DEF r
  <1>3. Len(s) + k \in 1..Len(r) /\ r[Len(s) + k] = ws[k]
    <2>1. /\ Len(s) + k \in (Len(s) + 1)..(Len(s) + Len(ws))
          /\ (Len(s) + k) - Len(s) = k
          /\ Len(s) + k \in 1..Len(r)
      BY <1>1, <1>2
    <2>2. QED
      BY <1>1, <2>1
  <1>4. LastOn(r, Len(s) + k, x)
    <2>1. ASSUME NEW j \in (Len(s) + k + 1)..Len(r) PROVE r[j].path # x
      <3>1. j - Len(s) \in (k + 1)..Len(ws) /\ r[j] = ws[j - Len(s)]
        BY <1>1, <1>2
      <3>2. QED
        BY <1>2, <3>1
    <2>2. QED
      BY <1>2, <1>3, <2>1 DEF LastOn
  <1>5. Settled(r, t, x) <=> ws[k].op = "set"
    BY <1>1, <1>3, <1>4, SettledLast
  <1>6. QED
    BY <1>5 DEF r

\* The server takes the next write of the queue.
LEMMA TrackedTake ==
    ASSUME NEW s \in Seq(Write), NEW n \in Nat, n + 1 \in 1..Len(s),
           NEW t, NEW x, NEW v, NEW lax,
           Tracked(s, n, t, x, v, lax)
    PROVE  Tracked(s, n + 1, Apply(t, s[n + 1]), x, v, lax)
  <1> DEFINE a == Apply(t, s[n + 1])
  <1>0. s[n + 1] \in Write /\ Len(s) \in Nat
    OBVIOUS
  <1>1. CASE s[n + 1].path = x
    <2>1. Pending(s, x)
      BY <1>1 DEF Pending
    <2>2. Settled(s, a, x) <=> Settled(s, t, x)
      BY <2>1, SettledTree
    <2>3. x \in a <=> s[n + 1].op = "set"
      BY <1>1 DEF Apply
    <2>4. LastTakenShows(s, n + 1, a, x, lax)
      <3> SUFFICES ASSUME NEW i \in 1..(n + 1), s[i].path = x,
                          \A j \in (i + 1)..(n + 1) : s[j].path # x
                   PROVE  /\ s[i].op = "set" => x \in a
                          /\ s[i].op = "remove" => x \notin a \/ lax
        BY Zenon DEF LastTakenShows
      <3>1. i = n + 1
        BY <1>1
      <3>2. QED
        BY <2>3, <3>1
    <2>5. QED
      BY <2>2, <2>4 DEF Tracked, Intended
  <1>2. CASE s[n + 1].path # x
    <2>1. x \in a <=> x \in t
      BY <1>2 DEF Apply
    <2>2. Settled(s, a, x) <=> Settled(s, t, x)
      BY <2>1, SettledTree
    <2>3. LastTakenShows(s, n + 1, a, x, lax)
      <3> SUFFICES ASSUME NEW i \in 1..(n + 1), s[i].path = x,
                          \A j \in (i + 1)..(n + 1) : s[j].path # x
                   PROVE  /\ s[i].op = "set" => x \in a
                          /\ s[i].op = "remove" => x \notin a \/ lax
        BY Zenon DEF LastTakenShows
      <3>1. i \in 1..n /\ \A j \in (i + 1)..n : j \in (i + 1)..(n + 1)
        BY <1>2
      <3>2. QED
        BY <2>1, <3>1 DEF Tracked, LastTakenShows
    <2>4. QED
      BY <2>2, <2>3 DEF Tracked, Intended
  <1>3. QED
    BY <1>1, <1>2

\* The server takes a write of another client.
LEMMA TrackedTakeOther ==
    ASSUME NEW s \in Seq(Write), NEW n \in 0..Len(s), NEW t, NEW w \in Write,
           NEW x, NEW v, NEW lax,
           w.path = x => w.op = "set" /\ lax,
           Tracked(s, n, t, x, v, lax)
    PROVE  Tracked(s, n, Apply(t, w), x, v, lax)
  <1> DEFINE a == Apply(t, w)
  <1>1. x \in t => x \in a
    BY DEF Apply
  <1>2. x \in a => x \in t \/ lax
    BY DEF Apply
  <1>3. LastTakenShows(s, n, a, x, lax)
    BY <1>1, <1>2 DEF Tracked, LastTakenShows
  <1>4. Settled(s, t, x) => Settled(s, a, x)
    BY <1>1 DEF Settled
  <1>5. Settled(s, a, x) => Settled(s, t, x) \/ lax
    BY <1>2 DEF Settled
  <1>6. QED
    BY <1>3, <1>4, <1>5 DEF Tracked, Intended

\* The oldest write is answered, and leaves the queue.
LEMMA TrackedAck ==
    ASSUME NEW s \in Seq(Write), NEW n \in 1..Len(s), NEW t, NEW x, NEW v, NEW lax,
           Tracked(s, n, t, x, v, lax)
    PROVE  Tracked(Tail(s), n - 1, t, x, v, lax)
  <1> DEFINE r == Tail(s)
  <1>0. s # <<>>
    OBVIOUS
  <1>1. /\ r \in Seq(Write) /\ Len(s) \in Nat /\ Len(s) >= 1 /\ Len(r) = Len(s) - 1
        /\ \A i \in 1..Len(r) : r[i] = s[i + 1]
        /\ s[1] \in Write
    BY <1>0, TailProperties
  <1> HIDE DEF r
  <1>2. LastTakenShows(r, n - 1, t, x, lax)
    <2> SUFFICES ASSUME NEW i \in 1..(n - 1), r[i].path = x,
                        \A j \in (i + 1)..(n - 1) : r[j].path # x
                 PROVE  /\ r[i].op = "set" => x \in t
                        /\ r[i].op = "remove" => x \notin t \/ lax
      BY Zenon DEF LastTakenShows
    <2>1. i + 1 \in 1..n /\ r[i] = s[i + 1]
      BY <1>1
    <2>2. ASSUME NEW j \in ((i + 1) + 1)..n PROVE s[j].path # x
      <3>1. j - 1 \in (i + 1)..(n - 1) /\ r[j - 1] = s[j]
        <4>1. j - 1 \in (i + 1)..(n - 1) /\ j - 1 \in 1..Len(r) /\ (j - 1) + 1 = j
          BY <1>1
        <4>2. QED
          BY <1>1, <4>1
      <3>2. QED
        BY <3>1
    <2>3. QED
      BY <2>1, <2>2 DEF Tracked, LastTakenShows
  <1>3. CASE s[1].path # x \/ Pending(r, x)
    <2>1. Settled(r, t, x) <=> Settled(s, t, x)
      BY <1>0, <1>3, SettledTail DEF r
    <2>2. QED
      BY <1>2, <2>1 DEF Tracked, Intended, r
  <1>4. CASE s[1].path = x /\ ~Pending(r, x)
    <2>1. \A j \in (1 + 1)..Len(s) : s[j].path # x
      <3> SUFFICES ASSUME NEW j \in (1 + 1)..Len(s) PROVE s[j].path # x
        OBVIOUS
      <3>1. j - 1 \in 1..Len(r) /\ (j - 1) + 1 = j
        BY <1>1
      <3>2. r[j - 1] = s[j]
        BY <1>1, <3>1
      <3>3. QED
        BY <1>1, <1>4, <3>1, <3>2 DEF Pending
    <2>2. 1 \in 1..Len(s) /\ 1 \in 1..n
      BY <1>1
    <2>3. LastOn(s, 1, x)
      BY <1>4, <2>1, <2>2 DEF LastOn
    <2>4. Settled(s, t, x) <=> s[1].op = "set"
      BY <2>3, SettledLast
    <2>5. /\ s[1].op = "set" => x \in t
          /\ s[1].op = "remove" => x \notin t \/ lax
      <3>1. \A j \in (1 + 1)..n : s[j].path # x
        BY <1>1, <2>1
      <3>2. QED
        BY <1>4, <2>2, <3>1 DEF Tracked, LastTakenShows
    <2>6. Settled(r, t, x) <=> x \in t
      BY <1>1, <1>4, SettledIdle
    <2>7. s[1].op \in {"set", "remove"}
      BY <1>1 DEF Write, Op
    <2>8. Intended(r, t, x, v, lax)
      BY <2>4, <2>5, <2>6, <2>7 DEF Tracked, Intended
    <2>9. QED
      BY <1>2, <2>8 DEF Tracked, r
  <1>5. QED
    BY <1>3, <1>4

\* The connection breaks: nothing counts as taken.
LEMMA TrackedAgain ==
    ASSUME NEW s, NEW n, NEW t, NEW x, NEW v, NEW lax, Tracked(s, n, t, x, v, lax)
    PROVE  Tracked(s, 0, t, x, v, lax)
  BY DEF Tracked, LastTakenShows

-----------------------------------------------------------------------------
(* Which writes may be queued.                                               *)

\* The paths a client writes are told apart.
LEMMA FeedPathFacts ==
    ASSUME NEW c \in Users, NEW u \in Users, NEW d \in Users, NEW v \in Users,
           NEW p \in Posts, NEW q \in Posts
    PROVE  /\ FeedAt(c, p) = FeedAt(d, q) => c = d /\ p = q
           /\ FeedAt(c, p) # Following(d, v) /\ FeedAt(c, p) # FollowerOf(d, v)
           /\ FeedAt(c, p) # PostAt(q) /\ FeedAt(c, p) # UserPostAt(q)
           /\ Following(c, u) # PostAt(q) /\ Following(c, u) # UserPostAt(q)
           /\ Following(c, u) # FollowerOf(d, v)
           /\ Following(c, u) = Following(d, v) => c = d /\ u = v
  BY DEF FeedAt, Following, FollowerOf, PostAt, UserPostAt

\* What is permitted stays so when more fan-outs have been made.
LEMMA PermittedMore ==
    ASSUME NEW d, NEW w, NEW given, NEW more, Permitted(d, w, given),
           \A p \in Posts : given[p] \subseteq more[p]
    PROVE  Permitted(d, w, more)
  BY DEF Permitted

\* Queueing permitted writes.
LEMMA PutPermitted ==
    ASSUME TypeOK, QueuesPermitted, NEW c \in Users, NEW ws \in Seq(Write), put(c, ws),
           \A p \in Posts : fanned[p] \subseteq fanned'[p],
           \A k \in 1..Len(ws) : Permitted(c, ws[k], fanned')
    PROVE  QueuesPermitted'
  <1> SUFFICES ASSUME NEW d \in Users, NEW i \in 1..Len(outstandingPuts'[d])
               PROVE  Permitted(d, outstandingPuts'[d][i], fanned')
    BY DEF QueuesPermitted, Permitted, Following, FeedAt
  <1>1. CASE /\ i \in 1..Len(outstandingPuts[d])
             /\ outstandingPuts'[d][i] = outstandingPuts[d][i]
    <2>1. Permitted(d, outstandingPuts[d][i], fanned)
      BY <1>1 DEF QueuesPermitted
    <2>2. Permitted(d, outstandingPuts[d][i], fanned')
      BY <2>1, PermittedMore
    <2>3. QED
      BY <1>1, <2>2
  <1>2. CASE \E k \in 1..Len(ws) : d = c /\ outstandingPuts'[d][i] = ws[k]
    BY <1>2
  <1>3. \/ /\ i \in 1..Len(outstandingPuts[d])
           /\ outstandingPuts'[d][i] = outstandingPuts[d][i]
        \/ \E k \in 1..Len(ws) : d = c /\ outstandingPuts'[d][i] = ws[k]
    <2>1. CASE d # c
      <3>1. outstandingPuts'[d] = outstandingPuts[d]
        BY <2>1 DEF put, TypeOK
      <3>2. QED
        BY <3>1
    <2>2. CASE d = c
      <3> DEFINE s == outstandingPuts[c]
      <3>1. s \in Seq(Write) /\ outstandingPuts'[d] = s \o ws
        BY <2>2 DEF put, TypeOK
      <3> HIDE DEF s
      <3>2. /\ Len(s) \in Nat /\ Len(ws) \in Nat /\ Len(s \o ws) = Len(s) + Len(ws)
            /\ \A j \in 1..Len(s) : (s \o ws)[j] = s[j]
            /\ \A j \in (Len(s) + 1)..(Len(s) + Len(ws)) : (s \o ws)[j] = ws[j - Len(s)]
        BY <3>1, ConcatProperties
      <3>3. i \in 1..(Len(s) + Len(ws))
        BY <3>1, <3>2
      <3>4. CASE i \in 1..Len(s)
        BY <2>2, <3>1, <3>2, <3>4 DEF s
      <3>5. CASE i \in (Len(s) + 1)..(Len(s) + Len(ws))
        <4>1. i - Len(s) \in 1..Len(ws)
          BY <3>2, <3>5
        <4>2. outstandingPuts'[d][i] = ws[i - Len(s)]
          BY <3>1, <3>2, <3>5
        <4>3. QED
          BY <2>2, <4>1, <4>2
      <3>6. QED
        BY <3>2, <3>3, <3>4, <3>5
    <2>3. QED
      BY <2>1, <2>2
  <1>4. QED
    BY <1>1, <1>2, <1>3

\* Every step queues permitted writes only.
LEMMA StepPermitted ==
    TypeOK /\ QueuesPermitted /\ [Next]_vars => QueuesPermitted'
  <1> SUFFICES ASSUME TypeOK, QueuesPermitted, [Next]_vars PROVE QueuesPermitted'
    OBVIOUS
  <1> USE OwnerAssumption
  <1>1. CASE UNCHANGED <<outstandingPuts, fanned>>
    BY <1>1 DEF QueuesPermitted, Permitted, Following, FeedAt
  <1>2. ASSUME NEW c \in Users, NEW u \in Users, NEW o \in Op,
               Tap(c, u, o, <<[op |-> o, path |-> Following(c, u)],
                              [op |-> o, path |-> FollowerOf(u, c)]>>)
        PROVE  QueuesPermitted'
    <2> DEFINE w1 == [op |-> o, path |-> Following(c, u)]
               w2 == [op |-> o, path |-> FollowerOf(u, c)]
    <2>1. put(c, <<w1, w2>>) /\ fanned' = fanned
      BY <1>2 DEF Tap
    <2>2. w1 \in Write /\ w2 \in Write
      BY PathTypes, WriteTypes
    <2>3. Permitted(c, w1, fanned') /\ Permitted(c, w2, fanned')
      <3>1. /\ \A d \in Users \ {c}, v \in Users : /\ w1.path # Following(d, v)
                                                   /\ w2.path # Following(d, v)
        BY RelationFacts
      <3>2. \A d \in Users, p \in Posts : w1.path # FeedAt(d, p) /\ w2.path # FeedAt(d, p)
        BY FeedPathFacts
      <3>3. QED
        BY <3>1, <3>2 DEF Permitted
    <2> HIDE DEF w1, w2
    <2>4. <<w1, w2>> \in Seq(Write) /\ \A k \in 1..Len(<<w1, w2>>) :
                                           Permitted(c, <<w1, w2>>[k], fanned')
      BY <2>2, <2>3
    <2>5. QED
      BY <2>1, <2>4, PutPermitted
  <1>3. ASSUME NEW c \in Users, NEW u \in Users, follow(c, u) \/ unfollow(c, u)
        PROVE  QueuesPermitted'
    BY <1>2, <1>3 DEF follow, unfollow, updateChildValues, removeValue, Op
  <1>4. ASSUME NEW c \in Users, NEW p \in Posts, userPostsChildAdded(c, p)
        PROVE  QueuesPermitted'
    <2> DEFINE n == heard[c][p] + 1
               w == feedWrite(c, p, n)
    <2>1. put(c, <<w>>) /\ fanned' = fanned /\ n \in 1..Len(observers[c][Owner[p]])
      BY <1>4 DEF userPostsChildAdded, history, TypeOK
    <2>2. observers[c][Owner[p]][n] \in Op
      BY <2>1 DEF TypeOK
    <2>3. w \in Write /\ w.path = FeedAt(c, p)
      BY <2>2, PathTypes, WriteTypes DEF feedWrite
    <2>4. Permitted(c, w, fanned')
      BY <2>3, FeedPathFacts DEF Permitted
    <2> HIDE DEF w
    <2>5. <<w>> \in Seq(Write) /\ \A k \in 1..Len(<<w>>) : Permitted(c, <<w>>[k], fanned')
      BY <2>3, <2>4
    <2>6. QED
      BY <2>1, <2>5, PutPermitted
  <1>5. ASSUME NEW p \in Posts, downloadURLDone(p)
        PROVE  QueuesPermitted'
    <2> DEFINE o == Owner[p]
               w == updateChildValues(PostAt(p))
    <2>1. put(o, <<w>>) /\ fanned' = fanned /\ o \in Users
      BY <1>5 DEF downloadURLDone, postWrites, history
    <2>2. w \in Write
      BY PathTypes, WriteTypes
    <2>3. Permitted(o, w, fanned')
      BY <2>1, FeedPathFacts DEF Permitted, updateChildValues
    <2> HIDE DEF w
    <2>4. <<w>> \in Seq(Write) /\ \A k \in 1..Len(<<w>>) : Permitted(o, <<w>>[k], fanned')
      BY <2>2, <2>3
    <2>5. QED
      BY <2>1, <2>4, PutPermitted
  <1>6. ASSUME NEW p \in Posts, postCompletion(p)
        PROVE  QueuesPermitted'
    <2> DEFINE o == Owner[p]
               w1 == updateChildValues(UserPostAt(p))
               w2 == updateChildValues(FeedAt(o, p))
    <2>1. /\ put(o, <<w1, w2>>) \/ put(o, <<w1>>)
          /\ fanned' = fanned /\ o \in Users
      BY <1>6 DEF postCompletion, history
    <2>2. w1 \in Write /\ w2 \in Write
      BY <2>1, PathTypes, WriteTypes
    <2>3. Permitted(o, w1, fanned') /\ Permitted(o, w2, fanned')
      BY <2>1, FeedPathFacts DEF Permitted, updateChildValues
    <2> HIDE DEF w1, w2
    <2>4. /\ <<w1, w2>> \in Seq(Write)
          /\ \A k \in 1..Len(<<w1, w2>>) : Permitted(o, <<w1, w2>>[k], fanned')
      BY <2>2, <2>3
    <2>5. <<w1>> \in Seq(Write) /\ \A k \in 1..Len(<<w1>>) : Permitted(o, <<w1>>[k], fanned')
      BY <2>2, <2>3
    <2>6. QED
      BY <2>1, <2>4, <2>5, PutPermitted
  <1>7. ASSUME NEW p \in Posts, NEW f \in Users, followerChildAdded(p, f)
        PROVE  QueuesPermitted'
    <2> DEFINE o == Owner[p]
               w == updateChildValues(FeedAt(f, p))
    <2>1. /\ put(o, <<w>>) /\ o \in Users
          /\ fanned' = [fanned EXCEPT ![p] = @ \cup {f}]
      BY <1>7 DEF followerChildAdded, followerWrite
    <2>2. f \in fanned'[p] /\ \A q \in Posts : fanned[q] \subseteq fanned'[q]
      BY <2>1 DEF TypeOK
    <2>3. w \in Write
      BY PathTypes, WriteTypes
    <2>4. Permitted(o, w, fanned')
      BY <2>1, <2>2, FeedPathFacts DEF Permitted, updateChildValues
    <2> HIDE DEF w
    <2>5. <<w>> \in Seq(Write) /\ \A k \in 1..Len(<<w>>) : Permitted(o, <<w>>[k], fanned')
      BY <2>3, <2>4
    <2>6. QED
      BY <2>1, <2>2, <2>5, PutPermitted
  <1>8. ASSUME NEW c \in Users, ackPut(c)
        PROVE  QueuesPermitted'
    <2>1. /\ outstandingPuts' = [outstandingPuts EXCEPT ![c] = Tail(outstandingPuts[c])]
          /\ fanned' = fanned
          /\ outstandingPuts[c] # <<>>
      BY <1>8 DEF ackPut, TypeOK
    <2>2. ASSUME NEW d \in Users, NEW i \in 1..Len(outstandingPuts'[d])
          PROVE  \E j \in 1..Len(outstandingPuts[d]) :
                     outstandingPuts'[d][i] = outstandingPuts[d][j]
      <3>1. CASE d = c
        <4>1. outstandingPuts'[c] = Tail(outstandingPuts[c]) /\ outstandingPuts[c] \in Seq(Write)
          BY <2>1 DEF TypeOK
        <4>2. /\ Len(outstandingPuts[c]) \in Nat
              /\ Len(Tail(outstandingPuts[c])) = Len(outstandingPuts[c]) - 1
              /\ \A k \in 1..Len(Tail(outstandingPuts[c])) :
                     Tail(outstandingPuts[c])[k] = outstandingPuts[c][k + 1]
          BY <2>1, <4>1, TailProperties
        <4>3. i \in 1..Len(Tail(outstandingPuts[c]))
          BY <2>2, <3>1, <4>1
        <4>4. i + 1 \in 1..Len(outstandingPuts[c])
          BY <4>2, <4>3
        <4>5. QED
          BY <3>1, <4>1, <4>2, <4>3, <4>4
      <3>2. CASE d # c
        BY <2>1, <2>2, <3>2 DEF TypeOK
      <3>3. QED
        BY <3>1, <3>2
    <2>3. \A d \in Users : \A i \in 1..Len(outstandingPuts'[d]) :
              Permitted(d, outstandingPuts'[d][i], fanned)
      BY <2>2 DEF QueuesPermitted
    <2>4. ASSUME NEW d \in Users, NEW i \in 1..Len(outstandingPuts'[d])
          PROVE  Permitted(d, outstandingPuts'[d][i], fanned')
      BY <2>1, <2>3
    <2>5. QED
      BY <2>4 DEF QueuesPermitted, Permitted, Following, FeedAt
  <1>9. ASSUME NEW c \in Users, processDeath(c)
        PROVE  QueuesPermitted'
    <2>1. /\ outstandingPuts' = [outstandingPuts EXCEPT ![c] = <<>>]
          /\ fanned' = fanned
      BY <1>9 DEF processDeath
    <2>2. ASSUME NEW d \in Users, NEW i \in 1..Len(outstandingPuts'[d])
          PROVE  d # c /\ outstandingPuts'[d] = outstandingPuts[d]
      BY <2>1, <2>2 DEF TypeOK
    <2>3. QED
      BY <2>1, <2>2 DEF QueuesPermitted, Permitted, Following, FeedAt
  <1>10. ASSUME NEW c \in Users,
                \/ serverAccepts(c) \/ serverRefuses(c) \/ onDisconnect(c)
                \/ signOut(c) \/ signIn(c) \/ userFollowersUpdate(c)
         PROVE  UNCHANGED <<outstandingPuts, fanned>>
    BY <1>10 DEF serverAccepts, serverRefuses, onDisconnect, signOut, signIn,
                 userFollowersUpdate, link, history
  <1>11. ASSUME NEW p \in Posts,
                handleUploadPost(p) \/ putDataDone(p) \/ storageFailed(p)
         PROVE  UNCHANGED <<outstandingPuts, fanned>>
    BY <1>11 DEF handleUploadPost, putDataDone, storageFailed, link, history
  <1>12. CASE UNCHANGED vars
    BY <1>1, <1>12 DEF vars, link, history
  <1>13. QED
    BY <1>1, <1>3, <1>4, <1>5, <1>6, <1>7, <1>8, <1>9, <1>10, <1>11, <1>12 DEF Next

-----------------------------------------------------------------------------
(* The observers.                                                            *)

\* Taps add observers at the end, never on oneself; calls come in order.
LEMMA StepObservers == TypeOK /\ ObserversSane /\ [Next]_vars => ObserversSane'
  <1> SUFFICES ASSUME TypeOK, ObserversSane, [Next]_vars PROVE ObserversSane'
    OBVIOUS
  <1> USE OwnerAssumption
  <1>1. CASE UNCHANGED feeders
    BY <1>1 DEF ObserversSane, feeders
  <1>2. ASSUME NEW c \in Users, NEW u \in Users, follow(c, u) \/ unfollow(c, u)
        PROVE  ObserversSane'
    <2>1. PICK o \in Op : observers' = [observers EXCEPT ![c][u] = Append(@, o)]
      BY <1>2 DEF follow, unfollow, Tap, Op
    <2>2. heard' = heard /\ c # u
      BY <1>2 DEF follow, unfollow, Tap
    <2>3. ASSUME NEW d \in Users, NEW v \in Users
          PROVE  /\ d = v => observers'[d][v] = observers[d][v]
                 /\ Len(observers'[d][v]) >= Len(observers[d][v])
                 /\ Len(observers'[d][v]) \in Nat /\ Len(observers[d][v]) \in Nat
      <3>1. observers[d][v] \in Seq(Op)
        BY DEF TypeOK
      <3>2. \/ observers'[d][v] = observers[d][v]
            \/ d = c /\ v = u /\ observers'[d][v] = Append(observers[d][v], o)
        BY <2>1 DEF TypeOK
      <3>3. Len(Append(observers[d][v], o)) = Len(observers[d][v]) + 1
        BY <3>1
      <3>4. QED
        BY <2>2, <3>1, <3>2, <3>3
    <2>4. \A d \in Users, p \in Posts : heard[d][p] \in Nat
      BY DEF TypeOK
    <2>5. ASSUME NEW d \in Users, NEW p \in Posts
          PROVE  heard'[d][p] <= Len(observers'[d][Owner[p]])
      <3>1. heard[d][p] <= Len(observers[d][Owner[p]]) /\ Owner[p] \in Users
        BY DEF ObserversSane
      <3>2. QED
        BY <2>2, <2>3, <2>4, <3>1
    <2>6. QED
      BY <2>3, <2>5 DEF ObserversSane
  <1>3. ASSUME NEW c \in Users, NEW p \in Posts, userPostsChildAdded(c, p)
        PROVE  ObserversSane'
    BY <1>3 DEF userPostsChildAdded, ObserversSane, TypeOK
  <1>4. ASSUME NEW c \in Users, processDeath(c)
        PROVE  ObserversSane'
    <2>1. /\ observers' = [observers EXCEPT ![c] = [u \in Users |-> <<>>]]
          /\ heard' = [heard EXCEPT ![c] = [p \in Posts |-> 0]]
      BY <1>4 DEF processDeath
    <2>2. \A d, u \in Users : observers'[d][u] = IF d = c THEN <<>> ELSE observers[d][u]
      BY <2>1 DEF TypeOK
    <2>3. \A d \in Users, p \in Posts : heard'[d][p] = IF d = c THEN 0 ELSE heard[d][p]
      BY <2>1 DEF TypeOK
    <2>4. QED
      BY <2>2, <2>3 DEF ObserversSane
  <1>5. ASSUME NEW c \in Users,
               \/ serverAccepts(c) \/ serverRefuses(c) \/ onDisconnect(c) \/ ackPut(c)
               \/ signOut(c) \/ signIn(c) \/ userFollowersUpdate(c)
        PROVE  UNCHANGED feeders
    BY <1>5 DEF serverAccepts, serverRefuses, onDisconnect, ackPut, signOut, signIn,
                userFollowersUpdate
  <1>6. ASSUME NEW p \in Posts,
               \/ handleUploadPost(p) \/ putDataDone(p) \/ storageFailed(p)
               \/ downloadURLDone(p) \/ postCompletion(p)
               \/ \E f \in Users : followerChildAdded(p, f)
        PROVE  UNCHANGED feeders
    BY <1>6 DEF handleUploadPost, putDataDone, storageFailed, downloadURLDone,
                postCompletion, followerChildAdded
  <1>7. CASE UNCHANGED vars
    BY <1>1, <1>7 DEF vars
  <1>8. QED
    BY <1>1, <1>2, <1>3, <1>4, <1>5, <1>6, <1>7 DEF Next

-----------------------------------------------------------------------------
(* The tracked paths of the clients.                                         *)

\* The queue of d and the number of its answers.
LEMMA QueueFacts ==
    ASSUME TypeOK, NEW d \in Users
    PROVE  /\ outstandingPuts[d] \in Seq(Write)
           /\ Len(acks[d]) \in 0..Len(outstandingPuts[d])
           /\ Len(acks[d]) \in Nat
  <1>1. acks[d] \in Seq({"ok", "err"}) /\ outstandingPuts[d] \in Seq(Write)
        /\ Len(acks[d]) <= Len(outstandingPuts[d])
    BY DEF TypeOK
  <1>2. Len(acks[d]) \in Nat /\ Len(outstandingPuts[d]) \in Nat
    BY <1>1
  <1>3. QED
    BY <1>1, <1>2

\* Another client queues writes, or the client queues writes on other paths.
LEMMA PutElsewhere ==
    ASSUME TypeOK, NEW c \in Users, NEW ws \in Seq(Write), put(c, ws),
           UNCHANGED <<db, acks>>,
           NEW d \in Users, NEW x, NEW v, NEW lax,
           d # c \/ \A k \in 1..Len(ws) : ws[k].path # x,
           Tracked(outstandingPuts[d], Len(acks[d]), db, x, v, lax)
    PROVE  Tracked(outstandingPuts'[d], Len(acks'[d]), db', x, v, lax)
  <1>1. CASE d # c
    BY <1>1 DEF put, TypeOK
  <1>2. CASE d = c /\ \A k \in 1..Len(ws) : ws[k].path # x
    <2>1. outstandingPuts'[c] = outstandingPuts[c] \o ws
      BY DEF put, TypeOK
    <2>2. QED
      BY <1>2, <2>1, QueueFacts, TrackedPutOther
  <1>3. QED
    BY <1>1, <1>2

\* The client queues a write that decides about x.
LEMMA PutDecides ==
    ASSUME TypeOK, NEW c \in Users, NEW ws \in Seq(Write), put(c, ws),
           UNCHANGED <<db, acks>>,
           NEW x, NEW k, LastOn(ws, k, x), NEW v, NEW lax,
           Tracked(outstandingPuts[c], Len(acks[c]), db, x, v, lax)
    PROVE  /\ LastTakenShows(outstandingPuts'[c], Len(acks'[c]), db', x, lax)
           /\ Settled(outstandingPuts'[c], db', x) <=> ws[k].op = "set"
  <1>1. outstandingPuts'[c] = outstandingPuts[c] \o ws
    BY DEF put, TypeOK
  <1>2. LastTakenShows(outstandingPuts[c], Len(acks[c]), db, x, lax)
    BY DEF Tracked
  <1>3. outstandingPuts[c] \in Seq(Write) /\ Len(acks[c]) \in 0..Len(outstandingPuts[c])
    BY QueueFacts
  <1>4. /\ LastTakenShows(outstandingPuts[c] \o ws, Len(acks[c]), db, x, lax)
        /\ Settled(outstandingPuts[c] \o ws, db, x) <=> ws[k].op = "set"
    BY <1>2, <1>3, TakenPut, SettledPut
  <1>5. QED
    BY <1>1, <1>4

\* The answers, and what the server takes, keep every client's paths tracked.
LEMMA LinkTracked ==
    ASSUME TypeOK, QueuesPermitted, NEW c \in Users,
           serverAccepts(c) \/ ackPut(c) \/ onDisconnect(c),
           NEW d \in Users, NEW x, NEW v, NEW lax,
           Tracked(outstandingPuts[d], Len(acks[d]), db, x, v, lax),
           \A w \in Write : (d # c /\ Permitted(c, w, fanned) /\ w.path = x)
                                => w.op = "set" /\ lax
    PROVE  Tracked(outstandingPuts'[d], Len(acks'[d]), db', x, v, lax)
  <1>0. /\ outstandingPuts[d] \in Seq(Write) /\ outstandingPuts[c] \in Seq(Write)
        /\ Len(acks[d]) \in 0..Len(outstandingPuts[d]) /\ Len(acks[d]) \in Nat
        /\ Len(acks[c]) \in 0..Len(outstandingPuts[c]) /\ Len(acks[c]) \in Nat
        /\ Len(outstandingPuts[c]) \in Nat
    BY QueueFacts
  <1>1. CASE serverAccepts(c)
    <2> DEFINE w == outstandingPuts[c][Len(acks[c]) + 1]
    <2>1. /\ Len(acks[c]) + 1 \in 1..Len(outstandingPuts[c])
          /\ db' = Apply(db, w)
          /\ acks' = [acks EXCEPT ![c] = Append(@, "ok")]
          /\ UNCHANGED outstandingPuts
      BY <1>0, <1>1 DEF serverAccepts
    <2>2. w \in Write /\ Permitted(c, w, fanned)
      BY <1>0, <2>1 DEF QueuesPermitted
    <2>3. CASE d = c
      <3>1. Len(acks'[c]) = Len(acks[c]) + 1
        BY <2>1 DEF TypeOK
      <3>2. Tracked(outstandingPuts[c], Len(acks[c]) + 1, Apply(db, w), x, v, lax)
        BY <1>0, <2>1, <2>3, TrackedTake
      <3>3. QED
        BY <2>1, <2>3, <3>1, <3>2
    <2>4. CASE d # c
      <3>1. acks'[d] = acks[d]
        BY <2>1, <2>4 DEF TypeOK
      <3>2. w.path = x => w.op = "set" /\ lax
        BY <2>2, <2>4
      <3> HIDE DEF w
      <3>3. Tracked(outstandingPuts[d], Len(acks[d]), Apply(db, w), x, v, lax)
        BY <1>0, <2>2, <3>2, TrackedTakeOther
      <3>4. QED
        BY <2>1, <3>1, <3>3
    <2>5. QED
      BY <2>3, <2>4
  <1>2. CASE ackPut(c)
    <2>1. /\ outstandingPuts' = [outstandingPuts EXCEPT ![c] = Tail(outstandingPuts[c])]
          /\ acks' = [acks EXCEPT ![c] = Tail(@)]
          /\ acks[c] # <<>> /\ db' = db
      BY <1>2 DEF ackPut
    <2>2. CASE d = c
      <3>1. outstandingPuts'[c] = Tail(outstandingPuts[c]) /\ acks'[c] = Tail(acks[c])
        BY <2>1 DEF TypeOK
      <3>2. Len(acks[c]) >= 1 /\ Len(Tail(acks[c])) = Len(acks[c]) - 1
        BY <2>1 DEF TypeOK
      <3>3. Len(acks[c]) \in 1..Len(outstandingPuts[c])
        BY <1>0, <3>2
      <3>4. Tracked(Tail(outstandingPuts[c]), Len(acks[c]) - 1, db, x, v, lax)
        BY <1>0, <2>2, <3>3, TrackedAck
      <3>5. QED
        BY <2>1, <2>2, <3>1, <3>2, <3>4
    <2>3. CASE d # c
      BY <2>1, <2>3 DEF TypeOK
    <2>4. QED
      BY <2>2, <2>3
  <1>3. CASE onDisconnect(c)
    <2>1. acks' = [acks EXCEPT ![c] = <<>>] /\ UNCHANGED <<db, outstandingPuts>>
      BY <1>3 DEF onDisconnect
    <2>2. CASE d = c
      <3>1. Len(acks'[c]) = 0
        BY <2>1 DEF TypeOK
      <3>2. Tracked(outstandingPuts[c], 0, db, x, v, lax)
        BY <2>2, TrackedAgain
      <3>3. QED
        BY <2>1, <2>2, <3>1, <3>2
    <2>3. CASE d # c
      BY <2>1, <2>3 DEF TypeOK
    <2>4. QED
      BY <2>2, <2>3
  <1>4. QED
    BY <1>1, <1>2, <1>3

\* A client without faults had none before.
LEMMA FaultsGrow ==
    ASSUME TypeOK, [Next]_vars, NEW d \in Users, faults'[d] = 0
    PROVE  faults[d] = 0
  <1>1. CASE faults' = faults
    BY <1>1
  <1>2. CASE \E c \in Users : faults' = [faults EXCEPT ![c] = @ + 1]
    BY <1>2 DEF TypeOK
  <1>3. ASSUME NEW c \in Users, serverRefuses(c) \/ processDeath(c)
        PROVE  \E e \in Users : faults' = [faults EXCEPT ![e] = @ + 1]
    BY <1>3 DEF serverRefuses, processDeath
  <1>4. ASSUME NEW c \in Users,
               \/ serverAccepts(c) \/ onDisconnect(c) \/ ackPut(c)
               \/ signOut(c) \/ signIn(c) \/ userFollowersUpdate(c)
               \/ \E u \in Users : follow(c, u) \/ unfollow(c, u)
               \/ \E p \in Posts : userPostsChildAdded(c, p)
        PROVE  faults' = faults
    BY <1>4 DEF serverAccepts, onDisconnect, ackPut, signOut, signIn,
                userFollowersUpdate, follow, unfollow, Tap, userPostsChildAdded, counts
  <1>5. ASSUME NEW p \in Posts,
               \/ handleUploadPost(p) \/ putDataDone(p) \/ storageFailed(p)
               \/ downloadURLDone(p) \/ postCompletion(p)
               \/ \E f \in Users : followerChildAdded(p, f)
        PROVE  faults' = faults
    BY <1>5 DEF handleUploadPost, putDataDone, storageFailed, downloadURLDone,
                postCompletion, followerChildAdded, counts
  <1>6. CASE UNCHANGED vars
    BY <1>6 DEF vars, counts
  <1>7. QED
    BY <1>1, <1>2, <1>3, <1>4, <1>5, <1>6 DEF Next

\* The taps say what they said.
LEMMA FollowingKept ==
    ASSUME NEW d \in Users, NEW u \in Users,
           TappedFollow(d, u)' <=> TappedFollow(d, u),
           Tracked(outstandingPuts'[d], Len(acks'[d]), db', Following(d, u),
                   TappedFollow(d, u), FALSE)
    PROVE  Tracked(outstandingPuts'[d], Len(acks'[d]), db', Following(d, u),
                   TappedFollow(d, u)', FALSE)
  BY DEF Tracked, Intended

\* The post is wanted as it was; where it may be given it may be wanted less.
LEMMA FeedKept ==
    ASSUME NEW d \in Users, NEW p \in Posts,
           MayBeGiven(d, p) => MayBeGiven(d, p)',
           WantsPost(d, p)' => WantsPost(d, p),
           WantsPost(d, p) => WantsPost(d, p)' \/ MayBeGiven(d, p)',
           Tracked(outstandingPuts'[d], Len(acks'[d]), db', FeedAt(d, p),
                   WantsPost(d, p), MayBeGiven(d, p))
    PROVE  Tracked(outstandingPuts'[d], Len(acks'[d]), db', FeedAt(d, p),
                   WantsPost(d, p)', MayBeGiven(d, p)')
  BY DEF Tracked, Intended, LastTakenShows

\* A client whose observers, and whose fan-outs, are as they were, and whose own
\* posts are shared if they were.
LEMMA ClientKept ==
    ASSUME TypeOK, NEW d \in Users,
           observers'[d] = observers[d], heard'[d] = heard[d],
           \A p \in Posts : fanned[p] \subseteq fanned'[p],
           \A p \in Posts : Owner[p] = d /\ upload'[p] = "shared" => upload[p] = "shared",
           \A u \in Users : Tracked(outstandingPuts'[d], Len(acks'[d]), db',
                                    Following(d, u), TappedFollow(d, u), FALSE),
           \A p \in Posts : Tracked(outstandingPuts'[d], Len(acks'[d]), db', FeedAt(d, p),
                                    WantsPost(d, p), MayBeGiven(d, p))
    PROVE  ClientTracked(d)'
  <1>1. ASSUME NEW u \in Users
        PROVE  Tracked(outstandingPuts'[d], Len(acks'[d]), db', Following(d, u),
                       TappedFollow(d, u)', FALSE)
    <2>1. TappedFollow(d, u)' <=> TappedFollow(d, u)
      BY DEF TappedFollow
    <2>2. QED
      BY <2>1, FollowingKept
  <1>2. ASSUME NEW p \in Posts
        PROVE  Tracked(outstandingPuts'[d], Len(acks'[d]), db', FeedAt(d, p),
                       WantsPost(d, p)', MayBeGiven(d, p)')
    <2>1. MayBeGiven(d, p) => MayBeGiven(d, p)'
      BY DEF MayBeGiven
    <2>2. WantsPost(d, p)' => WantsPost(d, p)
      BY DEF WantsPost
    <2>3. WantsPost(d, p) => WantsPost(d, p)' \/ MayBeGiven(d, p)'
      BY DEF WantsPost, MayBeGiven
    <2>4. QED
      BY <2>1, <2>2, <2>3, FeedKept
  <1>3. QED
    BY <1>1, <1>2 DEF ClientTracked

\* A step that leaves the queue of d, its answers, the tree and the observers alone.
LEMMA ClientIdle ==
    ASSUME TypeOK, NEW d \in Users, ClientTracked(d),
           outstandingPuts'[d] = outstandingPuts[d], acks'[d] = acks[d], db' = db,
           observers'[d] = observers[d], heard'[d] = heard[d], fanned' = fanned,
           \A p \in Posts : Owner[p] = d /\ upload'[p] = "shared" => upload[p] = "shared"
    PROVE  ClientTracked(d)'
  <1>1. \A u \in Users : Tracked(outstandingPuts'[d], Len(acks'[d]), db',
                                 Following(d, u), TappedFollow(d, u), FALSE)
    BY DEF ClientTracked
  <1>2. \A p \in Posts : Tracked(outstandingPuts'[d], Len(acks'[d]), db', FeedAt(d, p),
                                 WantsPost(d, p), MayBeGiven(d, p))
    BY DEF ClientTracked
  <1>3. QED
    BY <1>1, <1>2, ClientKept

\* A tap decides about one path, and about no feed yet.
LEMMA TapTracked ==
    ASSUME TypeOK, ObserversSane, NEW c \in Users, NEW u \in Users, NEW o \in Op,
           Tap(c, u, o, <<[op |-> o, path |-> Following(c, u)],
                          [op |-> o, path |-> FollowerOf(u, c)]>>),
           NEW d \in Users, ClientTracked(d)
    PROVE  ClientTracked(d)'
  <1> USE OwnerAssumption
  <1> DEFINE w1 == [op |-> o, path |-> Following(c, u)]
             w2 == [op |-> o, path |-> FollowerOf(u, c)]
             ws == <<w1, w2>>
  <1>1. /\ put(c, ws) /\ c # u
        /\ observers' = [observers EXCEPT ![c][u] = Append(@, o)]
        /\ UNCHANGED <<db, acks, heard, upload, fanned>>
    BY DEF Tap, sharing
  <1>2. /\ w1 \in Write /\ w2 \in Write
        /\ w1.path = Following(c, u) /\ w2.path = FollowerOf(u, c) /\ w1.op = o
    BY PathTypes, WriteTypes
  <1> HIDE DEF w1, w2
  <1>3. /\ ws \in Seq(Write) /\ Len(ws) = 2 /\ ws[1] = w1 /\ ws[2] = w2
        /\ \A k \in 1..Len(ws) : ws[k] = w1 \/ ws[k] = w2
    BY <1>2
  <1> HIDE DEF ws
  <1>4. /\ observers[c][u] \in Seq(Op)
        /\ observers'[c][u] = Append(observers[c][u], o)
        /\ \A e \in Users, v \in Users : e # c \/ v # u
                                            => observers'[e][v] = observers[e][v]
    BY <1>1 DEF TypeOK
  <1>5. ASSUME NEW v \in Users
        PROVE  Tracked(outstandingPuts'[d], Len(acks'[d]), db', Following(d, v),
                       TappedFollow(d, v)', FALSE)
    <2>0. Tracked(outstandingPuts[d], Len(acks[d]), db, Following(d, v),
                  TappedFollow(d, v), FALSE)
      BY DEF ClientTracked
    <2>1. CASE d = c /\ v = u
      <3>1. LastOn(ws, 1, Following(c, u))
        BY <1>2, <1>3, RelationFacts DEF LastOn
      <3>2. /\ LastTakenShows(outstandingPuts'[c], Len(acks'[c]), db', Following(c, u), FALSE)
            /\ Settled(outstandingPuts'[c], db', Following(c, u)) <=> ws[1].op = "set"
        BY <1>1, <1>3, <2>0, <2>1, <3>1, PutDecides
      <3>3. TappedFollow(c, u)' <=> o = "set"
        <4>1. /\ observers'[c][u] # <<>>
              /\ observers'[c][u][Len(observers'[c][u])] = o
          BY <1>4, AppendProperties
        <4>2. QED
          BY <4>1 DEF TappedFollow
      <3>4. QED
        BY <1>2, <1>3, <2>1, <3>2, <3>3 DEF Tracked, Intended
    <2>2. CASE d # c \/ v # u
      <3>1. \A k \in 1..Len(ws) : ws[k].path # Following(d, v)
        BY <1>2, <1>3, <2>2, RelationFacts
      <3>2. Tracked(outstandingPuts'[d], Len(acks'[d]), db', Following(d, v),
                    TappedFollow(d, v), FALSE)
        BY <1>1, <1>3, <2>0, <3>1, PutElsewhere
      <3>3. TappedFollow(d, v)' <=> TappedFollow(d, v)
        BY <1>4, <2>2 DEF TappedFollow
      <3>4. QED
        BY <3>2, <3>3, FollowingKept
    <2>3. QED
      BY <2>1, <2>2
  <1>6. ASSUME NEW p \in Posts
        PROVE  Tracked(outstandingPuts'[d], Len(acks'[d]), db', FeedAt(d, p),
                       WantsPost(d, p)', MayBeGiven(d, p)')
    <2>1. \A k \in 1..Len(ws) : ws[k].path # FeedAt(d, p)
      BY <1>2, <1>3, FeedPathFacts
    <2>2. Tracked(outstandingPuts[d], Len(acks[d]), db, FeedAt(d, p),
                  WantsPost(d, p), MayBeGiven(d, p))
      BY DEF ClientTracked
    <2>3. Tracked(outstandingPuts'[d], Len(acks'[d]), db', FeedAt(d, p),
                  WantsPost(d, p), MayBeGiven(d, p))
      BY <1>1, <1>3, <2>1, <2>2, PutElsewhere
    <2>4. MayBeGiven(d, p)' <=> MayBeGiven(d, p)
      BY <1>1 DEF MayBeGiven
    <2>5. WantsPost(d, p)' <=> WantsPost(d, p)
      <3> DEFINE h == heard[d][p]
                 os == observers[d][Owner[p]]
      <3>1. /\ h \in Nat /\ os \in Seq(Op) /\ h <= Len(os) /\ Len(os) \in Nat
            /\ Owner[p] \in Users
        BY DEF TypeOK, ObserversSane
      <3>2. observers'[d][Owner[p]] = os \/ observers'[d][Owner[p]] = Append(os, o)
        BY <1>4, <3>1
      <3>3. heard'[d][p] = h /\ upload' = upload
        BY <1>1
      <3> HIDE DEF h, os
      <3>4. h > 0 => Append(os, o)[h] = os[h]
        BY <3>1
      <3>5. h > 0 => observers'[d][Owner[p]][h] = os[h]
        BY <3>2, <3>4
      <3>6. QED
        BY <3>3, <3>5 DEF WantsPost, h, os
    <2>6. QED
      BY <2>3, <2>4, <2>5, FeedKept
  <1>7. QED
    BY <1>5, <1>6 DEF ClientTracked

\* The next observer of c is called for p: it decides about the post in c's feed.
LEMMA ChildAddedTracked ==
    ASSUME TypeOK, ObserversSane, NEW c \in Users, NEW p \in Posts,
           userPostsChildAdded(c, p), NEW d \in Users, ClientTracked(d)
    PROVE  ClientTracked(d)'
  <1> USE OwnerAssumption
  <1> DEFINE n == heard[c][p] + 1
             w == feedWrite(c, p, n)
             ws == <<w>>
  <1>1. /\ put(c, ws) /\ n \in 1..Len(observers[c][Owner[p]])
        /\ heard' = [heard EXCEPT ![c][p] = n]
        /\ UNCHANGED <<db, acks, observers, upload, fanned>>
    <2>1. /\ put(c, ws) /\ n <= Len(observers[c][Owner[p]])
          /\ heard' = [heard EXCEPT ![c][p] = n]
          /\ UNCHANGED <<db, acks, observers, upload, fanned>>
      BY DEF userPostsChildAdded, sharing, history
    <2>2. /\ heard[c][p] \in Nat /\ observers[c][Owner[p]] \in Seq(Op)
      BY DEF TypeOK
    <2>3. n \in 1..Len(observers[c][Owner[p]])
      BY <2>1, <2>2
    <2>4. QED
      BY <2>1, <2>3
  <1>2. /\ observers[c][Owner[p]][n] \in Op
        /\ w \in Write /\ w.path = FeedAt(c, p) /\ w.op = observers[c][Owner[p]][n]
    <2>1. observers[c][Owner[p]] \in Seq(Op)
      BY DEF TypeOK
    <2>2. observers[c][Owner[p]][n] \in Op
      BY <1>1, <2>1
    <2>3. QED
      BY <2>2, PathTypes, WriteTypes DEF feedWrite
  <1>3. c # Owner[p]
    BY <1>1 DEF ObserversSane
  <1>4. /\ heard'[c][p] = n /\ n > 0
        /\ \A e \in Users, q \in Posts : e # c \/ q # p => heard'[e][q] = heard[e][q]
    <2>1. heard \in [Users -> [Posts -> Nat]] /\ heard[c][p] \in Nat
      BY DEF TypeOK
    <2>2. n > 0
      BY <2>1
    <2> HIDE DEF n
    <2>3. QED
      BY <1>1, <2>1, <2>2
  <1> HIDE DEF w
  <1>5. ws \in Seq(Write) /\ Len(ws) = 1 /\ ws[1] = w
    BY <1>2
  <1> HIDE DEF ws, n
  <1>6. ASSUME NEW v \in Users
        PROVE  Tracked(outstandingPuts'[d], Len(acks'[d]), db', Following(d, v),
                       TappedFollow(d, v)', FALSE)
    <2>1. \A k \in 1..Len(ws) : ws[k].path # Following(d, v)
      BY <1>2, <1>5, FeedPathFacts
    <2>2. Tracked(outstandingPuts[d], Len(acks[d]), db, Following(d, v),
                  TappedFollow(d, v), FALSE)
      BY DEF ClientTracked
    <2>3. Tracked(outstandingPuts'[d], Len(acks'[d]), db', Following(d, v),
                  TappedFollow(d, v), FALSE)
      BY <1>1, <1>5, <2>1, <2>2, PutElsewhere
    <2>4. TappedFollow(d, v)' <=> TappedFollow(d, v)
      BY <1>1 DEF TappedFollow
    <2>5. QED
      BY <2>3, <2>4, FollowingKept
  <1>7. ASSUME NEW q \in Posts
        PROVE  Tracked(outstandingPuts'[d], Len(acks'[d]), db', FeedAt(d, q),
                       WantsPost(d, q)', MayBeGiven(d, q)')
    <2>1. MayBeGiven(d, q)' <=> MayBeGiven(d, q)
      BY <1>1 DEF MayBeGiven
    <2>2. Tracked(outstandingPuts[d], Len(acks[d]), db, FeedAt(d, q),
                  WantsPost(d, q), MayBeGiven(d, q))
      BY DEF ClientTracked
    <2>3. CASE d = c /\ q = p
      <3>1. LastOn(ws, 1, FeedAt(c, p))
        BY <1>2, <1>5 DEF LastOn
      <3>2. /\ LastTakenShows(outstandingPuts'[c], Len(acks'[c]), db', FeedAt(c, p),
                              MayBeGiven(c, p))
            /\ Settled(outstandingPuts'[c], db', FeedAt(c, p)) <=> ws[1].op = "set"
        BY <1>1, <1>5, <2>2, <2>3, <3>1, PutDecides
      <3>3. WantsPost(c, p)' <=> ws[1].op = "set"
        BY <1>1, <1>2, <1>3, <1>4, <1>5 DEF WantsPost
      <3>4. LastTakenShows(outstandingPuts'[c], Len(acks'[c]), db', FeedAt(c, p),
                           MayBeGiven(c, p)')
        BY <2>1, <2>3, <3>2 DEF LastTakenShows
      <3>5. QED
        BY <2>3, <3>2, <3>3, <3>4 DEF Tracked, Intended
    <2>4. CASE d # c \/ q # p
      <3>1. \A k \in 1..Len(ws) : ws[k].path # FeedAt(d, q)
        BY <1>2, <1>5, <2>4, FeedPathFacts
      <3>2. Tracked(outstandingPuts'[d], Len(acks'[d]), db', FeedAt(d, q),
                    WantsPost(d, q), MayBeGiven(d, q))
        BY <1>1, <1>5, <2>2, <3>1, PutElsewhere
      <3>3. WantsPost(d, q)' <=> WantsPost(d, q)
        BY <1>1, <1>4, <2>4 DEF WantsPost
      <3>4. QED
        BY <2>1, <3>2, <3>3, FeedKept
    <2>5. QED
      BY <2>3, <2>4
  <1>8. QED
    BY <1>6, <1>7 DEF ClientTracked

\* Of the writes ws, the k-th and last on p in its owner's feed puts it there.
GivesOwner(ws, k, p) ==
    LastOn(ws, k, FeedAt(Owner[p], p)) /\ ws[k].op = "set"

\* The owner of p queues writes of its upload.
LEMMA UploadTracked ==
    ASSUME TypeOK, NEW p \in Posts, NEW ws \in Seq(Write), put(Owner[p], ws), NEW k,
           UNCHANGED <<db, acks, feeders>>,
           \A q \in Posts : fanned[q] \subseteq fanned'[q],
           \A i \in 1..Len(ws), v \in Users : ws[i].path # Following(Owner[p], v),
           \A i \in 1..Len(ws), q \in Posts :
               ws[i].path = FeedAt(Owner[p], q) => q = p /\ GivesOwner(ws, k, p),
           \A q \in Posts : upload'[q] = "shared"
               => upload[q] = "shared" \/ (q = p /\ GivesOwner(ws, k, p)),
           NEW d \in Users, ClientTracked(d)
    PROVE  ClientTracked(d)'
  <1> DEFINE o == Owner[p]
  <1>0. o \in Users /\ put(o, ws) /\ UNCHANGED <<db, acks>>
    BY OwnerAssumption
  <1>1. observers' = observers /\ heard' = heard
    BY DEF feeders
  <1>2. ASSUME NEW v \in Users
        PROVE  Tracked(outstandingPuts'[d], Len(acks'[d]), db', Following(d, v),
                       TappedFollow(d, v)', FALSE)
    <2>1. d # o \/ \A i \in 1..Len(ws) : ws[i].path # Following(d, v)
      OBVIOUS
    <2>2. Tracked(outstandingPuts[d], Len(acks[d]), db, Following(d, v),
                  TappedFollow(d, v), FALSE)
      BY DEF ClientTracked
    <2>3. Tracked(outstandingPuts'[d], Len(acks'[d]), db', Following(d, v),
                  TappedFollow(d, v), FALSE)
      BY <1>0, <2>1, <2>2, PutElsewhere
    <2>4. TappedFollow(d, v)' <=> TappedFollow(d, v)
      BY <1>1 DEF TappedFollow
    <2>5. QED
      BY <2>3, <2>4, FollowingKept
  <1>3. ASSUME NEW q \in Posts
        PROVE  Tracked(outstandingPuts'[d], Len(acks'[d]), db', FeedAt(d, q),
                       WantsPost(d, q)', MayBeGiven(d, q)')
    <2>1. Tracked(outstandingPuts[d], Len(acks[d]), db, FeedAt(d, q),
                  WantsPost(d, q), MayBeGiven(d, q))
      BY DEF ClientTracked
    <2>2. CASE d = o /\ q = p /\ GivesOwner(ws, k, p)
      <3>1. MayBeGiven(d, q) /\ MayBeGiven(d, q)'
        BY <2>2 DEF MayBeGiven
      <3>2. LastOn(ws, k, FeedAt(d, q)) /\ ws[k].op = "set"
        BY <2>2 DEF GivesOwner
      <3>3. /\ LastTakenShows(outstandingPuts'[d], Len(acks'[d]), db', FeedAt(d, q),
                              MayBeGiven(d, q))
            /\ Settled(outstandingPuts'[d], db', FeedAt(d, q)) <=> ws[k].op = "set"
        BY <1>0, <2>1, <2>2, <3>2, PutDecides
      <3>4. LastTakenShows(outstandingPuts'[d], Len(acks'[d]), db', FeedAt(d, q),
                           MayBeGiven(d, q)')
        BY <3>1, <3>3 DEF LastTakenShows
      <3>5. Intended(outstandingPuts'[d], db', FeedAt(d, q), WantsPost(d, q)',
                     MayBeGiven(d, q)')
        BY <3>1, <3>2, <3>3 DEF Intended
      <3>6. QED
        BY <3>4, <3>5 DEF Tracked
    <2>3. CASE d # o \/ q # p \/ ~GivesOwner(ws, k, p)
      <3>1. d # o \/ \A i \in 1..Len(ws) : ws[i].path # FeedAt(d, q)
        BY <2>3
      <3>2. Tracked(outstandingPuts'[d], Len(acks'[d]), db', FeedAt(d, q),
                    WantsPost(d, q), MayBeGiven(d, q))
        BY <1>0, <2>1, <3>1, PutElsewhere
      <3>3. MayBeGiven(d, q) => MayBeGiven(d, q)'
        BY DEF MayBeGiven
      <3>4. WantsPost(d, q)' => WantsPost(d, q)
        BY <1>1, <2>3 DEF WantsPost
      <3>5. WantsPost(d, q) => WantsPost(d, q)' \/ MayBeGiven(d, q)'
        BY <1>1 DEF WantsPost, MayBeGiven
      <3>6. QED
        BY <3>2, <3>3, <3>4, <3>5, FeedKept
    <2>4. QED
      BY <2>2, <2>3
  <1>4. QED
    BY <1>2, <1>3 DEF ClientTracked

\* Each of the three steps of an upload that queue writes.
LEMMA StepUploadTracked ==
    ASSUME TypeOK, NEW p \in Posts, NEW d \in Users, ClientTracked(d),
           \/ downloadURLDone(p) \/ postCompletion(p)
           \/ \E f \in Users : followerChildAdded(p, f)
    PROVE  ClientTracked(d)'
  <1> USE OwnerAssumption
  <1> DEFINE o == Owner[p]
             w1 == updateChildValues(UserPostAt(p))
             w2 == updateChildValues(FeedAt(o, p))
  <1>0. o \in Users /\ upload \in [Posts -> Phase]
    BY DEF TypeOK
  <1>1. CASE downloadURLDone(p)
    <2> DEFINE w == updateChildValues(PostAt(p))
               ws == <<w>>
    <2>1. /\ put(o, ws) /\ UNCHANGED <<db, acks, feeders, fanned>>
          /\ upload' = [upload EXCEPT ![p] = "posting"]
      BY <1>1 DEF downloadURLDone, postWrites, history
    <2>2. w \in Write /\ w.path = PostAt(p)
      BY PathTypes, WriteTypes DEF updateChildValues
    <2> HIDE DEF w
    <2>3. ws \in Seq(Write) /\ Len(ws) = 1 /\ ws[1] = w
      BY <2>2
    <2> HIDE DEF ws
    <2>4. /\ \A i \in 1..Len(ws), v \in Users : ws[i].path # Following(o, v)
          /\ \A i \in 1..Len(ws), q \in Posts : ws[i].path # FeedAt(o, q)
      BY <1>0, <2>2, <2>3, FeedPathFacts
    <2>5. \A q \in Posts : upload'[q] = "shared" => upload[q] = "shared"
      BY <1>0, <2>1
    <2>6. \A q \in Posts : fanned[q] \subseteq fanned'[q]
      BY <2>1
    <2>7. put(Owner[p], ws) /\ UNCHANGED <<db, acks, feeders>>
      BY <2>1
    <2>8. QED
      BY <2>3, <2>4, <2>5, <2>6, <2>7, UploadTracked
  <1>2. CASE postCompletion(p) /\ signedIn[o]
    <2> DEFINE ws == <<w1, w2>>
    <2>1. /\ put(o, ws) /\ UNCHANGED <<db, acks, feeders, fanned>>
          /\ upload' = [upload EXCEPT ![p] = "shared"]
      BY <1>2 DEF postCompletion, history
    <2>2. /\ w1 \in Write /\ w1.path = UserPostAt(p)
          /\ w2 \in Write /\ w2.path = FeedAt(o, p) /\ w2.op = "set"
      BY <1>0, PathTypes, WriteTypes DEF updateChildValues
    <2> HIDE DEF w1, w2
    <2>3. /\ ws \in Seq(Write) /\ Len(ws) = 2 /\ ws[1] = w1 /\ ws[2] = w2
          /\ \A i \in 1..Len(ws) : ws[i] = w1 \/ ws[i] = w2
      BY <2>2
    <2> HIDE DEF ws
    <2>4. GivesOwner(ws, 2, p)
      BY <2>2, <2>3 DEF GivesOwner, LastOn
    <2>5. /\ \A i \in 1..Len(ws), v \in Users : ws[i].path # Following(o, v)
          /\ \A i \in 1..Len(ws), q \in Posts : ws[i].path = FeedAt(o, q) => q = p
      BY <1>0, <2>2, <2>3, FeedPathFacts
    <2>6. \A q \in Posts : upload'[q] = "shared" => upload[q] = "shared" \/ q = p
      BY <1>0, <2>1
    <2>7. QED
      BY <2>1, <2>3, <2>4, <2>5, <2>6, UploadTracked
  <1>3. CASE postCompletion(p) /\ ~signedIn[o]
    <2> DEFINE ws == <<w1>>
    <2>1. /\ put(o, ws) /\ UNCHANGED <<db, acks, feeders, fanned>>
          /\ upload' = [upload EXCEPT ![p] = "unfed"]
      BY <1>3 DEF postCompletion, history
    <2>2. w1 \in Write /\ w1.path = UserPostAt(p)
      BY PathTypes, WriteTypes DEF updateChildValues
    <2> HIDE DEF w1
    <2>3. ws \in Seq(Write) /\ Len(ws) = 1 /\ ws[1] = w1
      BY <2>2
    <2> HIDE DEF ws
    <2>4. /\ \A i \in 1..Len(ws), v \in Users : ws[i].path # Following(o, v)
          /\ \A i \in 1..Len(ws), q \in Posts : ws[i].path # FeedAt(o, q)
      BY <1>0, <2>2, <2>3, FeedPathFacts
    <2>5. \A q \in Posts : upload'[q] = "shared" => upload[q] = "shared"
      BY <1>0, <2>1
    <2>6. \A q \in Posts : fanned[q] \subseteq fanned'[q]
      BY <2>1
    <2>7. put(Owner[p], ws) /\ UNCHANGED <<db, acks, feeders>>
      BY <2>1
    <2>8. QED
      BY <2>3, <2>4, <2>5, <2>6, <2>7, UploadTracked
  <1>4. ASSUME NEW f \in Users, followerChildAdded(p, f)
        PROVE  ClientTracked(d)'
    <2> DEFINE w == updateChildValues(FeedAt(f, p))
               ws == <<w>>
    <2>1. /\ put(o, ws) /\ UNCHANGED <<db, acks, feeders, upload>>
          /\ fanned' = [fanned EXCEPT ![p] = @ \cup {f}]
      BY <1>4 DEF followerChildAdded, followerWrite
    <2>2. \A q \in Posts : fanned[q] \subseteq fanned'[q]
      BY <2>1 DEF TypeOK
    <2>3. w \in Write /\ w.path = FeedAt(f, p) /\ w.op = "set"
      BY PathTypes, WriteTypes DEF updateChildValues
    <2> HIDE DEF w
    <2>4. ws \in Seq(Write) /\ Len(ws) = 1 /\ ws[1] = w
      BY <2>3
    <2> HIDE DEF ws
    <2>5. f = o => GivesOwner(ws, 1, p)
      BY <2>3, <2>4 DEF GivesOwner, LastOn
    <2>6. /\ \A i \in 1..Len(ws), v \in Users : ws[i].path # Following(o, v)
          /\ \A i \in 1..Len(ws), q \in Posts : ws[i].path = FeedAt(o, q) => q = p /\ f = o
      BY <1>0, <2>3, <2>4, FeedPathFacts
    <2>7. QED
      BY <2>1, <2>2, <2>4, <2>5, <2>6, UploadTracked
  <1>5. signedIn[o] \/ ~signedIn[o]
    OBVIOUS
  <1>6. QED
    BY <1>1, <1>2, <1>3, <1>4, <1>5

\* The connection.
LEMMA StepLinkTracked ==
    ASSUME TypeOK, QueuesPermitted, NEW c \in Users,
           serverAccepts(c) \/ ackPut(c) \/ onDisconnect(c),
           NEW d \in Users, ClientTracked(d)
    PROVE  ClientTracked(d)'
  <1>1. observers' = observers /\ heard' = heard /\ fanned' = fanned
    BY DEF serverAccepts, ackPut, onDisconnect, feeders, history
  <1>2. \A p \in Posts : upload'[p] = "shared" => upload[p] = "shared"
    BY DEF serverAccepts, ackPut, onDisconnect, sharing
  <1>3. ASSUME NEW u \in Users
        PROVE  Tracked(outstandingPuts'[d], Len(acks'[d]), db', Following(d, u),
                       TappedFollow(d, u), FALSE)
    <2>1. Tracked(outstandingPuts[d], Len(acks[d]), db, Following(d, u),
                  TappedFollow(d, u), FALSE)
      BY DEF ClientTracked
    <2>2. \A w \in Write : ~(d # c /\ Permitted(c, w, fanned) /\ w.path = Following(d, u))
      BY DEF Permitted
    <2>3. QED
      BY <2>1, <2>2, LinkTracked
  <1>4. ASSUME NEW p \in Posts
        PROVE  Tracked(outstandingPuts'[d], Len(acks'[d]), db', FeedAt(d, p),
                       WantsPost(d, p), MayBeGiven(d, p))
    <2>1. Tracked(outstandingPuts[d], Len(acks[d]), db, FeedAt(d, p),
                  WantsPost(d, p), MayBeGiven(d, p))
      BY DEF ClientTracked
    <2>2. \A w \in Write : (d # c /\ Permitted(c, w, fanned) /\ w.path = FeedAt(d, p))
                               => w.op = "set" /\ MayBeGiven(d, p)
      BY DEF Permitted, MayBeGiven
    <2>3. QED
      BY <2>1, <2>2, LinkTracked
  <1>5. QED
    BY <1>1, <1>2, <1>3, <1>4, ClientKept

\* Steps that put nothing in a queue and take nothing out of one, and the failure
\* of another client.
LEMMA StepIdleTracked ==
    ASSUME TypeOK, NEW d \in Users, ClientTracked(d), faults'[d] = 0,
           \/ \E p \in Posts : handleUploadPost(p) \/ putDataDone(p) \/ storageFailed(p)
           \/ \E c \in Users : \/ userFollowersUpdate(c) \/ signOut(c) \/ signIn(c)
                               \/ serverRefuses(c) \/ processDeath(c)
           \/ UNCHANGED vars
    PROVE  ClientTracked(d)'
  <1>1. CASE /\ UNCHANGED <<db, link, feeders, history>>
             /\ \A p \in Posts : upload'[p] = "shared" => upload[p] = "shared"
    BY <1>1, ClientIdle DEF link, feeders, history
  <1>2. ASSUME NEW p \in Posts,
               handleUploadPost(p) \/ putDataDone(p) \/ storageFailed(p)
        PROVE  ClientTracked(d)'
    <2>1. UNCHANGED <<db, link, feeders, history>>
      BY <1>2 DEF handleUploadPost, putDataDone, storageFailed
    <2>2. \E x \in {"storing", "locating", "failed"} : upload' = [upload EXCEPT ![p] = x]
      BY <1>2 DEF handleUploadPost, putDataDone, storageFailed
    <2>3. \A q \in Posts : upload'[q] = "shared" => upload[q] = "shared"
      BY <2>2 DEF TypeOK
    <2>4. QED
      BY <1>1, <2>1, <2>3
  <1>3. ASSUME NEW c \in Users, userFollowersUpdate(c) \/ signOut(c) \/ signIn(c)
        PROVE  ClientTracked(d)'
    <2>1. UNCHANGED <<db, link, feeders, history>> /\ upload' = upload
      BY <1>3 DEF userFollowersUpdate, signOut, signIn, sharing
    <2>2. QED
      BY <1>1, <2>1
  <1>4. ASSUME NEW c \in Users, serverRefuses(c) \/ processDeath(c)
        PROVE  ClientTracked(d)'
    <2>1. d # c
      BY <1>4 DEF serverRefuses, processDeath, TypeOK
    <2>2. /\ outstandingPuts'[d] = outstandingPuts[d] /\ acks'[d] = acks[d]
          /\ observers'[d] = observers[d] /\ heard'[d] = heard[d]
      BY <1>4, <2>1 DEF serverRefuses, processDeath, TypeOK, feeders
    <2>3. db' = db /\ fanned' = fanned
      BY <1>4 DEF serverRefuses, processDeath, history
    <2>4. \A p \in Posts : upload'[p] = "shared" => upload[p] = "shared"
      BY <1>4 DEF serverRefuses, processDeath, sharing
    <2>5. QED
      BY <2>2, <2>3, <2>4, ClientIdle
  <1>5. CASE UNCHANGED vars
    BY <1>1, <1>5 DEF vars, sharing
  <1>6. QED
    BY <1>2, <1>3, <1>4, <1>5

\* Every step keeps the paths of a client without faults tracked.
LEMMA StepTracked ==
    ASSUME TypeOK, QueuesPermitted, ObserversSane, [Next]_vars,
           NEW d \in Users, ClientTracked(d), faults'[d] = 0
    PROVE  ClientTracked(d)'
  <1>1. ASSUME NEW c \in Users, NEW u \in Users, follow(c, u) \/ unfollow(c, u)
        PROVE  ClientTracked(d)'
    <2>1. PICK o \in Op : Tap(c, u, o, <<[op |-> o, path |-> Following(c, u)],
                                         [op |-> o, path |-> FollowerOf(u, c)]>>)
      BY <1>1 DEF follow, unfollow, updateChildValues, removeValue, Op
    <2>2. QED
      BY <2>1, TapTracked
  <1>2. ASSUME NEW c \in Users, NEW p \in Posts, userPostsChildAdded(c, p)
        PROVE  ClientTracked(d)'
    BY <1>2, ChildAddedTracked
  <1>3. ASSUME NEW p \in Posts,
               \/ downloadURLDone(p) \/ postCompletion(p)
               \/ \E f \in Users : followerChildAdded(p, f)
        PROVE  ClientTracked(d)'
    BY <1>3, StepUploadTracked
  <1>4. ASSUME NEW c \in Users, serverAccepts(c) \/ ackPut(c) \/ onDisconnect(c)
        PROVE  ClientTracked(d)'
    BY <1>4, StepLinkTracked
  <1>5. CASE \/ \E p \in Posts : handleUploadPost(p) \/ putDataDone(p) \/ storageFailed(p)
             \/ \E c \in Users : \/ userFollowersUpdate(c) \/ signOut(c) \/ signIn(c)
                                 \/ serverRefuses(c) \/ processDeath(c)
             \/ UNCHANGED vars
    BY <1>5, StepIdleTracked
  <1>6. QED
    BY <1>1, <1>2, <1>3, <1>4, <1>5 DEF Next

-----------------------------------------------------------------------------
(* The invariant, and the theorems.                                          *)

\* With nothing queued, a path is settled as it is in the tree.
LEMMA SettledEmpty ==
    ASSUME NEW s, s = <<>>, NEW t, NEW x
    PROVE  Settled(s, t, x) <=> x \in t
  <1>1. s \in Seq(Write) /\ DOMAIN s = {}
    OBVIOUS
  <1>2. ~Pending(s, x)
    BY <1>1 DEF Pending
  <1>3. QED
    BY <1>1, <1>2, SettledIdle

\* Nothing has been tapped, posted or written at the start.
LEMMA InitFeedInv == Init => FeedInv
  <1> SUFFICES ASSUME Init PROVE FeedInv
    OBVIOUS
  <1> USE OwnerAssumption DEF Init
  <1>1. TypeOK
    BY InitTypeOK
  <1>2. QueuesPermitted
    BY DEF QueuesPermitted
  <1>3. ObserversSane
    BY DEF ObserversSane
  <1>4. ASSUME NEW c \in Users PROVE ClientTracked(c)
    <2>1. outstandingPuts[c] = <<>> /\ acks[c] = <<>> /\ db = {} /\ <<>> \in Seq(Write)
      OBVIOUS
    <2>2. ASSUME NEW x, NEW lax PROVE Tracked(outstandingPuts[c], Len(acks[c]), db, x, FALSE, lax)
      <3>1. ~Settled(<<>>, {}, x)
        BY SettledEmpty
      <3>2. LastTakenShows(<<>>, 0, {}, x, lax)
        BY DEF LastTakenShows
      <3>3. QED
        BY <2>1, <3>1, <3>2 DEF Tracked, Intended
    <2>3. \A u \in Users : TappedFollow(c, u) = FALSE
      BY DEF TappedFollow
    <2>4. \A p \in Posts : WantsPost(c, p) = FALSE
      BY DEF WantsPost
    <2>5. QED
      BY <2>2, <2>3, <2>4 DEF ClientTracked
  <1>5. QED
    BY <1>1, <1>2, <1>3, <1>4 DEF FeedInv

\* FeedInv is inductive.
LEMMA StepFeedInv == FeedInv /\ [Next]_vars => FeedInv'
  <1> SUFFICES ASSUME FeedInv, [Next]_vars PROVE FeedInv'
    OBVIOUS
  <1>1. TypeOK /\ QueuesPermitted /\ ObserversSane
    BY DEF FeedInv
  <1>2. TypeOK'
    BY <1>1, StepTypeOK
  <1>3. QueuesPermitted' /\ ObserversSane'
    BY <1>1, StepPermitted, StepObservers
  <1>4. ASSUME NEW c \in Users, faults'[c] = 0 PROVE ClientTracked(c)'
    <2>1. ClientTracked(c)
      BY <1>1, <1>4, FaultsGrow DEF FeedInv
    <2>2. QED
      BY <1>1, <1>4, <2>1, StepTracked
  <1>5. QED
    BY <1>2, <1>3, <1>4 DEF FeedInv

\* In every reachable state, what a client without faults last decided about a path
\* is what its queue will leave there, and nobody queues a write on another's
\* following list or takes a post from another's feed.
THEOREM FeedInvariant == Spec => []FeedInv
  <1>1. Init => FeedInv
    BY InitFeedInv
  <1>2. FeedInv /\ [Next]_vars => FeedInv'
    BY StepFeedInv
  <1>3. QED
    BY <1>1, <1>2, PTL DEF Spec

\* A quiet client's paths are as it decided.
LEMMA QuietDecided ==
    ASSUME FeedInv, NEW c \in Users, NEW p \in Posts, Quiet(c, p), faults[c] = 0
    PROVE  /\ Following(c, Owner[p]) \in db <=> TappedFollow(c, Owner[p])
           /\ WantsPost(c, p) => FeedAt(c, p) \in db
           /\ FeedAt(c, p) \in db => WantsPost(c, p) \/ MayBeGiven(c, p)
           /\ c # Owner[p] => (WantsPost(c, p) <=> TappedFollow(c, Owner[p]))
           /\ ~TappedFollow(c, c)
  <1>1. outstandingPuts[c] = <<>> /\ <<>> \in Seq(Write) /\ ClientTracked(c)
        /\ Owner[p] \in Users
    BY OwnerAssumption DEF Quiet, FeedInv
  <1>2. \A x : Settled(<<>>, db, x) <=> x \in db
    BY SettledEmpty
  <1>3. Intended(<<>>, db, Following(c, Owner[p]), TappedFollow(c, Owner[p]), FALSE)
    BY <1>1 DEF ClientTracked, Tracked
  <1>4. Intended(<<>>, db, FeedAt(c, p), WantsPost(c, p), MayBeGiven(c, p))
    BY <1>1 DEF ClientTracked, Tracked
  <1>5. ~TappedFollow(c, c)
    BY DEF FeedInv, ObserversSane, TappedFollow
  <1>6. c # Owner[p] => (WantsPost(c, p) <=> TappedFollow(c, Owner[p]))
    <2>1. observers[c][Owner[p]] \in Seq(Op) /\ heard[c][p] = Len(observers[c][Owner[p]])
      BY <1>1 DEF FeedInv, TypeOK, Quiet
    <2>2. observers[c][Owner[p]] # <<>> <=> Len(observers[c][Owner[p]]) > 0
      BY <2>1
    <2>3. QED
      BY <2>1, <2>2 DEF WantsPost, TappedFollow
  <1>7. QED
    BY <1>2, <1>3, <1>4, <1>5, <1>6 DEF Intended

\* However taps, uploads, broken connections and failures of others interleave, a
\* settled client that follows the owner (follow's .childAdded observer), and the
\* owner itself (updateUserFeeds), has the post in its feed.
THEOREM FeedsComplete == Spec => []FeedComplete
  <1>1. FeedInv => FeedComplete
    <2> SUFFICES ASSUME FeedInv, NEW c \in Users, NEW p \in Posts, Quiet(c, p), faults[c] = 0,
                        \/ c = Owner[p] /\ upload[p] = "shared"
                        \/ Following(c, Owner[p]) \in db /\ UserPostAt(p) \in db
                 PROVE  FeedAt(c, p) \in db
      BY DEF FeedComplete
    <2>1. CASE c = Owner[p] /\ upload[p] = "shared"
      BY <2>1, QuietDecided DEF WantsPost
    <2>2. CASE Following(c, Owner[p]) \in db
      BY <2>2, QuietDecided
    <2>3. QED
      BY <2>1, <2>2
  <1>2. QED
    BY <1>1, FeedInvariant, PTL

\* After unfollow a settled client's feed holds no post of the owner but one that
\* the owner's updateUserFeeds wrote there: the observers left behind by earlier
\* taps, and writes sent again, bring none back.
THEOREM OnlyFanoutIsStale == Spec => []StaleOnlyByFanout
  <1>1. FeedInv => StaleOnlyByFanout
    <2> SUFFICES ASSUME FeedInv, NEW c \in Users, NEW p \in Posts, Quiet(c, p), faults[c] = 0,
                        c # Owner[p], Following(c, Owner[p]) \notin db, FeedAt(c, p) \in db
                 PROVE  c \in fanned[p]
      BY DEF StaleOnlyByFanout
    <2>1. QED
      BY QuietDecided DEF MayBeGiven
  <1>2. QED
    BY <1>1, FeedInvariant, PTL

=============================================================================
