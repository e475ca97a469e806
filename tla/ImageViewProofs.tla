---------------------------- MODULE ImageViewProofs ----------------------------
(***************************************************************************)
(* Proofs about ImageView, for every set of views and of URLs and every    *)
(* bound.                                                                  *)
(***************************************************************************)
EXTENDS ImageView, TLAPS

-----------------------------------------------------------------------------
(* The inductive invariant: where the picture a view wants is on its way.    *)

Assignment == [view : Views, url : Urls \cup {Nothing}]

\* The i-th queued assignment is the last one for v, and of its wanted picture.
LastIsWanted(v, i) ==
    /\ main[i] = [view |-> v, url |-> lastUrl[v]]
    /\ \A j \in (i + 1)..Len(main) : main[j].view # v

\* The wanted picture of v is being downloaded, or is what the queue will assign
\* last, or is shown.
OnItsWay(v) ==
    \/ lastUrl[v] \in Urls /\ tasks[v][lastUrl[v]] > 0
    \/ \E i \in 1..Len(main) : LastIsWanted(v, i)
    \/ image[v] = lastUrl[v] /\ \A i \in 1..Len(main) : main[i].view # v

ImageInv ==
    /\ TypeOK
    /\ \A v \in Views : missed[v] \/ v \in overrun \/ OnItsWay(v)

-----------------------------------------------------------------------------
\* What queueing one more assignment leaves.
LEMMA AppendProperties ==
    ASSUME NEW S, NEW s \in Seq(S), NEW e \in S
    PROVE  /\ Append(s, e) \in Seq(S)
           /\ Len(s) \in Nat
           /\ Len(Append(s, e)) = Len(s) + 1
           /\ \A i \in 1..Len(s) : Append(s, e)[i] = s[i]
           /\ Append(s, e)[Len(s) + 1] = e
  BY SMT

\* What making the oldest assignment leaves.
LEMMA TailProperties ==
    ASSUME NEW S, NEW s \in Seq(S), s # <<>>
    PROVE  /\ Tail(s) \in Seq(S)
           /\ Len(s) \in Nat /\ Len(s) >= 1
           /\ Len(Tail(s)) = Len(s) - 1
           /\ \A i \in 1..Len(Tail(s)) : Tail(s)[i] = s[i + 1]
           /\ Head(s) = s[1]
           /\ Head(s) \in S
  BY SMT

\* Every variable has its type at the start.
LEMMA InitTypeOK == Init => TypeOK
  <1> SUFFICES ASSUME Init PROVE TypeOK
    OBVIOUS
  <1>1. tasks \in [Views -> [Urls -> Nat]] /\ \A v \in Views, u \in BadUrls : tasks[v][u] = 0
    BY UrlsAssumption DEF Init
  <1>2. missed \in [Views -> BOOLEAN] /\ crashed \in BOOLEAN
    BY DEF Init
  <1>3. QED
    BY <1>1, <1>2, BoundAssumption DEF Init, TypeOK

\* Every call, download and assignment keeps the types.
LEMMA StepTypeOK == TypeOK /\ [Next]_vars => TypeOK'
  <1> SUFFICES ASSUME TypeOK, [Next]_vars PROVE TypeOK'
    OBVIOUS
  <1> USE UrlsAssumption, BoundAssumption
  <1> main \in Seq(Assignment)
    BY DEF TypeOK, Assignment
  <1>1. ASSUME NEW v \in Views, NEW u \in Urls, loadImage(v, u)
        PROVE  TypeOK'
    <2>1. /\ tasks' \in [Views -> [Urls -> Nat]]
          /\ \A x \in Views, y \in BadUrls : tasks'[x][y] = 0
      <3>1. CASE tasks' = tasks
        BY <3>1 DEF TypeOK
      <3>2. CASE u \notin BadUrls /\ tasks' = [tasks EXCEPT ![v][u] = @ + 1]
        BY <3>2 DEF TypeOK
      <3>3. QED
        BY <1>1, <3>1, <3>2 DEF loadImage, isUrl
    <2>2. /\ image' \in [Views -> Urls \cup {Nothing}]
          /\ lastUrl' \in [Views -> Urls \cup {Nothing}]
      BY <1>1 DEF loadImage, TypeOK
    <2>3. missed' \in [Views -> BOOLEAN]
      BY <1>1 DEF loadImage, TypeOK, isUrl
    <2>4. overrun' \subseteq Views
      BY <1>1 DEF loadImage, TypeOK
    <2>5. loads' \in 0..MaxLoads
      BY <1>1 DEF loadImage, TypeOK
    <2>6. UNCHANGED <<imageCache, main, crashed>>
      BY <1>1 DEF loadImage
    <2>7. QED
      BY <2>1, <2>2, <2>3, <2>4, <2>5, <2>6 DEF TypeOK
  <1>2. ASSUME NEW v \in Views, NEW u \in Urls, NEW outcome, taskDone(v, u, outcome)
        PROVE  TypeOK'
    <2>1. /\ tasks' \in [Views -> [Urls -> Nat]]
          /\ \A x \in Views, y \in BadUrls : tasks'[x][y] = 0
      BY <1>2 DEF taskDone, TypeOK
    <2>2. imageCache' \subseteq Urls /\ missed' \in [Views -> BOOLEAN]
      BY <1>2 DEF taskDone, TypeOK
    <2>3. main' \in Seq(Assignment)
      <3>1. [view |-> v, url |-> u] \in Assignment /\ [view |-> v, url |-> Nothing] \in Assignment
        BY DEF Assignment
      <3>2. \/ main' = main
            \/ main' = Append(main, [view |-> v, url |-> u])
            \/ main' = Append(main, [view |-> v, url |-> Nothing])
        BY <1>2 DEF taskDone
      <3>3. QED
        BY <3>1, <3>2, AppendProperties
    <2>4. UNCHANGED <<lastUrl, image, crashed, loads, overrun>>
      BY <1>2 DEF taskDone
    <2>5. QED
      BY <2>1, <2>2, <2>3, <2>4 DEF TypeOK, Assignment
  <1>3. CASE setImage
    <2>1. main' \in Seq(Assignment) /\ Head(main) \in Assignment
      BY <1>3, TailProperties DEF setImage
    <2>2. image' \in [Views -> Urls \cup {Nothing}]
      BY <1>3, <2>1 DEF setImage, TypeOK, Assignment
    <2>3. UNCHANGED <<imageCache, lastUrl, tasks, crashed, loads, missed, overrun>>
      BY <1>3 DEF setImage
    <2>4. QED
      BY <2>1, <2>2, <2>3 DEF TypeOK, Assignment
  <1>4. ASSUME NEW v \in Views, NEW u \in Urls, readDuringWrite(v, u)
        PROVE  TypeOK'
    BY <1>4 DEF readDuringWrite, TypeOK
  <1>5. CASE UNCHANGED vars
    BY <1>5 DEF vars, TypeOK
  <1>6. QED
    BY <1>1, <1>2, <1>3, <1>4, <1>5 DEF Next

\* Every variable of ImageView keeps its type, whatever the order of loadImage,
\* of the ends of the downloads and of the assignments: no download is counted
\* off twice and none starts for a string that is no URL.
THEOREM TypeCorrect == Spec => []TypeOK
  BY InitTypeOK, StepTypeOK, PTL DEF Spec

-----------------------------------------------------------------------------
\* At the start every view shows what it wants: nothing.
LEMMA InitImageInv == Init => ImageInv
  <1> SUFFICES ASSUME Init, NEW v \in Views PROVE OnItsWay(v)
    BY InitTypeOK DEF ImageInv
  <1>1. QED
    BY DEF Init, OnItsWay

\* A view that nothing concerns in a step stays on its way.
LEMMA OnItsWayFrame ==
    ASSUME NEW v \in Views, OnItsWay(v), UNCHANGED main,
           lastUrl'[v] = lastUrl[v], image'[v] = image[v],
           \A u \in Urls : u = lastUrl[v] => tasks'[v][u] = tasks[v][u]
    PROVE  OnItsWay(v)'
  BY DEF OnItsWay, LastIsWanted

\* Every step keeps the wanted picture of every view on its way.
LEMMA StepImageInv == ImageInv /\ [Next]_vars => ImageInv'
  <1> SUFFICES ASSUME ImageInv, [Next]_vars, NEW w \in Views
               PROVE  missed'[w] \/ w \in overrun' \/ OnItsWay(w)'
    BY StepTypeOK DEF ImageInv
  <1> TypeOK
    BY DEF ImageInv
  <1>0. missed[w] \/ w \in overrun \/ OnItsWay(w)
    BY DEF ImageInv
  <1>a. main \in Seq(Assignment) /\ Len(main) \in Nat
    BY DEF TypeOK, Assignment
  <1>1. ASSUME NEW v \in Views, NEW u \in Urls, loadImage(v, u)
        PROVE  missed'[w] \/ w \in overrun' \/ OnItsWay(w)'
    <2>1. CASE w # v
      <3>1. /\ lastUrl'[w] = lastUrl[w] /\ missed'[w] = missed[w] /\ image'[w] = image[w]
            /\ UNCHANGED main
        BY <1>1, <2>1 DEF loadImage, TypeOK
      <3>2. \A y \in Urls : tasks'[w][y] = tasks[w][y]
        BY <1>1, <2>1 DEF loadImage, TypeOK
      <3>3. w \in overrun => w \in overrun'
        BY <1>1, <2>1 DEF loadImage
      <3>4. QED
        BY <1>0, <3>1, <3>2, <3>3, OnItsWayFrame
    <2>2. CASE w = v /\ ~isUrl(u)
      <3>1. missed' = [missed EXCEPT ![v] = ~isUrl(u)]
        BY <1>1 DEF loadImage
      <3>2. missed'[v]
        BY <2>2, <3>1 DEF TypeOK
      <3>3. QED
        BY <2>2, <3>2
    <2>3. CASE w = v /\ u \in imageCache
      <3>1. /\ image'[v] = u /\ lastUrl'[v] = u /\ UNCHANGED main
            /\ Queued(v) => v \in overrun'
        BY <1>1, <2>3 DEF loadImage, TypeOK
      <3>2. ~Queued(v) => \A i \in 1..Len(main) : main[i].view # v
        BY <1>a DEF Queued
      <3>3. QED
        BY <2>3, <3>1, <3>2 DEF OnItsWay
    <2>4. CASE w = v /\ isUrl(u) /\ u \notin imageCache
      <3>1. lastUrl'[v] = u /\ tasks' = [tasks EXCEPT ![v][u] = @ + 1]
        BY <1>1, <2>4 DEF loadImage, TypeOK
      <3>2. tasks'[v][u] > 0
        BY <3>1 DEF TypeOK
      <3>3. QED
        BY <2>4, <3>1, <3>2 DEF OnItsWay
    <2>5. QED
      BY <2>1, <2>2, <2>3, <2>4
  <1>2. ASSUME NEW v \in Views, NEW u \in Urls,
               NEW outcome \in {"picture", "garbage", "error"}, taskDone(v, u, outcome)
        PROVE  missed'[w] \/ w \in overrun' \/ OnItsWay(w)'
    <2>1. UNCHANGED <<lastUrl, image, overrun>>
      BY <1>2 DEF taskDone
    <2>2. tasks' = [tasks EXCEPT ![v][u] = @ - 1]
      BY <1>2 DEF taskDone
    <2>3. missed[w] => missed'[w]
      BY <1>2 DEF taskDone, TypeOK
    <2> SUFFICES ASSUME ~missed'[w], w \notin overrun PROVE OnItsWay(w)'
      BY <2>1
    <2>4. OnItsWay(w)
      BY <1>0, <2>3
    <2>5. CASE main' = main /\ ~(w = v /\ lastUrl[v] = u)
      <3>1. \A y \in Urls : y = lastUrl[w] => tasks'[w][y] = tasks[w][y]
        BY <2>2, <2>5 DEF TypeOK
      <3>2. QED
        BY <2>1, <2>4, <2>5, <3>1, OnItsWayFrame
    <2>6. CASE w = v /\ lastUrl[v] = u
      <3>1. main' = Append(main, [view |-> v, url |-> u])
        BY <1>2, <2>6 DEF taskDone, wants, TypeOK
      <3>2. [view |-> v, url |-> u] \in Assignment
        BY DEF Assignment
      <3>3. Len(main') = Len(main) + 1 /\ main'[Len(main) + 1] = [view |-> v, url |-> u]
        BY <1>a, <3>1, <3>2, AppendProperties
      <3>4. /\ Len(main) + 1 \in 1..Len(main')
            /\ \A j \in ((Len(main) + 1) + 1)..Len(main') : FALSE
        BY <1>a, <3>3
      <3>5. QED
        BY <2>1, <2>6, <3>3, <3>4 DEF OnItsWay, LastIsWanted
    <2>7. ASSUME w # v, NEW a \in Assignment, a.view = v, main' = Append(main, a)
          PROVE  OnItsWay(w)'
      <3>1. /\ Len(main') = Len(main) + 1
            /\ \A i \in 1..Len(main) : main'[i] = main[i]
            /\ main'[Len(main) + 1].view # w
        BY <1>a, <2>7, AppendProperties
      <3>2. \A y \in Urls : tasks'[w][y] = tasks[w][y]
        BY <2>2, <2>7 DEF TypeOK
      <3>3. CASE lastUrl[w] \in Urls /\ tasks[w][lastUrl[w]] > 0
        BY <2>1, <3>2, <3>3 DEF OnItsWay
      <3>4. ASSUME NEW i \in 1..Len(main), LastIsWanted(w, i)
            PROVE  OnItsWay(w)'
        <4>1. i \in 1..Len(main') /\ main'[i] = [view |-> w, url |-> lastUrl[w]]
          BY <1>a, <3>1, <3>4 DEF LastIsWanted
        <4>2. ASSUME NEW j \in (i + 1)..Len(main') PROVE main'[j].view # w
          <5>1. CASE j = Len(main) + 1
            BY <3>1, <5>1
          <5>2. CASE j # Len(main) + 1
            <6>1. j \in (i + 1)..Len(main) /\ j \in 1..Len(main)
              BY <1>a, <3>1, <5>2
            <6>2. QED
              BY <3>1, <3>4, <6>1 DEF LastIsWanted
          <5>3. QED
            BY <5>1, <5>2
        <4>3. QED
          BY <2>1, <4>1, <4>2 DEF OnItsWay, LastIsWanted
      <3>5. CASE image[w] = lastUrl[w] /\ \A i \in 1..Len(main) : main[i].view # w
        <4>1. ASSUME NEW i \in 1..Len(main') PROVE main'[i].view # w
          <5>1. i = Len(main) + 1 \/ i \in 1..Len(main)
            BY <1>a, <3>1
          <5>2. QED
            BY <3>1, <3>5, <5>1
        <4>2. QED
          BY <2>1, <3>5, <4>1 DEF OnItsWay
      <3>6. QED
        BY <2>4, <3>3, <3>4, <3>5 DEF OnItsWay
    <2>8. CASE w # v
      <3>1. \/ main' = main
            \/ main' = Append(main, [view |-> v, url |-> u])
            \/ main' = Append(main, [view |-> v, url |-> Nothing])
        BY <1>2 DEF taskDone
      <3>2. /\ [view |-> v, url |-> u] \in Assignment
            /\ [view |-> v, url |-> Nothing] \in Assignment
        BY DEF Assignment
      <3>3. QED
        BY <2>5, <2>7, <2>8, <3>1, <3>2
    <2>9. CASE w = v /\ lastUrl[v] # u
      <3>1. main' = main
        BY <1>2, <2>9 DEF taskDone, wants
      <3>2. QED
        BY <2>5, <2>9, <3>1
    <2>10. QED
      BY <2>6, <2>8, <2>9
  <1>3. CASE setImage
    <2>1. /\ main # <<>> /\ main' = Tail(main)
          /\ image' = [image EXCEPT ![Head(main).view] = Head(main).url]
          /\ UNCHANGED <<lastUrl, tasks, missed, overrun>>
      BY <1>3 DEF setImage
    <2>2. /\ Len(main) >= 1
          /\ Len(main') = Len(main) - 1
          /\ \A i \in 1..Len(main') : main'[i] = main[i + 1]
          /\ Head(main) = main[1]
          /\ main[1] \in Assignment
      BY <1>a, <2>1, TailProperties
    <2> SUFFICES ASSUME OnItsWay(w) PROVE OnItsWay(w)'
      BY <1>0, <2>1
    <2>3. CASE lastUrl[w] \in Urls /\ tasks[w][lastUrl[w]] > 0
      BY <2>1, <2>3 DEF OnItsWay
    <2>4. CASE LastIsWanted(w, 1)
      <3>1. image'[w] = lastUrl[w]
        BY <2>1, <2>2, <2>4 DEF LastIsWanted, TypeOK
      <3>2. \A i \in 1..Len(main') : i + 1 \in (1 + 1)..Len(main)
        BY <1>a, <2>2
      <3>3. \A i \in 1..Len(main') : main'[i].view # w
        BY <2>2, <2>4, <3>2 DEF LastIsWanted
      <3>4. QED
        BY <2>1, <3>1, <3>3 DEF OnItsWay
    <2>5. ASSUME NEW i \in 1..Len(main), i # 1, LastIsWanted(w, i)
          PROVE  OnItsWay(w)'
      <3>1. i - 1 \in 1..Len(main') /\ (i - 1) + 1 = i
        BY <1>a, <2>2, <2>5
      <3>2. main'[i - 1] = [view |-> w, url |-> lastUrl[w]]
        BY <2>2, <2>5, <3>1 DEF LastIsWanted
      <3>3. \A j \in ((i - 1) + 1)..Len(main') : j \in 1..Len(main') /\ j + 1 \in (i + 1)..Len(main)
        BY <1>a, <2>2
      <3>4. \A j \in ((i - 1) + 1)..Len(main') : main'[j].view # w
        BY <2>2, <2>5, <3>3 DEF LastIsWanted
      <3>5. QED
        BY <2>1, <3>1, <3>2, <3>4 DEF OnItsWay, LastIsWanted
    <2>6. CASE image[w] = lastUrl[w] /\ \A i \in 1..Len(main) : main[i].view # w
      <3>1. 1 \in 1..Len(main) /\ \A i \in 1..Len(main') : i + 1 \in 1..Len(main)
        BY <1>a, <2>2
      <3>2. Head(main).view # w
        BY <2>2, <2>6, <3>1
      <3>3. image'[w] = image[w]
        BY <2>1, <3>2 DEF TypeOK
      <3>4. \A i \in 1..Len(main') : main'[i].view # w
        BY <2>2, <2>6, <3>1
      <3>5. QED
        BY <2>1, <2>6, <3>3, <3>4 DEF OnItsWay
    <2>7. QED
      BY <2>3, <2>4, <2>5, <2>6 DEF OnItsWay
  <1>4. ASSUME NEW v \in Views, NEW u \in Urls, readDuringWrite(v, u)
        PROVE  missed'[w] \/ w \in overrun' \/ OnItsWay(w)'
    <2>1. UNCHANGED <<lastUrl, image, tasks, main, missed, overrun>>
      BY <1>4 DEF readDuringWrite
    <2>2. QED
      BY <1>0, <2>1, OnItsWayFrame
  <1>5. CASE UNCHANGED vars
    <2>1. UNCHANGED <<lastUrl, image, tasks, main, missed, overrun>>
      BY <1>5 DEF vars
    <2>2. QED
      BY <1>0, <2>1, OnItsWayFrame
  <1>6. QED
    BY <1>1, <1>2, <1>3, <1>4, <1>5 DEF Next

\* With nothing queued or in flight, being on its way is being shown.
LEMMA ImageInvImplies == ImageInv => ImageSettles
  <1> SUFFICES ASSUME ImageInv, NEW v \in Views, Quiet(v), ~missed[v], v \notin overrun
               PROVE  image[v] = lastUrl[v]
    BY DEF ImageSettles
  <1>1. OnItsWay(v) /\ TypeOK
    BY DEF ImageInv
  <1>2. \A u \in Urls : ~(tasks[v][u] > 0)
    BY <1>1 DEF Quiet, TypeOK
  <1>3. \A i \in 1..Len(main) : main[i].view # v
    BY <1>1 DEF Quiet, Queued, TypeOK
  <1>4. \A i \in 1..Len(main) : ~LastIsWanted(v, i)
    BY <1>3 DEF LastIsWanted
  <1>5. QED
    BY <1>1, <1>2, <1>4 DEF OnItsWay

\* However often views are reused and in whatever order their downloads end, a
\* view with nothing queued or in flight shows the picture that loadImage was
\* last called with, unless that could not be loaded or was taken from the cache
\* while another assignment was queued.
THEOREM ImageSafe == Spec => []ImageSettles
  <1>1. Spec => []ImageInv
    BY InitImageInv, StepImageInv, PTL DEF Spec
  <1>2. QED
    BY <1>1, ImageInvImplies, PTL

=============================================================================
