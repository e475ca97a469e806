--------------------------- MODULE ListScreenProofs ---------------------------
(***************************************************************************)
(* Proofs about ListScreen, for every set of ids, of fetchable and of      *)
(* ownerless ones, every order of dates, every pool of headers and bound.  *)
(***************************************************************************)
EXTENDS ListScreen, FiniteSetTheorems, TLAPS

-----------------------------------------------------------------------------
(* The inductive invariant.                                                  *)

\* The rows: what the chains of reads keep.
RowsInv ==
    /\ TypeOK
    /\ IsFiniteSet(list)
    /\ ShownPerAdd

\* The answer c is for the label l of h.
For(c, h, l) == c[1] = h /\ c[2] = l

\* Once the answers in the queue q are in, the label l of h, which says n now,
\* says one of the numbers in V: the answers do from some point on.
Settles(q, n, h, l, V) ==
    \/ \E i \in DOMAIN q :
           /\ For(q[i], h, l)
           /\ \A j \in DOMAIN q : (j >= i /\ For(q[j], h, l)) => q[j][3] \in V
    \/ /\ \A j \in DOMAIN q : ~For(q[j], h, l)
       /\ n \in V

\* The header in use has been given the user since the last change of the rows.
Given == header # NoHeader /\ known /\ ~dirty

\* Whoever observes the followers will say their number.
FollowersSettle ==
    \A i \in DOMAIN observing :
        Settles(calls, labels[observing[i]]["followers"], observing[i], "followers",
                {followers})

\* The header in use observes them, or is about to.
HeaderObserves ==
    Given => \/ \E i \in DOMAIN worker : worker[i] = <<header, "followers">>
             \/ \E i \in DOMAIN observing : observing[i] = header

\* A count that holds all rows, and no more than the list, is on its way to the
\* header in use, or there.
PostsSettle ==
    Given => \/ \E i \in DOMAIN worker : worker[i] = <<header, "posts">>
             \/ Settles(calls, labels[header]["posts"], header, "posts",
                        Len(rows)..Cardinality(list))

\* Nothing leaves the list of the profile, which alone has a header.
ProfileGrows ==
    /\ screen = "profile" => \A p \in Ids : adds[p] = IF p \in list THEN 1 ELSE 0
    /\ screen # "profile" => header = NoHeader

StatsInv == RowsInv /\ FollowersSettle /\ HeaderObserves /\ PostsSettle /\ ProfileGrows

-----------------------------------------------------------------------------
(* Queues, and how often an id occurs in one.                                *)

\* What a queue is after one more element.
LEMMA AppendProperties ==
    ASSUME NEW S, NEW s \in Seq(S), NEW e \in S
    PROVE  /\ Append(s, e) \in Seq(S)
           /\ Len(s) \in Nat
           /\ DOMAIN s = 1..Len(s)
           /\ Len(Append(s, e)) = Len(s) + 1
           /\ DOMAIN Append(s, e) = 1..(Len(s) + 1)
           /\ \A i \in 1..Len(s) : Append(s, e)[i] = s[i]
           /\ Append(s, e)[Len(s) + 1] = e
  BY SMT

\* What a queue is without its first element.
LEMMA TailProperties ==
    ASSUME NEW S, NEW s \in Seq(S), s # <<>>
    PROVE  /\ Tail(s) \in Seq(S)
           /\ Len(s) \in Nat /\ Len(s) >= 1
           /\ DOMAIN s = 1..Len(s)
           /\ Len(Tail(s)) = Len(s) - 1
           /\ DOMAIN Tail(s) = 1..(Len(s) - 1)
           /\ \A i \in 1..(Len(s) - 1) : Tail(s)[i] = s[i + 1]
           /\ Head(s) = s[1]
           /\ Head(s) \in S
  BY SMT

\* What a queue is after several more.
LEMMA ConcatProperties ==
    ASSUME NEW S, NEW s \in Seq(S), NEW t \in Seq(S)
    PROVE  /\ s \o t \in Seq(S)
           /\ Len(s) \in Nat
           /\ DOMAIN s = 1..Len(s)
           /\ DOMAIN (s \o t) = 1..(Len(s) + Len(t))
           /\ \A i \in 1..Len(s) : (s \o t)[i] = s[i]
           /\ \A i \in 1..Len(t) : (s \o t)[Len(s) + i] = t[i]
  BY SMT

\* The places where an id is are finitely many.
LEMMA OccurrencesType ==
    ASSUME NEW S, NEW s \in Seq(S), NEW p
    PROVE  /\ IsFiniteSet({i \in DOMAIN s : s[i] = p})
           /\ Occurrences(s, p) \in Nat
  <1>1. Len(s) \in Nat /\ DOMAIN s = 1..Len(s)
    OBVIOUS
  <1>2. IsFiniteSet(1..Len(s))
    BY <1>1, FS_Interval
  <1>3. {i \in DOMAIN s : s[i] = p} \in SUBSET (1..Len(s))
    BY <1>1
  <1>4. IsFiniteSet({i \in DOMAIN s : s[i] = p})
    BY <1>2, <1>3, FS_Subset
  <1>5. QED
    BY <1>4, FS_CardinalityType DEF Occurrences

\* Nothing occurs in an empty list.
LEMMA OccurrencesEmpty == \A p : Occurrences(<<>>, p) = 0
  <1> SUFFICES ASSUME NEW p PROVE Occurrences(<<>>, p) = 0
    OBVIOUS
  <1>1. {i \in DOMAIN <<>> : <<>>[i] = p} = {}
    OBVIOUS
  <1>2. QED
    BY <1>1, FS_EmptySet DEF Occurrences

\* Appending e adds an occurrence of e and of nothing else.
LEMMA OccurrencesAppend ==
    ASSUME NEW S, NEW s \in Seq(S), NEW e \in S, NEW p
    PROVE  Occurrences(Append(s, e), p)
               = Occurrences(s, p) + IF e = p THEN 1 ELSE 0
  <1> DEFINE P == {i \in DOMAIN s : s[i] = p}
             Q == {i \in DOMAIN Append(s, e) : Append(s, e)[i] = p}
  <1>1. IsFiniteSet(P) /\ Cardinality(P) \in Nat /\ Occurrences(s, p) = Cardinality(P)
    BY OccurrencesType, Zenon DEF Occurrences
  <1>0. Len(s) + 1 \notin P
    BY AppendProperties
  <1>2. CASE e = p
    <2>1. Q = P \cup {Len(s) + 1}
      BY <1>2, AppendProperties
    <2>2. QED
      BY <1>0, <1>1, <1>2, <2>1, FS_AddElement DEF Occurrences
  <1>3. CASE e # p
    <2>1. Q = P
      BY <1>3, AppendProperties
    <2>2. Occurrences(Append(s, e), p) = Cardinality(P)
      BY <2>1 DEF Occurrences
    <2>3. QED
      BY <1>1, <1>3, <2>2
  <1>4. QED
    BY <1>2, <1>3

\* Taking the first element takes its occurrence and no other.
LEMMA OccurrencesTail ==
    ASSUME NEW S, NEW s \in Seq(S), s # <<>>, NEW p
    PROVE  Occurrences(s, p)
               = Occurrences(Tail(s), p) + IF Head(s) = p THEN 1 ELSE 0
  <1> DEFINE P == {i \in DOMAIN Tail(s) : Tail(s)[i] = p}
             Q == {i \in DOMAIN s : s[i] = p}
             R == Q \ {1}
             f == [i \in P |-> i + 1]
  <1>1. /\ IsFiniteSet(P)
        /\ Cardinality(P) \in Nat
        /\ Occurrences(Tail(s), p) = Cardinality(P)
    <2>1. Tail(s) \in Seq(S)
      BY TailProperties
    <2>2. QED
      BY <2>1, OccurrencesType, Zenon DEF Occurrences
  <1>2. f \in [P -> R] /\ \A x, y \in P : f[x] = f[y] => x = y
    BY TailProperties
  <1>3. ASSUME NEW j \in R PROVE \E i \in P : f[i] = j
    <2>1. j \in 2..Len(s) /\ s[j] = p
      BY TailProperties
    <2>2. j - 1 \in P /\ f[j - 1] = j
      BY <2>1, TailProperties
    <2>3. QED
      BY <2>2
  <1> HIDE DEF f
  <1>4. f \in Bijection(P, R)
    BY <1>2, <1>3 DEF Bijection, Injection, Surjection, IsInjective
  <1>5. ExistsBijection(P, R)
    BY <1>4 DEF ExistsBijection
  <1>6. Cardinality(R) = Cardinality(P) /\ IsFiniteSet(R)
    BY <1>1, <1>5, FS_Bijection
  <1>7. CASE Head(s) = p
    <2>1. Q = R \cup {1} /\ 1 \notin R
      BY <1>7, TailProperties
    <2>2. QED
      <3>1. Occurrences(s, p) = Cardinality(R \cup {1})
        BY <2>1, Zenon DEF Occurrences
      <3>2. Cardinality(R \cup {1}) = Cardinality(P) + 1
        BY <1>6, <2>1, FS_AddElement
      <3>3. QED
        BY <1>1, <1>7, <3>1, <3>2
  <1>8. CASE Head(s) # p
    <2>1. Q = R
      BY <1>8, TailProperties
    <2>2. Occurrences(s, p) = Cardinality(R)
      BY <2>1 DEF Occurrences
    <2>3. Occurrences(s, p) = Occurrences(Tail(s), p) /\ Occurrences(Tail(s), p) \in Nat
      BY <1>1, <1>6, <2>2, Zenon
    <2> HIDE DEF P, Q, R
    <2>4. QED
      BY <1>8, <2>3
  <1>9. QED
    BY <1>7, <1>8

\* sort returns a list of the same rows.
LEMMA SortedProperties ==
    ASSUME NEW s \in Seq(Fetchable), NEW t \in Sorted(s)
    PROVE  /\ t \in Seq(Fetchable)
           /\ \A p \in Ids : Occurrences(t, p) = Occurrences(s, p)
  <1>1. /\ t \in [DOMAIN s -> {s[i] : i \in DOMAIN s}]
        /\ \A p \in Ids : Occurrences(t, p) = Occurrences(s, p)
    BY DEF Sorted
  <1>2. DOMAIN s = 1..Len(s) /\ Len(s) \in Nat /\ {s[i] : i \in DOMAIN s} \subseteq Fetchable
    OBVIOUS
  <1>3. t \in [1..Len(s) -> Fetchable]
    BY <1>1, <1>2
  <1>4. QED
    BY <1>1, <1>2, <1>3

\* The end of a chain adds the row p, and the screen is to be laid out again.
LEMMA AppendRowProperties ==
    ASSUME NEW p \in Fetchable, appendRow(p), rows \in Seq(Fetchable)
    PROVE  /\ rows' \in Seq(Fetchable)
           /\ \A q \in Ids : Occurrences(rows', q)
                                 = Occurrences(rows, q) + IF p = q THEN 1 ELSE 0
           /\ dirty' = TRUE
  <1>1. Append(rows, p) \in Seq(Fetchable)
    BY AppendProperties
  <1>2. \A q : Occurrences(Append(rows, p), q)
                   = Occurrences(rows, q) + IF p = q THEN 1 ELSE 0
    BY OccurrencesAppend
  <1>3. rows' \in Sorted(Append(rows, p)) \/ rows' = Append(rows, p)
    BY DEF appendRow
  <1>4. dirty' = TRUE
    BY DEF appendRow
  <1>5. CASE rows' \in Sorted(Append(rows, p))
    BY <1>1, <1>2, <1>4, <1>5, SortedProperties
  <1>6. CASE rows' = Append(rows, p)
    BY <1>1, <1>2, <1>4, <1>6
  <1>7. QED
    BY <1>3, <1>5, <1>6

-----------------------------------------------------------------------------
(* Types.                                                                    *)

Answer == Headers \X Labels \X Nat

\* What the observers are told joins the queue.
LEMMA CalledProperties ==
    ASSUME TypeOK, followersChanged
    PROVE  /\ followers' \in Nat
           /\ calls' \in Seq(Answer)
           /\ Len(calls) \in Nat /\ Len(observing) \in Nat
           /\ DOMAIN calls = 1..Len(calls) /\ DOMAIN observing = 1..Len(observing)
           /\ DOMAIN calls' = 1..(Len(calls) + Len(observing))
           /\ \A i \in 1..Len(calls) : calls'[i] = calls[i]
           /\ \A i \in 1..Len(observing) :
                  calls'[Len(calls) + i] = <<observing[i], "followers", followers'>>
  <1> DEFINE told == [i \in DOMAIN observing |-> <<observing[i], "followers", followers'>>]
  <1>1. followers' \in Nat
    BY DEF followersChanged
  <1>2. observing \in Seq(Headers) /\ calls \in Seq(Answer)
    BY DEF TypeOK, Answer
  <1>3. DOMAIN observing = 1..Len(observing) /\ Len(observing) \in Nat
    BY <1>2
  <1>4. \A i \in 1..Len(observing) : <<observing[i], "followers", followers'>> \in Answer
    BY <1>1, <1>2 DEF Answer, Labels
  <1>5. told \in [1..Len(observing) -> Answer]
    BY <1>3, <1>4
  <1>6. told \in Seq(Answer) /\ Len(told) = Len(observing)
    BY <1>3, <1>5
  <1>7. \A i \in 1..Len(observing) : told[i] = <<observing[i], "followers", followers'>>
    BY <1>3
  <1>8. calls' = calls \o told
    BY DEF followersChanged
  <1> HIDE DEF told
  <1>9. /\ calls \o told \in Seq(Answer)
        /\ Len(calls) \in Nat
        /\ DOMAIN calls = 1..Len(calls)
        /\ DOMAIN (calls \o told) = 1..(Len(calls) + Len(told))
        /\ \A i \in 1..Len(calls) : (calls \o told)[i] = calls[i]
        /\ \A i \in 1..Len(told) : (calls \o told)[Len(calls) + i] = told[i]
    BY <1>2, <1>6
  <1>10. QED
    BY <1>1, <1>3, <1>6, <1>7, <1>8, <1>9

\* Every variable has its type at the start, and the list is finite.
LEMMA InitTypeOK == Init => TypeOK /\ IsFiniteSet(list)
  <1> SUFFICES ASSUME Init PROVE TypeOK /\ IsFiniteSet(list)
    OBVIOUS
  <1>1. Unset \in Nat
    BY BoundAssumption DEF Unset
  <1>2. labels \in [Headers -> [Labels -> Nat]]
    BY <1>1 DEF Init
  <1>3. known \in BOOLEAN
    BY DEF Init
  <1>4. IsFiniteSet(list)
    BY FS_EmptySet DEF Init
  <1>5. QED
    BY <1>2, <1>3, <1>4, BoundAssumption DEF Init, TypeOK

\* Every step keeps the types, and the list finite.
LEMMA StepTypeOK ==
    TypeOK /\ IsFiniteSet(list) /\ [Next]_vars => TypeOK' /\ IsFiniteSet(list')
  <1> SUFFICES ASSUME TypeOK, IsFiniteSet(list), [Next]_vars
               PROVE  TypeOK' /\ IsFiniteSet(list')
    OBVIOUS
  <1> USE IdsAssumption, BoundAssumption
  <1>1. ASSUME NEW p \in Ids, listAdded(p)
        PROVE  TypeOK' /\ IsFiniteSet(list')
    <2>1. events' \in Seq(Ids)
      BY <1>1, AppendProperties DEF listAdded, TypeOK
    <2>2. list' \subseteq Ids /\ adds' \in [Ids -> Nat]
      BY <1>1 DEF listAdded, TypeOK
    <2>3. IsFiniteSet(list')
      BY <1>1, FS_AddElement DEF listAdded
    <2>4. QED
      BY <1>1, <2>1, <2>2, <2>3 DEF listAdded, TypeOK, stats
  <1>2. ASSUME NEW p \in Ids, listRemoved(p)
        PROVE  TypeOK' /\ IsFiniteSet(list')
    <2>1. IsFiniteSet(list')
      BY <1>2, FS_RemoveElement DEF listRemoved
    <2>2. QED
      BY <1>2, <2>1 DEF listRemoved, TypeOK, fetching, stats
  <1>3. ASSUME NEW p \in Ids, recordRead(p)
        PROVE  TypeOK' /\ IsFiniteSet(list')
    <2>1. reading' \in [Ids -> Nat] /\ owning' \in [Ids -> Nat]
      BY <1>3 DEF recordRead, TypeOK
    <2>2. rows' \in Seq(Fetchable) /\ dirty' \in BOOLEAN
      BY <1>3, AppendRowProperties DEF recordRead, TypeOK
    <2>3. QED
      BY <1>3, <2>1, <2>2 DEF recordRead, TypeOK, stats
  <1>4. ASSUME NEW p \in Ids, ownerRead(p)
        PROVE  TypeOK' /\ IsFiniteSet(list')
    <2>1. owning' \in [Ids -> Nat]
      BY <1>4 DEF ownerRead, TypeOK
    <2>2. rows' \in Seq(Fetchable) /\ dirty' \in BOOLEAN
      BY <1>4, AppendRowProperties DEF ownerRead, TypeOK
    <2>3. QED
      BY <1>4, <2>1, <2>2 DEF ownerRead, TypeOK, stats
  <1>5. CASE childAdded
    <2>1. events' \in Seq(Ids) /\ Head(events) \in Ids
      BY <1>5, TailProperties DEF childAdded, TypeOK
    <2>2. reading' \in [Ids -> Nat]
      <3>1. reading' = reading \/ reading' = [reading EXCEPT ![Head(events)] = @ + 1]
        BY <1>5 DEF childAdded, fetchRecord
      <3>2. reading \in [Ids -> Nat]
        BY DEF TypeOK
      <3>3. QED
        BY <2>1, <3>1, <3>2
    <2>3. rows' \in Seq(Fetchable) /\ dirty' \in BOOLEAN
      BY <1>5, AppendRowProperties DEF childAdded, TypeOK
    <2>4. QED
      BY <1>5, <2>1, <2>2, <2>3 DEF childAdded, TypeOK, stats
  <1>6. CASE followersChanged
    <2>1. followers' \in Nat /\ calls' \in Seq(Headers \X Labels \X Nat)
      BY <1>6, CalledProperties DEF Answer
    <2>2. changes' \in 0..MaxChanges
      BY <1>6 DEF followersChanged, TypeOK
    <2>3. QED
      BY <1>6, <2>1, <2>2 DEF followersChanged, TypeOK, fetching
  <1>7. CASE layout
    <2>1. header' \in Headers \cup {NoHeader}
      BY <1>7 DEF layout, TypeOK
    <2>2. worker' \in Seq(Headers \X Labels)
      <3>1. CASE worker' = worker
        BY <3>1 DEF TypeOK
      <3>2. CASE header' \in Headers /\ setUserStats(header')
        <4>1. <<<<header', "followers">>, <<header', "posts">>>> \in Seq(Headers \X Labels)
          BY <3>2 DEF Labels
        <4>2. QED
          BY <3>2, <4>1 DEF setUserStats, TypeOK
      <3>3. QED
        BY <1>7, <3>1, <3>2 DEF layout
    <2>3. shown' \in Seq(Fetchable) /\ dirty' \in BOOLEAN
      BY <1>7 DEF layout, TypeOK
    <2>4. QED
      BY <1>7, <2>1, <2>2, <2>3 DEF layout, TypeOK, fetching
  <1>8. CASE currentUserFetched
    BY <1>8 DEF currentUserFetched, TypeOK, fetching, stats
  <1>9. CASE runWorker
    <2>1. worker' \in Seq(Headers \X Labels) /\ Head(worker) \in Headers \X Labels
      BY <1>9, TailProperties DEF runWorker, TypeOK
    <2>2. observing' \in Seq(Headers)
      <3>1. observing' = observing \/ observing' = Append(observing, Head(worker)[1])
        BY <1>9 DEF runWorker, register
      <3>2. observing \in Seq(Headers) /\ Head(worker)[1] \in Headers
        BY <2>1 DEF TypeOK
      <3>3. QED
        BY <3>1, <3>2, AppendProperties
    <2>3. calls' \in Seq(Headers \X Labels \X Nat)
      <3>1. Cardinality(list) \in Nat
        BY FS_CardinalityType
      <3>2. /\ <<Head(worker)[1], "followers", followers>> \in Answer
            /\ <<Head(worker)[1], "posts", Cardinality(list)>> \in Answer
        BY <2>1, <3>1 DEF TypeOK, Labels, Answer
      <3>3. QED
        <4>1. \/ calls' = Append(calls, <<Head(worker)[1], "followers", followers>>)
              \/ calls' = Append(calls, <<Head(worker)[1], "posts", Cardinality(list)>>)
          BY <1>9 DEF runWorker
        <4>2. calls \in Seq(Answer)
          BY DEF TypeOK, Answer
        <4>3. calls' \in Seq(Answer)
          <5>1. \A e \in Answer : Append(calls, e) \in Seq(Answer)
            BY <4>2
          <5>2. QED
            BY <3>2, <4>1, <5>1, Zenon
        <4>4. QED
          BY <4>3 DEF Answer
    <2>4. QED
      BY <1>9, <2>1, <2>2, <2>3 DEF runWorker, TypeOK, fetching
  <1>10. CASE setLabel
    <2>1. calls' \in Seq(Headers \X Labels \X Nat) /\ Head(calls) \in Headers \X Labels \X Nat
      BY <1>10, TailProperties DEF setLabel, TypeOK
    <2>2. labels' \in [Headers -> [Labels -> Nat]]
      BY <1>10, <2>1 DEF setLabel, TypeOK
    <2>3. QED
      BY <1>10, <2>1, <2>2 DEF setLabel, TypeOK, fetching
  <1>11. CASE UNCHANGED vars
    BY <1>11 DEF vars, TypeOK, fetching, stats
  <1>12. QED
    BY <1>1, <1>2, <1>3, <1>4, <1>5, <1>6, <1>7, <1>8, <1>9, <1>10, <1>11 DEF Next

\* Every variable of ListScreen keeps its type, whatever the order in which reads
\* are answered: no read is counted off twice, and only ids whose record and
\* owner exist become rows.
THEOREM TypeCorrect == Spec => []TypeOK
  <1>1. Init => TypeOK /\ IsFiniteSet(list)
    BY InitTypeOK
  <1>2. (TypeOK /\ IsFiniteSet(list)) /\ [Next]_vars => (TypeOK /\ IsFiniteSet(list))'
    BY StepTypeOK
  <1>3. QED
    BY <1>1, <1>2, PTL DEF Spec

-----------------------------------------------------------------------------
(* The rows.                                                                 *)

\* Every step moves an entry along its chain or leaves it where it is; only a new
\* entry of the list starts one.
LEMMA StepShownPerAdd == RowsInv /\ [Next]_vars => ShownPerAdd'
  <1> SUFFICES ASSUME RowsInv, [Next]_vars, NEW q \in Fetchable
               PROVE  Occurrences(rows', q) + owning'[q] + reading'[q]
                          + Occurrences(events', q) = adds'[q]
    BY DEF ShownPerAdd
  <1> USE IdsAssumption
  <1>0. /\ TypeOK
        /\ q \in Ids
        /\ rows \in Seq(Fetchable) /\ events \in Seq(Ids)
        /\ reading \in [Ids -> Nat] /\ owning \in [Ids -> Nat] /\ adds \in [Ids -> Nat]
        /\ Occurrences(rows, q) + owning[q] + reading[q] + Occurrences(events, q) = adds[q]
    BY DEF RowsInv, ShownPerAdd, TypeOK
  <1>n. Occurrences(rows, q) \in Nat /\ Occurrences(events, q) \in Nat
    BY <1>0, OccurrencesType
  <1>1. ASSUME NEW p \in Ids, listAdded(p)
        PROVE  Occurrences(rows', q) + owning'[q] + reading'[q]
                   + Occurrences(events', q) = adds'[q]
    <2>1. Occurrences(events', q) = Occurrences(events, q) + IF p = q THEN 1 ELSE 0
      BY <1>0, <1>1, OccurrencesAppend DEF listAdded
    <2>2. adds'[q] = adds[q] + IF p = q THEN 1 ELSE 0
      BY <1>0, <1>1 DEF listAdded
    <2>3. UNCHANGED <<rows, owning, reading>>
      BY <1>1 DEF listAdded
    <2>4. QED
      BY <1>0, <1>n, <2>1, <2>2, <2>3
  <1>2. ASSUME NEW p \in Ids, recordRead(p)
        PROVE  Occurrences(rows', q) + owning'[q] + reading'[q]
                   + Occurrences(events', q) = adds'[q]
    <2>1. UNCHANGED <<events, adds>> /\ reading[p] > 0
      BY <1>2 DEF recordRead
    <2>2. reading'[q] = reading[q] - IF p = q THEN 1 ELSE 0
      BY <1>0, <1>2 DEF recordRead
    <2>3. CASE screen = "follows" /\ p \in Fetchable
      <3>1. appendRow(p) /\ owning' = owning
        BY <1>2, <2>3 DEF recordRead
      <3>2. Occurrences(rows', q) = Occurrences(rows, q) + IF p = q THEN 1 ELSE 0
        BY <1>0, <2>3, <3>1, AppendRowProperties
      <3>3. QED
        BY <1>0, <1>n, <2>1, <2>2, <3>1, <3>2
    <2>4. CASE screen # "follows" /\ p \in Fetchable \cup Ownerless
      <3>1. rows' = rows
        BY <1>2, <2>4 DEF recordRead
      <3>2. owning'[q] = owning[q] + IF p = q THEN 1 ELSE 0
        BY <1>0, <1>2, <2>4 DEF recordRead
      <3>3. QED
        BY <1>0, <1>n, <2>1, <2>2, <3>1, <3>2
    <2>5. CASE p \notin Fetchable
                 /\ ~(screen # "follows" /\ p \in Fetchable \cup Ownerless)
      <3>1. UNCHANGED <<rows, owning>> /\ p # q
        BY <1>2, <2>5 DEF recordRead
      <3>2. QED
        BY <1>0, <1>n, <2>1, <2>2, <3>1
    <2>6. QED
      BY <2>3, <2>4, <2>5
  <1>3. ASSUME NEW p \in Ids, ownerRead(p)
        PROVE  Occurrences(rows', q) + owning'[q] + reading'[q]
                   + Occurrences(events', q) = adds'[q]
    <2>1. UNCHANGED <<events, reading, adds>> /\ owning[p] > 0
      BY <1>3 DEF ownerRead
    <2>2. owning'[q] = owning[q] - IF p = q THEN 1 ELSE 0
      BY <1>0, <1>3 DEF ownerRead
    <2>3. CASE p \in Fetchable
      <3>1. appendRow(p)
        BY <1>3, <2>3 DEF ownerRead
      <3>2. Occurrences(rows', q) = Occurrences(rows, q) + IF p = q THEN 1 ELSE 0
        BY <1>0, <2>3, <3>1, AppendRowProperties
      <3>3. QED
        BY <1>0, <1>n, <2>1, <2>2, <3>2
    <2>4. CASE p \notin Fetchable
      <3>1. rows' = rows /\ p # q
        BY <1>3, <2>4 DEF ownerRead
      <3>2. QED
        BY <1>0, <1>n, <2>1, <2>2, <3>1
    <2>5. QED
      BY <2>3, <2>4
  <1>4. CASE childAdded
    <2> DEFINE e == Head(events)
    <2>1. UNCHANGED <<owning, adds>> /\ e \in Ids
      BY <1>0, <1>4, TailProperties DEF childAdded
    <2>2. Occurrences(events, q) = Occurrences(events', q) + IF e = q THEN 1 ELSE 0
      BY <1>0, <1>4, OccurrencesTail DEF childAdded
    <2>3. Occurrences(events', q) \in Nat
      BY <1>0, <1>4, OccurrencesType, TailProperties DEF childAdded
    <2>4. CASE screen # "search"
      <3>1. reading' = [reading EXCEPT ![e] = @ + 1]
        BY <1>4, <2>4 DEF childAdded, fetchRecord
      <3> HIDE DEF e
      <3>2. reading'[q] = reading[q] + IF e = q THEN 1 ELSE 0
        BY <1>0, <2>1, <3>1
      <3>3. rows' = rows
        BY <1>4, <2>4 DEF childAdded
      <3>4. QED
        BY <1>0, <1>n, <2>1, <2>2, <2>3, <3>2, <3>3
    <2>5. CASE screen = "search" /\ e \in Fetchable
      <3>1. appendRow(e) /\ reading' = reading
        BY <1>4, <2>5 DEF childAdded
      <3> HIDE DEF e
      <3>2. Occurrences(rows', q) = Occurrences(rows, q) + IF e = q THEN 1 ELSE 0
        BY <1>0, <2>5, <3>1, AppendRowProperties
      <3>3. QED
        BY <1>0, <1>n, <2>1, <2>2, <2>3, <3>1, <3>2
    <2>6. CASE screen = "search" /\ e \notin Fetchable
      <3>1. rows' = rows /\ reading' = reading /\ e # q
        BY <1>4, <2>6 DEF childAdded
      <3> HIDE DEF e
      <3>2. QED
        BY <1>0, <1>n, <2>1, <2>2, <2>3, <3>1
    <2>7. QED
      BY <2>4, <2>5, <2>6
  <1>5. CASE UNCHANGED <<rows, owning, reading, events, adds>>
    BY <1>0, <1>5
  <1>6. ASSUME NEW p \in Ids, listRemoved(p)
        PROVE  UNCHANGED <<rows, owning, reading, events, adds>>
    BY <1>6 DEF listRemoved, fetching
  <1>7. CASE followersChanged \/ layout \/ currentUserFetched \/ runWorker \/ setLabel
    BY <1>5, <1>7 DEF followersChanged, layout, currentUserFetched, runWorker,
                      setLabel, fetching
  <1>8. CASE UNCHANGED vars
    BY <1>5, <1>8 DEF vars, fetching
  <1>9. QED
    BY <1>1, <1>2, <1>3, <1>4, <1>5, <1>6, <1>7, <1>8 DEF Next

\* What the chains of reads keep holds in every state.
LEMMA RowsInvariant == Spec => []RowsInv
  <1>1. Init => RowsInv
    <2> SUFFICES ASSUME Init PROVE RowsInv
      OBVIOUS
    <2>1. \A p \in Ids : reading[p] = 0 /\ owning[p] = 0 /\ adds[p] = 0
      BY DEF Init
    <2>2. ShownPerAdd
      BY <2>1, OccurrencesEmpty, IdsAssumption DEF Init, ShownPerAdd
    <2>3. QED
      BY <2>2, InitTypeOK DEF RowsInv
  <1>2. RowsInv /\ [Next]_vars => RowsInv'
    BY StepTypeOK, StepShownPerAdd DEF RowsInv
  <1>3. QED
    BY <1>1, <1>2, PTL DEF Spec

\* However the reads of fetchPost, fetchUser and the owner overtake each other and
\* however sort places rows of the same date, an entry is on screen or on its way
\* exactly as often as its id was added: none is lost and none doubled.
THEOREM NoneLostOrDoubled == Spec => []ShownPerAdd
  <1>1. RowsInv => ShownPerAdd
    BY DEF RowsInv
  <1>2. QED
    BY <1>1, RowsInvariant, PTL

-----------------------------------------------------------------------------
(* The statistics: queues of answers.                                        *)

\* Another answer for the label must be one of the allowed numbers; answers for
\* other labels do not matter.
LEMMA SettlesAppend ==
    ASSUME NEW q \in Seq(Answer), NEW c \in Answer, NEW n, NEW h, NEW l, NEW V,
           Settles(q, n, h, l, V),
           For(c, h, l) => c[3] \in V
    PROVE  Settles(Append(q, c), n, h, l, V)
  <1> DEFINE r == Append(q, c)
  <1>1. /\ Len(q) \in Nat /\ DOMAIN q = 1..Len(q) /\ DOMAIN r = 1..(Len(q) + 1)
        /\ \A i \in 1..Len(q) : r[i] = q[i]
        /\ r[Len(q) + 1] = c
    BY AppendProperties
  <1> HIDE DEF r
  <1>2. ASSUME NEW i \in DOMAIN q, For(q[i], h, l),
               \A j \in DOMAIN q : (j >= i /\ For(q[j], h, l)) => q[j][3] \in V
        PROVE  Settles(r, n, h, l, V)
    <2>1. i \in DOMAIN r /\ For(r[i], h, l)
      BY <1>1, <1>2
    <2>2. \A j \in DOMAIN r : (j >= i /\ For(r[j], h, l)) => r[j][3] \in V
      BY <1>1, <1>2
    <2>3. QED
      BY <2>1, <2>2 DEF Settles
  <1>3. ASSUME \A j \in DOMAIN q : ~For(q[j], h, l), n \in V
        PROVE  Settles(r, n, h, l, V)
    <2>1. CASE For(c, h, l)
      <3>1. Len(q) + 1 \in DOMAIN r /\ For(r[Len(q) + 1], h, l)
        BY <1>1, <2>1
      <3>2. \A j \in DOMAIN r : (j >= Len(q) + 1 /\ For(r[j], h, l)) => r[j][3] \in V
        BY <1>1, <2>1
      <3>3. QED
        BY <3>1, <3>2 DEF Settles
    <2>2. CASE ~For(c, h, l)
      <3>1. \A j \in DOMAIN r : ~For(r[j], h, l)
        BY <1>1, <1>3, <2>2
      <3>2. QED
        BY <1>3, <3>1 DEF Settles
    <2>3. QED
      BY <2>1, <2>2
  <1>4. Settles(r, n, h, l, V)
    BY <1>2, <1>3 DEF Settles
  <1>5. QED
    BY <1>4 DEF r

\* An allowed answer at the end of the queue settles the label.
LEMMA SettlesNew ==
    ASSUME NEW q \in Seq(Answer), NEW c \in Answer, NEW n, NEW h, NEW l, NEW V,
           For(c, h, l), c[3] \in V
    PROVE  Settles(Append(q, c), n, h, l, V)
  <1> DEFINE r == Append(q, c)
  <1>1. Len(q) \in Nat /\ DOMAIN r = 1..(Len(q) + 1) /\ r[Len(q) + 1] = c
    BY AppendProperties
  <1> HIDE DEF r
  <1>2. Len(q) + 1 \in DOMAIN r /\ For(r[Len(q) + 1], h, l)
    BY <1>1
  <1>3. \A j \in DOMAIN r : (j >= Len(q) + 1 /\ For(r[j], h, l)) => r[j][3] \in V
    BY <1>1
  <1>4. Settles(r, n, h, l, V)
    BY <1>2, <1>3 DEF Settles
  <1>5. QED
    BY <1>4 DEF r

\* Writing the oldest answer to its label leaves the others to come.
LEMMA SettlesTail ==
    ASSUME NEW q \in Seq(Answer), q # <<>>, NEW n, NEW m, NEW h, NEW l, NEW V,
           Settles(q, n, h, l, V),
           m = IF For(Head(q), h, l) THEN Head(q)[3] ELSE n
    PROVE  Settles(Tail(q), m, h, l, V)
  <1> DEFINE r == Tail(q)
  <1>1. /\ Len(q) \in Nat /\ Len(q) >= 1
        /\ DOMAIN q = 1..Len(q) /\ DOMAIN r = 1..(Len(q) - 1)
        /\ \A i \in 1..(Len(q) - 1) : r[i] = q[i + 1]
        /\ Head(q) = q[1]
    BY TailProperties
  <1> HIDE DEF r
  <1>2. ASSUME NEW i \in DOMAIN q, For(q[i], h, l),
               \A j \in DOMAIN q : (j >= i /\ For(q[j], h, l)) => q[j][3] \in V
        PROVE  Settles(r, m, h, l, V)
    <2>1. \A j \in DOMAIN r : (j + 1 >= i /\ For(r[j], h, l)) => r[j][3] \in V
      BY <1>1, <1>2
    <2>2. CASE i > 1
      <3>1. i - 1 \in DOMAIN r /\ For(r[i - 1], h, l)
        <4>1. i \in 2..Len(q)
          BY <1>1, <2>2
        <4>2. i - 1 \in 1..(Len(q) - 1) /\ (i - 1) + 1 = i
          BY <1>1, <4>1
        <4>3. QED
          BY <1>1, <1>2, <4>2
      <3>2. \A j \in DOMAIN r : (j >= i - 1 /\ For(r[j], h, l)) => r[j][3] \in V
        BY <1>1, <2>1
      <3>3. QED
        BY <3>1, <3>2 DEF Settles
    <2>3. CASE i = 1
      <3>1. m \in V
        BY <1>1, <1>2, <2>3
      <3>2. \A j \in DOMAIN r : For(r[j], h, l) => r[j][3] \in V
        BY <1>1, <2>1, <2>3
      <3>3. QED
        BY <3>1, <3>2 DEF Settles
    <2>4. QED
      BY <1>1, <2>2, <2>3
  <1>3. ASSUME \A j \in DOMAIN q : ~For(q[j], h, l), n \in V
        PROVE  Settles(r, m, h, l, V)
    <2>1. m = n /\ \A j \in DOMAIN r : ~For(r[j], h, l)
      BY <1>1, <1>3
    <2>2. QED
      BY <1>3, <2>1 DEF Settles
  <1>4. Settles(r, m, h, l, V)
    BY <1>2, <1>3 DEF Settles
  <1>5. QED
    BY <1>4 DEF r

\* More numbers may be allowed.
LEMMA SettlesWider ==
    ASSUME NEW q, NEW n, NEW h, NEW l, NEW V, NEW W, V \subseteq W,
           Settles(q, n, h, l, V)
    PROVE  Settles(q, n, h, l, W)
  BY DEF Settles

\* With nothing queued the label says it.
LEMMA SettlesEmpty ==
    ASSUME NEW n, NEW h, NEW l, NEW V, Settles(<<>>, n, h, l, V)
    PROVE  n \in V
  <1>1. DOMAIN <<>> = {}
    OBVIOUS
  <1>2. QED
    BY <1>1 DEF Settles

\* On the profile every row is an entry of the list, and no entry has two.
LEMMA RowsInList ==
    ASSUME RowsInv, ProfileGrows, screen = "profile"
    PROVE  Len(rows) <= Cardinality(list) /\ Len(rows) \in Nat /\ Cardinality(list) \in Nat
  <1> USE IdsAssumption
  <1>1. /\ rows \in Seq(Fetchable) /\ Len(rows) \in Nat /\ DOMAIN rows = 1..Len(rows)
        /\ events \in Seq(Ids)
        /\ reading \in [Ids -> Nat] /\ owning \in [Ids -> Nat]
    BY DEF RowsInv, TypeOK
  <1>2. ASSUME NEW p \in Fetchable
        PROVE  Occurrences(rows, p) <= IF p \in list THEN 1 ELSE 0
    <2>1. Occurrences(rows, p) + owning[p] + reading[p] + Occurrences(events, p) = adds[p]
      BY DEF RowsInv, ShownPerAdd
    <2>2. adds[p] = IF p \in list THEN 1 ELSE 0
      BY DEF ProfileGrows
    <2>3. Occurrences(rows, p) \in Nat /\ Occurrences(events, p) \in Nat
      BY <1>1, OccurrencesType
    <2>4. owning[p] \in Nat /\ reading[p] \in Nat
      BY <1>1
    <2>5. QED
      BY <2>1, <2>2, <2>3, <2>4
  <1>3. ASSUME NEW i \in DOMAIN rows PROVE rows[i] \in list
    <2> DEFINE P == {k \in DOMAIN rows : rows[k] = rows[i]}
    <2>1. rows[i] \in Fetchable
      BY <1>1
    <2>2. IsFiniteSet(P) /\ Cardinality(P) = Occurrences(rows, rows[i])
          /\ Cardinality(P) \in Nat
      BY <1>1, OccurrencesType, Zenon DEF Occurrences
    <2>3. P # {}
      OBVIOUS
    <2>4. Cardinality(P) # 0
      BY <2>2, <2>3, FS_EmptySet
    <2>5. QED
      BY <1>2, <2>1, <2>2, <2>4
  <1>4. ASSUME NEW i \in DOMAIN rows, NEW j \in DOMAIN rows, rows[i] = rows[j]
        PROVE  i = j
    <2> SUFFICES ASSUME i # j PROVE FALSE
      OBVIOUS
    <2> DEFINE P == {k \in DOMAIN rows : rows[k] = rows[i]}
    <2>1. rows[i] \in Fetchable
      BY <1>1
    <2>2. IsFiniteSet(P) /\ Cardinality(P) = Occurrences(rows, rows[i])
          /\ Cardinality(P) \in Nat
      BY <1>1, OccurrencesType, Zenon DEF Occurrences
    <2>3. {i} \cup {j} \in SUBSET P
      BY <1>4
    <2>4. IsFiniteSet({i}) /\ Cardinality({i}) = 1 /\ j \notin {i}
      BY FS_Singleton
    <2>5. Cardinality({i} \cup {j}) = 2
      <3>1. Cardinality({i} \cup {j})
                = IF j \in {i} THEN Cardinality({i}) ELSE Cardinality({i}) + 1
        BY <2>4, FS_AddElement, Zenon
      <3>2. QED
        BY <2>4, <3>1
    <2>6. Cardinality({i} \cup {j}) <= Cardinality(P)
      BY <2>2, <2>3, FS_Subset
    <2>7. QED
      BY <1>2, <2>1, <2>2, <2>5, <2>6
  <1>5. rows \in [1..Len(rows) -> list]
    BY <1>1, <1>3
  <1>6. rows \in Injection(1..Len(rows), list)
    BY <1>1, <1>4, <1>5 DEF Injection, IsInjective
  <1>7. IsFiniteSet(list)
    BY DEF RowsInv
  <1>8. Cardinality(1..Len(rows)) <= Cardinality(list)
    BY <1>6, <1>7, FS_Injection
  <1>9. Cardinality(1..Len(rows)) = Len(rows)
    <2>1. \A n \in Nat : Cardinality(1..n) = IF 1 > n THEN 0 ELSE n - 1 + 1
      BY FS_Interval
    <2>2. QED
      BY <1>1, <2>1
  <1>10. QED
    BY <1>1, <1>7, <1>8, <1>9, FS_CardinalityType

-----------------------------------------------------------------------------
(* The statistics: the steps.                                                *)

\* Nothing leaves the profile's list, and only the profile takes a header.
LEMMA StepProfileGrows == TypeOK /\ ProfileGrows /\ [Next]_vars => ProfileGrows'
  <1> SUFFICES ASSUME TypeOK, ProfileGrows, [Next]_vars PROVE ProfileGrows'
    OBVIOUS
  <1>1. ASSUME NEW p \in Ids, listAdded(p) PROVE ProfileGrows'
    <2>1. UNCHANGED <<screen, header>>
      BY <1>1 DEF listAdded
    <2>2. ASSUME screen = "profile", NEW q \in Ids
          PROVE  adds'[q] = IF q \in list' THEN 1 ELSE 0
      BY <1>1, <2>2 DEF listAdded, ProfileGrows, TypeOK
    <2>3. QED
      BY <2>1, <2>2 DEF ProfileGrows
  <1>2. ASSUME NEW p \in Ids, listRemoved(p) PROVE ProfileGrows'
    BY <1>2 DEF listRemoved, ProfileGrows
  <1>3. CASE layout
    BY <1>3 DEF layout, ProfileGrows
  <1>4. CASE UNCHANGED <<screen, list, adds, header>>
    BY <1>4 DEF ProfileGrows
  <1>5. ASSUME NEW p \in Ids, recordRead(p) \/ ownerRead(p)
        PROVE  UNCHANGED <<screen, list, adds, header>>
    BY <1>5 DEF recordRead, ownerRead
  <1>6. CASE \/ childAdded \/ followersChanged \/ currentUserFetched
             \/ runWorker \/ setLabel \/ UNCHANGED vars
    BY <1>4, <1>6 DEF childAdded, followersChanged, currentUserFetched, runWorker,
                      setLabel, vars
  <1>7. QED
    BY <1>1, <1>2, <1>3, <1>4, <1>5, <1>6 DEF Next

\* Steps that leave the answers, the observers and the number of followers alone.
Unanswered == UNCHANGED <<labels, observing, followers, calls>>

\* The steps of the list, of the rows and of the layout are such steps.
LEMMA QuietSteps ==
    ASSUME \/ \E p \in Ids : listAdded(p) \/ listRemoved(p) \/ recordRead(p) \/ ownerRead(p)
           \/ childAdded \/ layout \/ currentUserFetched \/ UNCHANGED vars
    PROVE  Unanswered
  BY DEF Unanswered, listAdded, listRemoved, recordRead, ownerRead, childAdded,
         layout, currentUserFetched, vars, stats

\* Every observer's header will say the number of followers after the step, too.
LEMMA StepFollowersSettle ==
    TypeOK /\ IsFiniteSet(list) /\ FollowersSettle /\ [Next]_vars => FollowersSettle'
  <1> SUFFICES ASSUME TypeOK, IsFiniteSet(list), FollowersSettle, [Next]_vars
               PROVE  FollowersSettle'
    OBVIOUS
  <1>0. /\ calls \in Seq(Answer) /\ observing \in Seq(Headers)
        /\ labels \in [Headers -> [Labels -> Nat]] /\ followers \in Nat
        /\ \A k \in DOMAIN observing : observing[k] \in Headers
    BY DEF TypeOK, Answer
  <1>1. CASE Unanswered
    BY <1>1 DEF Unanswered, FollowersSettle
  <1>2. CASE followersChanged
    <2> SUFFICES ASSUME NEW k \in DOMAIN observing'
                 PROVE  Settles(calls', labels'[observing'[k]]["followers"],
                                observing'[k], "followers", {followers'})
      BY DEF FollowersSettle
    <2>1. UNCHANGED <<observing, labels>>
      BY <1>2 DEF followersChanged
    <2> DEFINE i == Len(calls) + k
    <2>2. /\ Len(calls) \in Nat /\ Len(observing) \in Nat /\ k \in 1..Len(observing)
          /\ DOMAIN calls' = 1..(Len(calls) + Len(observing))
          /\ \A x \in 1..Len(observing) :
                 calls'[Len(calls) + x] = <<observing[x], "followers", followers'>>
      BY <1>2, <2>1, CalledProperties
    <2>3. i \in DOMAIN calls' /\ For(calls'[i], observing[k], "followers")
      BY <2>2 DEF For
    <2>4. ASSUME NEW j \in DOMAIN calls', j >= i
          PROVE  calls'[j][3] \in {followers'}
      <3>1. j - Len(calls) \in 1..Len(observing) /\ Len(calls) + (j - Len(calls)) = j
        BY <2>2, <2>4
      <3>2. calls'[j] = <<observing[j - Len(calls)], "followers", followers'>>
        BY <2>2, <3>1
      <3>3. QED
        BY <3>2
    <2>5. QED
      BY <2>1, <2>3, <2>4 DEF Settles
  <1>3. CASE runWorker
    <2>1. UNCHANGED <<labels, followers>>
      BY <1>3 DEF runWorker
    <2>2. Head(worker) \in Headers \X Labels
      BY <1>3, TailProperties DEF runWorker, TypeOK
    <2>3. CASE Head(worker)[2] = "followers"
      <3> DEFINE h == Head(worker)[1]
                 c == <<h, "followers", followers>>
      <3>1. observing' = Append(observing, h) /\ calls' = Append(calls, c)
        BY <1>3, <2>3 DEF runWorker, register
      <3>2. h \in Headers
        BY <2>2
      <3> HIDE DEF h
      <3>3. c \in Answer /\ c[3] = followers /\ \A g : For(c, g, "followers") = (g = h)
        BY <1>0, <3>2 DEF Answer, Labels, For
      <3> HIDE DEF c
      <3>4. ASSUME NEW k \in DOMAIN observing'
            PROVE  Settles(calls', labels[observing'[k]]["followers"],
                           observing'[k], "followers", {followers})
        <4>1. \/ k \in DOMAIN observing /\ observing'[k] = observing[k]
              \/ observing'[k] = h
          BY <1>0, <3>1, <3>2, AppendProperties
        <4>2. CASE k \in DOMAIN observing /\ observing'[k] = observing[k]
          <5>1. Settles(calls, labels[observing[k]]["followers"], observing[k],
                        "followers", {followers})
            BY <4>2 DEF FollowersSettle
          <5>2. QED
            BY <1>0, <3>1, <3>3, <4>2, <5>1, SettlesAppend
        <4>3. CASE observing'[k] = h
          BY <1>0, <3>1, <3>3, <4>3, SettlesNew
        <4>4. QED
          BY <4>1, <4>2, <4>3
      <3>5. QED
        BY <2>1, <3>4 DEF FollowersSettle
    <2>4. CASE Head(worker)[2] = "posts"
      <3> DEFINE c == <<Head(worker)[1], "posts", Cardinality(list)>>
      <3>1. UNCHANGED observing /\ calls' = Append(calls, c)
        BY <1>3, <2>4 DEF runWorker
      <3>2. c \in Answer /\ \A g : ~For(c, g, "followers")
        BY <2>2, FS_CardinalityType DEF Answer, Labels, For
      <3> HIDE DEF c
      <3>3. ASSUME NEW k \in DOMAIN observing
            PROVE  Settles(calls', labels[observing[k]]["followers"], observing[k],
                           "followers", {followers})
        <4>1. Settles(calls, labels[observing[k]]["followers"], observing[k],
                      "followers", {followers})
          BY DEF FollowersSettle
        <4>2. QED
          BY <1>0, <3>1, <3>2, <4>1, SettlesAppend
      <3>4. QED
        BY <2>1, <3>1, <3>3 DEF FollowersSettle
    <2>5. QED
      BY <2>2, <2>3, <2>4 DEF Labels
  <1>4. CASE setLabel
    <2>1. UNCHANGED <<observing, followers>> /\ calls # <<>> /\ calls' = Tail(calls)
      BY <1>4 DEF setLabel
    <2>2. Head(calls) \in Answer
      BY <1>0, <2>1, TailProperties
    <2>3. ASSUME NEW k \in DOMAIN observing
          PROVE  Settles(calls', labels'[observing[k]]["followers"], observing[k],
                         "followers", {followers})
      <3>1. Settles(calls, labels[observing[k]]["followers"], observing[k],
                    "followers", {followers})
        BY DEF FollowersSettle
      <3>2. labels'[observing[k]]["followers"]
                = IF For(Head(calls), observing[k], "followers") THEN Head(calls)[3]
                  ELSE labels[observing[k]]["followers"]
        BY <1>0, <1>4, <2>2 DEF setLabel, Answer, Labels, For
      <3>3. QED
        BY <1>0, <2>1, <3>1, <3>2, SettlesTail
    <2>4. QED
      BY <2>1, <2>3 DEF FollowersSettle
  <1>5. QED
    BY <1>1, <1>2, <1>3, <1>4, QuietSteps DEF Next

\* The end of a chain asks for a layout; otherwise the rows stay.
LEMMA RowsOrDirty ==
    ASSUME \/ \E p \in Ids : recordRead(p) \/ ownerRead(p)
           \/ childAdded
    PROVE  /\ dirty' = TRUE \/ UNCHANGED <<rows, dirty>>
           /\ UNCHANGED <<screen, list, header, known, worker, labels, observing, calls>>
  BY DEF recordRead, ownerRead, childAdded, appendRow, stats

\* A header that is given the user asks for both numbers.
LEMMA LayoutAsks ==
    ASSUME TypeOK, ProfileGrows, layout, Given'
    PROVE  /\ \E i \in DOMAIN worker' : worker'[i] = <<header', "followers">>
           /\ \E i \in DOMAIN worker' : worker'[i] = <<header', "posts">>
  <1>1. /\ header' \in Headers
        /\ worker' = worker \o <<<<header', "followers">>, <<header', "posts">>>>
    BY DEF layout, Given, ProfileGrows, setUserStats
  <1>2. worker \in Seq(Headers \X Labels)
    BY DEF TypeOK
  <1> DEFINE asked == <<<<header', "followers">>, <<header', "posts">>>>
  <1>3. asked \in Seq(Headers \X Labels) /\ Len(asked) = 2
    BY <1>1 DEF Labels
  <1>4. asked[1] = <<header', "followers">> /\ asked[2] = <<header', "posts">>
    OBVIOUS
  <1>5. worker' = worker \o asked
    BY <1>1
  <1> HIDE DEF asked
  <1>6. /\ Len(worker) + 1 \in DOMAIN worker' /\ worker'[Len(worker) + 1] = asked[1]
        /\ Len(worker) + 2 \in DOMAIN worker' /\ worker'[Len(worker) + 2] = asked[2]
    <2>1. /\ Len(worker) \in Nat
          /\ DOMAIN (worker \o asked) = 1..(Len(worker) + Len(asked))
          /\ \A i \in 1..Len(asked) : (worker \o asked)[Len(worker) + i] = asked[i]
      BY <1>2, <1>3, ConcatProperties
    <2>2. QED
      BY <1>3, <1>5, <2>1
  <1>7. QED
    BY <1>4, <1>6

\* A request in the worker's queue is still there after the oldest has been
\* handled, unless it was that one.
LEMMA AskedOrHandled ==
    ASSUME TypeOK, runWorker, NEW r, NEW i \in DOMAIN worker, worker[i] = r
    PROVE  Head(worker) = r \/ \E j \in DOMAIN worker' : worker'[j] = r
  <1>1. /\ worker # <<>> /\ worker' = Tail(worker) /\ worker \in Seq(Headers \X Labels)
    BY DEF runWorker, TypeOK
  <1>2. /\ Len(worker) \in Nat /\ DOMAIN worker = 1..Len(worker)
        /\ DOMAIN worker' = 1..(Len(worker) - 1)
        /\ \A j \in 1..(Len(worker) - 1) : worker'[j] = worker[j + 1]
        /\ Head(worker) = worker[1]
    BY <1>1, TailProperties
  <1>3. CASE i # 1
    <2>1. i - 1 \in 1..(Len(worker) - 1) /\ (i - 1) + 1 = i
      BY <1>2, <1>3
    <2>2. worker'[i - 1] = r
      BY <1>2, <2>1
    <2>3. QED
      BY <1>2, <2>1, <2>2
  <1>4. QED
    BY <1>2, <1>3

\* The header in use observes the followers, or is about to, after every step.
LEMMA StepHeaderObserves ==
    TypeOK /\ ProfileGrows /\ HeaderObserves /\ [Next]_vars => HeaderObserves'
  <1> SUFFICES ASSUME TypeOK, ProfileGrows, HeaderObserves, [Next]_vars, Given'
               PROVE  \/ \E i \in DOMAIN worker' : worker'[i] = <<header', "followers">>
                      \/ \E i \in DOMAIN observing' : observing'[i] = header'
    BY DEF HeaderObserves
  <1>1. CASE UNCHANGED <<header, known, dirty, worker, observing>>
    BY <1>1 DEF HeaderObserves, Given
  <1>2. ASSUME NEW p \in Ids, listAdded(p) \/ listRemoved(p)
        PROVE  UNCHANGED <<header, known, dirty, worker, observing>>
    BY <1>2 DEF listAdded, listRemoved, stats
  <1>3. CASE \/ \E p \in Ids : recordRead(p) \/ ownerRead(p)
             \/ childAdded
    BY <1>1, <1>3, RowsOrDirty DEF Given
  <1>4. CASE followersChanged \/ setLabel \/ UNCHANGED vars
    BY <1>1, <1>4 DEF followersChanged, setLabel, vars, stats
  <1>5. CASE layout
    BY <1>5, LayoutAsks
  <1>6. CASE currentUserFetched
    BY <1>6 DEF currentUserFetched, Given
  <1>7. CASE runWorker
    <2>1. UNCHANGED <<header, known, dirty>> /\ Given
      BY <1>7 DEF runWorker, Given
    <2>2. observing \in Seq(Headers) /\ worker \in Seq(Headers \X Labels) /\ worker # <<>>
      BY <1>7 DEF runWorker, TypeOK
    <2>3. Head(worker) \in Headers \X Labels
      BY <2>2, TailProperties
    <2>4. ASSUME NEW i \in DOMAIN observing, observing[i] = header
          PROVE  \E j \in DOMAIN observing' : observing'[j] = header
      <3>1. observing' = observing \/ observing' = Append(observing, Head(worker)[1])
        BY <1>7 DEF runWorker, register
      <3>2. i \in DOMAIN observing' /\ observing'[i] = observing[i]
        <4>1. CASE observing' = observing
          BY <4>1
        <4>2. CASE observing' = Append(observing, Head(worker)[1])
          <5>1. Head(worker)[1] \in Headers
            BY <2>3
          <5>2. QED
            BY <2>2, <4>2, <5>1, AppendProperties
        <4>3. QED
          BY <3>1, <4>1, <4>2
      <3>3. QED
        BY <2>4, <3>2
    <2>5. CASE Head(worker) = <<header, "followers">>
      <3>1. observing' = Append(observing, header)
        BY <1>7, <2>5 DEF runWorker, register
      <3>2. header \in Headers
        BY <2>3, <2>5
      <3>3. Len(observing) + 1 \in DOMAIN observing' /\ observing'[Len(observing) + 1] = header
        BY <2>2, <3>1, <3>2, AppendProperties
      <3>4. QED
        BY <2>1, <3>3
    <2>6. QED
      BY <1>7, <2>1, <2>4, <2>5, AskedOrHandled DEF HeaderObserves
  <1>8. QED
    BY <1>1, <1>2, <1>3, <1>4, <1>5, <1>6, <1>7 DEF Next

\* The count of posts stays on its way, or right, after every step.
LEMMA StepPostsSettle ==
    RowsInv /\ ProfileGrows /\ PostsSettle /\ [Next]_vars => PostsSettle'
  <1> DEFINE Right(q, n, h) == Settles(q, n, h, "posts", Len(rows)..Cardinality(list))
  <1> SUFFICES ASSUME RowsInv, ProfileGrows, PostsSettle, [Next]_vars, Given'
               PROVE  \/ \E i \in DOMAIN worker' : worker'[i] = <<header', "posts">>
                      \/ Settles(calls', labels'[header']["posts"], header', "posts",
                                 Len(rows')..Cardinality(list'))
    BY DEF PostsSettle
  <1>0. /\ TypeOK /\ IsFiniteSet(list) /\ calls \in Seq(Answer)
        /\ labels \in [Headers -> [Labels -> Nat]]
    BY DEF RowsInv, TypeOK, Answer
  <1>n. Given => /\ screen = "profile" /\ header \in Headers
                 /\ Len(rows) \in Nat /\ Cardinality(list) \in Nat
                 /\ Len(rows) <= Cardinality(list)
    BY <1>0, RowsInList DEF Given, ProfileGrows, TypeOK
  <1>1. CASE UNCHANGED <<header, known, dirty, worker, calls, labels, rows, list>>
    BY <1>1 DEF PostsSettle, Given
  <1>2. ASSUME NEW p \in Ids, listAdded(p)
        PROVE  \/ \E i \in DOMAIN worker' : worker'[i] = <<header', "posts">>
               \/ Settles(calls', labels'[header']["posts"], header', "posts",
                          Len(rows')..Cardinality(list'))
    <2>1. UNCHANGED <<header, known, dirty, worker, calls, labels, rows>> /\ Given
      BY <1>2 DEF listAdded, stats, Given
    <2>2. Cardinality(list') \in Nat /\ Cardinality(list) <= Cardinality(list')
      <3>1. list' = list \cup {p}
        BY <1>2 DEF listAdded
      <3>2. Cardinality(list \cup {p}) = IF p \in list THEN Cardinality(list)
                                                      ELSE Cardinality(list) + 1
        BY <1>0, FS_AddElement
      <3>3. Cardinality(list) \in Nat
        BY <1>n, <2>1
      <3>4. QED
        BY <3>1, <3>2, <3>3
    <2>3. Len(rows)..Cardinality(list) \subseteq Len(rows)..Cardinality(list')
      BY <1>n, <2>1, <2>2
    <2>4. QED
      BY <2>1, <2>3, SettlesWider DEF PostsSettle
  <1>3. ASSUME NEW p \in Ids, listRemoved(p)
        PROVE  FALSE
    BY <1>3 DEF listRemoved, ProfileGrows, Given
  <1>4. CASE \/ \E p \in Ids : recordRead(p) \/ ownerRead(p)
             \/ childAdded
    BY <1>1, <1>4, RowsOrDirty DEF Given
  <1>5. CASE followersChanged
    <2>1. UNCHANGED <<header, known, dirty, worker, labels, rows, list>> /\ Given
      BY <1>5 DEF followersChanged, fetching, Given
    <2>2. /\ Len(calls) \in Nat /\ Len(observing) \in Nat
          /\ DOMAIN calls = 1..Len(calls)
          /\ DOMAIN calls' = 1..(Len(calls) + Len(observing))
          /\ \A i \in 1..Len(calls) : calls'[i] = calls[i]
          /\ \A i \in 1..Len(observing) :
                 calls'[Len(calls) + i] = <<observing[i], "followers", followers'>>
      BY <1>0, <1>5, CalledProperties
    <2>3. ASSUME NEW j \in DOMAIN calls', For(calls'[j], header, "posts")
          PROVE  j \in DOMAIN calls /\ calls'[j] = calls[j]
      <3>1. CASE j > Len(calls)
        <4>1. j - Len(calls) \in 1..Len(observing) /\ Len(calls) + (j - Len(calls)) = j
          BY <2>2, <3>1
        <4>2. calls'[j] = <<observing[j - Len(calls)], "followers", followers'>>
          BY <2>2, <4>1
        <4>3. QED
          BY <2>3, <4>2 DEF For
      <3>2. QED
        BY <2>2, <3>1
    <2>4. ASSUME Right(calls, labels[header]["posts"], header)
          PROVE  Right(calls', labels[header]["posts"], header)
      <3>1. ASSUME NEW i \in DOMAIN calls, For(calls[i], header, "posts"),
                   \A j \in DOMAIN calls : (j >= i /\ For(calls[j], header, "posts"))
                                               => calls[j][3] \in Len(rows)..Cardinality(list)
            PROVE  Right(calls', labels[header]["posts"], header)
        <4>1. i \in DOMAIN calls' /\ For(calls'[i], header, "posts")
          BY <2>2, <3>1
        <4>2. \A j \in DOMAIN calls' : (j >= i /\ For(calls'[j], header, "posts"))
                                           => calls'[j][3] \in Len(rows)..Cardinality(list)
          BY <2>3, <3>1
        <4>3. QED
          BY <4>1, <4>2 DEF Settles
      <3>2. ASSUME \A j \in DOMAIN calls : ~For(calls[j], header, "posts"),
                   labels[header]["posts"] \in Len(rows)..Cardinality(list)
            PROVE  Right(calls', labels[header]["posts"], header)
        BY <2>3, <3>2 DEF Settles
      <3>3. QED
        BY <2>4, <3>1, <3>2 DEF Settles
    <2>5. QED
      BY <2>1, <2>4 DEF PostsSettle
  <1>6. CASE layout
    BY <1>0, <1>6, LayoutAsks
  <1>7. CASE currentUserFetched
    BY <1>7 DEF currentUserFetched, Given
  <1>8. CASE runWorker
    <2>1. UNCHANGED <<header, known, dirty, labels, rows, list>> /\ Given
      BY <1>8 DEF runWorker, fetching, Given
    <2>2. Head(worker) \in Headers \X Labels
      BY <1>8, <1>0, TailProperties DEF runWorker, TypeOK
    <2> DEFINE h == Head(worker)[1]
    <2>3. PICK c \in Answer :
              /\ calls' = Append(calls, c)
              /\ \/ c = <<h, "followers", followers>> /\ Head(worker)[2] = "followers"
                 \/ c = <<h, "posts", Cardinality(list)>> /\ Head(worker)[2] = "posts"
      <3>1. /\ <<h, "followers", followers>> \in Answer
            /\ <<h, "posts", Cardinality(list)>> \in Answer
        BY <1>0, <1>n, <2>1, <2>2 DEF TypeOK, Answer, Labels
      <3>2. QED
        BY <1>8, <3>1 DEF runWorker
    <2>4. For(c, header, "posts") => c[3] \in Len(rows)..Cardinality(list)
      BY <1>n, <2>1, <2>3 DEF For
    <2>5. CASE Head(worker) = <<header, "posts">>
      <3>1. For(c, header, "posts")
        BY <2>3, <2>5 DEF For
      <3>2. QED
        BY <1>0, <2>1, <2>3, <2>4, <3>1, SettlesNew
    <2>6. ASSUME NEW i \in DOMAIN worker, worker[i] = <<header, "posts">>
          PROVE  Head(worker) = <<header, "posts">>
                 \/ \E j \in DOMAIN worker' : worker'[j] = <<header, "posts">>
      BY <1>0, <1>8, <2>6, AskedOrHandled
    <2>7. ASSUME Right(calls, labels[header]["posts"], header)
          PROVE  Right(calls', labels[header]["posts"], header)
      BY <1>0, <2>3, <2>4, <2>7, SettlesAppend
    <2>8. QED
      BY <2>1, <2>5, <2>6, <2>7 DEF PostsSettle
  <1>9. CASE setLabel
    <2>1. /\ UNCHANGED <<header, known, dirty, worker, rows, list>> /\ Given
          /\ calls # <<>> /\ calls' = Tail(calls)
      BY <1>9 DEF setLabel, fetching, Given
    <2>2. Head(calls) \in Answer
      BY <1>0, <2>1, TailProperties
    <2>3. labels'[header]["posts"]
              = IF For(Head(calls), header, "posts") THEN Head(calls)[3]
                ELSE labels[header]["posts"]
      BY <1>0, <1>9, <1>n, <2>1, <2>2 DEF setLabel, Answer, Labels, For
    <2>4. ASSUME Right(calls, labels[header]["posts"], header)
          PROVE  Right(calls', labels'[header]["posts"], header)
      BY <1>0, <2>1, <2>3, <2>4, SettlesTail
    <2>5. QED
      BY <2>1, <2>4 DEF PostsSettle
  <1>10. CASE UNCHANGED vars
    BY <1>1, <1>10 DEF vars, fetching, stats
  <1>11. QED
    BY <1>1, <1>2, <1>3, <1>4, <1>5, <1>6, <1>7, <1>8, <1>9, <1>10 DEF Next

\* The statistics stay on their way or right.
LEMMA StatsInvariant == Spec => []StatsInv
  <1>1. Init => StatsInv
    <2> SUFFICES ASSUME Init PROVE StatsInv
      OBVIOUS
    <2>1. \A p \in Ids : reading[p] = 0 /\ owning[p] = 0 /\ adds[p] = 0
      BY DEF Init
    <2>2. ShownPerAdd
      BY <2>1, OccurrencesEmpty, IdsAssumption DEF Init, ShownPerAdd
    <2>3. FollowersSettle
      BY DEF Init, FollowersSettle
    <2>4. ProfileGrows /\ header = NoHeader
      BY <2>1 DEF Init, ProfileGrows
    <2>5. HeaderObserves /\ PostsSettle
      BY <2>4 DEF HeaderObserves, PostsSettle, Given
    <2>6. QED
      BY <2>2, <2>3, <2>4, <2>5, InitTypeOK DEF StatsInv, RowsInv
  <1>2. StatsInv /\ [Next]_vars => StatsInv'
    BY StepTypeOK, StepShownPerAdd, StepFollowersSettle, StepHeaderObserves,
       StepPostsSettle, StepProfileGrows DEF StatsInv, RowsInv
  <1>3. QED
    BY <1>1, <1>2, PTL DEF Spec

\* Once all answers for the header in use are in it tells the number of followers,
\* although setUserStats adds another observer at every layout and none is ever
\* removed; and its count of posts holds every row and no more than the list.
THEOREM StatsSafe == Spec => []StatsCounted
  <1>1. StatsInv => StatsCounted
    <2> SUFFICES ASSUME StatsInv, StatsIn
                 PROVE  /\ labels[header]["followers"] = followers
                        /\ Len(rows) <= labels[header]["posts"]
                        /\ labels[header]["posts"] <= Cardinality(list)
      BY DEF StatsCounted
    <2>1. Given /\ worker = <<>> /\ calls = <<>>
      BY DEF StatsIn, Given
    <2>2. PICK i \in DOMAIN observing : observing[i] = header
      BY <2>1 DEF StatsInv, HeaderObserves
    <2>3. Settles(<<>>, labels[header]["followers"], header, "followers", {followers})
      BY <2>1, <2>2 DEF StatsInv, FollowersSettle
    <2>4. labels[header]["followers"] = followers
      BY <2>3, SettlesEmpty
    <2>5. Settles(<<>>, labels[header]["posts"], header, "posts",
                  Len(rows)..Cardinality(list))
      BY <2>1 DEF StatsInv, PostsSettle
    <2>6. labels[header]["posts"] \in Len(rows)..Cardinality(list)
      BY <2>5, SettlesEmpty
    <2>7. screen = "profile"
      BY <2>1 DEF StatsInv, ProfileGrows, Given
    <2>8. Len(rows) \in Nat /\ Cardinality(list) \in Nat
      BY <2>7, RowsInList DEF StatsInv
    <2>9. QED
      BY <2>4, <2>6, <2>8
  <1>2. QED
    BY <1>1, StatsInvariant, PTL

=============================================================================
