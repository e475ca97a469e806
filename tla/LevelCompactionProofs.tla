------------------------- MODULE LevelCompactionProofs -------------------------
(***************************************************************************)
(* Proofs about LevelCompaction: that the levels stay in order while       *)
(* memtables are flushed into them and tables move or are merged, and that *)
(* reads return what was written last, for every set of keys, every number *)
(* of levels, of writes and of snapshots.                                  *)
(***************************************************************************)
EXTENDS LevelCompaction, WellFoundedInduction, NaturalsInduction, FiniteSetTheorems, TLAPS

\* Entries that are told apart by their sequence numbers.
Distinct(S) == \A e, f \in S : e.seq = f.seq => e = f

\* All entries of S come before those of T.
Ahead(S, T) == \A e \in S, f \in T : Precedes(e, f)

\* Of a key, the entries in S are newer than those in T.
Newer(S, T) == \A e \in S, f \in T : e.key = f.key => e.seq > f.seq

\* S and T are about different keys.
Disjoint(S, T) == \A e \in S, f \in T : e.key # f.key

\* The user key k is in the range of S.
Within(k, S) == \E e, f \in S : e.key <= k /\ k <= f.key

\* There is no gap between the tables I.
Covered(I) == \A k \in Keys : Within(k, UNION I) => \E t \in I : Within(k, t)

\* What is stored was written, with the sequence numbers up to LastSequence, each
\* given once.
Written ==
    /\ Distinct(history)
    /\ \A e \in history : e.seq <= lastSequence
    /\ mem \subseteq history /\ imm \subseteq history
    /\ \A l \in Levels : \A t \in levels[l] : t # {} /\ t \subseteq history
    /\ \A s \in snapshots : s <= lastSequence

\* mem_ is newer than imm_, and imm_ than all tables.
Layered ==
    /\ \A e \in mem, f \in imm : e.seq > f.seq
    /\ \A l \in Levels : \A t \in levels[l] : \A e \in mem \cup imm, f \in t : e.seq > f.seq

\* The tables of level 0 were filled one after the other.
ZeroOrdered ==
    \A t, u \in levels[0] : t # u =>
        \/ \A e \in t, f \in u : e.seq < f.seq
        \/ \A e \in t, f \in u : f.seq < e.seq

\* Below level 0 tables do not overlap.
Apart == \A l \in Levels \ {0} : \A t, u \in levels[l] :
             t # u => Ahead(t, u) \/ Ahead(u, t)

\* Of a key, what is nearer to the memtable is newer.
Deeper == \A l, m \in Levels : l < m => \A t \in levels[l], u \in levels[m] : Newer(t, u)

\* Unless a merge has divided a key, each level below 0 has it in one table.
Whole == ~split => \A l \in Levels \ {0} : \A t, u \in levels[l] : t # u => Disjoint(t, u)

\* The tables I of the levels l and l + 1 can be replaced by tables of level l + 1
\* with the same entries: of their keys only newer entries stay in level l, and
\* the tables that stay in level l + 1 are before or behind all of them.  A
\* memtable that is flushed below level 0 meanwhile does not fit between them.
Mergeable(l, I) ==
    /\ l \in Levels /\ l + 1 \in Levels
    /\ I # {} /\ I \subseteq levels[l] \cup levels[l + 1]
    /\ \A t \in levels[l] \ I, u \in I \cap levels[l] : Newer(t, u)
    /\ \A t \in levels[l + 1] \ I :
           /\ Ahead(t, UNION I) \/ Ahead(UNION I, t)
           /\ \A u \in I \cap levels[l] : Disjoint(t, u)
    /\ Covered(I)

\* So it is with the merge in progress.  Reads that may still be asked for see
\* all that it drops entries for, and what has come below its levels since it
\* began is about other keys.
Merging ==
    compaction # NoMerge =>
        /\ Mergeable(compaction.level, compaction.inputs)
        /\ \A s \in Live : compaction.smallest <= s
        /\ \A m \in Levels : m >= compaction.level + 2 =>
               \A t \in levels[m] : t \in compaction.base[m] \/ Disjoint(t, UNION compaction.inputs)

\* What was written last, as of a time that can be read, is stored; or it is a
\* deletion and nothing that it deletes is stored.
Answered ==
    \A k \in Keys, s \in Live : \A e \in Newest(history, k, s) :
        \/ e \in Stored
        \/ e.deleted /\ (split \/ \A f \in Stored : f.key = k => f.seq > e.seq)

\* The inductive invariant.
IInv == /\ TypeOK /\ Written /\ Layered /\ ZeroOrdered /\ Apart /\ Deeper /\ Whole
        /\ Merging /\ Answered

-----------------------------------------------------------------------------
(* Numbers: the least and the greatest element of a set.                   *)

\* A set of naturals that is not empty has a least element.
LEMMA LeastNat ==
    ASSUME NEW S, S \subseteq Nat, S # {}
    PROVE  \E x \in S : \A y \in S : x <= y
  <1>1. PICK x \in S : \A y \in S : <<y, x>> \notin OpToRel(<, Nat)
    BY NatLessThanWellFounded, WFMin
  <1>2. \A y \in S : ~(y < x)
    BY <1>1 DEF OpToRel
  <1> QED BY <1>2

\* And, if it is finite, a greatest one: of the sets without, a smallest one
\* would have a smaller one in it.
LEMMA GreatestNat ==
    ASSUME NEW S, S \subseteq Nat, S # {}, IsFiniteSet(S)
    PROVE  \E x \in S : \A y \in S : y <= x
  <1> DEFINE top(T) == \E x \in T : \A y \in T : y <= x
             Bad == {T \in SUBSET S : T # {} /\ ~top(T)}
             Sizes == {Cardinality(T) : T \in Bad}
  <1>1. \A T \in SUBSET S : IsFiniteSet(T) /\ Cardinality(T) \in Nat
    BY FS_Subset, FS_CardinalityType
  <1>2. ASSUME Bad # {} PROVE FALSE
    <2>1. Sizes # {} /\ Sizes \subseteq Nat
      BY <1>1, <1>2
    <2>2. PICK n \in Sizes : \A m \in Sizes : n <= m
      <3> HIDE DEF Sizes
      <3> QED BY <2>1, LeastNat
    <2>3. PICK T \in Bad : n = Cardinality(T)
      BY <2>2
    <2>4. PICK x \in T : TRUE
      BY <2>3
    <2> DEFINE U == {y \in T : x < y}
    <2>5. U # {}
      BY <2>3, <2>4
    <2>6. ~top(U)
      <3> SUFFICES ASSUME NEW z \in U, \A y \in U : y <= z
                   PROVE  FALSE
        OBVIOUS
      <3>1. \A y \in T : y <= z
        BY <2>3, <2>4
      <3> QED BY <3>1, <2>3
    <2>7. U \in Bad /\ U \in SUBSET T /\ x \notin U
      BY <2>3, <2>4, <2>5, <2>6
    <2>8. Cardinality(U) \in Sizes
      BY <2>7
    <2> HIDE DEF U, Bad, Sizes
    <2>9. T \in SUBSET S /\ U \in SUBSET S
      BY <2>3, <2>7 DEF Bad
    <2>10. Cardinality(U) <= Cardinality(T) /\ Cardinality(U) # Cardinality(T)
      BY <1>1, <2>4, <2>7, <2>9, FS_Subset
    <2> QED BY <1>1, <2>2, <2>3, <2>8, <2>9, <2>10
  <1>3. S \in SUBSET S
    OBVIOUS
  <1> QED BY <1>2, <1>3

\* Max of a finite set.
LEMMA MaxOf ==
    ASSUME NEW S, S \subseteq Nat, S # {}, IsFiniteSet(S)
    PROVE  Max(S) \in S /\ \A y \in S : y <= Max(S)
  <1>1. \E x \in S : \A y \in S : x >= y
    <2>1. PICK x \in S : \A y \in S : y <= x
      BY GreatestNat
    <2>2. \A y \in S : x >= y
      BY <2>1
    <2> QED BY <2>2
  <1>2. Max(S) \in S /\ \A y \in S : Max(S) >= y
    BY <1>1 DEF Max
  <1> QED BY <1>2

\* Min of a set of levels or of snapshots.
LEMMA MinOf ==
    ASSUME NEW S, S \subseteq Nat, S # {}
    PROVE  Min(S) \in S /\ \A y \in S : Min(S) <= y
  BY LeastNat DEF Min

-----------------------------------------------------------------------------
(* Entries and their order.                                                *)

\* The fields of an entry.
LEMMA EntryFields ==
    ASSUME NEW e \in Entries
    PROVE  e.key \in Keys /\ e.key \in Nat /\ e.seq \in Nat /\ e.seq \in 1..MaxWrites
  <1>1. e.key \in Keys /\ e.seq \in 1..MaxWrites
    BY DEF Entries
  <1>2. e.key \in Nat
    BY <1>1, KeysAssumption
  <1>3. e.seq \in Nat
    BY <1>1, BoundsAssumption
  <1> QED BY <1>1, <1>2, <1>3

\* The keys and the sequence numbers of entries are finitely many.
LEMMA EntryNumbers ==
    ASSUME NEW S, S \subseteq Entries
    PROVE  /\ {e.key : e \in S} \subseteq Nat /\ IsFiniteSet({e.key : e \in S})
           /\ {e.seq : e \in S} \subseteq Nat /\ IsFiniteSet({e.seq : e \in S})
  <1>1. {e.key : e \in S} \in SUBSET Keys /\ {e.seq : e \in S} \in SUBSET (1..MaxWrites)
    BY EntryFields
  <1>2. IsFiniteSet(1..MaxWrites)
    BY BoundsAssumption, FS_Interval
  <1>3. IsFiniteSet({e.key : e \in S})
    BY <1>1, KeysAssumption, FS_Subset
  <1>4. IsFiniteSet({e.seq : e \in S})
    BY <1>1, <1>2, FS_Subset
  <1>5. {e.key : e \in S} \subseteq Nat /\ {e.seq : e \in S} \subseteq Nat
    BY EntryFields
  <1> QED BY <1>3, <1>4, <1>5

\* The order of InternalKeyComparator is total on entries that are told apart.
LEMMA PrecedesTotal ==
    ASSUME NEW e \in Entries, NEW f \in Entries, e.seq = f.seq => e = f
    PROVE  /\ e = f \/ Precedes(e, f) \/ Precedes(f, e)
           /\ ~(Precedes(e, f) /\ Precedes(f, e))
           /\ ~Precedes(e, e)
  BY EntryFields DEF Precedes

\* It is transitive.
LEMMA PrecedesTrans ==
    ASSUME NEW e \in Entries, NEW f \in Entries, NEW g \in Entries,
           Precedes(e, f), Precedes(f, g)
    PROVE  Precedes(e, g)
  <1>1. e.key \in Nat /\ f.key \in Nat /\ g.key \in Nat
        /\ e.seq \in Nat /\ f.seq \in Nat /\ g.seq \in Nat
    BY EntryFields
  <1> QED BY <1>1 DEF Precedes

\* Keys do not decrease along it.
LEMMA PrecedesKey ==
    ASSUME NEW e \in Entries, NEW f \in Entries, Precedes(e, f)
    PROVE  e.key <= f.key
  BY EntryFields DEF Precedes

\* First is the first entry.
LEMMA FirstOf ==
    ASSUME NEW S, S \subseteq Entries, S # {}, Distinct(S)
    PROVE  /\ First(S) \in S /\ \A f \in S : f = First(S) \/ Precedes(First(S), f)
           /\ \A f \in S : First(S).key <= f.key
  <1> DEFINE K == {e.key : e \in S}
  <1>1. K # {} /\ K \subseteq Nat
    BY EntryNumbers
  <1>2. PICK k \in K : \A j \in K : k <= j
    <2> HIDE DEF K
    <2> QED BY <1>1, LeastNat
  <1> DEFINE T == {e \in S : e.key = k}
             Q == {e.seq : e \in T}
  <1>3. Q # {} /\ Q \subseteq Nat /\ IsFiniteSet(Q)
    <2>1. T \subseteq Entries /\ T # {}
      BY <1>2
    <2> HIDE DEF T
    <2> QED BY <2>1, EntryNumbers
  <1>4. PICK q \in Q : \A p \in Q : p <= q
    <2> HIDE DEF Q
    <2> QED BY <1>3, GreatestNat
  <1>5. PICK e \in T : e.seq = q
    BY <1>4
  <1>6. ASSUME NEW f \in S \ {e} PROVE Precedes(e, f)
    <2>1. k <= f.key /\ f.key \in Nat /\ e.key = k /\ e.key \in Nat
      BY <1>2, <1>5, EntryFields
    <2>2. CASE f.key = k
      <3>1. f.seq \in Q /\ f.seq <= q /\ f.seq # e.seq
        BY <1>4, <1>5, <2>2 DEF Distinct
      <3> QED BY <1>5, <2>1, <2>2, <3>1, EntryFields DEF Precedes
    <2>3. CASE f.key # k
      BY <2>1, <2>3 DEF Precedes
    <2> QED BY <2>2, <2>3
  <1>7. First(S) \in S /\ \A f \in S \ {First(S)} : Precedes(First(S), f)
    <2>1. e \in S /\ \A f \in S \ {e} : Precedes(e, f)
      BY <1>5, <1>6
    <2> QED BY <2>1 DEF First
  <1>8. ASSUME NEW f \in S PROVE First(S).key <= f.key
    BY <1>7, PrecedesKey, EntryFields
  <1> QED BY <1>7, <1>8

\* Last is the last entry.
LEMMA LastOf ==
    ASSUME NEW S, S \subseteq Entries, S # {}, Distinct(S)
    PROVE  /\ Last(S) \in S /\ \A f \in S : f = Last(S) \/ Precedes(f, Last(S))
           /\ \A f \in S : f.key <= Last(S).key
  <1> DEFINE K == {e.key : e \in S}
  <1>1. K # {} /\ K \subseteq Nat /\ IsFiniteSet(K)
    BY EntryNumbers
  <1>2. PICK k \in K : \A j \in K : j <= k
    <2> HIDE DEF K
    <2> QED BY <1>1, GreatestNat
  <1> DEFINE T == {e \in S : e.key = k}
             Q == {e.seq : e \in T}
  <1>3. Q # {} /\ Q \subseteq Nat
    <2>1. T \subseteq Entries /\ T # {}
      BY <1>2
    <2> HIDE DEF T
    <2> QED BY <2>1, EntryNumbers
  <1>4. PICK q \in Q : \A p \in Q : q <= p
    <2> HIDE DEF Q
    <2> QED BY <1>3, LeastNat
  <1>5. PICK e \in T : e.seq = q
    BY <1>4
  <1>6. ASSUME NEW f \in S \ {e} PROVE Precedes(f, e)
    <2>1. f.key <= k /\ f.key \in Nat /\ e.key = k /\ e.key \in Nat
      BY <1>2, <1>5, EntryFields
    <2>2. CASE f.key = k
      <3>1. f.seq \in Q /\ q <= f.seq /\ f.seq # e.seq
        BY <1>4, <1>5, <2>2 DEF Distinct
      <3> QED BY <1>5, <2>1, <2>2, <3>1, EntryFields DEF Precedes
    <2>3. CASE f.key # k
      BY <2>1, <2>3 DEF Precedes
    <2> QED BY <2>2, <2>3
  <1>7. Last(S) \in S /\ \A f \in S \ {Last(S)} : Precedes(f, Last(S))
    <2>1. e \in S /\ \A f \in S \ {e} : Precedes(f, e)
      BY <1>5, <1>6
    <2> QED BY <2>1 DEF Last
  <1>8. ASSUME NEW f \in S PROVE f.key <= Last(S).key
    BY <1>7, PrecedesKey, EntryFields
  <1> QED BY <1>7, <1>8

\* The range of user keys of a set of entries.
LEMMA InRangeWithin ==
    ASSUME NEW S, S \subseteq Entries, S # {}, Distinct(S), NEW k \in Nat
    PROVE  InRange(k, S) <=> Within(k, S)
  <1>1. /\ First(S) \in S /\ \A f \in S : First(S).key <= f.key
        /\ Last(S) \in S /\ \A f \in S : f.key <= Last(S).key
    BY FirstOf, LastOf
  <1>2. First(S).key \in Nat /\ Last(S).key \in Nat /\ \A f \in S : f.key \in Nat
    BY <1>1, EntryFields
  <1>3. ASSUME InRange(k, S) PROVE Within(k, S)
    BY <1>1, <1>3 DEF InRange, Within
  <1>4. ASSUME Within(k, S) PROVE InRange(k, S)
    <2>1. PICK e \in S, f \in S : e.key <= k /\ k <= f.key
      BY <1>4 DEF Within
    <2>2. First(S).key <= e.key /\ f.key <= Last(S).key /\ e.key \in Nat /\ f.key \in Nat
      BY <1>1, <1>2
    <2> QED BY <1>2, <2>1, <2>2 DEF InRange
  <1> QED BY <1>3, <1>4

\* Two sets overlap if some key is in the range of both.
LEMMA OverlapWithin ==
    ASSUME NEW S, S \subseteq Entries, S # {}, Distinct(S),
           NEW T, T \subseteq Entries, T # {}, Distinct(T)
    PROVE  Overlap(S, T) <=> \E k \in Keys : Within(k, S) /\ Within(k, T)
  <1>1. /\ First(S) \in S /\ \A f \in S : First(S).key <= f.key
        /\ Last(S) \in S /\ \A f \in S : f.key <= Last(S).key
        /\ First(T) \in T /\ \A f \in T : First(T).key <= f.key
        /\ Last(T) \in T /\ \A f \in T : f.key <= Last(T).key
    BY FirstOf, LastOf
  <1>2. /\ First(S).key \in Nat /\ Last(S).key \in Nat /\ First(T).key \in Nat
        /\ Last(T).key \in Nat /\ First(S).key \in Keys /\ First(T).key \in Keys
        /\ \A f \in S \cup T : f.key \in Nat
    BY <1>1, EntryFields
  <1>3. ASSUME Overlap(S, T) PROVE \E k \in Keys : Within(k, S) /\ Within(k, T)
    <2>1. First(S).key <= Last(T).key /\ First(T).key <= Last(S).key
          /\ First(S).key <= Last(S).key /\ First(T).key <= Last(T).key
      BY <1>1, <1>3 DEF Overlap
    <2>2. CASE First(S).key <= First(T).key
      BY <1>1, <1>2, <2>1, <2>2 DEF Within
    <2>3. CASE First(T).key <= First(S).key
      BY <1>1, <1>2, <2>1, <2>3 DEF Within
    <2> QED BY <1>2, <2>2, <2>3
  <1>4. ASSUME NEW k \in Keys, Within(k, S), Within(k, T) PROVE Overlap(S, T)
    <2>1. k \in Nat
      BY KeysAssumption
    <2>2. InRange(k, S) /\ InRange(k, T)
      BY <1>4, <2>1, InRangeWithin
    <2> QED BY <1>2, <2>1, <2>2 DEF Overlap, InRange
  <1> QED BY <1>3, <1>4

-----------------------------------------------------------------------------
(* Tables, and the gaps between them.                                      *)

\* H can be ordered.
Numbered(H) == H \subseteq Entries /\ Distinct(H)

\* The tables I, with entries of H.
Tabled(I, H) == \A t \in I : t # {} /\ t \subseteq H

\* S is before the user key k.
Below(S, k) == \A e \in S : e.key < k

\* S is behind the user key k.
Above(S, k) == \A e \in S : k < e.key

\* The table t goes on with the user key of e.
Continues(e, t) == Precedes(e, First(t)) /\ First(t).key = e.key

\* Part of what can be ordered can be ordered.
LEMMA Part ==
    ASSUME NEW H, Numbered(H), NEW S, S \subseteq H
    PROVE  S \subseteq Entries /\ Distinct(S)
  BY DEF Numbered, Distinct

\* The entries of tables can be ordered.
LEMMA Joined ==
    ASSUME NEW H, NEW I, Tabled(I, H)
    PROVE  UNION I \subseteq H /\ (I # {} => UNION I # {})
  BY DEF Tabled

\* More entries have a larger range.
LEMMA WithinMono ==
    ASSUME NEW S, NEW T, S \subseteq T, NEW k, Within(k, S)
    PROVE  Within(k, T)
  BY DEF Within

\* They overlap more.
LEMMA OverlapMono ==
    ASSUME NEW H, Numbered(H), NEW t, t # {}, t \subseteq H,
           NEW S, NEW T, S # {}, S \subseteq T, T \subseteq H, Overlap(t, S)
    PROVE  Overlap(t, T)
  <1>1. /\ t \subseteq Entries /\ Distinct(t) /\ S \subseteq Entries /\ Distinct(S)
        /\ T \subseteq Entries /\ Distinct(T) /\ T # {}
    BY Part
  <1>2. PICK k \in Keys : Within(k, t) /\ Within(k, S)
    BY <1>1, OverlapWithin
  <1>3. Within(k, T)
    BY <1>2, WithinMono
  <1> QED BY <1>1, <1>2, <1>3, OverlapWithin

\* A key that is in the range of the entries is not passed by.
LEMMA Sides ==
    ASSUME NEW S, S \subseteq Entries, NEW k \in Keys, ~Within(k, S)
    PROVE  Below(S, k) \/ Above(S, k)
  <1>1. k \in Nat /\ \A e \in S : e.key \in Nat
    BY KeysAssumption, EntryFields
  <1>2. SUFFICES ASSUME NEW e \in S, ~(e.key < k), NEW f \in S, ~(k < f.key)
                 PROVE  FALSE
    BY DEF Below, Above
  <1>3. f.key <= k /\ k <= e.key
    BY <1>1, <1>2
  <1> QED BY <1>3 DEF Within

\* What overlaps entries on one side of k, and does not have k in its range, is
\* on the same side.
LEMMA SameSide ==
    ASSUME NEW H, Numbered(H), NEW t, t # {}, t \subseteq H, NEW S, S # {}, S \subseteq H,
           Overlap(t, S), NEW k \in Keys, ~Within(k, t)
    PROVE  (Below(S, k) => Below(t, k)) /\ (Above(S, k) => Above(t, k))
  <1>1. t \subseteq Entries /\ Distinct(t) /\ S \subseteq Entries /\ Distinct(S)
    BY Part
  <1>2. PICK j \in Keys : Within(j, t) /\ Within(j, S)
    BY <1>1, OverlapWithin
  <1>3. PICK a \in t, b \in t : a.key <= j /\ j <= b.key
    BY <1>2 DEF Within
  <1>4. PICK c \in S, d \in S : c.key <= j /\ j <= d.key
    BY <1>2 DEF Within
  <1>5. a.key \in Nat /\ b.key \in Nat /\ c.key \in Nat /\ d.key \in Nat /\ j \in Nat
        /\ k \in Nat
    BY <1>1, KeysAssumption, EntryFields
  <1>6. Below(t, k) \/ Above(t, k)
    BY <1>1, Sides
  <1>7. ASSUME Below(S, k) PROVE Below(t, k)
    <2>1. d.key < k
      BY <1>7 DEF Below
    <2>2. ~(k < a.key)
      BY <1>3, <1>4, <1>5, <2>1
    <2> QED BY <1>6, <2>2 DEF Above
  <1>8. ASSUME Above(S, k) PROVE Above(t, k)
    <2>1. k < c.key
      BY <1>8 DEF Above
    <2>2. ~(b.key < k)
      BY <1>3, <1>4, <1>5, <2>1
    <2> QED BY <1>6, <2>2 DEF Below
  <1> QED BY <1>7, <1>8

\* Entries on one side of k do not have k in their range.
LEMMA NotWithin ==
    ASSUME NEW S, S \subseteq Entries, NEW k \in Keys, Below(S, k) \/ Above(S, k)
    PROVE  ~Within(k, S)
  <1>1. k \in Nat /\ \A e \in S : e.key \in Nat
    BY KeysAssumption, EntryFields
  <1> QED BY <1>1 DEF Below, Above, Within

\* To show that there is no gap it is enough to show that all tables are on one
\* side of a key that none of them has in its range.
LEMMA NoGap ==
    ASSUME NEW H, Numbered(H), NEW I, Tabled(I, H), NEW Z, Z \subseteq I, Z # {}, Covered(Z),
           ASSUME NEW k \in Keys, \A t \in I : ~Within(k, t)
           PROVE  /\ Below(UNION Z, k) => \A t \in I : Below(t, k)
                  /\ Above(UNION Z, k) => \A t \in I : Above(t, k)
    PROVE  Covered(I)
  <1> SUFFICES ASSUME NEW k \in Keys, Within(k, UNION I), \A t \in I : ~Within(k, t)
               PROVE  FALSE
    BY DEF Covered
  <1>1. ~Within(k, UNION Z)
    BY DEF Covered
  <1>2. UNION Z \subseteq Entries /\ UNION I \subseteq Entries
    BY Joined, Part DEF Tabled
  <1>3. Below(UNION Z, k) \/ Above(UNION Z, k)
    BY <1>1, <1>2, Sides
  <1>4. (\A t \in I : Below(t, k)) \/ (\A t \in I : Above(t, k))
    BY <1>3
  <1>5. Below(UNION I, k) \/ Above(UNION I, k)
    BY <1>4 DEF Below, Above
  <1> QED BY <1>2, <1>5, NotWithin

\* A single table has no gaps.
LEMMA CoveredOne ==
    ASSUME NEW t
    PROVE  Covered({t})
  <1>1. UNION {t} = t
    OBVIOUS
  <1> QED BY <1>1 DEF Covered

\* Tables that overlap what has no gap leave none.
LEMMA Attach ==
    ASSUME NEW H, Numbered(H), NEW Z, NEW G, Tabled(Z, H), Tabled(G, H), Z # {}, Covered(Z),
           \A u \in G : Overlap(u, UNION Z)
    PROVE  Covered(Z \cup G)
  <1>1. Tabled(Z \cup G, H)
    BY DEF Tabled
  <1>2. UNION Z \subseteq H /\ UNION Z # {}
    BY Joined
  <1>3. ASSUME NEW k \in Keys, \A t \in Z \cup G : ~Within(k, t)
        PROVE  /\ Below(UNION Z, k) => \A t \in Z \cup G : Below(t, k)
               /\ Above(UNION Z, k) => \A t \in Z \cup G : Above(t, k)
    <2>1. ASSUME NEW t \in Z
          PROVE  (Below(UNION Z, k) => Below(t, k)) /\ (Above(UNION Z, k) => Above(t, k))
      BY DEF Below, Above
    <2>2. ASSUME NEW t \in G
          PROVE  (Below(UNION Z, k) => Below(t, k)) /\ (Above(UNION Z, k) => Above(t, k))
      <3>1. t # {} /\ t \subseteq H /\ Overlap(t, UNION Z) /\ ~Within(k, t)
        BY <1>3 DEF Tabled
      <3> QED BY <1>2, <3>1, SameSide
    <2> QED BY <2>1, <2>2
  <1> QED BY <1>1, <1>3, NoGap

-----------------------------------------------------------------------------
(* The choice of the tables to merge.                                      *)

\* What is found is in the level, and all of the level that overlaps S is found.
\* In level 0 nothing is left that overlaps what is found, and nothing else is
\* found than what one thing leads to after the other.
Reached(l, S, G) ==
    /\ G \subseteq levels[l]
    /\ \A t \in levels[l] : Overlap(t, S) => t \in G
    /\ l # 0 => \A t \in G : Overlap(t, S)
    /\ l = 0 => /\ \A t \in levels[l] : Overlap(t, S \cup UNION G) => t \in G
                /\ \A X \in SUBSET levels[l] :
                       (\A t \in levels[l] : Overlap(t, S \cup UNION X) => t \in X)
                           => G \subseteq X

\* So it is with GetOverlappingInputs.
LEMMA GetFacts ==
    ASSUME NEW H, Numbered(H), NEW l, Tabled(levels[l], H), NEW S, S # {}, S \subseteq H,
           NEW G, G = GetOverlappingInputs(l, S)
    PROVE  Reached(l, S, G)
  <1>1. G \subseteq levels[l]
    BY DEF GetOverlappingInputs
  <1>2. ASSUME l = 0, NEW D \in SUBSET levels[l], NEW X \in SUBSET levels[l], D \subseteq X,
               NEW t \in levels[l], Overlap(t, S \cup UNION D)
        PROVE  Overlap(t, S \cup UNION X)
    <2>1. t # {} /\ t \subseteq H /\ S \cup UNION D # {} /\ S \cup UNION X \subseteq H
          /\ S \cup UNION D \subseteq S \cup UNION X
      BY <1>2 DEF Tabled
    <2> QED BY <1>2, <2>1, OverlapMono
  <1>3. ASSUME l = 0
        PROVE  G = {t \in levels[l] : \A D \in SUBSET levels[l] :
                       (\A u \in levels[l] : Overlap(u, S \cup UNION D) => u \in D) => t \in D}
    <2>1. \A D : {t \in levels[l] : Overlap(t, IF l = 0 THEN S \cup UNION D ELSE S)} \subseteq D
                     <=> \A u \in levels[l] : Overlap(u, S \cup UNION D) => u \in D
      BY <1>3
    <2> QED BY <2>1 DEF GetOverlappingInputs
  <1>4. ASSUME l # 0
        PROVE  G = {t \in levels[l] : Overlap(t, S)}
    <2> DEFINE O == {t \in levels[l] : Overlap(t, S)}
    <2>1. G = {t \in levels[l] : \A D \in SUBSET levels[l] : O \subseteq D => t \in D}
      BY <1>4 DEF GetOverlappingInputs
    <2>2. O \in SUBSET levels[l]
      OBVIOUS
    <2> HIDE DEF O
    <2>3. G = O
      BY <2>1, <2>2
    <2> QED BY <2>3 DEF O
  <1>5. ASSUME l = 0, NEW X \in SUBSET levels[l],
               \A t \in levels[l] : Overlap(t, S \cup UNION X) => t \in X
        PROVE  G \subseteq X
    BY <1>3, <1>5
  <1>6. ASSUME l = 0, NEW t \in levels[l], Overlap(t, S \cup UNION G)
        PROVE  t \in G
    <2>1. ASSUME NEW D \in SUBSET levels[l],
                 \A u \in levels[l] : Overlap(u, S \cup UNION D) => u \in D
          PROVE  t \in D
      <3>1. G \subseteq D
        BY <1>5, <1>6, <2>1
      <3>2. Overlap(t, S \cup UNION D)
        BY <1>1, <1>2, <1>6, <3>1
      <3> QED BY <2>1, <3>2
    <2> QED BY <1>3, <1>6, <2>1
  <1>7. ASSUME NEW t \in levels[l], Overlap(t, S)
        PROVE  t \in G
    <2>1. CASE l = 0
      <3>1. t # {} /\ t \subseteq H /\ S \cup UNION G \subseteq H
            /\ S \subseteq S \cup UNION G
        BY <1>1 DEF Tabled
      <3>2. Overlap(t, S \cup UNION G)
        BY <1>7, <3>1, OverlapMono
      <3> QED BY <1>6, <2>1, <3>2
    <2>2. CASE l # 0
      BY <1>4, <1>7, <2>2
    <2> QED BY <2>1, <2>2
  <1>8. l # 0 => \A t \in G : Overlap(t, S)
    BY <1>4
  <1> QED BY <1>1, <1>5, <1>6, <1>7, <1>8 DEF Reached

\* It leaves no gap.
LEMMA AttachGet ==
    ASSUME NEW H, Numbered(H), NEW l, Tabled(levels[l], H), NEW Z, Tabled(Z, H), Z # {},
           Covered(Z), NEW S, S = UNION Z, NEW G, G = GetOverlappingInputs(l, S)
    PROVE  Covered(Z \cup G)
  <1>1. S \subseteq H /\ S # {}
    BY Joined
  <1>2. Reached(l, S, G)
    BY <1>1, GetFacts
  <1>3. G \subseteq levels[l] /\ Tabled(G, H)
    BY <1>2 DEF Tabled, Reached
  <1>4. CASE l # 0
    <2>1. \A u \in G : Overlap(u, S)
      BY <1>4, <1>2 DEF Reached
    <2> QED BY <1>3, <2>1, Attach
  <1>5. CASE l = 0
    <2>1. Tabled(Z \cup G, H)
      BY <1>3 DEF Tabled
    <2>2. ASSUME NEW k \in Keys, \A t \in Z \cup G : ~Within(k, t),
                 NEW X, X \subseteq G,
                 NEW t \in levels[l], Overlap(t, S \cup UNION X)
          PROVE  /\ t \in G
                 /\ Below(UNION X, k) /\ Below(S, k) => Below(t, k)
                 /\ Above(UNION X, k) /\ Above(S, k) => Above(t, k)
      <3> DEFINE A == S \cup UNION X
                 B == S \cup UNION G
      <3>1. /\ t # {} /\ t \subseteq H /\ A # {} /\ A \subseteq H /\ B \subseteq H
            /\ A \subseteq B
        BY <1>1, <1>3, <2>2 DEF Tabled
      <3>2. Overlap(t, B)
        <4>1. Overlap(t, A)
          BY <2>2
        <4> HIDE DEF A, B
        <4> QED BY <3>1, <4>1, OverlapMono
      <3>3. t \in G
        BY <1>2, <1>5, <3>2 DEF Reached
      <3>4. ~Within(k, t)
        BY <2>2, <3>3
      <3>5. (Below(A, k) => Below(t, k)) /\ (Above(A, k) => Above(t, k))
        <4>1. Overlap(t, A)
          BY <2>2
        <4> HIDE DEF A, B
        <4> QED BY <3>1, <3>4, <4>1, SameSide
      <3>6. /\ Below(UNION X, k) /\ Below(S, k) => Below(A, k)
            /\ Above(UNION X, k) /\ Above(S, k) => Above(A, k)
        BY DEF Below, Above
      <3> QED BY <3>3, <3>5, <3>6
    <2>3. ASSUME NEW k \in Keys, \A t \in Z \cup G : ~Within(k, t)
          PROVE  /\ Below(S, k) => \A t \in Z \cup G : Below(t, k)
                 /\ Above(S, k) => \A t \in Z \cup G : Above(t, k)
      <3>1. ASSUME Below(S, k) PROVE \A t \in Z \cup G : Below(t, k)
        <4> DEFINE X == {t \in G : Below(t, k)}
        <4>1. X \in SUBSET levels[l] /\ X \subseteq G /\ Below(UNION X, k)
          BY <1>3 DEF Below
        <4>2. ASSUME NEW t \in levels[l], Overlap(t, S \cup UNION X) PROVE t \in X
          <5>1. t \in G /\ Below(t, k)
            <6> HIDE DEF X
            <6>1. Below(UNION X, k) /\ Below(S, k)
              BY <3>1, <4>1
            <6>2. t \in G
              BY <2>2, <2>3, <4>1, <4>2, <6>1
            <6>3. Below(t, k)
              BY <2>2, <2>3, <4>1, <4>2, <6>1
            <6> QED BY <6>2, <6>3
          <5> QED BY <5>1
        <4>3. G \subseteq X
          <5> HIDE DEF X
          <5> QED BY <1>2, <1>5, <4>1, <4>2 DEF Reached
        <4>4. \A t \in Z : Below(t, k)
          BY <3>1 DEF Below
        <4> QED BY <4>3, <4>4
      <3>2. ASSUME Above(S, k) PROVE \A t \in Z \cup G : Above(t, k)
        <4> DEFINE X == {t \in G : Above(t, k)}
        <4>1. X \in SUBSET levels[l] /\ X \subseteq G /\ Above(UNION X, k)
          BY <1>3 DEF Above
        <4>2. ASSUME NEW t \in levels[l], Overlap(t, S \cup UNION X) PROVE t \in X
          <5>1. t \in G /\ Above(t, k)
            <6> HIDE DEF X
            <6>1. Above(UNION X, k) /\ Above(S, k)
              BY <3>2, <4>1
            <6>2. t \in G
              BY <2>2, <2>3, <4>1, <4>2, <6>1
            <6>3. Above(t, k)
              BY <2>2, <2>3, <4>1, <4>2, <6>1
            <6> QED BY <6>2, <6>3
          <5> QED BY <5>1
        <4>3. G \subseteq X
          <5> HIDE DEF X
          <5> QED BY <1>2, <1>5, <4>1, <4>2 DEF Reached
        <4>4. \A t \in Z : Above(t, k)
          BY <3>2 DEF Above
        <4> QED BY <4>3, <4>4
      <3> QED BY <3>1, <3>2
    <2> QED BY <2>1, <2>3, NoGap
  <1> QED BY <1>4, <1>5

\* The tables D that follow those of C, one after the other.
Chained(l, C, D) ==
    /\ D \subseteq levels[l]
    /\ \A t \in levels[l] : Continues(Last(UNION C), t) => t \in D
    /\ \A u \in D, t \in levels[l] : Continues(Last(u), t) => t \in D
    /\ \A X \in SUBSET levels[l] :
           (\A t \in levels[l] : Continues(Last(UNION C), t)
                                     \/ (\E u \in X : Continues(Last(u), t)) => t \in X)
               => D \subseteq X

\* These are the ones that AddBoundaryInputs adds.
LEMMA BoundaryFacts ==
    ASSUME NEW l, NEW C, NEW B, B = AddBoundaryInputs(l, C)
    PROVE  \E D : B = C \cup D /\ Chained(l, C, D)
  <1> DEFINE boundary(e) == {t \in levels[l] : Precedes(e, First(t)) /\ First(t).key = e.key}
             found(D) == boundary(Last(UNION C)) \cup UNION {boundary(Last(t)) : t \in D}
             D == {t \in levels[l] : \A X \in SUBSET levels[l] : found(X) \subseteq X => t \in X}
  <1>1. B = C \cup D
    BY DEF AddBoundaryInputs
  <1>2. \A X, t : t \in found(X) <=>
            t \in levels[l] /\ (Continues(Last(UNION C), t) \/ \E u \in X : Continues(Last(u), t))
    BY DEF Continues
  <1> HIDE DEF found
  <1>3. ASSUME NEW X \in SUBSET levels[l], found(X) \subseteq X PROVE D \subseteq X
    BY <1>3
  <1>4. found(D) \subseteq D
    <2> SUFFICES ASSUME NEW t \in found(D), NEW X \in SUBSET levels[l], found(X) \subseteq X
                 PROVE  t \in X
      BY <1>2
    <2>1. D \subseteq X
      BY <1>3
    <2>2. t \in found(X)
      <3> HIDE DEF D
      <3> QED BY <1>2, <2>1
    <2> QED BY <2>2
  <1>5. D \subseteq levels[l]
    OBVIOUS
  <1> HIDE DEF D
  <1>6. Chained(l, C, D)
    <2>1. \A t \in levels[l] : Continues(Last(UNION C), t) => t \in D
      BY <1>2, <1>4
    <2>2. \A u \in D, t \in levels[l] : Continues(Last(u), t) => t \in D
      BY <1>2, <1>4
    <2>3. ASSUME NEW X \in SUBSET levels[l],
                 \A t \in levels[l] : Continues(Last(UNION C), t)
                                     \/ (\E u \in X : Continues(Last(u), t)) => t \in X
          PROVE  D \subseteq X
      <3>1. found(X) \subseteq X
        BY <1>2, <2>3
      <3> QED BY <1>3, <3>1
    <2> QED BY <1>5, <2>1, <2>2, <2>3 DEF Chained
  <1> QED BY <1>1, <1>6

\* A table that goes on with the key of an entry on one side of k is on that side.
LEMMA ContinuesSide ==
    ASSUME NEW H, Numbered(H), NEW t, t # {}, t \subseteq H, NEW k \in Keys, ~Within(k, t),
           NEW e, Continues(e, t)
    PROVE  (e.key < k => Below(t, k)) /\ (k < e.key => Above(t, k))
  <1>1. t \subseteq Entries /\ Distinct(t)
    BY Part
  <1>2. First(t) \in t /\ First(t).key \in Nat /\ First(t).key = e.key /\ k \in Nat
    BY <1>1, FirstOf, EntryFields, KeysAssumption DEF Continues
  <1>3. Below(t, k) \/ Above(t, k)
    BY <1>1, Sides
  <1>4. ASSUME e.key < k PROVE Below(t, k)
    <2>1. ~(k < First(t).key)
      BY <1>2, <1>4
    <2> QED BY <1>2, <1>3, <2>1 DEF Above
  <1>5. ASSUME k < e.key PROVE Above(t, k)
    <2>1. ~(First(t).key < k)
      BY <1>2, <1>5
    <2> QED BY <1>2, <1>3, <2>1 DEF Below
  <1> QED BY <1>4, <1>5

\* Boundary files leave no gap.
LEMMA AttachBoundary ==
    ASSUME NEW H, Numbered(H), NEW l, Tabled(levels[l], H), NEW C, C \subseteq levels[l],
           C # {}, NEW Z, Tabled(Z, H), Covered(C \cup Z),
           NEW B, B = AddBoundaryInputs(l, C)
    PROVE  Covered(B \cup Z)
  <1>1. PICK D : B = C \cup D /\ Chained(l, C, D)
    BY BoundaryFacts
  <1> DEFINE Y == C \cup Z
             I == Y \cup D
  <1>2. D \subseteq levels[l] /\ Tabled(D, H) /\ Tabled(C, H)
    BY <1>1 DEF Chained, Tabled
  <1>3. Tabled(I, H) /\ Y \subseteq I /\ Y # {} /\ Covered(Y) /\ I = B \cup Z
    BY <1>1, <1>2 DEF Tabled
  <1>4. UNION C # {} /\ UNION C \subseteq Entries /\ Distinct(UNION C)
    BY <1>2, Joined, Part
  <1>5. Last(UNION C) \in UNION C
    BY <1>4, LastOf
  <1>6. \A u \in D : Last(u) \in u
    BY <1>2, Part, LastOf DEF Tabled
  <1>7. ASSUME NEW k \in Keys, \A t \in I : ~Within(k, t)
        PROVE  /\ Below(UNION Y, k) => \A t \in I : Below(t, k)
               /\ Above(UNION Y, k) => \A t \in I : Above(t, k)
    <2>1. ASSUME Below(UNION Y, k) PROVE \A t \in I : Below(t, k)
      <3> DEFINE X == {t \in D : Below(t, k)}
      <3>1. X \in SUBSET levels[l]
        BY <1>2
      <3>2. ASSUME NEW t \in levels[l], Continues(Last(UNION C), t)
                                        \/ \E u \in X : Continues(Last(u), t)
            PROVE  t \in X
        <4>1. t \in D
          BY <1>1, <3>2 DEF Chained
        <4>2. PICK e : Continues(e, t) /\ e.key < k
          <5>1. CASE Continues(Last(UNION C), t)
            BY <1>5, <2>1, <5>1 DEF Below
          <5>2. CASE \E u \in X : Continues(Last(u), t)
            BY <1>6, <5>2 DEF Below
          <5> QED BY <3>2, <5>1, <5>2
        <4>3. t # {} /\ t \subseteq H /\ ~Within(k, t)
          BY <1>2, <1>7, <4>1 DEF Tabled
        <4>4. Below(t, k)
          BY <4>2, <4>3, ContinuesSide
        <4> QED BY <4>1, <4>4
      <3>3. D \subseteq X
        <4> HIDE DEF X
        <4> QED BY <1>1, <3>1, <3>2 DEF Chained
      <3>4. \A t \in Y : Below(t, k)
        BY <2>1 DEF Below
      <3> QED BY <3>3, <3>4
    <2>2. ASSUME Above(UNION Y, k) PROVE \A t \in I : Above(t, k)
      <3> DEFINE X == {t \in D : Above(t, k)}
      <3>1. X \in SUBSET levels[l]
        BY <1>2
      <3>2. ASSUME NEW t \in levels[l], Continues(Last(UNION C), t)
                                        \/ \E u \in X : Continues(Last(u), t)
            PROVE  t \in X
        <4>1. t \in D
          BY <1>1, <3>2 DEF Chained
        <4>2. PICK e : Continues(e, t) /\ k < e.key
          <5>1. CASE Continues(Last(UNION C), t)
            BY <1>5, <2>2, <5>1 DEF Above
          <5>2. CASE \E u \in X : Continues(Last(u), t)
            BY <1>6, <5>2 DEF Above
          <5> QED BY <3>2, <5>1, <5>2
        <4>3. t # {} /\ t \subseteq H /\ ~Within(k, t)
          BY <1>2, <1>7, <4>1 DEF Tabled
        <4>4. Above(t, k)
          BY <4>2, <4>3, ContinuesSide
        <4> QED BY <4>1, <4>4
      <3>3. D \subseteq X
        <4> HIDE DEF X
        <4> QED BY <1>1, <3>1, <3>2 DEF Chained
      <3>4. \A t \in Y : Above(t, k)
        BY <2>2 DEF Above
      <3> QED BY <3>3, <3>4
    <2> QED BY <2>1, <2>2
  <1> HIDE DEF Y, I
  <1>8. Covered(I)
    BY <1>3, <1>7, NoGap
  <1> QED BY <1>3, <1>8

\* Of two tables of a level that share a key, the later one goes on with it.
LEMMA AheadContinues ==
    ASSUME NEW H, Numbered(H), NEW t, t # {}, t \subseteq H, NEW u, u # {}, u \subseteq H,
           Ahead(u, t), NEW e \in t, NEW f \in u, e.key = f.key
    PROVE  Continues(Last(u), t) /\ Last(u).key = e.key
  <1>1. t \subseteq Entries /\ Distinct(t) /\ u \subseteq Entries /\ Distinct(u)
    BY Part
  <1>2. /\ First(t) \in t /\ First(t).key <= e.key
        /\ Last(u) \in u /\ f.key <= Last(u).key
    BY <1>1, FirstOf, LastOf
  <1>3. Precedes(Last(u), First(t))
    BY <1>2 DEF Ahead
  <1>4. Last(u).key <= First(t).key
    BY <1>1, <1>2, <1>3, PrecedesKey
  <1>5. e.key \in Nat /\ f.key \in Nat /\ Last(u).key \in Nat /\ First(t).key \in Nat
    BY <1>1, <1>2, EntryFields
  <1> QED BY <1>2, <1>3, <1>4, <1>5 DEF Continues

\* The tables of level l that are not in J have only newer entries for its keys.
Rest(l, J) == \A t \in levels[l] \ J, u \in J : Newer(t, u)

\* The levels as the invariant has them.
Shelved(H) ==
    /\ Numbered(H)
    /\ \A l \in Levels : Tabled(levels[l], H)
    /\ Apart /\ Deeper

\* Sets that share a key overlap.
LEMMA SharedOverlap ==
    ASSUME NEW H, Numbered(H), NEW S, S \subseteq H, NEW T, T \subseteq H,
           NEW e \in S, NEW f \in T, e.key = f.key
    PROVE  Overlap(S, T)
  <1>1. S \subseteq Entries /\ Distinct(S) /\ T \subseteq Entries /\ Distinct(T)
    BY Part
  <1>2. e.key \in Keys /\ e.key \in Nat
    BY <1>1, EntryFields
  <1>3. Within(e.key, S) /\ Within(e.key, T)
    BY <1>2 DEF Within
  <1> QED BY <1>1, <1>2, <1>3, OverlapWithin

\* Sets that do not overlap have their keys one after the other.
LEMMA NotOverlap ==
    ASSUME NEW H, Numbered(H), NEW S, S # {}, S \subseteq H, NEW T, T # {}, T \subseteq H,
           ~Overlap(S, T)
    PROVE  \/ \A e \in S, f \in T : e.key < f.key
           \/ \A e \in S, f \in T : f.key < e.key
  <1>1. S \subseteq Entries /\ Distinct(S) /\ T \subseteq Entries /\ Distinct(T)
    BY Part
  <1>2. /\ First(S) \in S /\ \A f \in S : First(S).key <= f.key
        /\ Last(S) \in S /\ \A f \in S : f.key <= Last(S).key
        /\ First(T) \in T /\ \A f \in T : First(T).key <= f.key
        /\ Last(T) \in T /\ \A f \in T : f.key <= Last(T).key
    BY <1>1, FirstOf, LastOf
  <1>3. \A e \in S \cup T : e.key \in Nat
    BY <1>1, EntryFields
  <1>4. ~(First(S).key <= Last(T).key) \/ ~(First(T).key <= Last(S).key)
    BY DEF Overlap
  <1>5. CASE ~(First(S).key <= Last(T).key)
    <2>1. ASSUME NEW e \in S, NEW f \in T PROVE f.key < e.key
      <3>1. First(S).key <= e.key /\ f.key <= Last(T).key /\ e.key \in Nat /\ f.key \in Nat
            /\ First(S).key \in Nat /\ Last(T).key \in Nat
        BY <1>2, <1>3
      <3> QED BY <1>5, <3>1
    <2> QED BY <2>1
  <1>6. CASE ~(First(T).key <= Last(S).key)
    <2>1. ASSUME NEW e \in S, NEW f \in T PROVE e.key < f.key
      <3>1. First(T).key <= f.key /\ e.key <= Last(S).key /\ e.key \in Nat /\ f.key \in Nat
            /\ First(T).key \in Nat /\ Last(S).key \in Nat
        BY <1>2, <1>3
      <3> QED BY <1>6, <3>1
    <2> QED BY <2>1
  <1> QED BY <1>4, <1>5, <1>6

\* In level 0 boundary files are found already, and what is left shares no key.
LEMMA RestZero ==
    ASSUME NEW H, Numbered(H), Tabled(levels[0], H), NEW S, S # {}, S \subseteq H,
           NEW G, Reached(0, S, G), G # {}, NEW B, B = AddBoundaryInputs(0, G)
    PROVE  B = G /\ Rest(0, B)
  <1>1. PICK D : B = G \cup D /\ Chained(0, G, D)
    BY BoundaryFacts
  <1> DEFINE R == S \cup UNION G
  <1>2. G \subseteq levels[0] /\ Tabled(G, H) /\ R \subseteq H /\ R # {} /\ UNION G \subseteq R
    BY DEF Reached, Tabled
  <1>3. \A t \in levels[0] : Overlap(t, R) => t \in G
    BY DEF Reached
  <1>4. UNION G # {} /\ UNION G \subseteq Entries /\ Distinct(UNION G)
    BY <1>2, Joined, Part
  <1>5. Last(UNION G) \in R
    BY <1>2, <1>4, LastOf
  <1>6. \A u \in G : Last(u) \in R
    <2>1. \A u \in G : Last(u) \in u
      BY <1>2, Part, LastOf DEF Tabled
    <2> QED BY <2>1
  <1> HIDE DEF R
  <1>7. ASSUME NEW t \in levels[0], NEW e \in R, Continues(e, t) PROVE t \in G
    <2>1. t # {} /\ t \subseteq H /\ t \subseteq Entries /\ Distinct(t)
      BY Part DEF Tabled
    <2>2. First(t) \in t /\ First(t).key = e.key
      BY <1>7, <2>1, FirstOf DEF Continues
    <2>3. Overlap(t, R)
      BY <1>2, <2>1, <2>2, SharedOverlap
    <2> QED BY <1>3, <2>3
  <1>8. D \subseteq G
    <2>1. \A t \in levels[0] : Continues(Last(UNION G), t)
                               \/ (\E u \in G : Continues(Last(u), t)) => t \in G
      BY <1>5, <1>6, <1>7
    <2> QED BY <1>1, <1>2, <2>1 DEF Chained
  <1>9. ASSUME NEW t \in levels[0] \ G, NEW u \in G, NEW e \in t, NEW f \in u, e.key = f.key
        PROVE  FALSE
    <2>1. t \subseteq H /\ f \in R
      BY <1>2 DEF Tabled
    <2>2. Overlap(t, R)
      BY <1>2, <1>9, <2>1, SharedOverlap
    <2> QED BY <1>3, <2>2
  <1>10. B = G
    BY <1>1, <1>8
  <1> QED BY <1>9, <1>10 DEF Rest, Newer

\* Below level 0 boundary files have what is older, if nothing older is left of
\* the keys of the tables before the last one.
LEMMA RestDeep ==
    ASSUME NEW H, Numbered(H), NEW l, Tabled(levels[l], H),
           \A t, u \in levels[l] : t # u => Ahead(t, u) \/ Ahead(u, t),
           NEW C, C \subseteq levels[l],
           \A u \in C, t \in levels[l] \ C :
               Ahead(u, t) /\ Continues(Last(u), t) => Continues(Last(UNION C), t),
           NEW B, B = AddBoundaryInputs(l, C)
    PROVE  Rest(l, B)
  <1>1. PICK D : B = C \cup D /\ Chained(l, C, D)
    BY BoundaryFacts
  <1> SUFFICES ASSUME NEW t \in levels[l] \ B, NEW u \in B, NEW e \in t, NEW f \in u,
                      e.key = f.key
               PROVE  e.seq > f.seq
    BY DEF Rest, Newer
  <1>2. u \in levels[l] /\ t # u
    BY <1>1 DEF Chained
  <1>3. t # {} /\ t \subseteq H /\ u # {} /\ u \subseteq H
    BY <1>2 DEF Tabled
  <1>4. CASE Ahead(t, u)
    <2>1. Precedes(e, f)
      BY <1>4 DEF Ahead
    <2>2. e.key \in Nat
      BY <1>3, Part, EntryFields
    <2> QED BY <2>1, <2>2 DEF Precedes
  <1>5. CASE Ahead(u, t)
    <2>1. Continues(Last(u), t)
      BY <1>3, <1>5, AheadContinues
    <2>2. CASE u \in D
      BY <1>1, <2>1, <2>2 DEF Chained
    <2>3. CASE u \in C
      <3>1. Continues(Last(UNION C), t)
        BY <1>1, <1>5, <2>1, <2>3
      <3> QED BY <1>1, <3>1 DEF Chained
    <2> QED BY <1>1, <2>2, <2>3
  <1> QED BY <1>2, <1>4, <1>5

\* That is so of all tables that overlap S.
LEMMA RestOverlap ==
    ASSUME NEW H, Numbered(H), NEW l, Tabled(levels[l], H),
           \A t, u \in levels[l] : t # u => Ahead(t, u) \/ Ahead(u, t),
           NEW S, S # {}, S \subseteq H,
           NEW C, C \subseteq levels[l], \A t \in levels[l] : t \in C <=> Overlap(t, S),
           NEW u \in C, NEW t \in levels[l] \ C, Ahead(u, t), Continues(Last(u), t)
    PROVE  Continues(Last(UNION C), t)
  <1>1. /\ t # {} /\ t \subseteq H /\ u # {} /\ u \subseteq H
        /\ t \subseteq Entries /\ Distinct(t) /\ u \subseteq Entries /\ Distinct(u)
        /\ S \subseteq Entries
    BY Part DEF Tabled
  <1>2. Tabled(C, H)
    BY DEF Tabled
  <1>3. UNION C # {} /\ UNION C \subseteq Entries /\ Distinct(UNION C)
    BY <1>2, Joined, Part
  <1> DEFINE z == Last(UNION C)
  <1>4. z \in UNION C /\ \A g \in UNION C : g.key <= z.key
    BY <1>3, LastOf
  <1> HIDE DEF z
  <1>5. First(t) \in t /\ Last(u) \in u /\ First(t).key = Last(u).key
    BY <1>1, FirstOf, LastOf DEF Continues
  <1>6. ASSUME NEW g \in S, NEW h \in t PROVE g.key < h.key
    <2>1. ~Overlap(t, S) /\ Overlap(u, S)
      OBVIOUS
    <2>2. (\A a \in t, b \in S : a.key < b.key) \/ (\A a \in t, b \in S : b.key < a.key)
      BY <1>1, <2>1, NotOverlap
    <2>3. ASSUME \A a \in t, b \in S : a.key < b.key PROVE FALSE
      <3>1. PICK j \in Keys : Within(j, u) /\ Within(j, S)
        BY <1>1, <2>1, Part, OverlapWithin
      <3>2. PICK a \in u, b \in S : j <= a.key /\ b.key <= j
        BY <3>1 DEF Within
      <3>3. Precedes(a, First(t))
        BY <1>5 DEF Ahead
      <3>4. a.key <= First(t).key
        BY <1>1, <1>5, <3>3, PrecedesKey
      <3>5. First(t).key < b.key
        BY <1>5, <2>3
      <3>6. a.key \in Nat /\ b.key \in Nat /\ j \in Nat /\ First(t).key \in Nat
        BY <1>1, <1>5, EntryFields, KeysAssumption
      <3> QED BY <3>2, <3>4, <3>5, <3>6
    <2> QED BY <2>2, <2>3
  <1>7. PICK w \in C : z \in w
    BY <1>4
  <1>8. w # {} /\ w \subseteq H /\ w # t /\ w \in levels[l] /\ Overlap(w, S)
        /\ w \subseteq Entries /\ Distinct(w)
    BY <1>2, Part DEF Tabled
  <1>9. Ahead(w, t)
    <2>1. ASSUME Ahead(t, w) PROVE FALSE
      <3>1. PICK j \in Keys : Within(j, w) /\ Within(j, S)
        BY <1>1, <1>8, Part, OverlapWithin
      <3>2. PICK a \in w, b \in S : a.key <= j /\ j <= b.key
        BY <3>1 DEF Within
      <3>3. Precedes(First(t), a)
        BY <1>5, <2>1 DEF Ahead
      <3>4. First(t).key <= a.key
        BY <1>1, <1>5, <1>8, <3>3, PrecedesKey
      <3>5. b.key < First(t).key
        BY <1>5, <1>6
      <3>6. a.key \in Nat /\ b.key \in Nat /\ j \in Nat /\ First(t).key \in Nat
        BY <1>1, <1>5, <1>8, EntryFields, KeysAssumption
      <3> QED BY <3>2, <3>4, <3>5, <3>6
    <2> QED BY <1>8, <2>1
  <1>10. Precedes(z, First(t))
    BY <1>5, <1>7, <1>9 DEF Ahead
  <1>11. z.key <= First(t).key
    BY <1>1, <1>3, <1>4, <1>5, <1>10, PrecedesKey
  <1>12. Last(u).key <= z.key
    BY <1>4, <1>5
  <1>13. z.key \in Nat /\ First(t).key \in Nat
    BY <1>1, <1>3, <1>4, <1>5, EntryFields
  <1>14. Continues(z, t)
    BY <1>5, <1>10, <1>11, <1>12, <1>13 DEF Continues
  <1> QED BY <1>14 DEF z

\* A table is in one level only.
LEMMA OneLevel ==
    ASSUME NEW H, Shelved(H), NEW l \in Levels, NEW m \in Levels, l < m,
           NEW t \in levels[l], t \in levels[m]
    PROVE  FALSE
  <1>1. t # {} /\ t \subseteq Entries
    BY Part DEF Shelved, Tabled
  <1>2. PICK e \in t : TRUE
    BY <1>1
  <1>3. Newer(t, t)
    BY DEF Shelved, Deeper
  <1>4. e.seq \in Nat
    BY <1>1, EntryFields
  <1> QED BY <1>3, <1>4 DEF Newer

\* A table of the next level that does not overlap J is before or behind J and
\* all that does overlap it.
LEMMA AheadOfAll ==
    ASSUME NEW H, Numbered(H), NEW m, Tabled(levels[m], H),
           \A t, u \in levels[m] : t # u => Ahead(t, u) \/ Ahead(u, t),
           NEW J, Tabled(J, H), J # {}, NEW K, K \subseteq levels[m],
           \A t \in levels[m] : t \in K <=> Overlap(t, UNION J),
           NEW t \in levels[m] \ K
    PROVE  Ahead(t, UNION (J \cup K)) \/ Ahead(UNION (J \cup K), t)
  <1> DEFINE R == UNION J
  <1>1. R # {} /\ R \subseteq H /\ R \subseteq Entries /\ Distinct(R)
    BY Joined, Part
  <1>2. t # {} /\ t \subseteq H /\ t \subseteq Entries /\ Distinct(t)
    BY Part DEF Tabled
  <1>3. \A u \in K : /\ u # {} /\ u \subseteq H /\ u \subseteq Entries /\ Distinct(u)
                     /\ Overlap(u, R) /\ u # t
    BY Part DEF Tabled
  <1>4. ~Overlap(t, R)
    OBVIOUS
  <1>5. \A g \in UNION (J \cup K) : g \in R \/ \E u \in K : g \in u
    OBVIOUS
  <1> HIDE DEF R
  <1>6. (\A a \in t, b \in R : a.key < b.key) \/ (\A a \in t, b \in R : b.key < a.key)
    BY <1>1, <1>2, <1>4, NotOverlap
  <1>7. CASE \A a \in t, b \in R : a.key < b.key
    <2>1. ASSUME NEW e \in t, NEW g \in R PROVE Precedes(e, g)
      BY <1>7 DEF Precedes
    <2>2. ASSUME NEW u \in K, Ahead(u, t) PROVE FALSE
      <3>1. PICK j \in Keys : Within(j, u) /\ Within(j, R)
        BY <1>1, <1>3, OverlapWithin
      <3>2. PICK b \in u : j <= b.key
        BY <3>1 DEF Within
      <3>3. PICK c \in R : c.key <= j
        BY <3>1 DEF Within
      <3>4. PICK e \in t : TRUE
        BY <1>2
      <3>5. Precedes(b, e)
        BY <2>2 DEF Ahead
      <3>6. b.key <= e.key
        BY <1>2, <1>3, <3>5, PrecedesKey
      <3>7. e.key < c.key
        BY <1>7
      <3>8. b.key \in Nat /\ c.key \in Nat /\ j \in Nat /\ e.key \in Nat
        BY <1>1, <1>2, <1>3, EntryFields, KeysAssumption
      <3> QED BY <3>2, <3>3, <3>6, <3>7, <3>8
    <2>3. \A u \in K : Ahead(t, u)
      BY <1>3, <2>2
    <2> QED BY <1>5, <2>1, <2>3 DEF Ahead
  <1>8. CASE \A a \in t, b \in R : b.key < a.key
    <2>1. ASSUME NEW e \in t, NEW g \in R PROVE Precedes(g, e)
      BY <1>8 DEF Precedes
    <2>2. ASSUME NEW u \in K, Ahead(t, u) PROVE FALSE
      <3>1. PICK j \in Keys : Within(j, u) /\ Within(j, R)
        BY <1>1, <1>3, OverlapWithin
      <3>2. PICK b \in u : b.key <= j
        BY <3>1 DEF Within
      <3>3. PICK c \in R : j <= c.key
        BY <3>1 DEF Within
      <3>4. PICK e \in t : TRUE
        BY <1>2
      <3>5. Precedes(e, b)
        BY <2>2 DEF Ahead
      <3>6. e.key <= b.key
        BY <1>2, <1>3, <3>5, PrecedesKey
      <3>7. c.key < e.key
        BY <1>8
      <3>8. b.key \in Nat /\ c.key \in Nat /\ j \in Nat /\ e.key \in Nat
        BY <1>1, <1>2, <1>3, EntryFields, KeysAssumption
      <3> QED BY <3>2, <3>3, <3>6, <3>7, <3>8
    <2>3. \A u \in K : Ahead(u, t)
      BY <1>3, <2>2
    <2> QED BY <1>5, <2>1, <2>3 DEF Ahead
  <1> QED BY <1>6, <1>7, <1>8

\* Inputs that can be merged.
LEMMA FromInputs ==
    ASSUME NEW H, Shelved(H), NEW l \in Levels, l + 1 \in Levels,
           NEW J, J \subseteq levels[l], J # {}, Rest(l, J),
           NEW K, K \subseteq levels[l + 1],
           \A t \in levels[l + 1] : t \in K <=> Overlap(t, UNION J), Covered(J \cup K)
    PROVE  Mergeable(l, J \cup K)
  <1> DEFINE I == J \cup K
  <1>1. /\ Numbered(H) /\ Tabled(levels[l], H) /\ Tabled(levels[l + 1], H) /\ Tabled(J, H)
        /\ l \in Nat /\ l < l + 1 /\ l + 1 \in Levels \ {0}
    BY LevelsAssumption DEF Shelved, Tabled, Levels
  <1>2. UNION J # {} /\ UNION J \subseteq H
    BY <1>1, Joined
  <1>3. I \cap levels[l] = J /\ levels[l] \ I = levels[l] \ J
    <2>1. \A u \in K : u \notin levels[l]
      BY <1>1, OneLevel
    <2> QED BY <2>1
  <1>4. levels[l + 1] \ I = levels[l + 1] \ K
    <2>1. \A u \in J : u \notin levels[l + 1]
      BY <1>1, OneLevel
    <2> QED BY <2>1
  <1>5. \A t \in levels[l] \ I, u \in I \cap levels[l] : Newer(t, u)
    BY <1>3 DEF Rest
  <1>6. ASSUME NEW t \in levels[l + 1] \ I
        PROVE  Ahead(t, UNION I) \/ Ahead(UNION I, t)
    <2>1. \A v, u \in levels[l + 1] : v # u => Ahead(v, u) \/ Ahead(u, v)
      BY <1>1 DEF Shelved, Apart
    <2> QED BY <1>1, <1>4, <2>1, AheadOfAll
  <1>7. ASSUME NEW t \in levels[l + 1] \ I, NEW u \in I \cap levels[l]
        PROVE  Disjoint(t, u)
    <2> SUFFICES ASSUME NEW e \in t, NEW f \in u, e.key = f.key PROVE FALSE
      BY DEF Disjoint
    <2>1. f \in UNION J /\ t \subseteq H /\ ~Overlap(t, UNION J)
      BY <1>1, <1>3, <1>4 DEF Tabled
    <2> QED BY <1>1, <1>2, <2>1, SharedOverlap
  <1>8. I # {} /\ I \subseteq levels[l] \cup levels[l + 1] /\ Covered(I)
    OBVIOUS
  <1> HIDE DEF I
  <1>9. Mergeable(l, I)
    BY <1>5, <1>6, <1>7, <1>8 DEF Mergeable
  <1> QED BY <1>9 DEF I

\* Boundary files are in the level.
LEMMA BoundaryIn ==
    ASSUME NEW l, NEW C, C \subseteq levels[l], NEW B, B = AddBoundaryInputs(l, C)
    PROVE  C \subseteq B /\ B \subseteq levels[l]
  <1>1. PICK D : B = C \cup D /\ Chained(l, C, D)
    BY BoundaryFacts
  <1> QED BY <1>1 DEF Chained

\* A level, as the lemmas above want it.
LEMMA LevelFacts ==
    ASSUME NEW H, Shelved(H), NEW l \in Levels
    PROVE  /\ Numbered(H) /\ Tabled(levels[l], H)
           /\ l # 0 => \A t, u \in levels[l] : t # u => Ahead(t, u) \/ Ahead(u, t)
  BY DEF Shelved, Apart

\* The table that is due, in level 0 with all that overlaps it.
LEMMA PickedFacts ==
    ASSUME NEW H, Shelved(H), NEW l \in Levels, NEW t \in levels[l],
           NEW C, C = (IF l = 0 THEN GetOverlappingInputs(0, t) ELSE {t}),
           NEW B, B = AddBoundaryInputs(l, C)
    PROVE  /\ C \subseteq B /\ B \subseteq levels[l] /\ B # {}
           /\ Covered(B) /\ Rest(l, B)
  <1>1. /\ Numbered(H) /\ Tabled(levels[l], H)
        /\ l # 0 => \A v, u \in levels[l] : v # u => Ahead(v, u) \/ Ahead(u, v)
    BY LevelFacts
  <1>2. t # {} /\ t \subseteq H /\ Tabled({t}, H) /\ UNION {t} = t /\ Tabled({}, H)
    BY <1>1 DEF Tabled
  <1>3. Covered({t})
    BY CoveredOne
  <1>4. ASSUME C \subseteq levels[l], C # {}, Covered(C)
        PROVE  C \subseteq B /\ B \subseteq levels[l] /\ B # {} /\ Covered(B)
    <2>1. C \subseteq B /\ B \subseteq levels[l]
      BY <1>4, BoundaryIn
    <2>2. C \cup {} = C /\ B \cup {} = B
      OBVIOUS
    <2>3. Covered(B \cup {})
      BY <1>1, <1>2, <1>4, <2>2, AttachBoundary
    <2> QED BY <1>4, <2>1, <2>2, <2>3
  <1>5. CASE l = 0
    <2>1. C = GetOverlappingInputs(0, t)
      BY <1>5
    <2>2. Reached(0, t, C)
      BY <1>1, <1>2, <1>5, <2>1, GetFacts
    <2>3. Overlap(t, t)
      <3>1. PICK e \in t : TRUE
        BY <1>2
      <3> QED BY <1>1, <1>2, SharedOverlap
    <2>4. t \in C /\ C \subseteq levels[l]
      BY <1>5, <2>2, <2>3 DEF Reached
    <2>5. Covered({t} \cup C)
      BY <1>1, <1>2, <1>3, <1>5, <2>1, AttachGet
    <2>6. {t} \cup C = C
      BY <2>4
    <2>7. Rest(l, B)
      BY <1>1, <1>2, <1>5, <2>2, <2>4, RestZero
    <2> QED BY <1>4, <2>4, <2>5, <2>6, <2>7
  <1>6. CASE l # 0
    <2>1. C = {t}
      BY <1>6
    <2>2. \A u \in C, v \in levels[l] \ C :
              Ahead(u, v) /\ Continues(Last(u), v) => Continues(Last(UNION C), v)
      BY <1>2, <2>1
    <2>3. Rest(l, B)
      BY <1>1, <1>6, <2>1, <2>2, RestDeep
    <2> QED BY <1>3, <1>4, <2>1, <2>3
  <1> QED BY <1>5, <1>6

\* K are the tables of level l + 1 that overlap the tables J of level l.
NextTo(l, H, J, K) ==
    /\ UNION J # {} /\ UNION J \subseteq H /\ Tabled(J, H)
    /\ K \subseteq levels[l + 1] /\ Tabled(K, H)
    /\ \A t \in levels[l + 1] : t \in K <=> Overlap(t, UNION J)

\* GetOverlappingInputs finds them.
LEMMA NextFacts ==
    ASSUME NEW H, Shelved(H), NEW l \in Levels, l + 1 \in Levels,
           NEW J, J \subseteq levels[l], J # {},
           NEW K, K = GetOverlappingInputs(l + 1, UNION J)
    PROVE  NextTo(l, H, J, K)
  <1> DEFINE S == UNION J
  <1>1. Numbered(H) /\ Tabled(levels[l], H) /\ Tabled(levels[l + 1], H) /\ l + 1 # 0
    BY LevelFacts DEF Levels
  <1>2. Tabled(J, H)
    BY <1>1 DEF Tabled
  <1>3. S # {} /\ S \subseteq H
    BY <1>2, Joined
  <1>4. K = GetOverlappingInputs(l + 1, S)
    OBVIOUS
  <1> HIDE DEF S
  <1>5. Reached(l + 1, S, K)
    BY <1>1, <1>3, <1>4, GetFacts
  <1>6. K \subseteq levels[l + 1] /\ \A t \in levels[l + 1] : t \in K <=> Overlap(t, S)
    BY <1>1, <1>5 DEF Reached
  <1>7. Tabled(K, H)
    BY <1>1, <1>6 DEF Tabled
  <1> QED BY <1>2, <1>3, <1>6, <1>7 DEF S, NextTo

\* The inputs that are grown.
LEMMA GrownFacts ==
    ASSUME NEW H, Shelved(H), NEW l \in Levels, l + 1 \in Levels,
           NEW J, J \subseteq levels[l], J # {},
           NEW K, K = GetOverlappingInputs(l + 1, UNION J), Covered(J \cup K),
           NEW S, S = UNION (J \cup K), NEW G, G = GetOverlappingInputs(l, S),
           NEW B, B = AddBoundaryInputs(l, G),
           NEW E, E = GetOverlappingInputs(l + 1, UNION B)
    PROVE  B \subseteq levels[l] /\ B # {} /\ Rest(l, B) /\ Covered(B \cup E)
  <1>1. /\ Numbered(H) /\ Tabled(levels[l], H)
        /\ l # 0 => \A t, u \in levels[l] : t # u => Ahead(t, u) \/ Ahead(u, t)
    BY LevelFacts
  <1>2. /\ UNION J # {} /\ UNION J \subseteq H /\ Tabled(J, H)
        /\ K \subseteq levels[l + 1] /\ Tabled(K, H)
        /\ \A t \in levels[l + 1] : t \in K <=> Overlap(t, UNION J)
    <2>1. NextTo(l, H, J, K)
      BY NextFacts
    <2> QED BY <2>1 DEF NextTo
  <1>3. Tabled(J \cup K, H) /\ J \cup K # {} /\ S \subseteq H /\ S # {} /\ UNION J \subseteq S
    BY <1>2 DEF Tabled
  <1>4. Reached(l, S, G)
    BY <1>1, <1>3, GetFacts
  <1>5. G \subseteq levels[l] /\ J \subseteq G
    <2>1. ASSUME NEW t \in J PROVE Overlap(t, S)
      <3>1. t # {} /\ t \subseteq H /\ t \subseteq S
        BY <1>2, <1>3 DEF Tabled
      <3>2. PICK e \in t : e \in S
        BY <3>1
      <3> QED BY <1>1, <1>3, <3>1, <3>2, SharedOverlap
    <2> QED BY <1>4, <2>1 DEF Reached
  <1>6. Covered((J \cup K) \cup G)
    BY <1>1, <1>3, AttachGet
  <1>7. (J \cup K) \cup G = G \cup K /\ G # {}
    BY <1>5
  <1>8. G \subseteq B /\ B \subseteq levels[l] /\ B # {}
    BY <1>5, <1>7, BoundaryIn
  <1>9. Covered(B \cup K)
    BY <1>1, <1>2, <1>5, <1>6, <1>7, AttachBoundary
  <1>10. /\ UNION B # {} /\ UNION B \subseteq H /\ Tabled(B, H)
         /\ E \subseteq levels[l + 1] /\ Tabled(E, H)
         /\ \A t \in levels[l + 1] : t \in E <=> Overlap(t, UNION B)
    <2>1. NextTo(l, H, B, E)
      BY <1>8, NextFacts
    <2> QED BY <2>1 DEF NextTo
  <1>11. K \subseteq E
    <2> SUFFICES ASSUME NEW u \in K PROVE Overlap(u, UNION B)
      BY <1>2, <1>10
    <2>1. u # {} /\ u \subseteq H /\ Overlap(u, UNION J) /\ UNION J \subseteq UNION B
      BY <1>2, <1>5, <1>8 DEF Tabled
    <2>2. UNION J # {} /\ UNION B \subseteq H
      BY <1>2, <1>10
    <2> DEFINE X == UNION J
               Y == UNION B
    <2>3. Overlap(u, X) /\ X \subseteq Y /\ X # {} /\ Y \subseteq H
      BY <2>1, <2>2
    <2> HIDE DEF X, Y
    <2>4. Overlap(u, Y)
      BY <1>1, <2>1, <2>3, OverlapMono
    <2> QED BY <2>4 DEF Y
  <1>12. Covered((B \cup K) \cup E)
    <2> DEFINE Z == B \cup K
    <2>1. Tabled(Z, H) /\ Z # {} /\ Covered(Z) /\ UNION B \subseteq UNION Z
      BY <1>2, <1>8, <1>9, <1>10 DEF Tabled
    <2> HIDE DEF Z
    <2>2. UNION Z \subseteq H
      BY <2>1, Joined
    <2>3. ASSUME NEW u \in E PROVE Overlap(u, UNION Z)
      <3>1. u # {} /\ u \subseteq H /\ Overlap(u, UNION B)
        BY <1>10 DEF Tabled
      <3> QED BY <1>1, <1>10, <2>1, <2>2, <3>1, OverlapMono
    <2>4. Covered(Z \cup E)
      BY <1>1, <1>10, <2>1, <2>3, Attach
    <2> QED BY <2>4 DEF Z
  <1>13. (B \cup K) \cup E = B \cup E
    BY <1>11
  <1>14. Rest(l, B)
    <2>1. CASE l = 0
      <3>1. Numbered(H) /\ Tabled(levels[0], H) /\ S # {} /\ S \subseteq H
        BY <1>1, <1>3, <2>1
      <3>2. Reached(0, S, G) /\ G # {} /\ B = AddBoundaryInputs(0, G)
        BY <1>4, <1>7, <2>1
      <3>3. Rest(0, B)
        BY <3>1, <3>2, RestZero, Zenon
      <3> QED BY <2>1, <3>3
    <2>2. CASE l # 0
      <3>1. \A t \in levels[l] : t \in G <=> Overlap(t, S)
        BY <1>4, <2>2 DEF Reached
      <3>2. \A u \in G, t \in levels[l] \ G :
                Ahead(u, t) /\ Continues(Last(u), t) => Continues(Last(UNION G), t)
        BY <1>1, <1>3, <1>5, <2>2, <3>1, RestOverlap
      <3> QED BY <1>1, <1>5, <2>2, <3>2, RestDeep
    <2> QED BY <2>1, <2>2
  <1> QED BY <1>8, <1>12, <1>13, <1>14

\* What SetupOtherInputs makes of the table that is due can be merged.
LEMMA InputsMergeable ==
    ASSUME NEW H, Shelved(H), NEW l \in Levels, l + 1 \in Levels, NEW t \in levels[l],
           NEW C, C = (IF l = 0 THEN GetOverlappingInputs(0, t) ELSE {t}),
           NEW in \in SetupOtherInputs(l, C)
    PROVE  /\ in[1] \subseteq levels[l] /\ in[1] # {} /\ in[2] \subseteq levels[l + 1]
           /\ Mergeable(l, in[1] \cup in[2])
  <1> DEFINE in0  == AddBoundaryInputs(l, C)
             in1  == GetOverlappingInputs(l + 1, UNION in0)
             all  == UNION (in0 \cup in1)
             exp0 == AddBoundaryInputs(l, GetOverlappingInputs(l, all))
             exp1 == GetOverlappingInputs(l + 1, UNION exp0)
  <1>1. in = <<in0, in1>> \/ in = <<exp0, exp1>>
    BY DEF SetupOtherInputs
  <1>2. /\ C \subseteq in0 /\ in0 \subseteq levels[l] /\ in0 # {}
        /\ Covered(in0) /\ Rest(l, in0)
    BY PickedFacts
  <1>3. /\ UNION in0 # {} /\ UNION in0 \subseteq H /\ Tabled(in0, H)
        /\ in1 \subseteq levels[l + 1] /\ Tabled(in1, H)
        /\ \A u \in levels[l + 1] : u \in in1 <=> Overlap(u, UNION in0)
    <2> HIDE DEF in0
    <2>1. NextTo(l, H, in0, in1)
      BY <1>2, NextFacts
    <2> HIDE DEF in1
    <2> QED BY <2>1 DEF NextTo
  <1>4. Covered(in0 \cup in1)
    <2>1. Numbered(H) /\ Tabled(levels[l + 1], H)
      BY LevelFacts
    <2> HIDE DEF in0
    <2> QED BY <1>2, <1>3, <2>1, AttachGet
  <1>5. Mergeable(l, in0 \cup in1)
    <2> HIDE DEF in0, in1
    <2> QED BY <1>2, <1>3, <1>4, FromInputs
  <1>6. exp0 \subseteq levels[l] /\ exp0 # {} /\ Rest(l, exp0) /\ Covered(exp0 \cup exp1)
    <2> HIDE DEF in0
    <2> QED BY <1>2, <1>4, GrownFacts
  <1>7. /\ exp1 \subseteq levels[l + 1]
        /\ \A u \in levels[l + 1] : u \in exp1 <=> Overlap(u, UNION exp0)
    <2> HIDE DEF exp0
    <2>1. NextTo(l, H, exp0, exp1)
      BY <1>6, NextFacts
    <2> HIDE DEF exp1
    <2> QED BY <2>1 DEF NextTo
  <1>8. Mergeable(l, exp0 \cup exp1)
    <2> HIDE DEF exp0, exp1
    <2> QED BY <1>6, <1>7, FromInputs
  <1> HIDE DEF in0, in1, exp0, exp1
  <1>9. CASE in = <<in0, in1>>
    <2>1. in[1] = in0 /\ in[2] = in1
      BY <1>9
    <2> QED BY <1>2, <1>3, <1>5, <2>1
  <1>10. CASE in = <<exp0, exp1>>
    <2>1. in[1] = exp0 /\ in[2] = exp1
      BY <1>10
    <2> QED BY <1>6, <1>7, <1>8, <2>1
  <1> QED BY <1>1, <1>9, <1>10

-----------------------------------------------------------------------------
(* The invariant, part by part.                                            *)

\* The levels are as the lemmas above want them.
LEMMA InvShelved ==
    ASSUME IInv
    PROVE  Shelved(history) /\ Numbered(history)
           /\ \A l \in Levels : Tabled(levels[l], history)
  <1>1. history \subseteq Entries /\ Distinct(history)
    BY DEF IInv, TypeOK, Written
  <1>2. \A l \in Levels : Tabled(levels[l], history)
    BY DEF IInv, Written, Tabled
  <1> QED BY <1>1, <1>2 DEF IInv, Shelved, Numbered

\* What is stored.
LEMMA StoredElem ==
    ASSUME NEW e
    PROVE  e \in Stored <=> \/ e \in mem \/ e \in imm
                            \/ \E l \in Levels : \E t \in levels[l] : e \in t
  BY DEF Stored

\* And after a step.
LEMMA StoredNext ==
    ASSUME NEW e
    PROVE  e \in Stored' <=> \/ e \in mem' \/ e \in imm'
                             \/ \E l \in Levels : \E t \in levels'[l] : e \in t
  BY DEF Stored

\* Numbers of the levels.
LEMMA LevelNumbers ==
    /\ 0 \in Levels
    /\ \A l \in Levels : l \in Nat /\ l < NumLevels
    /\ \A l \in Nat : l < NumLevels => l \in Levels
  BY LevelsAssumption DEF Levels

\* The sequence numbers that reads ask for.
LEMMA LiveNumbers ==
    ASSUME IInv
    PROVE  /\ Live \subseteq Nat /\ lastSequence \in Live /\ lastSequence \in Nat
           /\ \A s \in Live : s <= lastSequence
  <1>1. lastSequence \in Nat /\ \A s \in snapshots : s \in Nat /\ s <= lastSequence
    BY BoundsAssumption DEF IInv, TypeOK, Written
  <1> QED BY <1>1 DEF Live

\* What the newest entry is.
LEMMA NewestElem ==
    ASSUME NEW S, NEW k, NEW s, NEW e
    PROVE  e \in Newest(S, k, s) <=>
               /\ e \in S /\ e.key = k /\ e.seq <= s
               /\ \A f \in S : f.key = k /\ f.seq <= s => f.seq <= e.seq
  BY DEF Newest

\* Merging, for a step that leaves the levels and the merge alone.
LEMMA SameMerging ==
    ASSUME Merging, UNCHANGED <<levels, compaction>>,
           compaction # NoMerge => \A s \in Live' : compaction.smallest <= s
    PROVE  Merging'
  <1>1. \A l, I : Mergeable(l, I)' <=> Mergeable(l, I)
    BY DEF Mergeable
  <1> QED BY <1>1 DEF Merging

\* The order of the levels, for a step that leaves them alone.
LEMMA SameLevels ==
    ASSUME ZeroOrdered, Apart, Deeper, Whole, UNCHANGED <<levels, split>>
    PROVE  ZeroOrdered' /\ Apart' /\ Deeper' /\ Whole'
  BY DEF ZeroOrdered, Apart, Deeper, Whole

\* Answered, for a step that changes only where entries are stored.
LEMMA SameAnswers ==
    ASSUME Answered, Stored' = Stored, Live' \subseteq Live, UNCHANGED <<history, split>>
    PROVE  Answered'
  BY DEF Answered, Newest

-----------------------------------------------------------------------------
(* Callers.                                                                *)

\* The invariant holds of a new database.
LEMMA InitIInv == Init => IInv
  <1> SUFFICES ASSUME Init PROVE IInv
    OBVIOUS
  <1>1. /\ mem = {} /\ imm = {} /\ levels = [l \in Levels |-> {}] /\ lastSequence = 0
        /\ snapshots = {} /\ compaction = NoMerge /\ history = {} /\ split = FALSE
    BY DEF Init
  <1>2. \A l \in Levels : levels[l] = {}
    BY <1>1
  <1>3. TypeOK
    <2>1. compaction.level = 0 /\ compaction.inputs = {} /\ compaction.smallest = 0
      BY <1>1 DEF NoMerge
    <2>2. 0 \in 0..MaxWrites /\ 0 \in Levels
      BY BoundsAssumption, LevelNumbers
    <2>3. DOMAIN levels = Levels
      BY <1>1
    <2>4. UNION compaction.inputs \subseteq Entries
      BY <2>1
    <2> QED BY <1>1, <1>2, <2>1, <2>2, <2>3, <2>4 DEF TypeOK
  <1>4. Written /\ Layered
    BY <1>1, <1>2 DEF Written, Layered, Distinct
  <1>5. ZeroOrdered /\ Apart /\ Deeper /\ Whole
    BY <1>2, LevelNumbers DEF ZeroOrdered, Apart, Deeper, Whole
  <1>6. Merging /\ Answered
    BY <1>1 DEF Merging, Answered, Newest
  <1> QED BY <1>3, <1>4, <1>5, <1>6 DEF IInv

\* A write.
LEMMA StepWrite ==
    ASSUME IInv, NEW k \in Keys, NEW deleted \in BOOLEAN, Write(k, deleted)
    PROVE  IInv'
  <1> DEFINE e == [key |-> k, seq |-> lastSequence + 1, deleted |-> deleted]
  <1>1. /\ lastSequence < MaxWrites /\ lastSequence' = lastSequence + 1
        /\ mem' = mem \cup {e} /\ history' = history \cup {e}
        /\ UNCHANGED <<imm, levels, snapshots, compaction, split>>
    BY DEF Write
  <1>2. e.key = k /\ e.seq = lastSequence + 1 /\ e.deleted = deleted
    OBVIOUS
  <1>3. lastSequence \in Nat /\ MaxWrites \in Nat /\ lastSequence + 1 \in 1..MaxWrites
        /\ lastSequence + 1 \in 0..MaxWrites
    BY <1>1, BoundsAssumption, LiveNumbers
  <1>4. e \in Entries
    BY <1>3 DEF Entries
  <1>5. \A f \in history : f.seq \in Nat /\ f.seq <= lastSequence
    BY EntryFields DEF IInv, TypeOK, Written
  <1> HIDE DEF e
  <1>6. TypeOK'
    BY <1>1, <1>3, <1>4 DEF IInv, TypeOK
  <1>7. \A f \in history : f.seq # e.seq /\ f.seq < e.seq
    BY <1>2, <1>3, <1>5
  <1>8. Written'
    <2>1. Distinct(history')
      BY <1>1, <1>7 DEF Distinct, IInv, Written
    <2>2. \A f \in history' : f.seq <= lastSequence'
      BY <1>1, <1>2, <1>3, <1>5
    <2>3. \A s \in snapshots' : s <= lastSequence'
      <3>1. \A s \in snapshots : s \in Nat /\ s <= lastSequence
        BY LiveNumbers DEF Live
      <3> QED BY <1>1, <1>3, <3>1
    <2> QED BY <1>1, <2>1, <2>2, <2>3 DEF IInv, Written
  <1>9. Layered'
    <2>1. \A f \in imm : e.seq > f.seq
      BY <1>2, <1>3, <1>5 DEF IInv, Written
    <2>2. \A l \in Levels : \A t \in levels[l] : \A f \in t : e.seq > f.seq
      BY <1>2, <1>3, <1>5 DEF IInv, Written
    <2> QED BY <1>1, <2>1, <2>2 DEF IInv, Layered
  <1>10. ZeroOrdered' /\ Apart' /\ Deeper' /\ Whole'
    BY <1>1, SameLevels DEF IInv
  <1>11. Merging'
    <2>1. ASSUME compaction # NoMerge, NEW s \in Live' PROVE compaction.smallest <= s
      <3>1. \A r \in Live : compaction.smallest <= r
        BY <2>1 DEF IInv, Merging
      <3>2. s \in Live \/ s = lastSequence + 1
        BY <1>1, <2>1 DEF Live
      <3>3. compaction.smallest \in Nat
        BY BoundsAssumption DEF IInv, TypeOK
      <3>4. compaction.smallest <= lastSequence
        BY <3>1, LiveNumbers
      <3> QED BY <1>3, <3>1, <3>2, <3>3, <3>4
    <2> QED BY <1>1, <2>1, SameMerging DEF IInv
  <1>12. Answered'
    <2> SUFFICES ASSUME NEW j \in Keys, NEW s \in Live', NEW g \in Newest(history', j, s)
                 PROVE  \/ g \in Stored'
                        \/ g.deleted /\ (split' \/ \A f \in Stored' : f.key = j => f.seq > g.seq)
      BY DEF Answered
    <2>1. /\ g \in history' /\ g.key = j /\ g.seq <= s
          /\ \A f \in history' : f.key = j /\ f.seq <= s => f.seq <= g.seq
      BY NewestElem
    <2>2. \A f : f \in Stored' <=> f \in Stored \/ f = e
      BY <1>1, StoredElem, StoredNext
    <2>3. CASE g = e
      BY <2>2, <2>3
    <2>4. CASE g # e
      <3>1. g \in history /\ g.seq \in Nat /\ g.seq <= lastSequence
        BY <1>1, <1>5, <2>1, <2>4
      <3>2. PICK r \in Live : r <= s /\ g.seq <= r
        <4>1. CASE s \in snapshots
          <5>1. s \in Nat /\ s \in Live
            BY <4>1, LiveNumbers DEF Live
          <5> QED BY <2>1, <5>1
        <4>2. CASE s = lastSequence + 1
          BY <1>3, <3>1, <4>2, LiveNumbers
        <4> QED BY <1>1, <4>1, <4>2 DEF Live
      <3>3. r \in Nat /\ s \in Nat
        BY <1>1, <1>3, LiveNumbers DEF Live
      <3>4. g \in Newest(history, j, r)
        <4>1. ASSUME NEW f \in history, f.key = j, f.seq <= r PROVE f.seq <= g.seq
          <5>1. f.seq <= s /\ f \in history'
            BY <1>1, <1>5, <3>2, <3>3, <4>1
          <5> QED BY <2>1, <4>1, <5>1
        <4> QED BY <2>1, <3>1, <3>2, <4>1, NewestElem
      <3>5. \/ g \in Stored
            \/ g.deleted /\ (split \/ \A f \in Stored : f.key = j => f.seq > g.seq)
        BY <3>4 DEF IInv, Answered
      <3>6. e.seq > g.seq
        BY <1>2, <1>3, <3>1
      <3> QED BY <1>1, <2>2, <3>5, <3>6
    <2> QED BY <2>3, <2>4
  <1> QED BY <1>6, <1>8, <1>9, <1>10, <1>11, <1>12 DEF IInv

\* mem_ becomes imm_.
LEMMA StepSwitch ==
    ASSUME IInv, SwitchMemTable
    PROVE  IInv'
  <1>1. /\ imm = {} /\ imm' = mem /\ mem' = {}
        /\ UNCHANGED <<levels, lastSequence, snapshots, compaction, history, split>>
    BY DEF SwitchMemTable
  <1>2. TypeOK' /\ Written' /\ Layered'
    BY <1>1 DEF IInv, TypeOK, Written, Layered
  <1>3. ZeroOrdered' /\ Apart' /\ Deeper' /\ Whole'
    BY <1>1, SameLevels DEF IInv
  <1>4. Live' = Live
    BY <1>1 DEF Live
  <1>5. Merging'
    BY <1>1, <1>4, SameMerging DEF IInv, Merging
  <1>6. Stored' = Stored
    <2>1. \A e : e \in Stored' <=> e \in Stored
      BY <1>1, StoredElem, StoredNext
    <2> QED BY <2>1
  <1>7. Answered'
    BY <1>1, <1>4, <1>6, SameAnswers DEF IInv
  <1> QED BY <1>2, <1>3, <1>5, <1>7 DEF IInv

\* A snapshot is taken or released.
LEMMA StepSnapshot ==
    ASSUME IInv, GetSnapshot \/ \E s \in snapshots : ReleaseSnapshot(s)
    PROVE  IInv'
  <1>1. /\ UNCHANGED <<mem, imm, levels, lastSequence, compaction, history, split>>
        /\ Live' \subseteq Live /\ snapshots' \subseteq Live
    <2>2. CASE GetSnapshot
      BY <2>2 DEF GetSnapshot, Live
    <2>3. CASE \E s \in snapshots : ReleaseSnapshot(s)
      BY <2>3 DEF ReleaseSnapshot, Live
    <2> QED BY <2>2, <2>3
  <1>2. \A s \in snapshots' : s \in 0..MaxWrites /\ s <= lastSequence
    <2>1. \A s \in Live : s \in 0..MaxWrites /\ s <= lastSequence
      BY LiveNumbers DEF IInv, TypeOK, Live
    <2> QED BY <1>1, <2>1
  <1>3. TypeOK' /\ Written' /\ Layered'
    BY <1>1, <1>2 DEF IInv, TypeOK, Written, Layered
  <1>4. ZeroOrdered' /\ Apart' /\ Deeper' /\ Whole'
    BY <1>1, SameLevels DEF IInv
  <1>5. Merging'
    BY <1>1, SameMerging DEF IInv, Merging
  <1>6. Stored' = Stored
    BY <1>1 DEF Stored
  <1>7. Answered'
    BY <1>1, <1>6, SameAnswers DEF IInv
  <1> QED BY <1>3, <1>4, <1>5, <1>7 DEF IInv


-----------------------------------------------------------------------------
(* A memtable is flushed.                                                  *)

\* Where it goes below level 0, nothing from level 0 on overlaps it.
LEMMA PickedLevel ==
    ASSUME NEW S, NEW l \in PickLevelForMemTableOutput(S)
    PROVE  l \in Levels /\ (l # 0 => \A m \in Levels : m <= l => ~OverlapInLevel(m, S))
  <1>1. CASE OverlapInLevel(0, S)
    BY <1>1, LevelNumbers DEF PickLevelForMemTableOutput
  <1>2. CASE ~OverlapInLevel(0, S)
    <2>1. l \in 0..MaxMemCompactLevel /\ \A m \in 1..l : ~OverlapInLevel(m, S)
      BY <1>2 DEF PickLevelForMemTableOutput
    <2>2. l \in Nat /\ l < NumLevels
      BY <2>1, LevelsAssumption
    <2>3. ASSUME NEW m \in Levels, m <= l PROVE ~OverlapInLevel(m, S)
      <3>1. m \in Nat
        BY LevelNumbers
      <3>2. m = 0 \/ m \in 1..l
        BY <2>2, <2>3, <3>1
      <3> QED BY <1>2, <2>1, <3>2
    <2> QED BY <2>2, <2>3, LevelNumbers
  <1> QED BY <1>1, <1>2

\* What does not overlap a table has other keys and is before or behind it.
LEMMA OverlapsNot ==
    ASSUME NEW H, Numbered(H), NEW S, S # {}, S \subseteq H, NEW T, T # {}, T \subseteq H,
           ~Overlap(T, S)
    PROVE  /\ Disjoint(S, T) /\ Disjoint(T, S)
           /\ Ahead(S, T) \/ Ahead(T, S)
  <1>1. \A e \in S \cup T : e.key \in Nat
    BY EntryFields DEF Numbered
  <1>2. \/ \A e \in T, f \in S : e.key < f.key
        \/ \A e \in T, f \in S : f.key < e.key
    BY NotOverlap
  <1> QED BY <1>1, <1>2 DEF Disjoint, Ahead, Precedes

\* What overlaps none of the tables I does not fit between them.
LEMMA OverlapsNone ==
    ASSUME NEW H, Numbered(H), NEW I, Tabled(I, H), I # {}, Covered(I),
           NEW S, S # {}, S \subseteq H, \A t \in I : ~Overlap(t, S)
    PROVE  ~Overlap(UNION I, S)
  <1>1. UNION I \subseteq H /\ UNION I # {}
    BY Joined
  <1>2. UNION I \subseteq Entries /\ Distinct(UNION I) /\ S \subseteq Entries /\ Distinct(S)
    BY <1>1, Part
  <1> SUFFICES ASSUME Overlap(UNION I, S) PROVE FALSE
    OBVIOUS
  <1>3. PICK k \in Keys : Within(k, UNION I) /\ Within(k, S)
    BY <1>1, <1>2, OverlapWithin
  <1>4. PICK t \in I : Within(k, t)
    BY <1>3 DEF Covered
  <1>5. t # {} /\ t \subseteq H /\ t \subseteq Entries /\ Distinct(t)
    BY Part DEF Tabled
  <1>6. Overlap(t, S)
    BY <1>2, <1>3, <1>4, <1>5, OverlapWithin
  <1> QED BY <1>6

\* imm_ becomes a table.
LEMMA StepFlush ==
    ASSUME IInv, CompactMemTable
    PROVE  IInv'
  <1>1. PICK l \in PickLevelForMemTableOutput(imm) : levels' = [levels EXCEPT ![l] = @ \cup {imm}]
    BY DEF CompactMemTable
  <1>2. /\ imm # {} /\ imm' = {}
        /\ UNCHANGED <<mem, lastSequence, snapshots, compaction, history, split>>
    BY DEF CompactMemTable
  <1>3. l \in Levels /\ (l # 0 => \A m \in Levels : m <= l => ~OverlapInLevel(m, imm))
    BY PickedLevel
  <1>4. /\ DOMAIN levels = Levels /\ DOMAIN levels' = Levels
        /\ \A m \in Levels : levels'[m] = IF m = l THEN levels[m] \cup {imm} ELSE levels[m]
    BY <1>1, <1>3 DEF IInv, TypeOK
  <1>5. Numbered(history) /\ \A m \in Levels : Tabled(levels[m], history)
    BY InvShelved
  <1>6. imm \subseteq history /\ imm \subseteq Entries
    BY DEF IInv, Written, TypeOK
  <1>7. \A m \in Levels : \A t \in levels[m] : \A e \in imm, f \in t : e.seq > f.seq
    BY DEF IInv, Layered
  <1>8. \A e \in history : e.seq \in Nat
    BY <1>5, EntryFields DEF Numbered
  <1>9. \A m \in Levels : imm \notin levels[m]
    BY <1>2, <1>6, <1>7, <1>8
  <1>10. \A m \in Levels : \A t \in levels[m] : Newer(imm, t)
    BY <1>7 DEF Newer
  <1>11. l # 0 => \A m \in Levels : m <= l => \A t \in levels[m] : ~Overlap(t, imm)
    BY <1>3 DEF OverlapInLevel
  <1>12. ASSUME l # 0, NEW m \in Levels, m <= l, NEW t \in levels[m]
         PROVE  /\ Disjoint(imm, t) /\ Disjoint(t, imm)
                /\ Ahead(imm, t) \/ Ahead(t, imm)
    <2>1. t # {} /\ t \subseteq history /\ ~Overlap(t, imm)
      BY <1>5, <1>11, <1>12 DEF Tabled
    <2> QED BY <1>2, <1>5, <1>6, <2>1, OverlapsNot
  <1>13. TypeOK'
    BY <1>2, <1>4, <1>6 DEF IInv, TypeOK
  <1>14. Written' /\ Layered'
    BY <1>2, <1>4, <1>6 DEF IInv, Written, Layered
  <1>15. l \in Nat
    BY <1>3, LevelNumbers
  <1>16. ZeroOrdered'
    <2>1. CASE l = 0
      <3>1. levels'[0] = levels[0] \cup {imm}
        BY <1>3, <1>4, <2>1
      <3>2. \A t \in levels[0] : \A e \in imm, f \in t : f.seq < e.seq
        BY <1>3, <1>5, <1>6, <1>7, <1>8, <2>1 DEF Tabled
      <3> QED BY <3>1, <3>2 DEF IInv, ZeroOrdered
    <2>2. CASE l # 0
      <3>1. levels'[0] = levels[0]
        BY <1>4, <2>2, LevelNumbers
      <3> QED BY <3>1 DEF IInv, ZeroOrdered
    <2> QED BY <2>1, <2>2
  <1>17. Apart'
    <2> SUFFICES ASSUME NEW m \in Levels \ {0}, NEW t \in levels'[m], NEW u \in levels'[m], t # u
                 PROVE  Ahead(t, u) \/ Ahead(u, t)
      BY DEF Apart
    <2>1. \A v, w \in levels[m] : v # w => Ahead(v, w) \/ Ahead(w, v)
      BY DEF IInv, Apart
    <2>2. CASE m = l
      <3>1. \A v \in levels[m] : Ahead(imm, v) \/ Ahead(v, imm)
        BY <1>12, <1>15, <2>2
      <3> QED BY <1>4, <2>1, <2>2, <3>1
    <2>3. CASE m # l
      BY <1>4, <2>1, <2>3
    <2> QED BY <2>2, <2>3
  <1>18. Whole'
    <2> SUFFICES ASSUME ~split, NEW m \in Levels \ {0},
                        NEW t \in levels'[m], NEW u \in levels'[m], t # u
                 PROVE  Disjoint(t, u)
      BY <1>2 DEF Whole
    <2>1. \A v, w \in levels[m] : v # w => Disjoint(v, w)
      BY DEF IInv, Whole
    <2>2. CASE m = l
      <3>1. \A v \in levels[m] : Disjoint(imm, v) /\ Disjoint(v, imm)
        BY <1>12, <1>15, <2>2
      <3> QED BY <1>4, <2>1, <2>2, <3>1
    <2>3. CASE m # l
      BY <1>4, <2>1, <2>3
    <2> QED BY <2>2, <2>3
  <1>19. Deeper'
    <2> SUFFICES ASSUME NEW i \in Levels, NEW m \in Levels, i < m,
                        NEW t \in levels'[i], NEW u \in levels'[m]
                 PROVE  Newer(t, u)
      BY DEF Deeper
    <2>1. i \in Nat /\ m \in Nat
      BY LevelNumbers
    <2>2. CASE t \in levels[i] /\ u \in levels[m]
      BY <2>2 DEF IInv, Deeper
    <2>3. CASE t = imm /\ u \in levels[m]
      BY <1>10, <2>3
    <2>4. CASE t \in levels[i] /\ u = imm /\ m = l
      <3>1. l # 0 /\ i <= l
        BY <2>1, <2>4
      <3>2. Disjoint(t, imm)
        BY <1>12, <2>4, <3>1
      <3> QED BY <2>4, <3>2 DEF Disjoint, Newer
    <2> QED BY <1>4, <2>1, <2>2, <2>3, <2>4
  <1>20. Merging'
    <2> SUFFICES ASSUME compaction # NoMerge PROVE Merging'
      BY <1>2 DEF Merging
    <2> DEFINE c == compaction.level
               I == compaction.inputs
    <2>1. /\ Mergeable(c, I) /\ \A s \in Live : compaction.smallest <= s
          /\ \A m \in Levels : m >= c + 2 =>
                 \A t \in levels[m] : t \in compaction.base[m] \/ Disjoint(t, UNION I)
      BY DEF IInv, Merging
    <2>2. Live' = Live
      BY <1>2 DEF Live
    <2> HIDE DEF c, I
    <2>3. /\ c \in Levels /\ c + 1 \in Levels /\ c \in Nat
          /\ I # {} /\ I \subseteq levels[c] \cup levels[c + 1] /\ Covered(I)
      BY <2>1, LevelNumbers DEF Mergeable
    <2>4. Tabled(I, history) /\ imm \notin I
      BY <1>5, <1>9, <2>3 DEF Tabled
    <2>5. I \cap levels'[c] = I \cap levels[c]
      BY <1>4, <2>3, <2>4
    <2>6. ASSUME l >= c + 1 PROVE \A t \in I : ~Overlap(t, imm) /\ Disjoint(imm, t)
      <3>1. l # 0 /\ c <= l /\ c + 1 <= l
        BY <1>15, <2>3, <2>6
      <3> QED BY <1>11, <1>12, <2>3, <3>1
    <2>7. ASSUME l >= c + 1
          PROVE  Disjoint(imm, UNION I) /\ (Ahead(imm, UNION I) \/ Ahead(UNION I, imm))
      <3>1. ~Overlap(UNION I, imm)
        BY <1>2, <1>5, <1>6, <2>3, <2>4, <2>6, <2>7, OverlapsNone
      <3>2. UNION I # {} /\ UNION I \subseteq history
        BY <2>3, <2>4, Joined
      <3> QED BY <1>2, <1>5, <1>6, <3>1, <3>2, OverlapsNot
    <2>8. Mergeable(c, I)'
      <3>1. ASSUME NEW t \in levels'[c] \ I, NEW u \in I \cap levels'[c] PROVE Newer(t, u)
        <4>1. u \in I \cap levels[c]
          BY <2>5
        <4>2. CASE t \in levels[c]
          BY <2>1, <4>1, <4>2 DEF Mergeable
        <4>3. CASE t = imm
          BY <1>10, <2>3, <4>1, <4>3
        <4> QED BY <1>4, <2>3, <4>2, <4>3
      <3>2. ASSUME NEW t \in levels'[c + 1] \ I
            PROVE  /\ Ahead(t, UNION I) \/ Ahead(UNION I, t)
                   /\ \A u \in I \cap levels'[c] : Disjoint(t, u)
        <4>1. CASE t \in levels[c + 1]
          BY <2>1, <2>5, <4>1 DEF Mergeable
        <4>2. CASE t = imm /\ l = c + 1
          <5>1. l >= c + 1
            BY <1>15, <4>2
          <5> QED BY <2>6, <2>7, <4>2, <5>1
        <4> QED BY <1>4, <2>3, <4>1, <4>2
      <3>3. I \subseteq levels'[c] \cup levels'[c + 1]
        BY <1>4, <2>3
      <3>4. c' = c /\ I' = I
        BY <1>2 DEF c, I
      <3> QED BY <2>3, <3>1, <3>2, <3>3, <3>4 DEF Mergeable
    <2>9. ASSUME NEW m \in Levels, m >= c + 2, NEW t \in levels'[m]
          PROVE  t \in compaction.base[m] \/ Disjoint(t, UNION I)
      <3>1. CASE t \in levels[m]
        BY <2>1, <2>9, <3>1
      <3>2. CASE t = imm /\ l = m
        <4>1. l >= c + 1
          BY <1>15, <2>3, <2>9, <3>2
        <4> QED BY <2>7, <3>2, <4>1
      <3> QED BY <1>4, <3>1, <3>2
    <2> QED BY <1>2, <2>1, <2>2, <2>8, <2>9 DEF Merging, c, I
  <1>21. Stored' = Stored
    <2>1. \A e : e \in Stored' <=> e \in Stored
      BY <1>2, <1>3, <1>4, StoredElem, StoredNext
    <2> QED BY <2>1
  <1>22. Live' = Live
    BY <1>2 DEF Live
  <1>23. Answered'
    BY <1>2, <1>21, <1>22, SameAnswers DEF IInv
  <1> QED BY <1>13, <1>14, <1>16, <1>17, <1>18, <1>19, <1>20, <1>23 DEF IInv

-----------------------------------------------------------------------------
(* Tables are replaced.                                                    *)

\* The tables I of the levels l and l + 1 make way for the tables out of level
\* l + 1, which have entries of theirs only.
LEMMA Replace ==
    ASSUME IInv, NEW l \in Levels, NEW I, Mergeable(l, I),
           NEW out, \A t \in out : t # {} /\ t \subseteq UNION I,
           \A t, u \in out : t # u => Ahead(t, u) \/ Ahead(u, t),
           ~split' => ~split /\ \A t, u \in out : t # u => Disjoint(t, u),
           levels' = [levels EXCEPT ![l] = @ \ I, ![l + 1] = (@ \ I) \cup out],
           UNCHANGED <<mem, imm, lastSequence, snapshots, history>>
    PROVE  /\ DOMAIN levels' = Levels
           /\ Written' /\ Layered' /\ ZeroOrdered' /\ Apart' /\ Deeper' /\ Whole'
  <1>1. l + 1 \in Levels /\ l \in Nat /\ I \subseteq levels[l] \cup levels[l + 1]
    BY LevelNumbers DEF Mergeable
  <1>2. /\ DOMAIN levels = Levels /\ DOMAIN levels' = Levels
        /\ \A m \in Levels : levels'[m] = IF m = l THEN levels[m] \ I
                                          ELSE IF m = l + 1 THEN (levels[m] \ I) \cup out
                                          ELSE levels[m]
    <2>1. DOMAIN levels = Levels
      BY DEF IInv, TypeOK
    <2>2. l # l + 1
      BY <1>1
    <2>3. DOMAIN levels' = Levels
      BY <2>1
    <2>4. levels'[l] = levels[l] \ I
      BY <1>1, <2>1, <2>2
    <2>5. levels'[l + 1] = (levels[l + 1] \ I) \cup out
      BY <1>1, <2>1, <2>2
    <2>6. \A m \in Levels : m # l /\ m # l + 1 => levels'[m] = levels[m]
      BY <2>1
    <2> QED BY <1>1, <2>1, <2>2, <2>3, <2>4, <2>5, <2>6
  <1>3. \A m \in Levels : \A t \in levels'[m] :
            \/ t \in levels[m]
            \/ m = l + 1 /\ t \in out
    BY <1>2
  <1>4. \A m \in Levels : \A t \in levels'[m] : (m = l \/ m = l + 1) /\ t \in levels[m] =>
            t \notin I \/ t \in out
    BY <1>1, <1>2
  <1>5. ASSUME NEW t \in out, NEW e \in t
        PROVE  \E i \in Levels : (i = l \/ i = l + 1) /\ \E v \in levels[i] : v \in I /\ e \in v
    <2>1. PICK v \in I : e \in v
      BY <1>5
    <2> QED BY <1>1, <2>1
  <1>6. \A m \in Levels : \A t \in levels'[m] : t # {} /\ t \subseteq history
    <2>1. \A m \in Levels : \A t \in levels[m] : t # {} /\ t \subseteq history
      BY DEF IInv, Written
    <2>2. \A t \in out : t # {} /\ t \subseteq history
      BY <1>5, <2>1
    <2> QED BY <1>3, <2>1, <2>2
  <1>7. Written'
    BY <1>6 DEF IInv, Written
  <1>8. Layered'
    <2>1. \A m \in Levels : \A t \in levels[m] : \A e \in mem \cup imm, f \in t : e.seq > f.seq
      BY DEF IInv, Layered
    <2>2. \A t \in out : \A e \in mem \cup imm, f \in t : e.seq > f.seq
      BY <1>5, <2>1
    <2> QED BY <1>3, <2>1, <2>2 DEF IInv, Layered
  <1>9. ZeroOrdered'
    <2>1. levels'[0] \subseteq levels[0]
      BY <1>1, <1>2, LevelNumbers
    <2> QED BY <2>1 DEF IInv, ZeroOrdered
  <1>10. ASSUME NEW t \in levels[l + 1], t \notin I, NEW u \in out
         PROVE  Ahead(t, u) \/ Ahead(u, t)
    <2>1. Ahead(t, UNION I) \/ Ahead(UNION I, t)
      BY <1>10 DEF Mergeable
    <2> QED BY <2>1 DEF Ahead
  <1>11. Apart'
    <2> SUFFICES ASSUME NEW m \in Levels \ {0}, NEW t \in levels'[m], NEW u \in levels'[m], t # u
                 PROVE  Ahead(t, u) \/ Ahead(u, t)
      BY DEF Apart
    <2>1. CASE t \in levels[m] /\ u \in levels[m]
      BY <2>1 DEF IInv, Apart
    <2>2. CASE m = l + 1 /\ t \in out /\ u \in out
      BY <2>2
    <2>3. CASE m = l + 1 /\ t \notin out /\ u \in out
      BY <1>3, <1>4, <1>10, <2>3
    <2>4. CASE m = l + 1 /\ t \in out /\ u \notin out
      BY <1>3, <1>4, <1>10, <2>4
    <2> QED BY <1>3, <2>1, <2>2, <2>3, <2>4
  <1>12. Deeper'
    <2> SUFFICES ASSUME NEW i \in Levels, NEW m \in Levels, i < m,
                        NEW t \in levels'[i], NEW u \in levels'[m]
                 PROVE  Newer(t, u)
      BY DEF Deeper
    <2>1. i \in Nat /\ m \in Nat
      BY LevelNumbers
    <2>2. \A a, b \in Levels : a < b => \A v \in levels[a], w \in levels[b] : Newer(v, w)
      BY DEF IInv, Deeper
    <2>3. CASE t \in levels[i] /\ u \in levels[m]
      BY <2>2, <2>3
    <2>4. CASE t \in levels[i] /\ m = l + 1 /\ u \in out
      <3> SUFFICES ASSUME NEW e \in t, NEW f \in u, e.key = f.key PROVE e.seq > f.seq
        BY DEF Newer
      <3>1. PICK j \in Levels : (j = l \/ j = l + 1) /\ \E v \in levels[j] : v \in I /\ f \in v
        BY <1>5, <2>4
      <3>2. PICK v \in levels[j] : v \in I /\ f \in v
        BY <3>1
      <3>3. CASE i < j
        BY <2>2, <2>4, <3>2, <3>3 DEF Newer
      <3>4. CASE ~(i < j)
        <4>1. i = l /\ j = l
          BY <1>1, <2>1, <2>4, <3>1, <3>4
        <4>2. t \in levels[l] \ I
          BY <1>2, <4>1
        <4>3. Newer(t, v)
          BY <3>2, <4>1, <4>2 DEF Mergeable
        <4> QED BY <3>2, <4>3 DEF Newer
      <3> QED BY <3>3, <3>4
    <2>5. CASE i = l + 1 /\ t \in out /\ u \in levels[m]
      <3> SUFFICES ASSUME NEW e \in t, NEW f \in u, e.key = f.key PROVE e.seq > f.seq
        BY DEF Newer
      <3>1. PICK j \in Levels : (j = l \/ j = l + 1) /\ \E v \in levels[j] : v \in I /\ e \in v
        BY <1>5, <2>5
      <3>2. j < m
        BY <1>1, <2>1, <2>5, <3>1
      <3> QED BY <2>2, <2>5, <3>1, <3>2 DEF Newer
    <2>6. t \in levels[i] \/ (i = l + 1 /\ t \in out)
      BY <1>3
    <2>7. u \in levels[m] \/ (m = l + 1 /\ u \in out)
      BY <1>3
    <2>8. ~(i = l + 1 /\ m = l + 1)
      BY <1>1, <2>1
    <2> QED BY <2>3, <2>4, <2>5, <2>6, <2>7, <2>8
  <1>13. ASSUME ~split', NEW t \in levels[l + 1], t \notin I, NEW u \in out
         PROVE  Disjoint(t, u) /\ Disjoint(u, t)
    <2>1. ASSUME NEW f \in u, NEW e \in t PROVE e.key # f.key
      <3>1. PICK j \in Levels : (j = l \/ j = l + 1) /\ \E v \in levels[j] : v \in I /\ f \in v
        BY <1>5
      <3>2. PICK v \in levels[j] : v \in I /\ f \in v
        BY <3>1
      <3>3. CASE j = l
        BY <1>13, <3>2, <3>3 DEF Mergeable, Disjoint
      <3>4. CASE j = l + 1
        BY <1>1, <1>13, <3>2, <3>4 DEF IInv, Whole, Disjoint
      <3> QED BY <3>1, <3>3, <3>4
    <2> QED BY <2>1 DEF Disjoint
  <1>14. Whole'
    <2> SUFFICES ASSUME ~split', NEW m \in Levels \ {0},
                        NEW t \in levels'[m], NEW u \in levels'[m], t # u
                 PROVE  Disjoint(t, u)
      BY DEF Whole
    <2>1. CASE t \in levels[m] /\ u \in levels[m]
      BY <2>1 DEF IInv, Whole
    <2>2. CASE m = l + 1 /\ t \in out /\ u \in out
      BY <2>2
    <2>3. CASE m = l + 1 /\ t \notin out /\ u \in out
      BY <1>3, <1>4, <1>13, <2>3
    <2>4. CASE m = l + 1 /\ t \in out /\ u \notin out
      BY <1>3, <1>4, <1>13, <2>4
    <2> QED BY <1>3, <2>1, <2>2, <2>3, <2>4
  <1> QED BY <1>2, <1>7, <1>8, <1>9, <1>11, <1>12, <1>14

-----------------------------------------------------------------------------
(* Tables are picked, and moved or merged.                                 *)

\* There are finitely many tables.
LEMMA FiniteTables ==
    ASSUME NEW H, Numbered(H), NEW J, Tabled(J, H)
    PROVE  IsFiniteSet(J)
  <1> DEFINE f == [e \in H |-> e.seq]
  <1>1. \A e \in H : e.seq \in 1..MaxWrites
    BY EntryFields DEF Numbered
  <1>2. f \in [H -> 1..MaxWrites]
    BY <1>1
  <1>3. \A a, b \in H : f[a] = f[b] => a = b
    BY DEF Numbered, Distinct
  <1>4. f \in Injection(H, 1..MaxWrites)
    BY <1>2, <1>3 DEF Injection, IsInjective
  <1>5. IsFiniteSet(1..MaxWrites)
    BY BoundsAssumption, FS_Interval
  <1> HIDE DEF f
  <1>6. IsFiniteSet(H)
    BY <1>4, <1>5, FS_Injection
  <1>7. IsFiniteSet(SUBSET H)
    BY <1>6, FS_SUBSET
  <1>8. J \in SUBSET (SUBSET H)
    BY DEF Tabled
  <1> QED BY <1>7, <1>8, FS_Subset

\* The smallest snapshot is no later than any read that may be asked for.
LEMMA SmallestOf ==
    ASSUME IInv
    PROVE  SmallestSnapshot \in 0..MaxWrites /\ \A s \in Live : SmallestSnapshot <= s
  <1>1. Live \subseteq Nat /\ lastSequence \in Nat /\ \A s \in Live : s <= lastSequence
    BY LiveNumbers
  <1>2. lastSequence \in 0..MaxWrites /\ snapshots \subseteq 0..MaxWrites
    BY DEF IInv, TypeOK
  <1>3. CASE snapshots = {}
    BY <1>1, <1>2, <1>3 DEF SmallestSnapshot, Live
  <1>4. CASE snapshots # {}
    <2>1. SmallestSnapshot = Min(snapshots)
      BY <1>4 DEF SmallestSnapshot
    <2>2. snapshots \subseteq Nat
      BY <1>1 DEF Live
    <2>3. Min(snapshots) \in snapshots /\ \A s \in snapshots : Min(snapshots) <= s
      BY <1>4, <2>2, MinOf
    <2>4. Min(snapshots) <= lastSequence
      BY <1>1, <2>3 DEF Live
    <2> QED BY <1>2, <2>1, <2>3, <2>4 DEF Live
  <1> QED BY <1>3, <1>4

\* A single table is moved to the next level.
LEMMA StepMove ==
    ASSUME IInv, NEW l \in Levels, NEW x, x \in levels[l], Mergeable(l, {x}),
           levels' = [levels EXCEPT ![l] = @ \ {x}, ![l + 1] = @ \cup {x}],
           compaction = NoMerge,
           UNCHANGED <<mem, imm, lastSequence, snapshots, compaction, history, split>>
    PROVE  IInv'
  <1>1. l + 1 \in Levels /\ l \in Nat
    BY LevelNumbers DEF Mergeable
  <1>2. DOMAIN levels = Levels
    BY DEF IInv, TypeOK
  <1>3. levels' = [levels EXCEPT ![l] = @ \ {x}, ![l + 1] = (@ \ {x}) \cup {x}]
    <2>1. (levels[l + 1] \ {x}) \cup {x} = levels[l + 1] \cup {x}
      OBVIOUS
    <2>2. l # l + 1
      BY <1>1
    <2> QED BY <1>1, <1>2, <2>1, <2>2
  <1>4. x # {} /\ x \subseteq UNION {x} /\ \A t \in {x} : t # {} /\ t \subseteq UNION {x}
    BY DEF IInv, Written
  <1>5. /\ DOMAIN levels' = Levels
        /\ Written' /\ Layered' /\ ZeroOrdered' /\ Apart' /\ Deeper' /\ Whole'
    <2> DEFINE I == {x}
               out == {x}
    <2>1. levels' = [levels EXCEPT ![l] = @ \ I, ![l + 1] = (@ \ I) \cup out]
      BY <1>3
    <2>2. \A t \in out : t # {} /\ t \subseteq UNION I
      BY <1>4
    <2>3. \A t, u \in out : t # u => Ahead(t, u) \/ Ahead(u, t)
      OBVIOUS
    <2>5. ~split' => ~split /\ \A t, u \in out : t # u => Disjoint(t, u)
      OBVIOUS
    <2>4. Mergeable(l, I)
      OBVIOUS
    <2> HIDE DEF I, out
    <2> QED BY <2>1, <2>2, <2>3, <2>4, <2>5, Replace
  <1>6. TypeOK'
    BY <1>5 DEF IInv, TypeOK, Written
  <1>7. Merging'
    BY DEF Merging
  <1>8. levels'[l] = levels[l] \ {x} /\ levels'[l + 1] = levels[l + 1] \cup {x}
        /\ \A m \in Levels : m # l /\ m # l + 1 => levels'[m] = levels[m]
    <2>1. l # l + 1
      BY <1>1
    <2> QED BY <1>1, <1>2, <2>1
  <1>9. Stored' = Stored
    <2>1. ASSUME NEW e
          PROVE  (\E m \in Levels : \E t \in levels'[m] : e \in t)
                     <=> (\E m \in Levels : \E t \in levels[m] : e \in t)
      <3>1. ASSUME NEW m \in Levels, NEW t \in levels[m]
            PROVE  \E i \in Levels : t \in levels'[i]
        BY <1>1, <1>8
      <3>2. ASSUME NEW m \in Levels, NEW t \in levels'[m]
            PROVE  \E i \in Levels : t \in levels[i]
        BY <1>1, <1>8
      <3> QED BY <3>1, <3>2
    <2>2. \A e : e \in Stored' <=> e \in Stored
      BY <2>1, StoredElem, StoredNext
    <2> QED BY <2>2
  <1>10. Live' = Live
    BY DEF Live
  <1>11. Answered'
    BY <1>9, <1>10, SameAnswers DEF IInv
  <1> QED BY <1>5, <1>6, <1>7, <1>11 DEF IInv

\* A merge begins.
LEMMA StepBegin ==
    ASSUME IInv, NEW l \in Levels, NEW I, Mergeable(l, I),
           compaction' = [level |-> l, inputs |-> I, base |-> levels,
                          smallest |-> SmallestSnapshot],
           UNCHANGED <<mem, imm, levels, lastSequence, snapshots, history, split>>
    PROVE  IInv'
  <1>1. /\ compaction'.level = l /\ compaction'.inputs = I /\ compaction'.base = levels
        /\ compaction'.smallest = SmallestSnapshot
    OBVIOUS
  <1>2. UNION I \subseteq Entries
    BY DEF Mergeable, IInv, TypeOK
  <1>3. SmallestSnapshot \in 0..MaxWrites /\ \A s \in Live : SmallestSnapshot <= s
    BY SmallestOf
  <1>4. TypeOK'
    BY <1>1, <1>2, <1>3 DEF IInv, TypeOK
  <1>5. Written' /\ Layered'
    BY DEF IInv, Written, Layered
  <1>6. ZeroOrdered' /\ Apart' /\ Deeper' /\ Whole'
    BY SameLevels DEF IInv
  <1>7. Live' = Live
    BY DEF Live
  <1>8. Merging'
    <2>2. Mergeable(compaction.level, compaction.inputs)'
      BY <1>1 DEF Mergeable
    <2>3. \A s \in Live' : compaction'.smallest <= s
      BY <1>1, <1>3, <1>7
    <2>4. \A m \in Levels : \A t \in levels'[m] : t \in compaction'.base[m]
      BY <1>1
    <2> QED BY <2>2, <2>3, <2>4 DEF Merging
  <1>9. Stored' = Stored
    BY DEF Stored
  <1>10. Answered'
    BY <1>7, <1>9, SameAnswers DEF IInv
  <1> QED BY <1>4, <1>5, <1>6, <1>8, <1>10 DEF IInv

\* PickCompaction.
LEMMA StepPick ==
    ASSUME IInv, NEW l \in Levels, PickCompaction(l)
    PROVE  IInv'
  <1>1. compaction = NoMerge /\ l + 1 \in Levels /\ l \in Nat
        /\ UNCHANGED <<mem, imm, lastSequence, snapshots, history, split>>
    BY LevelNumbers DEF PickCompaction
  <1>2. PICK t \in levels[l] :
           \E in \in SetupOtherInputs(l, IF l = 0 THEN GetOverlappingInputs(0, t) ELSE {t}) :
           \E move \in TrivialMove(l, in) :
              \/ /\ move
                 /\ levels' = [levels EXCEPT ![l] = @ \ in[1], ![l + 1] = @ \cup in[1]]
                 /\ UNCHANGED compaction
              \/ /\ ~move
                 /\ compaction' = [level |-> l, inputs |-> in[1] \cup in[2],
                                   base |-> levels, smallest |-> SmallestSnapshot]
                 /\ UNCHANGED levels
    BY DEF PickCompaction
  <1> DEFINE C == IF l = 0 THEN GetOverlappingInputs(0, t) ELSE {t}
  <1>3. PICK in \in SetupOtherInputs(l, C) : \E move \in TrivialMove(l, in) :
              \/ /\ move
                 /\ levels' = [levels EXCEPT ![l] = @ \ in[1], ![l + 1] = @ \cup in[1]]
                 /\ UNCHANGED compaction
              \/ /\ ~move
                 /\ compaction' = [level |-> l, inputs |-> in[1] \cup in[2],
                                   base |-> levels, smallest |-> SmallestSnapshot]
                 /\ UNCHANGED levels
    BY <1>2
  <1>4. Shelved(history) /\ \A m \in Levels : Tabled(levels[m], history)
    BY InvShelved
  <1>5. C = (IF l = 0 THEN GetOverlappingInputs(0, t) ELSE {t})
    OBVIOUS
  <1> HIDE DEF C
  <1>6. /\ in[1] \subseteq levels[l] /\ in[1] # {} /\ in[2] \subseteq levels[l + 1]
        /\ Mergeable(l, in[1] \cup in[2])
    BY <1>1, <1>3, <1>4, <1>5, InputsMergeable
  <1>7. PICK move \in TrivialMove(l, in) :
              \/ /\ move
                 /\ levels' = [levels EXCEPT ![l] = @ \ in[1], ![l + 1] = @ \cup in[1]]
                 /\ UNCHANGED compaction
              \/ /\ ~move
                 /\ compaction' = [level |-> l, inputs |-> in[1] \cup in[2],
                                   base |-> levels, smallest |-> SmallestSnapshot]
                 /\ UNCHANGED levels
    BY <1>3
  <1>8. CASE move
    <2>1. Cardinality(in[1]) = 1 /\ in[2] = {}
      BY <1>8 DEF TrivialMove
    <2>2. IsFiniteSet(in[1])
      <3>1. Tabled(in[1], history) /\ Numbered(history)
        BY <1>4, <1>6 DEF Tabled, Shelved
      <3> QED BY <3>1, FiniteTables
    <2>3. PICK x : in[1] = {x}
      BY <2>1, <2>2, FS_Singleton
    <2>4. x \in levels[l] /\ Mergeable(l, {x})
      <3>1. in[1] \cup in[2] = {x}
        BY <2>1, <2>3
      <3> QED BY <1>6, <2>3, <3>1
    <2>5. levels' = [levels EXCEPT ![l] = @ \ {x}, ![l + 1] = @ \cup {x}]
          /\ UNCHANGED compaction
      BY <1>7, <1>8, <2>3
    <2> QED BY <1>1, <2>4, <2>5, StepMove
  <1>9. CASE ~move
    <2> DEFINE I == in[1] \cup in[2]
    <2>1. compaction' = [level |-> l, inputs |-> I, base |-> levels,
                         smallest |-> SmallestSnapshot] /\ UNCHANGED levels
      BY <1>7, <1>9
    <2>2. Mergeable(l, I)
      BY <1>6
    <2> HIDE DEF I
    <2> QED BY <1>1, <2>1, <2>2, StepBegin
  <1> QED BY <1>8, <1>9

-----------------------------------------------------------------------------
(* A merge ends.                                                           *)

\* The tables out have the entries S, one table after the other.
Cut(S, out) ==
    /\ \A t \in out : t # {} /\ t \subseteq S
    /\ \A t, u \in out : t # u => Ahead(t, u) \/ Ahead(u, t)
    /\ UNION out = S

\* So it is with Outputs.
LEMMA OutputFacts ==
    ASSUME NEW H, Numbered(H), NEW S, S \subseteq H, NEW out \in Outputs(S)
    PROVE  Cut(S, out)
  <1>1. CASE S = {}
    <2>1. out = {}
      BY <1>1 DEF Outputs
    <2> QED BY <1>1, <2>1 DEF Cut
  <1>2. CASE S # {}
    <2>1. PICK cut \in S :
             out = {{e \in S : ~Precedes(cut, e)}, {e \in S : Precedes(cut, e)}} \ {{}}
      BY <1>2 DEF Outputs
    <2> DEFINE A == {e \in S : ~Precedes(cut, e)}
               B == {e \in S : Precedes(cut, e)}
    <2>2. out = {A, B} \ {{}}
      BY <2>1
    <2>3. Ahead(A, B)
      <3> SUFFICES ASSUME NEW e \in A, NEW f \in B PROVE Precedes(e, f)
        BY DEF Ahead
      <3>1. e \in S /\ f \in S /\ ~Precedes(cut, e) /\ Precedes(cut, f)
        OBVIOUS
      <3>2. e \in Entries /\ f \in Entries /\ cut \in Entries /\ (e.seq = cut.seq => e = cut)
        BY <3>1 DEF Numbered, Distinct
      <3>3. e = cut \/ Precedes(e, cut)
        BY <3>1, <3>2, PrecedesTotal
      <3> QED BY <3>1, <3>2, <3>3, PrecedesTrans
    <2>4. A \subseteq S /\ B \subseteq S /\ A \cup B = S
      OBVIOUS
    <2> HIDE DEF A, B
    <2>5. \A t \in out : t # {} /\ t \subseteq S
      BY <2>2, <2>4
    <2>6. \A t, u \in out : t # u => Ahead(t, u) \/ Ahead(u, t)
      BY <2>2, <2>3
    <2>7. UNION out = S
      <3>1. \A e : e \in UNION out <=> e \in A \/ e \in B
        BY <2>2
      <3> QED BY <2>4, <3>1
    <2> QED BY <2>5, <2>6, <2>7 DEF Cut
  <1> QED BY <1>1, <1>2

\* In a step the tables I are replaced by out, and all other tables are left alone.
Replaced(I, out) ==
    /\ \A t \in I : \E m \in Levels : t \in levels[m]
    /\ \A t \in out : \E m \in Levels : t \in levels'[m]
    /\ \A m \in Levels : \A t \in levels[m] : t \in I \/ t \in levels'[m]
    /\ \A m \in Levels : \A t \in levels'[m] : t \in out \/ (t \in levels[m] /\ t \notin I)

\* What is stored after a step was stored before, and what is not stored any more
\* was in I and is not in S.
Reduced(I, S) ==
    /\ Stored' \subseteq Stored
    /\ \A e \in Stored : e \in Stored' \/ (e \in UNION I /\ e \notin S)

\* The one follows from the other.
LEMMA StoredLess ==
    ASSUME NEW I, NEW S, NEW out, S \subseteq UNION I, UNION out = S, Replaced(I, out),
           mem' = mem, imm' = imm
    PROVE  Reduced(I, S)
  <1>1. \A e \in UNION I : e \in Stored
    BY StoredElem DEF Replaced
  <1>2. ASSUME NEW e \in Stored' PROVE e \in Stored
    <2>1. CASE e \in mem' \/ e \in imm'
      BY <2>1, StoredElem
    <2>2. CASE \E m \in Levels : \E t \in levels'[m] : e \in t
      <3>1. PICK m \in Levels : \E t \in levels'[m] : e \in t
        BY <2>2
      <3>2. PICK t \in levels'[m] : e \in t
        BY <3>1
      <3>3. CASE t \in levels[m]
        BY <3>2, <3>3, StoredElem
      <3>4. CASE t \in out
        BY <1>1, <3>2, <3>4
      <3> QED BY <3>2, <3>3, <3>4 DEF Replaced
    <2> QED BY <1>2, <2>1, <2>2, StoredNext
  <1>3. ASSUME NEW e \in Stored PROVE e \in Stored' \/ (e \in UNION I /\ e \notin S)
    <2>1. CASE e \in mem \/ e \in imm
      BY <2>1, StoredNext
    <2>2. CASE \E m \in Levels : \E t \in levels[m] : e \in t
      <3>1. PICK m \in Levels : \E t \in levels[m] : e \in t
        BY <2>2
      <3>2. PICK t \in levels[m] : e \in t
        BY <3>1
      <3>3. CASE t \in I
        <4>1. CASE e \in S
          <5>1. PICK u \in out : e \in u
            BY <4>1
          <5> QED BY <5>1, StoredNext DEF Replaced
        <4> QED BY <3>2, <3>3, <4>1
      <3>4. CASE t \notin I
        BY <3>2, <3>4, StoredNext DEF Replaced
      <3> QED BY <3>3, <3>4
    <2> QED BY <1>3, <2>1, <2>2, StoredElem
  <1> QED BY <1>2, <1>3 DEF Reduced

\* Of the key of a deletion that the merge drops because it deletes nothing, only
\* newer entries are in the tables that the merge leaves alone.
LEMMA LeftNewer ==
    ASSUME IInv, ~split, compaction # NoMerge,
           NEW e \in UNION compaction.inputs, IsBaseLevelForKey(e.key),
           NEW m \in Levels, NEW t \in levels[m], t \notin compaction.inputs,
           NEW f \in t, f.key = e.key
    PROVE  f.seq > e.seq
  <1> DEFINE c == compaction.level
             I == compaction.inputs
  <1>1. /\ Mergeable(c, I)
        /\ m >= c + 2 => t \in compaction.base[m] \/ Disjoint(t, UNION I)
    BY DEF IInv, Merging
  <1>2. e \in UNION I /\ t \notin I
    OBVIOUS
  <1>3. \A i \in (c + 2)..(NumLevels - 1) : \A u \in compaction.base[i] : ~InRange(e.key, u)
    BY DEF IsBaseLevelForKey
  <1> HIDE DEF c, I
  <1>4. c \in Levels /\ c + 1 \in Levels /\ c \in Nat /\ m \in Nat /\ m < NumLevels
        /\ I \subseteq levels[c] \cup levels[c + 1]
    BY <1>1, LevelNumbers DEF Mergeable
  <1>5. PICK v \in I : e \in v
    BY <1>2
  <1>6. \A a, b \in Levels : a < b => \A u \in levels[a], w \in levels[b] : Newer(u, w)
    BY DEF IInv, Deeper
  <1>7. CASE m < c
    <2>1. m < c + 1
      BY <1>4, <1>7
    <2>2. Newer(t, v)
      BY <1>4, <1>5, <1>6, <1>7, <2>1
    <2> QED BY <1>5, <2>2 DEF Newer
  <1>8. CASE m = c
    <2>1. CASE v \in levels[c]
      <3>1. Newer(t, v)
        BY <1>1, <1>2, <1>5, <1>8, <2>1 DEF Mergeable
      <3> QED BY <1>5, <3>1 DEF Newer
    <2>2. CASE v \in levels[c + 1]
      <3>1. m < c + 1
        BY <1>4, <1>8
      <3>2. Newer(t, v)
        BY <1>4, <1>6, <2>2, <3>1
      <3> QED BY <1>5, <3>2 DEF Newer
    <2> QED BY <1>4, <1>5, <2>1, <2>2
  <1>9. CASE m = c + 1
    <2>1. CASE v \in levels[c]
      <3>1. Disjoint(t, v)
        BY <1>1, <1>2, <1>5, <1>9, <2>1 DEF Mergeable
      <3> QED BY <1>5, <3>1 DEF Disjoint
    <2>2. CASE v \in levels[c + 1]
      <3>1. m # 0 /\ t # v
        BY <1>2, <1>4, <1>5, <1>9
      <3>2. Disjoint(t, v)
        BY <1>9, <2>2, <3>1 DEF IInv, Whole
      <3> QED BY <1>5, <3>2 DEF Disjoint
    <2> QED BY <1>4, <1>5, <2>1, <2>2
  <1>10. CASE m >= c + 2
    <2>1. CASE t \in compaction.base[m]
      <3>1. m \in (c + 2)..(NumLevels - 1)
        BY <1>4, <1>10, LevelsAssumption
      <3>2. ~InRange(e.key, t)
        BY <1>3, <2>1, <3>1
      <3>3. t # {} /\ t \subseteq history /\ Numbered(history)
        BY InvShelved DEF Tabled
      <3>4. t \subseteq Entries /\ Distinct(t)
        BY <3>3, Part
      <3>5. e.key \in Nat
        BY <3>4, EntryFields
      <3>6. Within(e.key, t)
        BY <3>5 DEF Within
      <3> QED BY <3>2, <3>3, <3>4, <3>5, <3>6, InRangeWithin
    <2>2. CASE Disjoint(t, UNION I)
      BY <1>2, <2>2 DEF Disjoint
    <2> QED BY <1>1, <1>10, <2>1, <2>2
  <1> QED BY <1>4, <1>7, <1>8, <1>9, <1>10

\* The answers stay right when what the merge drops is gone.
LEMMA WorkAnswers ==
    ASSUME IInv, compaction # NoMerge, NEW S, NEW out,
           S = {e \in UNION compaction.inputs : ~Drop(e)},
           Reduced(compaction.inputs, S), Replaced(compaction.inputs, out), UNION out = S,
           split => split', UNCHANGED <<mem, imm, lastSequence, snapshots, history>>
    PROVE  Answered'
  <1> DEFINE I == compaction.inputs
  <1>1. Live' = Live
    BY DEF Live
  <1> SUFFICES ASSUME NEW k \in Keys, NEW s \in Live, NEW e \in Newest(history, k, s)
               PROVE  \/ e \in Stored'
                      \/ e.deleted /\ (split' \/ \A f \in Stored' : f.key = k => f.seq > e.seq)
    BY <1>1 DEF Answered, Newest
  <1>2. /\ e \in history /\ e.key = k /\ e.seq <= s
        /\ \A f \in history : f.key = k /\ f.seq <= s => f.seq <= e.seq
    BY NewestElem
  <1>3. \/ e \in Stored
        \/ e.deleted /\ (split \/ \A f \in Stored : f.key = k => f.seq > e.seq)
    BY DEF IInv, Answered
  <1>4. CASE e \in Stored' \/ e \notin Stored
    BY <1>3, <1>4 DEF Reduced
  <1>5. CASE e \in Stored /\ e \notin Stored'
    <2>1. e \in UNION I /\ Drop(e)
      BY <1>5 DEF Reduced
    <2>2. /\ Mergeable(compaction.level, I) /\ compaction.smallest <= s
          /\ compaction.level \in Levels /\ compaction.level + 1 \in Levels
      BY DEF IInv, Merging, Mergeable
    <2>3. UNION I \subseteq history
      BY <2>2 DEF Mergeable, IInv, Written
    <2>4. \A f \in history : f.seq \in Nat
      BY EntryFields DEF IInv, TypeOK
    <2>5. compaction.smallest \in Nat /\ s \in Nat
      BY LiveNumbers, BoundsAssumption DEF IInv, TypeOK
    <2>6. ~\E f \in UNION I : f.key = e.key /\ e.seq < f.seq /\ f.seq <= compaction.smallest
      BY <1>2, <2>2, <2>3, <2>4, <2>5
    <2>7. e.deleted /\ e.seq <= compaction.smallest /\ IsBaseLevelForKey(e.key)
      BY <2>1, <2>6 DEF Drop
    <2>8. ASSUME ~split', NEW f \in Stored', f.key = k PROVE f.seq > e.seq
      <3>1. CASE f \in mem \/ f \in imm
        <4>1. PICK v \in I : e \in v
          BY <2>1
        <4>2. v \in levels[compaction.level] \/ v \in levels[compaction.level + 1]
          BY <2>2, <4>1 DEF Mergeable
        <4> QED BY <2>2, <3>1, <4>1, <4>2 DEF IInv, Layered
      <3>2. ASSUME NEW m \in Levels, NEW t \in levels'[m], f \in t PROVE f.seq > e.seq
        <4>1. CASE t \in out
          <5>1. f \in UNION I /\ ~Drop(f)
            BY <3>2, <4>1
          <5>2. f \in history /\ f.seq \in Nat /\ e.seq \in Nat
            BY <1>2, <2>3, <2>4, <5>1
          <5>3. f.seq # e.seq
            BY <1>2, <1>5, <2>8, <5>2 DEF IInv, Written, Distinct
          <5>4. ~(f.seq < e.seq)
            BY <1>2, <2>1, <2>7, <2>8, <5>1 DEF Drop
          <5> QED BY <5>2, <5>3, <5>4
        <4>2. CASE t \in levels[m] /\ t \notin I
          BY <1>2, <2>1, <2>7, <2>8, <3>2, <4>2, LeftNewer
        <4> QED BY <3>2, <4>1, <4>2 DEF Replaced
      <3> QED BY <2>8, <3>1, <3>2, StoredNext
    <2> QED BY <2>7, <2>8
  <1> QED BY <1>4, <1>5

\* DoCompactionWork.
LEMMA StepWork ==
    ASSUME IInv, DoCompactionWork
    PROVE  IInv'
  <1> DEFINE l == compaction.level
             I == compaction.inputs
             S == {e \in UNION I : ~Drop(e)}
  <1>1. /\ compaction # NoMerge /\ compaction' = NoMerge
        /\ UNCHANGED <<mem, imm, lastSequence, snapshots, history>>
    BY DEF DoCompactionWork
  <1>2. PICK out \in Outputs(S) :
           /\ levels' = [levels EXCEPT ![l] = @ \ I, ![l + 1] = (@ \ I) \cup out]
           /\ split' = (split \/ \E t, u \in out : t # u /\ Overlap(t, u))
    BY DEF DoCompactionWork
  <1>3. Mergeable(l, I)
    BY <1>1 DEF IInv, Merging
  <1>4. S \subseteq UNION I /\ S = {e \in UNION I : ~Drop(e)}
    OBVIOUS
  <1> HIDE DEF S
  <1>5. l \in Levels /\ l + 1 \in Levels /\ l \in Nat /\ I \subseteq levels[l] \cup levels[l + 1]
    BY <1>3, LevelNumbers DEF Mergeable
  <1>6. Numbered(history) /\ UNION I \subseteq history
    BY <1>5, InvShelved DEF Tabled
  <1>7. /\ \A t \in out : t # {} /\ t \subseteq S
        /\ \A t, u \in out : t # u => Ahead(t, u) \/ Ahead(u, t)
        /\ UNION out = S
    <2>1. Cut(S, out)
      BY <1>4, <1>6, OutputFacts
    <2> QED BY <2>1 DEF Cut
  <1>8. ~split' => ~split /\ \A t, u \in out : t # u => Disjoint(t, u)
    <2> SUFFICES ASSUME ~split', NEW t \in out, NEW u \in out, t # u
                 PROVE  ~split /\ Disjoint(t, u)
      BY <1>2
    <2>1. ~split /\ ~Overlap(u, t)
      BY <1>2
    <2>2. t # {} /\ t \subseteq history /\ u # {} /\ u \subseteq history
      BY <1>4, <1>6, <1>7
    <2> QED BY <1>6, <2>1, <2>2, OverlapsNot
  <1>9. \A t \in out : t # {} /\ t \subseteq UNION I
    BY <1>4, <1>7
  <1>10. split' \in BOOLEAN /\ (split => split')
    BY <1>2 DEF IInv, TypeOK
  <1>11. /\ DOMAIN levels = Levels /\ levels'[l] = levels[l] \ I
         /\ levels'[l + 1] = (levels[l + 1] \ I) \cup out
         /\ \A m \in Levels : m # l /\ m # l + 1 => levels'[m] = levels[m]
    <2>1. DOMAIN levels = Levels
      BY DEF IInv, TypeOK
    <2>2. l # l + 1
      BY <1>5
    <2>3. levels' = [levels EXCEPT ![l] = @ \ I, ![l + 1] = (@ \ I) \cup out]
      BY <1>2
    <2> HIDE DEF l, I
    <2>4. levels'[l] = levels[l] \ I
      BY <1>5, <2>1, <2>2, <2>3
    <2>5. levels'[l + 1] = (levels[l + 1] \ I) \cup out
      BY <1>5, <2>1, <2>2, <2>3
    <2>6. \A m \in Levels : m # l /\ m # l + 1 => levels'[m] = levels[m]
      BY <2>1, <2>3
    <2> QED BY <2>1, <2>4, <2>5, <2>6
  <1> HIDE DEF l, I
  <1>12. /\ DOMAIN levels' = Levels
         /\ Written' /\ Layered' /\ ZeroOrdered' /\ Apart' /\ Deeper' /\ Whole'
    <2>1. levels' = [levels EXCEPT ![l] = @ \ I, ![l + 1] = (@ \ I) \cup out]
      BY <1>2
    <2>2. \A t, u \in out : t # u => Ahead(t, u) \/ Ahead(u, t)
      BY <1>7
    <2> QED BY <1>1, <1>3, <1>5, <1>8, <1>9, <2>1, <2>2, Replace
  <1>13. TypeOK'
    <2>1. compaction'.level = 0 /\ compaction'.inputs = {} /\ compaction'.smallest = 0
      BY <1>1 DEF NoMerge
    <2>2. 0 \in 0..MaxWrites /\ 0 \in Levels
      BY BoundsAssumption, LevelNumbers
    <2>3. UNION compaction'.inputs \subseteq Entries
      BY <2>1
    <2>4. \A m \in Levels : \A t \in levels'[m] : t # {} /\ t \subseteq Entries
      BY <1>1, <1>12 DEF IInv, TypeOK, Written
    <2> QED BY <1>1, <1>10, <1>12, <2>1, <2>2, <2>3, <2>4 DEF IInv, TypeOK
  <1>14. Merging'
    BY <1>1 DEF Merging
  <1>15. \A m \in Levels : \A t \in levels'[m] : t \in out \/ (t \in levels[m] /\ t \notin I)
    <2> SUFFICES ASSUME NEW m \in Levels, NEW t \in levels'[m], t \notin out
                 PROVE  t \in levels[m] /\ t \notin I
      OBVIOUS
    <2>1. CASE m = l \/ m = l + 1
      BY <1>11, <2>1
    <2>2. CASE m # l /\ m # l + 1
      <3>1. t \in levels[m] /\ m \in Nat
        BY <1>11, <2>2, LevelNumbers
      <3>2. ASSUME t \in I PROVE FALSE
        <4>1. Shelved(history)
          BY InvShelved
        <4>2. CASE t \in levels[l]
          BY <1>5, <2>2, <3>1, <4>1, <4>2, OneLevel
        <4>3. CASE t \in levels[l + 1]
          BY <1>5, <2>2, <3>1, <4>1, <4>3, OneLevel
        <4> QED BY <1>5, <3>2, <4>2, <4>3
      <3> QED BY <3>1, <3>2
    <2> QED BY <2>1, <2>2
  <1>16. Replaced(I, out)
    <2>1. \A m \in Levels : \A t \in levels[m] : t \in I \/ t \in levels'[m]
      BY <1>5, <1>11
    <2>2. \A t \in out : \E m \in Levels : t \in levels'[m]
      BY <1>5, <1>11
    <2>3. \A t \in I : \E m \in Levels : t \in levels[m]
      BY <1>5
    <2> QED BY <1>15, <2>1, <2>2, <2>3 DEF Replaced
  <1>17. Answered'
    <2>1. UNION out = S /\ S \subseteq UNION I
      BY <1>4, <1>7
    <2>2. Reduced(I, S)
      BY <1>1, <1>16, <2>1, StoredLess
    <2>3. S = {e \in UNION compaction.inputs : ~Drop(e)}
      BY <1>4 DEF I
    <2>4. Replaced(compaction.inputs, out) /\ Reduced(compaction.inputs, S)
      BY <1>16, <2>2 DEF I
    <2>5. split => split'
      BY <1>10
    <2>6. compaction # NoMerge /\ UNCHANGED <<mem, imm, lastSequence, snapshots, history>>
      BY <1>1
    <2> QED BY <2>1, <2>3, <2>4, <2>5, <2>6, WorkAnswers
  <1> QED BY <1>12, <1>13, <1>14, <1>17 DEF IInv

-----------------------------------------------------------------------------
(* The invariant holds.                                                    *)

\* It is inductive.
LEMMA StepIInv == IInv /\ [Next]_vars => IInv'
  <1> SUFFICES ASSUME IInv, [Next]_vars PROVE IInv'
    OBVIOUS
  <1>1. CASE \E k \in Keys, deleted \in BOOLEAN : Write(k, deleted)
    BY <1>1, StepWrite
  <1>2. CASE SwitchMemTable
    BY <1>2, StepSwitch
  <1>3. CASE GetSnapshot \/ \E s \in snapshots : ReleaseSnapshot(s)
    BY <1>3, StepSnapshot
  <1>4. CASE CompactMemTable
    BY <1>4, StepFlush
  <1>5. CASE \E l \in Levels : PickCompaction(l)
    BY <1>5, StepPick
  <1>6. CASE DoCompactionWork
    BY <1>6, StepWork
  <1>7. CASE UNCHANGED vars
    <2>1. UNCHANGED <<mem, imm, levels, lastSequence, snapshots, compaction, history, split>>
      BY <1>7 DEF vars
    <2>2. TypeOK' /\ Written' /\ Layered'
      BY <2>1 DEF IInv, TypeOK, Written, Layered
    <2>3. ZeroOrdered' /\ Apart' /\ Deeper' /\ Whole'
      BY <2>1, SameLevels DEF IInv
    <2>4. Live' = Live /\ Stored' = Stored
      BY <2>1 DEF Live, Stored
    <2>5. Merging'
      BY <2>1, <2>4, SameMerging DEF IInv, Merging
    <2>6. Answered'
      BY <2>1, <2>4, SameAnswers DEF IInv
    <2> QED BY <2>2, <2>3, <2>5, <2>6 DEF IInv
  <1> QED BY <1>1, <1>2, <1>3, <1>4, <1>5, <1>6, <1>7 DEF Next

\* Whatever is written, flushed, moved and merged, in whatever order, the levels
\* stay in order, a merge in progress can be finished, and of what was written last
\* nothing is lost that a read may still ask for.
THEOREM LevelInvariant == Spec => []IInv
  BY InitIInv, StepIInv, PTL DEF Spec

\* The variables have their types: a table is never empty, as First and Last of it
\* demand, and the merge in progress is of levels that there are.
THEOREM LevelTypeCorrect == Spec => []TypeOK
  <1>1. IInv => TypeOK
    BY DEF IInv
  <1> QED BY <1>1, LevelInvariant, PTL

-----------------------------------------------------------------------------
(* What the invariant says of the levels and of reads.                     *)

\* The check in Builder::SaveTo, and what lets Get stop at the first level where it
\* finds something.
LEMMA InvOrdered == IInv => LevelsOrdered
  <1> SUFFICES ASSUME IInv PROVE LevelsOrdered
    OBVIOUS
  <1>1. ASSUME NEW l \in Levels \ {0}, NEW t \in levels[l], NEW u \in levels[l], t # u
        PROVE  Precedes(Last(t), First(u)) \/ Precedes(Last(u), First(t))
    <2>1. Ahead(t, u) \/ Ahead(u, t)
      BY <1>1 DEF IInv, Apart
    <2>2. t # {} /\ t \subseteq history /\ u # {} /\ u \subseteq history /\ Numbered(history)
      BY InvShelved DEF Tabled
    <2>3. t \subseteq Entries /\ Distinct(t) /\ u \subseteq Entries /\ Distinct(u)
      BY <2>2, Part
    <2>4. First(t) \in t /\ Last(t) \in t /\ First(u) \in u /\ Last(u) \in u
      BY <2>2, <2>3, FirstOf, LastOf
    <2> QED BY <2>1, <2>4 DEF Ahead
  <1>2. ASSUME NEW l \in Levels, NEW m \in Levels, l < m,
               NEW e \in UNION levels[l], NEW f \in UNION levels[m], e.key = f.key
        PROVE  e.seq > f.seq
    BY <1>2 DEF IInv, Deeper, Newer
  <1> QED BY <1>1, <1>2 DEF LevelsOrdered

\* Below level 0 tables never overlap, whatever the background thread does while a
\* merge is in progress, and of a key what is nearer to the memtable is newer.
THEOREM LevelsStayOrdered == Spec => []LevelsOrdered
  BY LevelInvariant, InvOrdered, PTL

\* If some entry for k is seen there is a newest one.
LEMMA NewestExists ==
    ASSUME NEW S, S \subseteq Entries, NEW k, NEW s, NEW x \in S, x.key = k, x.seq <= s
    PROVE  Newest(S, k, s) # {}
  <1> DEFINE seen == {e \in S : e.key = k /\ e.seq <= s}
             N == {e.seq : e \in seen}
  <1>1. seen \subseteq Entries /\ x \in seen
    OBVIOUS
  <1> HIDE DEF seen
  <1>2. N \subseteq Nat /\ IsFiniteSet(N) /\ N # {}
    BY <1>1, EntryNumbers
  <1> HIDE DEF N
  <1>3. PICK n \in N : \A y \in N : y <= n
    BY <1>2, GreatestNat
  <1>4. PICK e \in seen : e.seq = n
    BY <1>3 DEF N
  <1>5. \A f \in seen : f.seq <= e.seq
    BY <1>3, <1>4 DEF N
  <1>6. e \in Newest(S, k, s)
    BY <1>4, <1>5, NewestElem DEF seen
  <1> QED BY <1>6

\* What is not seen in a set is not the newest in it.
LEMMA NewestSeen ==
    ASSUME NEW S, S \subseteq Entries, NEW k, NEW s
    PROVE  Newest(S, k, s) # {} <=> \E x \in S : x.key = k /\ x.seq <= s
  BY NewestExists, NewestElem

\* It is enough to look where the newest entry is.
LEMMA NewestSub ==
    ASSUME NEW S, S \subseteq Entries, NEW T, T \subseteq S, NEW k, NEW s,
           Newest(S, k, s) \subseteq T
    PROVE  Newest(T, k, s) = Newest(S, k, s)
  <1>1. \A x \in S : x.seq \in Nat
    BY EntryFields
  <1>2. ASSUME NEW e \in Newest(S, k, s) PROVE e \in Newest(T, k, s)
    <2>1. e \in T /\ e.key = k /\ e.seq <= s
          /\ \A f \in S : f.key = k /\ f.seq <= s => f.seq <= e.seq
      BY NewestElem
    <2> QED BY <2>1, NewestElem
  <1>3. ASSUME NEW e \in Newest(T, k, s) PROVE e \in Newest(S, k, s)
    <2>1. e \in T /\ e \in S /\ e.key = k /\ e.seq <= s
          /\ \A f \in T : f.key = k /\ f.seq <= s => f.seq <= e.seq
      BY NewestElem
    <2>2. PICK n : n \in Newest(S, k, s)
      BY <2>1, NewestExists
    <2>3. n \in T /\ n \in S /\ n.key = k /\ n.seq <= s
          /\ \A f \in S : f.key = k /\ f.seq <= s => f.seq <= n.seq
      BY <2>2, NewestElem
    <2>4. n.seq <= e.seq
      BY <2>1, <2>3
    <2>5. \A f \in S : f.key = k /\ f.seq <= s => f.seq <= e.seq
      BY <1>1, <2>1, <2>3, <2>4
    <2> QED BY <2>1, <2>5, NewestElem
  <1> QED BY <1>2, <1>3

\* The entries of a level.
LEMMA LevelEntries ==
    ASSUME IInv, NEW l \in Levels
    PROVE  UNION levels[l] \subseteq history /\ UNION levels[l] \subseteq Entries
  BY DEF IInv, TypeOK, Written

\* In level 0 Get stops at the newest table that has an entry for k, and it is the
\* newest one of the level.
LEMMA ZeroGet ==
    ASSUME IInv, NEW k, NEW s
    PROVE  LevelGet(0, k, s) = Newest(UNION levels[0], k, s)
  <1> DEFINE hits == {t \in levels[0] : \E e \in t : e.key = k /\ e.seq <= s}
             hit  == {t \in hits : \A u \in hits \ {t} : NewestFirst(t, u)}
  <1>1. LevelGet(0, k, s) = Newest(UNION hit, k, s)
    BY DEF LevelGet
  <1>2. UNION levels[0] \subseteq Entries
    BY LevelEntries, LevelNumbers
  <1>3. \A t \in levels[0] : t # {} /\ t \subseteq Entries
    BY LevelNumbers DEF IInv, TypeOK
  <1>4. ASSUME NEW e \in Newest(UNION levels[0], k, s) PROVE e \in UNION hit
    <2>1. e \in UNION levels[0] /\ e.key = k /\ e.seq <= s
          /\ \A f \in UNION levels[0] : f.key = k /\ f.seq <= s => f.seq <= e.seq
      BY NewestElem
    <2>2. PICK t \in levels[0] : e \in t
      BY <2>1
    <2>3. t \in hits
      BY <2>1, <2>2
    <2>4. ASSUME NEW u \in hits \ {t} PROVE NewestFirst(t, u)
      <3>1. u \in levels[0] /\ \E x \in u : x.key = k /\ x.seq <= s
        OBVIOUS
      <3>2. PICK x \in u : x.key = k /\ x.seq <= s
        BY <3>1
      <3>3. x.seq <= e.seq
        BY <2>1, <3>1, <3>2
      <3>4. t \subseteq Entries /\ u \subseteq Entries /\ t # {} /\ u # {}
        BY <1>3, <3>1
      <3>5. x.seq \in Nat /\ e.seq \in Nat
        BY <2>2, <3>4, EntryFields
      <3>6. ~(e.seq < x.seq)
        BY <3>3, <3>5
      <3>7. \A a \in t, b \in u : b.seq < a.seq
        BY <2>2, <2>4, <3>1, <3>6 DEF IInv, ZeroOrdered
      <3> DEFINE A == {a.seq : a \in t}
                 B == {b.seq : b \in u}
      <3>8. A \subseteq Nat /\ IsFiniteSet(A) /\ A # {} /\ B \subseteq Nat /\ IsFiniteSet(B) /\ B # {}
        BY <3>4, EntryNumbers
      <3>9. \A a \in A, b \in B : a > b
        BY <3>4, <3>7, EntryFields
      <3>10. NewestFirst(t, u) <=> Max(A) > Max(B)
        BY DEF NewestFirst
      <3> HIDE DEF A, B
      <3>11. Max(A) \in A /\ Max(B) \in B
        BY <3>8, MaxOf
      <3> QED BY <3>9, <3>10, <3>11
    <2> QED BY <2>2, <2>3, <2>4
  <1>5. UNION hit \subseteq UNION levels[0]
    OBVIOUS
  <1> HIDE DEF hit
  <1>6. Newest(UNION levels[0], k, s) \subseteq UNION hit
    BY <1>4
  <1> QED BY <1>1, <1>2, <1>5, <1>6, NewestSub

\* Below level 0 FindFile finds the table with the newest entry for k that s sees,
\* even if other tables have entries for k, too.
LEMMA DeepGet ==
    ASSUME IInv, NEW l \in Levels \ {0}, NEW k \in Nat, NEW s \in Nat
    PROVE  LevelGet(l, k, s) = Newest(UNION levels[l], k, s)
  <1> DEFINE p == [key |-> k, seq |-> s]
             after == {t \in levels[l] : ~Precedes(Last(t), p)}
  <1>1. LevelGet(l, k, s) = Newest(UNION FindFile(l, k, s), k, s)
    BY DEF LevelGet
  <1>2. FindFile(l, k, s) = {t \in after : /\ \A u \in after \ {t} : Precedes(Last(t), Last(u))
                                           /\ First(t).key <= k}
    BY DEF FindFile
  <1>3. p.key = k /\ p.seq = s
    OBVIOUS
  <1>4. after = {t \in levels[l] : ~Precedes(Last(t), p)}
    OBVIOUS
  <1> HIDE DEF p, after
  <1>5. UNION levels[l] \subseteq Entries
    BY LevelEntries
  <1>6. ASSUME NEW t \in levels[l]
        PROVE  /\ Last(t) \in t /\ \A f \in t : f = Last(t) \/ Precedes(f, Last(t))
               /\ First(t) \in t /\ \A f \in t : First(t).key <= f.key
    <2>1. t # {} /\ t \subseteq history /\ Numbered(history)
      BY InvShelved DEF Tabled
    <2>2. t \subseteq Entries /\ Distinct(t)
      BY <2>1, Part
    <2> QED BY <2>1, <2>2, FirstOf, LastOf
  <1>7. \A x \in UNION levels[l] : x.key \in Nat /\ x.seq \in Nat
    BY <1>5, EntryFields
  <1>8. ASSUME NEW e \in Newest(UNION levels[l], k, s) PROVE e \in UNION FindFile(l, k, s)
    <2>1. e \in UNION levels[l] /\ e.key = k /\ e.seq <= s
          /\ \A f \in UNION levels[l] : f.key = k /\ f.seq <= s => f.seq <= e.seq
      BY NewestElem
    <2>2. PICK t \in levels[l] : e \in t
      BY <2>1
    <2>3. e.key \in Nat /\ e.seq \in Nat /\ Last(t).key \in Nat /\ Last(t).seq \in Nat
      BY <1>6, <1>7, <2>1
    <2>4. t \in after
      <3>1. e = Last(t) \/ Precedes(e, Last(t))
        BY <1>6, <2>2
      <3>2. ~Precedes(Last(t), p)
        BY <1>3, <2>1, <2>3, <3>1 DEF Precedes
      <3> QED BY <1>4, <3>2
    <2>5. ASSUME NEW u \in after \ {t} PROVE Precedes(Last(t), Last(u))
      <3>1. u \in levels[l] /\ ~Precedes(Last(u), p) /\ u # t
        BY <1>4
      <3>2. Last(u) \in u /\ Last(t) \in t /\ Last(u) \in UNION levels[l]
        BY <1>6, <3>1
      <3>3. CASE Ahead(t, u)
        BY <3>2, <3>3 DEF Ahead
      <3>4. CASE Ahead(u, t)
        <4>1. Precedes(Last(u), e)
          BY <2>2, <3>2, <3>4 DEF Ahead
        <4>2. Last(u).key \in Nat /\ Last(u).seq \in Nat
          BY <1>7, <3>2
        <4>3. Last(u).key = k /\ Last(u).seq > e.seq /\ Last(u).seq <= s
          BY <1>3, <2>1, <2>3, <3>1, <4>1, <4>2 DEF Precedes
        <4>4. Last(u).seq <= e.seq
          BY <2>1, <3>2, <4>3
        <4> QED BY <2>3, <4>2, <4>3, <4>4
      <3> QED BY <3>1, <3>3, <3>4 DEF IInv, Apart
    <2>6. First(t).key <= k
      BY <1>6, <2>1, <2>2
    <2> QED BY <1>2, <2>2, <2>4, <2>5, <2>6
  <1>9. UNION FindFile(l, k, s) \subseteq UNION levels[l]
    BY <1>2, <1>4
  <1>10. Newest(UNION levels[l], k, s) \subseteq UNION FindFile(l, k, s)
    BY <1>8
  <1> QED BY <1>1, <1>5, <1>9, <1>10, NewestSub

\* Where Get stops is the newest entry of all that is stored.
LEMMA GetNewest ==
    ASSUME IInv, NEW k \in Nat, NEW s \in Nat
    PROVE  Get(k, s) = Newest(Stored, k, s)
  <1> DEFINE level == [l \in Levels |-> LevelGet(l, k, s)]
             found == {l \in Levels : level[l] # {}}
  <1>1. Get(k, s) = IF Newest(mem, k, s) # {} THEN Newest(mem, k, s)
                    ELSE IF Newest(imm, k, s) # {} THEN Newest(imm, k, s)
                    ELSE IF found # {} THEN level[Min(found)] ELSE {}
    BY DEF Get
  <1>2. ASSUME NEW l \in Levels PROVE level[l] = Newest(UNION levels[l], k, s)
    <2>1. level[l] = LevelGet(l, k, s)
      OBVIOUS
    <2> HIDE DEF level
    <2> QED BY <2>1, ZeroGet, DeepGet
  <1>3. found = {l \in Levels : \E x \in UNION levels[l] : x.key = k /\ x.seq <= s}
    <2> HIDE DEF level
    <2>1. \A l \in Levels : level[l] # {} <=>
              \E x \in UNION levels[l] : x.key = k /\ x.seq <= s
      <3> SUFFICES ASSUME NEW l \in Levels
                   PROVE  level[l] # {} <=>
                              \E x \in UNION levels[l] : x.key = k /\ x.seq <= s
        OBVIOUS
      <3>1. UNION levels[l] \subseteq Entries
        BY LevelEntries
      <3>2. level[l] = Newest(UNION levels[l], k, s)
        BY <1>2
      <3> QED BY <3>1, <3>2, NewestSeen
    <2> QED BY <2>1
  <1> HIDE DEF level, found
  <1>4. mem \subseteq Entries /\ imm \subseteq Entries /\ Stored \subseteq Entries
    <2>1. mem \subseteq Entries /\ imm \subseteq Entries
      BY DEF IInv, TypeOK
    <2>2. \A e \in Stored : e \in Entries
      BY <2>1, StoredElem DEF IInv, TypeOK
    <2> QED BY <2>1, <2>2
  <1>5. mem \subseteq Stored /\ imm \subseteq Stored
        /\ \A l \in Levels : UNION levels[l] \subseteq Stored
    BY StoredElem
  <1>6. \A e \in Stored : e.seq \in Nat
    BY <1>4, EntryFields
  <1>7. CASE Newest(mem, k, s) # {}
    <2>1. PICK x \in mem : x.key = k /\ x.seq <= s
      BY <1>4, <1>7, NewestSeen
    <2>2. ASSUME NEW e \in Newest(Stored, k, s) PROVE e \in mem
      <3>1. e \in Stored /\ x.seq <= e.seq /\ x \in Stored
        BY <1>5, <2>1, NewestElem
      <3>2. x.seq \in Nat /\ e.seq \in Nat /\ ~(x.seq > e.seq)
        BY <1>6, <3>1
      <3>3. e \notin imm
        BY <3>2 DEF IInv, Layered
      <3>4. \A l \in Levels : \A t \in levels[l] : e \notin t
        BY <3>2 DEF IInv, Layered
      <3> QED BY <3>1, <3>3, <3>4, StoredElem
    <2>3. Newest(Stored, k, s) \subseteq mem
      BY <2>2
    <2>4. Newest(mem, k, s) = Newest(Stored, k, s)
      BY <1>4, <1>5, <2>3, NewestSub
    <2> QED BY <1>1, <1>7, <2>4
  <1>8. CASE Newest(mem, k, s) = {} /\ Newest(imm, k, s) # {}
    <2>1. PICK x \in imm : x.key = k /\ x.seq <= s
      BY <1>4, <1>8, NewestSeen
    <2>2. ASSUME NEW e \in Newest(Stored, k, s) PROVE e \in imm
      <3>1. e \in Stored /\ e.key = k /\ e.seq <= s /\ x.seq <= e.seq /\ x \in Stored
        BY <1>5, <2>1, NewestElem
      <3>2. x.seq \in Nat /\ e.seq \in Nat /\ ~(x.seq > e.seq)
        BY <1>6, <3>1
      <3>3. e \notin mem
        BY <1>4, <1>8, <3>1, NewestSeen
      <3>4. \A l \in Levels : \A t \in levels[l] : e \notin t
        BY <3>2 DEF IInv, Layered
      <3> QED BY <3>1, <3>3, <3>4, StoredElem
    <2>3. Newest(Stored, k, s) \subseteq imm
      BY <2>2
    <2>4. Newest(imm, k, s) = Newest(Stored, k, s)
      BY <1>4, <1>5, <2>3, NewestSub
    <2> QED BY <1>1, <1>8, <2>4
  <1>9. CASE Newest(mem, k, s) = {} /\ Newest(imm, k, s) = {}
    <2>1. ASSUME NEW e \in Stored, e.key = k, e.seq <= s
          PROVE  \E l \in found : e \in UNION levels[l]
      <3>1. e \notin mem /\ e \notin imm
        BY <1>4, <1>9, <2>1, NewestSeen
      <3>2. PICK l \in Levels : e \in UNION levels[l]
        BY <3>1, StoredElem
      <3> QED BY <1>3, <2>1, <3>2
    <2>2. CASE found = {}
      <3>1. Newest(Stored, k, s) = {}
        BY <1>4, <2>1, <2>2, NewestSeen
      <3> QED BY <1>1, <1>9, <2>2, <3>1
    <2>3. CASE found # {}
      <3> DEFINE m == Min(found)
      <3>1. found \subseteq Nat /\ found \subseteq Levels
        BY <1>3, LevelNumbers
      <3>2. m \in found /\ \A l \in found : m <= l
        BY <2>3, <3>1, MinOf
      <3> HIDE DEF m
      <3>3. m \in Levels /\ m \in Nat
        BY <3>1, <3>2
      <3>4. PICK x \in UNION levels[m] : x.key = k /\ x.seq <= s
        BY <1>3, <3>2
      <3>5. ASSUME NEW e \in Newest(Stored, k, s) PROVE e \in UNION levels[m]
        <4>1. e \in Stored /\ e.key = k /\ e.seq <= s /\ x.seq <= e.seq /\ x \in Stored
          BY <1>5, <3>3, <3>4, NewestElem
        <4>2. PICK l \in found : e \in UNION levels[l]
          BY <2>1, <4>1
        <4>3. l \in Nat /\ l \in Levels /\ m <= l
          BY <3>1, <3>2
        <4>4. x.seq \in Nat /\ e.seq \in Nat /\ ~(x.seq > e.seq)
          BY <1>6, <4>1
        <4>5. ~(m < l)
          BY <3>3, <3>4, <4>1, <4>2, <4>3, <4>4 DEF IInv, Deeper, Newer
        <4>6. m = l
          BY <3>3, <4>3, <4>5
        <4> QED BY <4>2, <4>6
      <3>6. Newest(Stored, k, s) \subseteq UNION levels[m] /\ UNION levels[m] \subseteq Stored
        BY <1>5, <3>3, <3>5
      <3>7. Newest(UNION levels[m], k, s) = Newest(Stored, k, s)
        BY <1>4, <3>6, NewestSub
      <3>8. Get(k, s) = level[m]
        BY <1>1, <1>9, <2>3 DEF m
      <3> QED BY <1>2, <3>3, <3>7, <3>8
    <2> QED BY <2>2, <2>3
  <1> QED BY <1>7, <1>8, <1>9

\* What reads return.
LEMMA InvReads == IInv => ReadsCorrectUnsplit
  <1> SUFFICES ASSUME IInv, NEW k \in Keys, NEW s \in Live
               PROVE  (split /\ Value(Newest(history, k, s)) = {}) \/ Reads(k, s)
    BY DEF ReadsCorrectUnsplit
  <1>1. k \in Nat /\ s \in Nat
    BY KeysAssumption, LiveNumbers
  <1>2. Get(k, s) = Newest(Stored, k, s)
    BY <1>1, GetNewest
  <1>3. history \subseteq Entries /\ Stored \subseteq history
    <2>1. history \subseteq Entries
      BY DEF IInv, TypeOK
    <2>2. \A e \in Stored : e \in history
      BY StoredElem DEF IInv, Written
    <2> QED BY <2>1, <2>2
  <1>4. \A e \in history : e.seq \in Nat
    BY <1>3, EntryFields
  <1>5. ASSUME Newest(history, k, s) \subseteq Stored PROVE Reads(k, s)
    <2>1. Newest(Stored, k, s) = Newest(history, k, s)
      BY <1>3, <1>5, NewestSub
    <2> QED BY <1>2, <2>1 DEF Reads
  <1>6. ASSUME NEW e \in Newest(history, k, s), e \notin Stored
        PROVE  (split /\ Value(Newest(history, k, s)) = {}) \/ Reads(k, s)
    <2>1. e \in history /\ e.key = k /\ e.seq <= s
          /\ \A f \in history : f.key = k /\ f.seq <= s => f.seq <= e.seq
      BY <1>6, NewestElem
    <2>2. e.deleted /\ (split \/ \A f \in Stored : f.key = k => f.seq > e.seq)
      BY <1>6 DEF IInv, Answered
    <2>3. ASSUME NEW f \in Newest(history, k, s) PROVE f = e
      <3>1. f \in history /\ f.key = k /\ f.seq <= s
            /\ \A g \in history : g.key = k /\ g.seq <= s => g.seq <= f.seq
        BY NewestElem
      <3>2. f.seq = e.seq
        BY <1>4, <2>1, <3>1
      <3> QED BY <2>1, <3>1, <3>2 DEF IInv, Written, Distinct
    <2>4. Value(Newest(history, k, s)) = {}
      BY <2>2, <2>3 DEF Value
    <2>5. CASE split
      BY <2>4, <2>5
    <2>6. CASE ~split
      <3>1. ASSUME NEW x \in Stored, x.key = k, x.seq <= s PROVE FALSE
        <4>1. x \in history /\ x.seq > e.seq
          BY <1>3, <2>2, <2>6, <3>1
        <4> QED BY <1>4, <2>1, <3>1, <4>1
      <3>2. Newest(Stored, k, s) = {}
        BY <1>3, <3>1, NewestElem
      <3>3. Value(Newest(Stored, k, s)) = {}
        BY <3>2 DEF Value
      <3> QED BY <1>2, <2>4, <3>3 DEF Reads
    <2> QED BY <2>5, <2>6
  <1> QED BY <1>5, <1>6

\* For any number of keys, levels, writes and snapshots: reads of the latest state
\* and of every live snapshot, by Get and by iterators, return what was written last
\* by then, unless a merge has divided the entries of a user key between tables; and
\* even then the only wrong answer is a value for a key that was deleted.
THEOREM ReadsStayCorrect == Spec => []ReadsCorrectUnsplit
  BY LevelInvariant, InvReads, PTL

=============================================================================
