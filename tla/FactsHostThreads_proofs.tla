----------------------- MODULE FactsHostThreads_proofs -----------------------
(***************************************************************************)
(* What every pool of threads keeps of the host's promises, proved for     *)
(* FactsHostThreads.                                                       *)
(***************************************************************************)
EXTENDS FactsHostThreads, FiniteSetTheorems, SequenceTheorems, TLAPS

-----------------------------------------------------------------------------
(* Comprehensions.  The k-th of a set of positions is the one with k        *)
(* positions up to it.                                                      *)
UpTo(S, n) == {m \in S : m <= n}

(* Positions of a list are finitely many. *)
LEMMA Positions ==
    ASSUME NEW L \in Nat, NEW S \in SUBSET (1..L)
    PROVE  IsFiniteSet(S) /\ Cardinality(S) \in Nat
<1>1. IsFiniteSet(1..L)
  <2>1. 1 \in Int /\ L \in Int
    OBVIOUS
  <2> QED BY <2>1, FS_Interval, Zenon
<1>2. IsFiniteSet(S)
  BY <1>1, FS_Subset, Zenon
<1> QED BY <1>2, FS_CardinalityType

(* A later position has more positions up to it. *)
LEMMA UpToStrict ==
    ASSUME NEW L \in Nat, NEW S \in SUBSET (1..L), NEW m \in S, NEW n \in S, m < n
    PROVE  Cardinality(UpTo(S, m)) < Cardinality(UpTo(S, n))
<1>1. IsFiniteSet(S)
  BY Positions
<1>2. m \in Int /\ n \in Int /\ \A x \in S : x \in Int
  OBVIOUS
<1>2a. UpTo(S, n) \in SUBSET S /\ UpTo(S, m) \in SUBSET UpTo(S, n)
  <2>1. \A x \in Int : x <= m => x <= n
    BY <1>2
  <2> QED BY <1>2, <2>1, Zenon DEF UpTo
<1>3. n \in UpTo(S, n) /\ n \notin UpTo(S, m)
  BY <1>2 DEF UpTo
<1>4. IsFiniteSet(UpTo(S, n))
  BY <1>1, <1>2a, FS_Subset, Zenon
<1>5. /\ IsFiniteSet(UpTo(S, m)) /\ Cardinality(UpTo(S, m)) <= Cardinality(UpTo(S, n))
      /\ Cardinality(UpTo(S, n)) = Cardinality(UpTo(S, m)) => UpTo(S, n) = UpTo(S, m)
  BY <1>2a, <1>4, FS_Subset, Zenon
<1>6. Cardinality(UpTo(S, m)) \in Nat /\ Cardinality(UpTo(S, n)) \in Nat
  BY <1>4, <1>5, FS_CardinalityType
<1>7. UpTo(S, n) # UpTo(S, m)
  BY <1>3
<1> QED BY <1>5, <1>6, <1>7

(* Different positions have different ranks, and in the same order. *)
LEMMA RanksDiffer ==
    ASSUME NEW L \in Nat, NEW S \in SUBSET (1..L), NEW m \in S, NEW n \in S
    PROVE  /\ Cardinality(UpTo(S, m)) \in Nat
           /\ m # n => Cardinality(UpTo(S, m)) # Cardinality(UpTo(S, n))
           /\ Cardinality(UpTo(S, m)) < Cardinality(UpTo(S, n)) => m < n
<1>1. m \in Int /\ n \in Int
  OBVIOUS
<1>2. ASSUME NEW x \in S PROVE Cardinality(UpTo(S, x)) \in Nat
  <2>1. UpTo(S, x) \in SUBSET (1..L)
    BY DEF UpTo
  <2> QED BY <2>1, Positions, Zenon
<1>3. m < n => Cardinality(UpTo(S, m)) < Cardinality(UpTo(S, n))
  BY UpToStrict, Zenon
<1>4. n < m => Cardinality(UpTo(S, n)) < Cardinality(UpTo(S, m))
  BY UpToStrict, Zenon
<1> QED BY <1>1, <1>2, <1>3, <1>4

(* The number of positions up to one of S is its rank, from 1 to all. *)
LEMMA RankRange ==
    ASSUME NEW L \in Nat, NEW S \in SUBSET (1..L), NEW n \in S
    PROVE  Cardinality(UpTo(S, n)) \in 1..Cardinality(S)
<1>1. IsFiniteSet(S)
  BY Positions
<1>2. UpTo(S, n) \in SUBSET S /\ n \in UpTo(S, n)
  BY DEF UpTo
<1>3. IsFiniteSet(UpTo(S, n)) /\ Cardinality(UpTo(S, n)) <= Cardinality(S)
  BY <1>1, <1>2, FS_Subset
<1>4. Cardinality(UpTo(S, n)) # 0
  BY <1>2, <1>3, FS_EmptySet
<1> QED BY <1>1, <1>3, <1>4, FS_CardinalityType

(* Every rank is that of a position of S. *)
LEMMA RankOnto ==
    ASSUME NEW L \in Nat, NEW S \in SUBSET (1..L), NEW k \in 1..Cardinality(S)
    PROVE  \E n \in S : Cardinality(UpTo(S, n)) = k
<1> DEFINE rank == [n \in S |-> Cardinality(UpTo(S, n))]
<1>1. IsFiniteSet(S) /\ Cardinality(S) \in Nat
  BY Positions
<1>2. rank \in [S -> 1..Cardinality(S)]
  BY RankRange
<1>3. ASSUME NEW m \in S, NEW n \in S, m # n PROVE rank[m] # rank[n]
  <2>1. Cardinality(UpTo(S, m)) # Cardinality(UpTo(S, n))
    BY <1>3, RanksDiffer, Zenon
  <2> QED BY <2>1
<1>4. rank \in Injection(S, 1..Cardinality(S))
  BY <1>2, <1>3 DEF Injection, IsInjective
<1>5. IsFiniteSet(1..Cardinality(S)) /\ Cardinality(1..Cardinality(S)) = Cardinality(S)
  BY <1>1, FS_Interval
<1>6. rank \in Surjection(S, 1..Cardinality(S))
  BY <1>4, <1>5, FS_Injection
<1> QED BY <1>6 DEF Surjection

(* The k-th position is in S and of rank k. *)
LEMMA NthRank ==
    ASSUME NEW L \in Nat, NEW S \in SUBSET (1..L), NEW k \in 1..Cardinality(S)
    PROVE  Nth(S, k) \in S /\ Cardinality(UpTo(S, Nth(S, k))) = k
BY RankOnto DEF Nth, UpTo

(* Every position of S is the k-th for its rank k. *)
LEMMA NthOnto ==
    ASSUME NEW L \in Nat, NEW S \in SUBSET (1..L), NEW n \in S
    PROVE  \E k \in 1..Cardinality(S) : Nth(S, k) = n
<1> DEFINE k == Cardinality(UpTo(S, n))
<1>1. k \in 1..Cardinality(S)
  BY RankRange
<1>2. Nth(S, k) \in S /\ Cardinality(UpTo(S, Nth(S, k))) = k
  BY <1>1, NthRank
<1>3. Nth(S, k) = n
  BY <1>2, RanksDiffer, Zenon
<1> QED BY <1>1, <1>3

(* The k-th positions of different k are different, and in order. *)
LEMMA NthIncreases ==
    ASSUME NEW L \in Nat, NEW S \in SUBSET (1..L),
           NEW j \in 1..Cardinality(S), NEW k \in 1..Cardinality(S), j < k
    PROVE  Nth(S, j) < Nth(S, k)
<1>1. /\ Nth(S, j) \in S /\ Cardinality(UpTo(S, Nth(S, j))) = j
      /\ Nth(S, k) \in S /\ Cardinality(UpTo(S, Nth(S, k))) = k
  BY NthRank
<1>2. Cardinality(UpTo(S, Nth(S, j))) < Cardinality(UpTo(S, Nth(S, k)))
  BY <1>1
<1> QED BY <1>1, <1>2, RanksDiffer, Zenon

(* More than one position counts for more than one. *)
LEMMA TwoCount ==
    ASSUME NEW L \in Nat, NEW S \in SUBSET (1..L)
    PROVE  /\ Cardinality(S) \in Nat
           /\ Cardinality(S) = 0 <=> S = {}
           /\ Cardinality(S) > 1 <=> \E m, n \in S : m # n
<1>1. IsFiniteSet(S) /\ Cardinality(S) \in Nat
  BY Positions
<1>2. Cardinality(S) = 0 <=> S = {}
  BY <1>1, FS_EmptySet
<1>3. ASSUME Cardinality(S) > 1 PROVE \E m, n \in S : m # n
  <2>1. 1 \in 1..Cardinality(S) /\ 2 \in 1..Cardinality(S)
    BY <1>1, <1>3
  <2>2. Nth(S, 1) \in S /\ Nth(S, 2) \in S
    BY <2>1, NthRank, Zenon
  <2>3. Cardinality(UpTo(S, Nth(S, 1))) = 1 /\ Cardinality(UpTo(S, Nth(S, 2))) = 2
    BY <2>1, NthRank, Zenon
  <2>4. Nth(S, 1) # Nth(S, 2)
    BY <2>3
  <2> QED BY <2>2, <2>4
<1>4. ASSUME NEW m \in S, NEW n \in S, m # n PROVE Cardinality(S) > 1
  <2>1. Cardinality(UpTo(S, m)) # Cardinality(UpTo(S, n))
    BY <1>4, RanksDiffer, Zenon
  <2>2. /\ Cardinality(UpTo(S, m)) \in 1..Cardinality(S)
        /\ Cardinality(UpTo(S, n)) \in 1..Cardinality(S)
    BY RankRange, Zenon
  <2> QED BY <1>1, <2>1, <2>2
<1> QED BY <1>1, <1>2, <1>3, <1>4

(* A comprehension has the entries at its positions, and no others. *)
LEMMA Comprehended ==
    ASSUME NEW T, NEW list \in Seq(T), NEW S \in SUBSET (DOMAIN list)
    PROVE  /\ Comprehend(list, S) \in Seq(T)
           /\ DOMAIN Comprehend(list, S) = 1..Cardinality(S)
           /\ Len(Comprehend(list, S)) = Cardinality(S)
           /\ \A k \in 1..Cardinality(S) :
                 Nth(S, k) \in S /\ Comprehend(list, S)[k] = list[Nth(S, k)]
           /\ \A n \in S : \E k \in 1..Cardinality(S) : Nth(S, k) = n
           /\ \A j, k \in 1..Cardinality(S) : Nth(S, j) = Nth(S, k) => j = k
<1>1. Len(list) \in Nat /\ S \in SUBSET (1..Len(list))
  BY LenProperties
<1>2. Cardinality(S) \in Nat
  BY <1>1, Positions, Zenon
<1>3. \A k \in 1..Cardinality(S) : Nth(S, k) \in S
  BY <1>1, NthRank, Zenon
<1>4. \A k \in 1..Cardinality(S) : list[Nth(S, k)] \in T
  BY <1>1, <1>3, ElementOfSeq
<1>5. Comprehend(list, S) \in Seq(T)
  BY <1>2, <1>4, IsASeq DEF Comprehend
<1>6. \A n \in S : \E k \in 1..Cardinality(S) : Nth(S, k) = n
  BY <1>1, NthOnto, Zenon
<1>7. ASSUME NEW j \in 1..Cardinality(S), NEW k \in 1..Cardinality(S),
             Nth(S, j) = Nth(S, k)
      PROVE  j = k
  <2>1. /\ Cardinality(UpTo(S, Nth(S, j))) = j
        /\ Cardinality(UpTo(S, Nth(S, k))) = k
    BY <1>1, NthRank, Zenon
  <2> QED BY <1>7, <2>1
<1>8. Len(Comprehend(list, S)) = Cardinality(S)
  BY <1>2, <1>5 DEF Comprehend
<1> QED BY <1>3, <1>5, <1>6, <1>7, <1>8 DEF Comprehend

(* The view of a list under one id: its entries of that id. *)
Shows(view, list, i) ==
    /\ view \in Seq(Claims)
    /\ view = <<>> <=> \A n \in DOMAIN list : list[n].id # i
    /\ Len(view) > 1 <=> \E m, n \in DOMAIN list : m # n /\ list[m].id = i /\ list[n].id = i
    /\ \A k \in DOMAIN view : \E n \in DOMAIN list : list[n].id = i /\ list[n].claim = view[k]
    /\ \A n \in DOMAIN list : list[n].id = i => \E k \in DOMAIN view : view[k] = list[n].claim

(* Under one id, PerId keeps the claims of the list in their order. *)
LEMMA PerIdEntries ==
    ASSUME NEW list \in Seq(Entry), NEW ids, NEW i \in ids
    PROVE  Shows(PerId(list, ids)[i], list, i)
<1> DEFINE of == {n \in DOMAIN list : list[n].id = i}
           view == [k \in 1..Cardinality(of) |-> list[Nth(of, k)].claim]
<1>1. PerId(list, ids)[i] = view
  BY DEF PerId
<1>2. Len(list) \in Nat /\ DOMAIN list = 1..Len(list) /\ of \in SUBSET (1..Len(list))
  BY LenProperties
<1>3. Cardinality(of) \in Nat
  BY <1>2, Positions, Zenon
<1>4. /\ Cardinality(of) = 0 <=> of = {}
      /\ Cardinality(of) > 1 <=> \E m, n \in of : m # n
  BY <1>2, TwoCount, Zenon
<1>5. \A k \in 1..Cardinality(of) : Nth(of, k) \in of
  BY <1>2, NthRank, Zenon
<1>6. \A n \in of : \E k \in 1..Cardinality(of) : Nth(of, k) = n
  BY <1>2, NthOnto, Zenon
<1>7. \A n \in DOMAIN list : list[n] \in Entry
  BY <1>2, ElementOfSeq
<1> HIDE DEF of
<1>8. \A k \in 1..Cardinality(of) : list[Nth(of, k)].claim \in Claims
  BY <1>5, <1>7 DEF of, Entry
<1>9. view \in Seq(Claims)
  BY <1>3, <1>8, IsASeq
<1>10. DOMAIN view = 1..Cardinality(of) /\ Len(view) = Cardinality(of)
  BY <1>3, <1>9
<1>11. view = <<>> <=> of = {}
  BY <1>3, <1>4, <1>9, <1>10, EmptySeq
<1>12. \A k \in DOMAIN view :
           \E n \in DOMAIN list : list[n].id = i /\ list[n].claim = view[k]
  BY <1>5, <1>10 DEF of
<1>13. \A n \in DOMAIN list : list[n].id = i => \E k \in DOMAIN view : view[k] = list[n].claim
  BY <1>6, <1>10 DEF of
<1>14. Len(view) > 1 <=> \E m, n \in DOMAIN list : m # n /\ list[m].id = i /\ list[n].id = i
  BY <1>4, <1>10 DEF of
<1>15. of = {} <=> \A n \in DOMAIN list : list[n].id # i
  BY DEF of
<1> HIDE DEF view
<1> QED BY <1>1, <1>9, <1>11, <1>12, <1>13, <1>14, <1>15 DEF Shows

(* A list no entry of which lacks an id. *)
IdBearers == [id : Ids, claim : Claims]

(* Line 62 keeps the entries of the body that have an id, and doubles none. *)
LEMMA IdBearingKeeps ==
    ASSUME NEW list \in Seq(Entry)
    PROVE  /\ IdBearing(list) \in Seq(IdBearers)
           /\ IdsOf(IdBearing(list)) = IdsOf(list)
           /\ \A k \in DOMAIN IdBearing(list) :
                 \E n \in DOMAIN list : list[n] = IdBearing(list)[k]
           /\ \A j, k \in DOMAIN IdBearing(list) :
                 j # k /\ IdBearing(list)[j].id = IdBearing(list)[k].id =>
                    \E m, n \in DOMAIN list : /\ m # n
                                              /\ list[m].id = IdBearing(list)[j].id
                                              /\ list[n].id = IdBearing(list)[j].id
<1> DEFINE S == {n \in DOMAIN list : list[n].id # NoId}
           kept == Comprehend(list, S)
<1>1. IdBearing(list) = kept
  BY DEF IdBearing
<1>2. S \in SUBSET DOMAIN list
  OBVIOUS
<1> HIDE DEF S
<1>3. /\ kept \in Seq(Entry)
      /\ DOMAIN kept = 1..Cardinality(S) /\ Len(kept) = Cardinality(S)
      /\ \A k \in 1..Cardinality(S) : Nth(S, k) \in S /\ kept[k] = list[Nth(S, k)]
      /\ \A n \in S : \E k \in 1..Cardinality(S) : Nth(S, k) = n
      /\ \A j, k \in 1..Cardinality(S) : Nth(S, j) = Nth(S, k) => j = k
  BY <1>2, Comprehended
<1> HIDE DEF kept
<1>4. \A n \in DOMAIN list : list[n] \in Entry
  BY ElementOfSeq, LenProperties
<1>5. \A n \in S : list[n] \in IdBearers
  BY <1>4, NoIdAssumption DEF S, Entry, IdBearers
<1>6. Cardinality(S) \in Nat
  BY <1>3, LenProperties
<1>7. kept \in Seq(IdBearers)
  <2>1. \A k \in 1..Cardinality(S) : kept[k] \in IdBearers
    BY <1>3, <1>5
  <2>2. [k \in 1..Cardinality(S) |-> kept[k]] \in Seq(IdBearers)
    BY <1>6, <2>1, IsASeq
  <2>3. kept = [k \in 1..Cardinality(S) |-> kept[k]]
    BY <1>3, LenProperties
  <2> QED BY <2>2, <2>3
<1>8. IdsOf(kept) = IdsOf(list)
  <2>1. \A x \in IdsOf(kept) : x \in IdsOf(list)
    BY <1>3 DEF IdsOf, S
  <2>2. \A x \in IdsOf(list) : \E n \in S : list[n].id = x /\ x # NoId
    BY DEF IdsOf, S
  <2>3. ASSUME NEW x \in IdsOf(list) PROVE x \in IdsOf(kept)
    <3>1. PICK n \in S : list[n].id = x /\ x # NoId
      BY <2>2
    <3>2. PICK k \in 1..Cardinality(S) : Nth(S, k) = n
      BY <1>3
    <3>3. k \in DOMAIN kept /\ kept[k].id = x
      BY <1>3, <3>1, <3>2
    <3> QED BY <3>1, <3>3 DEF IdsOf
  <2> QED BY <2>1, <2>3
<1>9. \A k \in DOMAIN kept : \E n \in DOMAIN list : list[n] = kept[k]
  BY <1>3 DEF S
<1>10. ASSUME NEW j \in DOMAIN kept, NEW k \in DOMAIN kept, j # k, kept[j].id = kept[k].id
       PROVE  \E m, n \in DOMAIN list : /\ m # n
                                        /\ list[m].id = kept[j].id
                                        /\ list[n].id = kept[j].id
  <2>1. Nth(S, j) \in DOMAIN list /\ Nth(S, k) \in DOMAIN list /\ Nth(S, j) # Nth(S, k)
    BY <1>3, <1>10 DEF S
  <2> QED BY <1>3, <1>10, <2>1
<1> QED BY <1>1, <1>7, <1>8, <1>9, <1>10

(* Lines 63-68 lose no id of either list, bring in no other entry, and      *)
(* double nothing that the body had not doubled.                            *)
LEMMA MergeListsKeeps ==
    ASSUME NEW kept \in Seq(IdBearers), NEW existing \in Seq(IdBearers)
    PROVE  LET merged == MergeLists(kept, existing)
           IN  /\ merged \in Seq(IdBearers)
               /\ IdsOf(merged) = IdsOf(kept) \cup IdsOf(existing)
               /\ \A k \in DOMAIN merged : \/ \E n \in DOMAIN kept : kept[n] = merged[k]
                                           \/ \E n \in DOMAIN existing : existing[n] = merged[k]
               /\ \A j, k \in DOMAIN merged :
                     j # k /\ merged[j].id = merged[k].id =>
                        \E m, n \in DOMAIN kept : /\ m # n
                                                  /\ kept[m].id = merged[j].id
                                                  /\ kept[n].id = merged[j].id
<1> DEFINE S == Unseen(kept, existing)
           new == Comprehend(existing, S)
           merged == kept \o new
<1>1. MergeLists(kept, existing) = merged
  BY DEF MergeLists
<1>2. S \in SUBSET DOMAIN existing
  BY DEF Unseen
<1>3. /\ new \in Seq(IdBearers)
      /\ DOMAIN new = 1..Cardinality(S) /\ Len(new) = Cardinality(S)
      /\ \A k \in 1..Cardinality(S) : Nth(S, k) \in S /\ new[k] = existing[Nth(S, k)]
      /\ \A n \in S : \E k \in 1..Cardinality(S) : Nth(S, k) = n
      /\ \A j, k \in 1..Cardinality(S) : Nth(S, j) = Nth(S, k) => j = k
  BY <1>2, Comprehended
<1> HIDE DEF new
<1>4. /\ merged \in Seq(IdBearers)
      /\ Len(merged) = Len(kept) + Len(new)
      /\ \A k \in 1..(Len(kept) + Len(new)) :
            merged[k] = IF k <= Len(kept) THEN kept[k] ELSE new[k - Len(kept)]
  BY <1>3, ConcatProperties
<1> HIDE DEF merged
<1>5. /\ Len(kept) \in Nat /\ DOMAIN kept = 1..Len(kept)
      /\ Len(new) \in Nat /\ DOMAIN new = 1..Len(new)
      /\ DOMAIN merged = 1..(Len(kept) + Len(new))
      /\ Len(existing) \in Nat /\ DOMAIN existing = 1..Len(existing)
  BY <1>3, <1>4, LenProperties
<1>6. /\ \A n \in DOMAIN kept : kept[n] \in IdBearers
      /\ \A n \in DOMAIN existing : existing[n] \in IdBearers
  BY <1>5, ElementOfSeq
<1>7. /\ \A n \in DOMAIN kept : kept[n].id \in IdsOf(kept)
      /\ \A n \in DOMAIN existing : existing[n].id \in IdsOf(existing)
  BY <1>6, NoIdAssumption DEF IdsOf, IdBearers
(* What a position of the merged list holds. *)
<1>8. ASSUME NEW k \in DOMAIN merged
      PROVE  \/ k \in DOMAIN kept /\ merged[k] = kept[k]
             \/ /\ k - Len(kept) \in 1..Cardinality(S)
                /\ Nth(S, k - Len(kept)) \in S
                /\ merged[k] = existing[Nth(S, k - Len(kept))]
                /\ merged[k].id \notin IdsOf(kept)
  <2>1. CASE k <= Len(kept)
    BY <1>4, <1>5, <2>1
  <2>2. CASE ~ k <= Len(kept)
    <3>1. k - Len(kept) \in 1..Cardinality(S)
      BY <1>3, <1>5, <2>2
    <3>2. merged[k] = new[k - Len(kept)]
      BY <1>4, <1>5, <2>2
    <3>3. \A n \in S : existing[n].id \notin IdsOf(kept)
      BY DEF Unseen
    <3> QED BY <1>3, <3>1, <3>2, <3>3
  <2> QED BY <2>1, <2>2
<1>9. IdsOf(merged) = IdsOf(kept) \cup IdsOf(existing)
  <2>1. ASSUME NEW x \in IdsOf(merged) PROVE x \in IdsOf(kept) \cup IdsOf(existing)
    <3>1. PICK k \in DOMAIN merged : merged[k].id = x
      BY DEF IdsOf
    <3> QED BY <1>2, <1>7, <1>8, <3>1
  <2>2. ASSUME NEW x \in IdsOf(kept) PROVE x \in IdsOf(merged)
    <3>1. PICK n \in DOMAIN kept : kept[n].id = x /\ x # NoId
      BY DEF IdsOf
    <3>2. n \in DOMAIN merged /\ merged[n] = kept[n]
      BY <1>4, <1>5
    <3> QED BY <3>1, <3>2 DEF IdsOf
  <2>3. ASSUME NEW x \in IdsOf(existing), x \notin IdsOf(kept) PROVE x \in IdsOf(merged)
    <3> DEFINE with == {n \in DOMAIN existing : existing[n].id = x}
    <3>1. x # NoId /\ with # {}
      BY DEF IdsOf
    <3>2. with \in SUBSET (1..Len(existing))
      BY <1>5
    <3> HIDE DEF with
    <3>3. 1 \in 1..Cardinality(with)
      <4>1. Cardinality(with) \in Nat /\ Cardinality(with) # 0
        BY <1>5, <3>1, <3>2, TwoCount, Zenon
      <4> QED BY <4>1
    <3> USE DEF with
    <3> DEFINE n == Nth(with, 1)
    <3>4. n \in with /\ Cardinality(UpTo(with, n)) = 1
      BY <1>5, <3>2, <3>3, NthRank, Zenon
    <3>5. ASSUME NEW m \in 1..(n - 1), existing[m].id = existing[n].id PROVE FALSE
      <4>1. m \in with /\ m < n
        BY <1>5, <3>4, <3>5
      <4>2. Cardinality(UpTo(with, m)) < Cardinality(UpTo(with, n))
        BY <1>5, <3>2, <3>4, <4>1, UpToStrict, Zenon
      <4>3. Cardinality(UpTo(with, m)) \in 1..Cardinality(with)
        BY <1>5, <3>2, <4>1, RankRange, Zenon
      <4> QED BY <3>4, <4>2, <4>3
    <3>6. n \in S
      BY <2>3, <3>1, <3>4, <3>5 DEF Unseen
    <3>7. PICK k \in 1..Cardinality(S) : Nth(S, k) = n
      BY <1>3, <3>6
    <3>8. Len(kept) + k \in DOMAIN merged /\ merged[Len(kept) + k] = new[k]
      BY <1>3, <1>4, <1>5
    <3>9. merged[Len(kept) + k].id = x
      BY <1>3, <3>4, <3>7, <3>8
    <3> QED BY <3>1, <3>8, <3>9 DEF IdsOf
  <2> QED BY <2>1, <2>2, <2>3
<1>10. \A k \in DOMAIN merged : \/ \E n \in DOMAIN kept : kept[n] = merged[k]
                                \/ \E n \in DOMAIN existing : existing[n] = merged[k]
  BY <1>2, <1>8
<1>11. ASSUME NEW j \in DOMAIN merged, NEW k \in DOMAIN merged,
              j # k, merged[j].id = merged[k].id
       PROVE  \E m, n \in DOMAIN kept : /\ m # n
                                        /\ kept[m].id = merged[j].id
                                        /\ kept[n].id = merged[j].id
  <2>1. CASE j \in DOMAIN kept /\ k \in DOMAIN kept /\ merged[j] = kept[j] /\ merged[k] = kept[k]
    BY <1>11, <2>1
  <2>2. ASSUME NEW x \in DOMAIN merged, NEW y \in DOMAIN merged, merged[x].id = merged[y].id,
               merged[x].id \notin IdsOf(kept), y \in DOMAIN kept, merged[y] = kept[y]
        PROVE  FALSE
    BY <1>7, <2>2
  <2>3. CASE /\ j - Len(kept) \in 1..Cardinality(S) /\ k - Len(kept) \in 1..Cardinality(S)
             /\ Nth(S, j - Len(kept)) \in S /\ Nth(S, k - Len(kept)) \in S
             /\ merged[j] = existing[Nth(S, j - Len(kept))]
             /\ merged[k] = existing[Nth(S, k - Len(kept))]
    <3> DEFINE p == Nth(S, j - Len(kept))
               q == Nth(S, k - Len(kept))
    <3>1. p # q
      <4>1. j - Len(kept) # k - Len(kept)
        BY <1>5, <1>11
      <4> QED BY <1>3, <2>3, <4>1
    <3>2. p \in 1..Len(existing) /\ q \in 1..Len(existing) /\ existing[p].id = existing[q].id
      BY <1>2, <1>5, <1>11, <2>3
    <3>3. /\ \A m \in 1..(p - 1) : existing[m].id # existing[p].id
          /\ \A m \in 1..(q - 1) : existing[m].id # existing[q].id
      BY <2>3 DEF Unseen
    <3> HIDE DEF p, q
    <3> QED BY <3>1, <3>2, <3>3, <1>5
  <2> QED BY <1>8, <1>11, <2>1, <2>2, <2>3
<1> QED BY <1>1, <1>4, <1>9, <1>10, <1>11
-----------------------------------------------------------------------------
(* The inductive invariant. *)
HostedBundle == [creds : Creds, contestations : Seq(IdBearers),
                 severance : Sevs \cup {NoSeverance}]
Operations == {"get", "put", "contest", "sever"}
PutBodies == {BodyView(r) : r \in {q \in Requests : q.op = "put"}}
Building == {"put_merge", "put_severance", "put_store"}
Contesting == {"contest_scan", "contest_append"}
Severing == {"sever_check", "sever_set"}

(* The thread is at a place of the handler of its request, with the values  *)
(* its handler has there.                                                   *)
InHandler(t) ==
    /\ pc[t] = "idle" <=> req[t] = NoRequest
    /\ pc[t] \in Operations => req[t].op = pc[t]
    /\ pc[t] \in {"idle", "get", "put", "contest", "sever"} => obj[t] = NoObject
    /\ pc[t] \in Building => /\ req[t].op = "put"
                             /\ req[t].agent_id = req[t].agent
                             /\ stored[t] \in HostedBundle
    /\ pc[t] \in Contesting => req[t].op = "contest" /\ obj[t] # NoObject
    /\ pc[t] = "contest_append" => req[t].entry.id # NoId
    /\ pc[t] \in Severing => req[t].op = "sever" /\ obj[t] # NoObject

Typing ==
    /\ heap \in Seq(HostedBundle)
    /\ store \in [Agents -> 0..Len(heap)]
    /\ pc \in [Threads -> Locations]
    /\ req \in [Threads -> Requests \cup {NoRequest}]
    /\ obj \in [Threads -> 0..Len(heap)]
    /\ stored \in [Threads -> HostedBundle \cup {EmptyBundle}]
    /\ begun \in 0..MaxRequests
    /\ met \in [Threads -> SUBSET Operations]
    /\ applied \in [Agents -> SUBSET PutBodies]
    /\ posted \in [Agents -> SUBSET (Ids \X Claims)]
    /\ quiet \in SUBSET (Agents \X Ids)
    /\ clash \in SUBSET (Agents \X Ids)
    /\ exited \in SUBSET Agents
    /\ \A t \in Threads : InHandler(t)

(* A bundle object is one agent's: it is that of a reference in _store or   *)
(* in a handler of this agent's requests, and of no other agent's.          *)
Owned ==
    /\ \A a, b \in Agents : store[a] # NoObject /\ store[a] = store[b] => a = b
    /\ \A t \in Threads, a \in Agents :
          obj[t] # NoObject /\ obj[t] = store[a] => req[t].agent = a
    /\ \A t, u \in Threads :
          obj[t] # NoObject /\ obj[t] = obj[u] => req[t].agent = req[u].agent

(* Requests of one agent that are handled now have met each other. *)
Noted ==
    \A t, u \in Threads :
        t # u /\ pc[t] # "idle" /\ pc[u] # "idle" /\ req[t].agent = req[u].agent
            => req[u].op \in met[t]

(* What set_severance and add_contestation found still stands when they     *)
(* write, unless another of their kind ran beside them.                     *)
Unwritten ==
    \A t \in Threads :
        /\ pc[t] = "sever_set" /\ heap[obj[t]].severance # NoSeverance
              => "sever" \in met[t]
        /\ pc[t] = "contest_append"
           /\ req[t].entry.id \in IdsOf(heap[obj[t]].contestations)
              => "contest" \in met[t]

(* A POST that met no PUT has the bundle that is served. *)
Current ==
    \A t \in Threads :
        pc[t] \in Contesting \cup Severing /\ "put" \notin met[t]
            => obj[t] = store[req[t].agent]

(* An id is in the list of the bundle that a reference stands for. *)
InBundle(ref, i) == ref # NoObject /\ i \in IdsOf(heap[ref].contestations)

(* What was quiet is on file, and a PUT takes it over on its way. *)
QuietKept ==
    /\ \A p \in quiet : InBundle(store[p[1]], p[2])
    /\ \A t \in Threads, i \in Ids :
          /\ pc[t] = "put_merge" /\ <<req[t].agent, i>> \in quiet => InBundle(obj[t], i)
          /\ pc[t] \in {"put_severance", "put_store"} /\ <<req[t].agent, i>> \in quiet
                => i \in IdsOf(stored[t].contestations)
          /\ pc[t] \in Building /\ i \in IdsOf(req[t].bundle.contestations)
                => i \in IdsOf(stored[t].contestations)

(* What clients are known to have sent for an agent: the entries of its     *)
(* POSTs, and the bodies of its PUTs.                                       *)
Submitted(e, posts, bodies) ==
    \/ <<e.id, e.claim>> \in posts
    \/ \E b \in bodies :
          \E k \in DOMAIN b.contestations[e.id] : b.contestations[e.id][k] = e.claim

(* A complaint is in a list twice only for a reason. *)
Doubled(list, i) == \E m, n \in DOMAIN list : m # n /\ list[m].id = i /\ list[n].id = i
DoubledForCause(i, clashing, bodies) ==
    \/ i \in clashing
    \/ \E b \in bodies : Len(b.contestations[i]) > 1

GoodList(list, posts, bodies, clashing) ==
    /\ \A n \in DOMAIN list : Submitted(list[n], posts, bodies)
    /\ \A i \in Ids : Doubled(list, i) => DoubledForCause(i, clashing, bodies)

Among(a, pairs) == {i \in Ids : <<a, i>> \in pairs}

(* What a PUT in progress has built is made of its body and of what was     *)
(* submitted before.                                                        *)
WellBuilt(list, body, posts, bodies) ==
    /\ \A n \in DOMAIN list : \/ Submitted(list[n], posts, bodies)
                              \/ \E m \in DOMAIN body : body[m] = list[n]
    /\ \A i \in Ids : Doubled(list, i) => Doubled(body, i)

(* Of every list that is served or that a handler holds: nothing in it was  *)
(* not submitted for its agent, and nothing is doubled without a reason.    *)
GoodLists ==
    /\ \A a \in Agents : store[a] # NoObject =>
          GoodList(heap[store[a]].contestations, posted[a], applied[a], Among(a, clash))
    /\ \A t \in Threads : obj[t] # NoObject =>
          LET a == req[t].agent
          IN  GoodList(heap[obj[t]].contestations, posted[a], applied[a], Among(a, clash))
    /\ \A t \in Threads : pc[t] \in Building =>
          WellBuilt(stored[t].contestations, req[t].bundle.contestations,
                    posted[req[t].agent], applied[req[t].agent])

(* The bundle that a reference stands for has a severance. *)
Filed(ref) == ref # NoObject /\ heap[ref].severance # NoSeverance

(* An exit that nothing ran beside is on file, a PUT takes it or another    *)
(* over on its way, and no severance POST has found the agent without one.  *)
ExitKept ==
    /\ \A a \in exited : Filed(store[a])
    /\ \A t \in Threads :
          /\ req[t].agent \in exited =>
                /\ pc[t] \in {"put_merge", "put_severance", "sever_check"} => Filed(obj[t])
                /\ pc[t] = "put_store" => stored[t].severance # NoSeverance
                /\ pc[t] # "sever_set"
          /\ pc[t] \in Building /\ req[t].bundle.severance # NoSeverance
                => stored[t].severance # NoSeverance

Inv == Owned /\ Noted /\ Unwritten /\ Current /\ QuietKept /\ GoodLists /\ ExitKept
-----------------------------------------------------------------------------
(* A request that a thread handles is one of its kind. *)
LEMMA RequestKinds ==
    ASSUME NEW r \in Requests
    PROVE  /\ r.op \in Operations /\ r.agent \in Agents /\ r # NoRequest
           /\ r.op = "put" => r \in PutRequest
           /\ r.op = "contest" => r \in ContestRequest
           /\ r.op = "sever" => r \in SeverRequest
  BY RequestsAssumption
     DEF PutRequest, ContestRequest, SeverRequest, GetRequest, Operations, NoRequest

(* The bundle objects handlers build: lists with ids, and what else the     *)
(* object had.                                                              *)
LEMMA WithContestations ==
    ASSUME NEW b \in BundleObject, NEW list \in Seq(IdBearers)
    PROVE  /\ [b EXCEPT !.contestations = list] \in HostedBundle
           /\ [b EXCEPT !.contestations = list].contestations = list
           /\ [b EXCEPT !.contestations = list].severance = b.severance
           /\ [b EXCEPT !.contestations = list].creds = b.creds
  BY DEF BundleObject, HostedBundle

(* EXCEPT on the list of a bundle object, field by field. *)
LEMMA WithList ==
    ASSUME NEW b \in HostedBundle, NEW list \in Seq(IdBearers)
    PROVE  /\ [b EXCEPT !.contestations = list] \in HostedBundle
           /\ [b EXCEPT !.contestations = list].contestations = list
           /\ [b EXCEPT !.contestations = list].severance = b.severance
           /\ [b EXCEPT !.contestations = list].creds = b.creds
  BY DEF HostedBundle

(* EXCEPT on the severance of a bundle object, field by field. *)
LEMMA WithSeverance ==
    ASSUME NEW b \in HostedBundle, NEW s \in Sevs \cup {NoSeverance}
    PROVE  /\ [b EXCEPT !.severance = s] \in HostedBundle
           /\ [b EXCEPT !.severance = s].contestations = b.contestations
           /\ [b EXCEPT !.severance = s].severance = s
           /\ [b EXCEPT !.severance = s].creds = b.creds
  BY DEF HostedBundle

(* What a step of t leaves to the other threads. *)
Frame(t) ==
    \A u \in Threads \ {t} :
        /\ pc'[u] = pc[u] /\ req'[u] = req[u] /\ obj'[u] = obj[u]
        /\ stored'[u] = stored[u] /\ met'[u] = met[u]

(* The request of t is over. *)
Over(t) ==
    /\ pc'[t] = "idle" /\ req'[t] = NoRequest /\ obj'[t] = NoObject
    /\ stored'[t] = EmptyBundle /\ met'[t] = {}

(* The variables of the threads and of the pool alone. *)
LocalTyping ==
    /\ pc \in [Threads -> Locations]
    /\ req \in [Threads -> Requests \cup {NoRequest}]
    /\ obj \in [Threads -> 0..Len(heap)]
    /\ stored \in [Threads -> HostedBundle \cup {EmptyBundle}]
    /\ begun \in 0..MaxRequests
    /\ met \in [Threads -> SUBSET Operations]
    /\ \A t \in Threads : InHandler(t)
SharedTyping ==
    /\ heap \in Seq(HostedBundle)
    /\ store \in [Agents -> 0..Len(heap)]
    /\ applied \in [Agents -> SUBSET PutBodies]
    /\ posted \in [Agents -> SUBSET (Ids \X Claims)]
    /\ quiet \in SUBSET (Agents \X Ids)
    /\ clash \in SUBSET (Agents \X Ids)
    /\ exited \in SUBSET Agents

(* The two halves of Typing are proved apart. *)
LEMMA TypingParts == Typing <=> LocalTyping /\ SharedTyping
  BY DEF Typing, LocalTyping, SharedTyping

(* What a thread that is not idle handles, and with what. *)
LEMMA Handles ==
    ASSUME Typing, NEW t \in Threads, pc[t] # "idle"
    PROVE  /\ req[t] \in Requests /\ req[t].agent \in Agents /\ req[t].op \in Operations
           /\ pc[t] \in Building \cup {"put"} => req[t] \in PutRequest
           /\ pc[t] \in Contesting \cup {"contest"} => req[t] \in ContestRequest
           /\ pc[t] \in Severing \cup {"sever"} => req[t] \in SeverRequest
           /\ pc[t] \in Contesting \cup Severing => obj[t] \in 1..Len(heap)
<1>1. InHandler(t) /\ req[t] \in Requests /\ obj[t] \in 0..Len(heap)
  BY DEF Typing, InHandler
<1>2. /\ pc[t] \in Building \cup {"put"} => req[t].op = "put"
      /\ pc[t] \in Contesting \cup {"contest"} => req[t].op = "contest"
      /\ pc[t] \in Severing \cup {"sever"} => req[t].op = "sever"
  BY <1>1 DEF InHandler, Operations
<1>3. Len(heap) \in Nat
  BY LenProperties DEF Typing
<1>4. pc[t] \in Contesting \cup Severing => obj[t] \in 1..Len(heap)
  BY <1>1, <1>3 DEF InHandler, NoObject
<1> QED BY <1>1, <1>2, <1>4, RequestKinds

(* An answer ends t's request and nothing else. *)
LEMMA AnswerEnds ==
    ASSUME Typing, NEW t \in Threads, NEW answer, Answer(t, answer)
    PROVE  /\ Over(t) /\ Frame(t) /\ begun' = begun
           /\ pc' \in [Threads -> Locations]
           /\ req' \in [Threads -> Requests \cup {NoRequest}]
           /\ obj' \in [Threads -> 0..Len(heap)]
           /\ stored' \in [Threads -> HostedBundle \cup {EmptyBundle}]
           /\ met' \in [Threads -> SUBSET Operations]
           /\ \A u \in Threads : InHandler(u)'
<1>1. Over(t) /\ Frame(t) /\ begun' = begun
  BY DEF Typing, Answer, Over, Frame
<1>2. Len(heap) \in Nat
  BY LenProperties DEF Typing
<1>3. /\ pc' \in [Threads -> Locations]
      /\ req' \in [Threads -> Requests \cup {NoRequest}]
      /\ stored' \in [Threads -> HostedBundle \cup {EmptyBundle}]
      /\ met' \in [Threads -> SUBSET Operations]
  BY DEF Typing, Answer, Locations
<1>4. obj' \in [Threads -> 0..Len(heap)]
  BY <1>2 DEF Typing, Answer, NoObject
<1>5. \A u \in Threads \ {t} : InHandler(u)'
  BY <1>1 DEF Typing, Frame, InHandler
<1>6. InHandler(t)'
  BY <1>1 DEF Over, InHandler, Building, Contesting, Severing, Operations
<1> QED BY <1>1, <1>3, <1>4, <1>5, <1>6

(* Handlers publish at the end of the heap, or change an object in place. *)
LEMMA Published ==
    ASSUME heap \in Seq(HostedBundle), NEW b \in HostedBundle, heap' = Append(heap, b)
    PROVE  /\ heap' \in Seq(HostedBundle) /\ Len(heap') = Len(heap) + 1
           /\ Len(heap) \in Nat /\ heap'[Len(heap) + 1] = b
           /\ \A ref \in 1..Len(heap) : heap'[ref] = heap[ref]
  BY AppendProperties, LenProperties

(* A change in place keeps every other reference. *)
LEMMA ChangedInPlace ==
    ASSUME heap \in Seq(HostedBundle), NEW ref \in 1..Len(heap), NEW b \in HostedBundle,
           heap' = [heap EXCEPT ![ref] = b]
    PROVE  /\ heap' \in Seq(HostedBundle) /\ Len(heap') = Len(heap) /\ heap'[ref] = b
           /\ \A r \in 1..Len(heap) \ {ref} : heap'[r] = heap[r]
  BY ExceptSeq

(* t goes on to another place of its handler. *)
Moves(t, place) ==
    /\ pc'[t] = place /\ req'[t] = req[t] /\ met'[t] = met[t] /\ begun' = begun
    /\ Frame(t)

(* A move that keeps the values of the handler in their types is well typed. *)
LEMMA MoveTyped ==
    ASSUME Typing, NEW t \in Threads, NEW place \in Locations,
           pc' = [pc EXCEPT ![t] = place], UNCHANGED <<req, begun, met>>,
           \/ UNCHANGED obj
           \/ \E ref \in 0..Len(heap) : obj' = [obj EXCEPT ![t] = ref],
           \/ UNCHANGED stored
           \/ \E b \in HostedBundle : stored' = [stored EXCEPT ![t] = b]
    PROVE  /\ Moves(t, place)
           /\ pc' \in [Threads -> Locations]
           /\ req' \in [Threads -> Requests \cup {NoRequest}]
           /\ obj' \in [Threads -> 0..Len(heap)]
           /\ stored' \in [Threads -> HostedBundle \cup {EmptyBundle}]
           /\ met' \in [Threads -> SUBSET Operations]
           /\ \A u \in Threads \ {t} : InHandler(u)'
<1>1. Moves(t, place)
  BY DEF Typing, Moves, Frame
<1>2. \A u \in Threads \ {t} : InHandler(u)'
  BY <1>1 DEF Moves, Frame, Typing, InHandler
<1>3. /\ pc' \in [Threads -> Locations]
      /\ req' \in [Threads -> Requests \cup {NoRequest}]
      /\ obj' \in [Threads -> 0..Len(heap)]
      /\ stored' \in [Threads -> HostedBundle \cup {EmptyBundle}]
      /\ met' \in [Threads -> SUBSET Operations]
  BY DEF Typing
<1> QED BY <1>1, <1>2, <1>3

(* put_facts 55-62 *)
LEMMA PutReadEffect ==
    ASSUME Typing, NEW t \in Threads, PutRead(t)
    PROVE  /\ UNCHANGED <<shared, history>> /\ LocalTyping'
           /\ \/ Over(t) /\ Frame(t)
              \/ /\ pc[t] = "put" /\ Moves(t, "put_merge")
                 /\ obj'[t] = store[req[t].agent]
                 /\ stored'[t].contestations = IdBearing(req[t].bundle.contestations)
                 /\ stored'[t].severance = req[t].bundle.severance
<1>1. CASE Answer(t, Unprocessable) /\ UNCHANGED <<shared, history>>
  BY <1>1, AnswerEnds DEF LocalTyping, shared, Typing
<1>2. CASE /\ req[t].agent_id = req[t].agent
           /\ obj' = [obj EXCEPT ![t] = store[req[t].agent]]
           /\ stored' = [stored EXCEPT ![t] =
                 [req[t].bundle EXCEPT !.contestations = IdBearing(@)]]
           /\ pc' = [pc EXCEPT ![t] = "put_merge"]
           /\ UNCHANGED <<shared, req, begun, met, reply, history>>
  <2>1. pc[t] = "put" /\ pc[t] # "idle"
    BY DEF PutRead
  <2>2. req[t] \in PutRequest /\ req[t].agent \in Agents /\ InHandler(t)
    BY <2>1, Handles, Zenon DEF Typing
  <2>3. req[t].bundle \in BundleObject /\ req[t].bundle.contestations \in Seq(Entry)
    BY <2>2 DEF PutRequest, BundleObject
  <2> DEFINE b == [req[t].bundle EXCEPT !.contestations = IdBearing(@)]
  <2>4. /\ b \in HostedBundle /\ b.contestations = IdBearing(req[t].bundle.contestations)
        /\ b.severance = req[t].bundle.severance
    BY <2>3, IdBearingKeeps, WithContestations
  <2>5. store[req[t].agent] \in 0..Len(heap) /\ "put_merge" \in Locations
    BY <2>2 DEF Typing, Locations
  <2> HIDE DEF b
  <2>6. stored' = [stored EXCEPT ![t] = b]
    BY <1>2 DEF b
  <2>7. /\ Moves(t, "put_merge")
        /\ pc' \in [Threads -> Locations]
        /\ req' \in [Threads -> Requests \cup {NoRequest}]
        /\ obj' \in [Threads -> 0..Len(heap)]
        /\ stored' \in [Threads -> HostedBundle \cup {EmptyBundle}]
        /\ met' \in [Threads -> SUBSET Operations]
        /\ \A u \in Threads \ {t} : InHandler(u)'
    BY <1>2, <2>4, <2>5, <2>6, MoveTyped
  <2>8. stored'[t] = b /\ obj'[t] = store[req[t].agent]
    BY <1>2, <2>6 DEF Typing
  <2>9. InHandler(t)'
    BY <1>2, <2>1, <2>2, <2>4, <2>7, <2>8
       DEF InHandler, Moves, Building, Contesting, Severing, Operations
  <2> QED BY <1>2, <2>1, <2>4, <2>7, <2>8, <2>9 DEF LocalTyping, shared, Typing
<1> QED BY <1>1, <1>2 DEF PutRead

(* The bundle a reference stands for. *)
LEMMA DerefTyped ==
    ASSUME Typing, NEW ref \in 0..Len(heap)
    PROVE  /\ Deref(ref).contestations \in Seq(IdBearers)
           /\ Deref(ref).severance \in Sevs \cup {NoSeverance}
           /\ ref # NoObject => Deref(ref) = heap[ref] /\ heap[ref] \in HostedBundle
<1>1. Len(heap) \in Nat
  BY LenProperties DEF Typing
<1>2. CASE ref = NoObject
  <2>1. Deref(ref) = EmptyBundle
    BY <1>2 DEF Deref
  <2> QED BY <1>2, <2>1 DEF EmptyBundle
<1>3. CASE ref # NoObject
  <2>1. ref \in 1..Len(heap) /\ Deref(ref) = heap[ref]
    BY <1>1, <1>3 DEF Deref, NoObject
  <2>2. heap[ref] \in HostedBundle
    BY <2>1, ElementOfSeq DEF Typing
  <2> QED BY <2>1, <2>2 DEF HostedBundle
<1> QED BY <1>2, <1>3

(* put_facts 64-69 *)
LEMMA PutMergeEffect ==
    ASSUME Typing, NEW t \in Threads, PutMerge(t)
    PROVE  /\ UNCHANGED <<shared, history>> /\ LocalTyping'
           /\ pc[t] = "put_merge" /\ Moves(t, "put_severance")
           /\ obj'[t] = obj[t]
           /\ stored'[t].contestations =
                 MergeLists(stored[t].contestations, Deref(obj[t]).contestations)
           /\ stored'[t].severance = stored[t].severance
<1>1. pc[t] = "put_merge" /\ pc[t] # "idle"
  BY DEF PutMerge
<1>2. InHandler(t) /\ stored[t] \in HostedBundle /\ obj[t] \in 0..Len(heap)
  BY <1>1 DEF Typing, InHandler, Building
<1> DEFINE list == MergeLists(stored[t].contestations, Deref(obj[t]).contestations)
           b == [stored[t] EXCEPT !.contestations = list]
<1>3. Deref(obj[t]).contestations \in Seq(IdBearers)
  BY <1>2, DerefTyped
<1>4. stored[t].contestations \in Seq(IdBearers)
  BY <1>2 DEF HostedBundle
<1>5. list \in Seq(IdBearers)
  BY <1>3, <1>4, MergeListsKeeps
<1>6. stored' = [stored EXCEPT ![t] = b]
  BY DEF PutMerge
<1> HIDE DEF list
<1>7. /\ b \in HostedBundle /\ b.contestations = list
      /\ b.severance = stored[t].severance
  BY <1>2, <1>5, WithList
<1> HIDE DEF b
<1>8. /\ Moves(t, "put_severance")
      /\ pc' \in [Threads -> Locations]
      /\ req' \in [Threads -> Requests \cup {NoRequest}]
      /\ obj' \in [Threads -> 0..Len(heap)]
      /\ stored' \in [Threads -> HostedBundle \cup {EmptyBundle}]
      /\ met' \in [Threads -> SUBSET Operations]
      /\ \A u \in Threads \ {t} : InHandler(u)'
  <2>1. "put_severance" \in Locations
    BY DEF Locations
  <2> QED BY <1>6, <1>7, <2>1, MoveTyped DEF PutMerge
<1>9. stored'[t] = b /\ obj'[t] = obj[t]
  BY <1>6 DEF Typing, PutMerge
<1>10. InHandler(t)'
  BY <1>1, <1>2, <1>7, <1>8, <1>9
     DEF InHandler, Moves, Building, Contesting, Severing, Operations
<1>11. UNCHANGED <<shared, begun, history>>
  BY DEF PutMerge
<1> QED BY <1>1, <1>7, <1>8, <1>9, <1>10, <1>11 DEF LocalTyping, shared, Typing, list

(* put_facts 72-73 *)
LEMMA PutSeveranceEffect ==
    ASSUME Typing, NEW t \in Threads, PutSeverance(t)
    PROVE  /\ UNCHANGED <<shared, history>> /\ LocalTyping'
           /\ pc[t] = "put_severance" /\ Moves(t, "put_store")
           /\ obj'[t] = obj[t]
           /\ stored'[t].contestations = stored[t].contestations
           /\ stored'[t].severance = IF stored[t].severance = NoSeverance
                                     THEN Deref(obj[t]).severance ELSE stored[t].severance
<1>1. pc[t] = "put_severance" /\ pc[t] # "idle"
  BY DEF PutSeverance
<1>2. InHandler(t) /\ stored[t] \in HostedBundle /\ obj[t] \in 0..Len(heap)
  BY <1>1 DEF Typing, InHandler, Building
<1> DEFINE s == IF stored[t].severance = NoSeverance THEN Deref(obj[t]).severance
                ELSE stored[t].severance
           b == [stored[t] EXCEPT !.severance = s]
<1>3. Deref(obj[t]).severance \in Sevs \cup {NoSeverance}
  BY <1>2, DerefTyped
<1>4. s \in Sevs \cup {NoSeverance}
  BY <1>2, <1>3 DEF HostedBundle
<1>5. stored' = [stored EXCEPT ![t] = b]
  BY DEF PutSeverance
<1> HIDE DEF s
<1>6. /\ b \in HostedBundle /\ b.contestations = stored[t].contestations
      /\ b.severance = s
  BY <1>2, <1>4, WithSeverance
<1> HIDE DEF b
<1>7. /\ Moves(t, "put_store")
      /\ pc' \in [Threads -> Locations]
      /\ req' \in [Threads -> Requests \cup {NoRequest}]
      /\ obj' \in [Threads -> 0..Len(heap)]
      /\ stored' \in [Threads -> HostedBundle \cup {EmptyBundle}]
      /\ met' \in [Threads -> SUBSET Operations]
      /\ \A u \in Threads \ {t} : InHandler(u)'
  <2>1. "put_store" \in Locations
    BY DEF Locations
  <2> QED BY <1>5, <1>6, <2>1, MoveTyped DEF PutSeverance
<1>8. stored'[t] = b /\ obj'[t] = obj[t]
  BY <1>5 DEF Typing, PutSeverance
<1>9. InHandler(t)'
  BY <1>1, <1>2, <1>6, <1>7, <1>8
     DEF InHandler, Moves, Building, Contesting, Severing, Operations
<1>10. UNCHANGED <<shared, begun, history>>
  BY DEF PutSeverance
<1> QED BY <1>1, <1>6, <1>7, <1>8, <1>9, <1>10 DEF LocalTyping, shared, Typing, s

(* put_facts 74-75 *)
LEMMA PutStoreEffect ==
    ASSUME Typing, NEW t \in Threads, PutStore(t)
    PROVE  /\ pc[t] = "put_store" /\ Over(t) /\ Frame(t) /\ LocalTyping' /\ SharedTyping'
           /\ Len(heap) \in Nat /\ Len(heap') = Len(heap) + 1
           /\ heap'[Len(heap) + 1] = stored[t]
           /\ \A ref \in 1..Len(heap) : heap'[ref] = heap[ref]
           /\ \A a \in Agents : store'[a] = IF a = req[t].agent THEN Len(heap) + 1 ELSE store[a]
           /\ \A a \in Agents : applied'[a] = IF a = req[t].agent
                                              THEN applied[a] \cup {BodyView(req[t])}
                                              ELSE applied[a]
           /\ UNCHANGED <<posted, clash>>
           /\ NoteQuiet(t, IdsOf(req[t].bundle.contestations))
           /\ NoteExit(t, req[t].bundle.severance # NoSeverance)
<1>1. pc[t] = "put_store" /\ pc[t] # "idle" /\ Answer(t, Ok)
  BY DEF PutStore
<1>2. InHandler(t) /\ stored[t] \in HostedBundle /\ req[t] \in Requests /\ req[t].op = "put"
  BY <1>1, Handles DEF Typing, InHandler, Building
<1>3. req[t] \in PutRequest /\ req[t].agent \in Agents
  BY <1>2, RequestKinds
<1>4. /\ heap' \in Seq(HostedBundle) /\ Len(heap') = Len(heap) + 1
      /\ Len(heap) \in Nat /\ heap'[Len(heap) + 1] = stored[t]
      /\ \A ref \in 1..Len(heap) : heap'[ref] = heap[ref]
  BY <1>2, Published DEF PutStore, Typing
<1>5. store' = [store EXCEPT ![req[t].agent] = Len(heap) + 1]
  BY DEF PutStore
<1>6. store' \in [Agents -> 0..Len(heap')]
  <2>1. Len(heap) + 1 \in 0..Len(heap') /\ \A ref \in 0..Len(heap) : ref \in 0..Len(heap')
    BY <1>4
  <2> QED BY <1>5, <2>1, Zenon DEF Typing
<1>7. \A a \in Agents : store'[a] = IF a = req[t].agent THEN Len(heap) + 1 ELSE store[a]
  BY <1>5 DEF Typing
<1>8. BodyView(req[t]) \in PutBodies
  BY <1>2 DEF PutBodies
<1>9. applied' = [applied EXCEPT ![req[t].agent] = @ \cup {BodyView(req[t])}]
  BY DEF PutStore
<1>10. /\ applied' \in [Agents -> SUBSET PutBodies]
       /\ \A a \in Agents : applied'[a] = IF a = req[t].agent
                                          THEN applied[a] \cup {BodyView(req[t])}
                                          ELSE applied[a]
  BY <1>8, <1>9 DEF Typing
<1>11. /\ NoteQuiet(t, IdsOf(req[t].bundle.contestations)) /\ UNCHANGED <<posted, clash>>
       /\ NoteExit(t, req[t].bundle.severance # NoSeverance)
  BY DEF PutStore
<1>12. IdsOf(req[t].bundle.contestations) \in SUBSET Ids
  <2>1. req[t].bundle.contestations \in Seq(Entry)
    BY <1>3 DEF PutRequest, BundleObject
  <2>2. \A n \in DOMAIN req[t].bundle.contestations : req[t].bundle.contestations[n] \in Entry
    BY <2>1, ElementOfSeq, LenProperties
  <2> QED BY <2>2 DEF IdsOf, Entry
<1>13. quiet' \in SUBSET (Agents \X Ids)
  BY <1>3, <1>11, <1>12 DEF NoteQuiet, Typing
<1>13a. exited' \in SUBSET Agents
  BY <1>3, <1>11 DEF NoteExit, Typing
<1>14. SharedTyping'
  BY <1>4, <1>6, <1>10, <1>11, <1>13, <1>13a DEF SharedTyping, Typing
<1>15. /\ Over(t) /\ Frame(t) /\ begun' = begun
       /\ pc' \in [Threads -> Locations]
       /\ req' \in [Threads -> Requests \cup {NoRequest}]
       /\ obj' \in [Threads -> 0..Len(heap)]
       /\ stored' \in [Threads -> HostedBundle \cup {EmptyBundle}]
       /\ met' \in [Threads -> SUBSET Operations]
       /\ \A u \in Threads : InHandler(u)'
  BY <1>1, AnswerEnds
<1>16. obj' \in [Threads -> 0..Len(heap')]
  BY <1>4, <1>15
<1>17. LocalTyping'
  BY <1>15, <1>16 DEF LocalTyping, Typing
<1> QED BY <1>1, <1>4, <1>7, <1>10, <1>11, <1>14, <1>15, <1>17

(* get_facts *)
LEMMA GetFactsEffect ==
    ASSUME Typing, NEW t \in Threads, GetFacts(t)
    PROVE  /\ UNCHANGED <<shared, history>> /\ LocalTyping'
           /\ Over(t) /\ Frame(t)
  BY AnswerEnds DEF GetFacts, LocalTyping, shared, Typing

(* add_contestation 90-93 *)
LEMMA ContestGetEffect ==
    ASSUME Typing, NEW t \in Threads, ContestGet(t)
    PROVE  /\ UNCHANGED <<shared, history>> /\ LocalTyping'
           /\ \/ Over(t) /\ Frame(t)
              \/ /\ pc[t] = "contest" /\ Moves(t, "contest_scan")
                 /\ obj'[t] = store[req[t].agent]
                 /\ store[req[t].agent] # NoObject
<1>1. UNCHANGED <<shared, history>>
  BY DEF ContestGet
<1>2. CASE Answer(t, NotFound)
  BY <1>1, <1>2, AnswerEnds DEF LocalTyping, shared, Typing
<1>3. CASE /\ store[req[t].agent] # NoObject
           /\ obj' = [obj EXCEPT ![t] = store[req[t].agent]]
           /\ pc' = [pc EXCEPT ![t] = "contest_scan"]
           /\ UNCHANGED <<req, stored, begun, met, reply>>
  <2>1. pc[t] = "contest" /\ pc[t] # "idle"
    BY DEF ContestGet
  <2>2. req[t] \in ContestRequest /\ req[t].agent \in Agents /\ InHandler(t)
    BY <2>1, Handles, Zenon DEF Typing
  <2>3. store[req[t].agent] \in 0..Len(heap) /\ "contest_scan" \in Locations
    BY <2>2 DEF Typing, Locations
  <2>4. /\ Moves(t, "contest_scan")
        /\ pc' \in [Threads -> Locations]
        /\ req' \in [Threads -> Requests \cup {NoRequest}]
        /\ obj' \in [Threads -> 0..Len(heap)]
        /\ stored' \in [Threads -> HostedBundle \cup {EmptyBundle}]
        /\ met' \in [Threads -> SUBSET Operations]
        /\ \A u \in Threads \ {t} : InHandler(u)'
    BY <1>3, <2>3, MoveTyped
  <2>5. obj'[t] = store[req[t].agent]
    BY <1>3 DEF Typing
  <2>6. InHandler(t)'
    BY <1>3, <2>1, <2>2, <2>4, <2>5
       DEF InHandler, Moves, Building, Contesting, Severing, Operations, ContestRequest
  <2> QED BY <1>1, <1>3, <2>1, <2>4, <2>5, <2>6 DEF LocalTyping, shared, Typing
<1> QED BY <1>2, <1>3 DEF ContestGet

(* add_contestation 96-107 *)
LEMMA ContestScanEffect ==
    ASSUME Typing, NEW t \in Threads, ContestScan(t)
    PROVE  /\ UNCHANGED <<shared, applied, posted, clash, exited>> /\ LocalTyping'
           /\ pc[t] = "contest_scan"
           /\ \/ Over(t) /\ Frame(t) /\ UNCHANGED history
              \/ /\ Over(t) /\ Frame(t)
                 /\ req[t].entry.id \in IdsOf(heap[obj[t]].contestations)
                 /\ NoteQuiet(t, {req[t].entry.id})
              \/ /\ Moves(t, "contest_append") /\ UNCHANGED history
                 /\ obj'[t] = obj[t]
                 /\ req[t].entry.id \notin IdsOf(heap[obj[t]].contestations)
<1>1. pc[t] = "contest_scan" /\ pc[t] # "idle" /\ UNCHANGED shared
  BY DEF ContestScan
<1>2. req[t] \in ContestRequest /\ InHandler(t)
  BY <1>1, Handles DEF Contesting, Typing
<1>3. CASE Answer(t, Unprocessable) /\ UNCHANGED history
  BY <1>1, <1>3, AnswerEnds DEF LocalTyping, shared, history, Typing
<1>4. CASE /\ req[t].entry.id \in IdsOf(heap[obj[t]].contestations)
           /\ Answer(t, Duplicate)
           /\ NoteQuiet(t, {req[t].entry.id})
           /\ UNCHANGED <<applied, posted, clash, exited>>
  BY <1>1, <1>4, AnswerEnds DEF LocalTyping, shared, Typing
<1>5. CASE /\ req[t].entry.id # NoId
           /\ req[t].entry.id \notin IdsOf(heap[obj[t]].contestations)
           /\ pc' = [pc EXCEPT ![t] = "contest_append"]
           /\ UNCHANGED <<req, obj, stored, begun, met, reply, history>>
  <2>1. "contest_append" \in Locations
    BY DEF Locations
  <2>2. /\ Moves(t, "contest_append")
        /\ pc' \in [Threads -> Locations]
        /\ req' \in [Threads -> Requests \cup {NoRequest}]
        /\ obj' \in [Threads -> 0..Len(heap)]
        /\ stored' \in [Threads -> HostedBundle \cup {EmptyBundle}]
        /\ met' \in [Threads -> SUBSET Operations]
        /\ \A u \in Threads \ {t} : InHandler(u)'
    BY <1>5, <2>1, MoveTyped
  <2>3. InHandler(t)'
    BY <1>1, <1>2, <1>5, <2>2
       DEF InHandler, Moves, Building, Contesting, Severing, Operations
  <2> QED BY <1>1, <1>5, <2>2, <2>3 DEF LocalTyping, shared, history, Typing
<1> QED BY <1>3, <1>4, <1>5 DEF ContestScan

(* add_contestation 108-109 *)
LEMMA ContestAppendEffect ==
    ASSUME Typing, NEW t \in Threads, ContestAppend(t)
    PROVE  LET e == req[t].entry
               a == req[t].agent
           IN  /\ pc[t] = "contest_append" /\ Over(t) /\ Frame(t)
               /\ LocalTyping' /\ SharedTyping'
               /\ e \in IdBearers /\ a \in Agents /\ obj[t] \in 1..Len(heap)
               /\ heap[obj[t]].contestations \in Seq(IdBearers)
               /\ Len(heap') = Len(heap)
               /\ heap'[obj[t]].contestations = Append(heap[obj[t]].contestations, e)
               /\ heap'[obj[t]].severance = heap[obj[t]].severance
               /\ \A ref \in 1..Len(heap) \ {obj[t]} : heap'[ref] = heap[ref]
               /\ \A x \in Agents : posted'[x] = IF x = a THEN posted[x] \cup {<<e.id, e.claim>>}
                                                 ELSE posted[x]
               /\ UNCHANGED <<store, applied, exited>>
               /\ NoteQuiet(t, {e.id})
               /\ clash' = IF "contest" \in met[t] THEN clash \cup {<<a, e.id>>} ELSE clash
<1> DEFINE e == req[t].entry
           a == req[t].agent
           b == heap[obj[t]]
           list == Append(b.contestations, e)
<1>1. /\ pc[t] = "contest_append" /\ pc[t] # "idle" /\ Answer(t, Ok)
      /\ UNCHANGED <<store, applied, exited>>
  BY DEF ContestAppend
<1>2. InHandler(t) /\ req[t] \in ContestRequest /\ obj[t] \in 1..Len(heap) /\ a \in Agents
  BY <1>1, Handles DEF Contesting, Typing
<1>3. e \in IdBearers
  BY <1>1, <1>2 DEF InHandler, ContestRequest, Entry, IdBearers
<1>4. b \in HostedBundle /\ b.contestations \in Seq(IdBearers)
  <2>1. b \in HostedBundle
    BY <1>2, ElementOfSeq DEF Typing
  <2> HIDE DEF b
  <2> QED BY <2>1 DEF HostedBundle
<1>5. list \in Seq(IdBearers)
  BY <1>3, <1>4, AppendProperties
<1>6. heap' = [heap EXCEPT ![obj[t]] = [b EXCEPT !.contestations = list]]
  BY DEF ContestAppend
<1>7. /\ [b EXCEPT !.contestations = list] \in HostedBundle
      /\ [b EXCEPT !.contestations = list].contestations = list
      /\ [b EXCEPT !.contestations = list].severance = b.severance
  <2> HIDE DEF b, list
  <2> QED BY <1>4, <1>5, WithList
<1>8. /\ heap' \in Seq(HostedBundle) /\ Len(heap') = Len(heap)
      /\ heap'[obj[t]] = [b EXCEPT !.contestations = list]
      /\ \A r \in 1..Len(heap) \ {obj[t]} : heap'[r] = heap[r]
  <2> HIDE DEF b, list
  <2> QED BY <1>2, <1>6, <1>7, ChangedInPlace DEF Typing
<1>9. /\ heap'[obj[t]].contestations = list
      /\ heap'[obj[t]].severance = b.severance
  <2> HIDE DEF b, list
  <2> QED BY <1>7, <1>8
<1>10. /\ \A x \in Agents : posted'[x] = IF x = a THEN posted[x] \cup {<<e.id, e.claim>>}
                                        ELSE posted[x]
       /\ posted' \in [Agents -> SUBSET (Ids \X Claims)]
  <2>1. <<e.id, e.claim>> \in Ids \X Claims
    BY <1>3 DEF IdBearers
  <2>2. posted' = [posted EXCEPT ![a] = @ \cup {<<e.id, e.claim>>}]
    BY DEF ContestAppend
  <2> HIDE DEF e, a
  <2> QED BY <2>1, <2>2 DEF Typing
<1>11. /\ NoteQuiet(t, {e.id})
       /\ clash' = IF "contest" \in met[t] THEN clash \cup {<<a, e.id>>} ELSE clash
  BY DEF ContestAppend
<1>12. quiet' \in SUBSET (Agents \X Ids) /\ clash' \in SUBSET (Agents \X Ids)
  BY <1>2, <1>3, <1>11 DEF NoteQuiet, Typing, IdBearers
<1>13. SharedTyping'
  BY <1>1, <1>8, <1>10, <1>12 DEF SharedTyping, Typing
<1>14. /\ Over(t) /\ Frame(t) /\ begun' = begun
       /\ pc' \in [Threads -> Locations]
       /\ req' \in [Threads -> Requests \cup {NoRequest}]
       /\ obj' \in [Threads -> 0..Len(heap)]
       /\ stored' \in [Threads -> HostedBundle \cup {EmptyBundle}]
       /\ met' \in [Threads -> SUBSET Operations]
       /\ \A u \in Threads : InHandler(u)'
  BY <1>1, AnswerEnds
<1>15. LocalTyping'
  BY <1>8, <1>14 DEF LocalTyping, Typing
<1> QED BY <1>1, <1>2, <1>3, <1>4, <1>8, <1>9, <1>10, <1>11, <1>13, <1>14, <1>15

(* set_severance 123-125 *)
LEMMA SeverGetEffect ==
    ASSUME Typing, NEW t \in Threads, SeverGet(t)
    PROVE  /\ UNCHANGED <<shared, history>> /\ LocalTyping'
           /\ \/ Over(t) /\ Frame(t)
              \/ /\ pc[t] = "sever" /\ Moves(t, "sever_check")
                 /\ obj'[t] = store[req[t].agent]
                 /\ store[req[t].agent] # NoObject
<1>1. UNCHANGED <<shared, history>>
  BY DEF SeverGet
<1>2. CASE Answer(t, NotFound)
  BY <1>1, <1>2, AnswerEnds DEF LocalTyping, shared, Typing
<1>3. CASE /\ store[req[t].agent] # NoObject
           /\ obj' = [obj EXCEPT ![t] = store[req[t].agent]]
           /\ pc' = [pc EXCEPT ![t] = "sever_check"]
           /\ UNCHANGED <<req, stored, begun, met, reply>>
  <2>1. pc[t] = "sever" /\ pc[t] # "idle"
    BY DEF SeverGet
  <2>2. req[t] \in SeverRequest /\ req[t].agent \in Agents /\ InHandler(t)
    BY <2>1, Handles, Zenon DEF Typing
  <2>3. store[req[t].agent] \in 0..Len(heap) /\ "sever_check" \in Locations
    BY <2>2 DEF Typing, Locations
  <2>4. /\ Moves(t, "sever_check")
        /\ pc' \in [Threads -> Locations]
        /\ req' \in [Threads -> Requests \cup {NoRequest}]
        /\ obj' \in [Threads -> 0..Len(heap)]
        /\ stored' \in [Threads -> HostedBundle \cup {EmptyBundle}]
        /\ met' \in [Threads -> SUBSET Operations]
        /\ \A u \in Threads \ {t} : InHandler(u)'
    BY <1>3, <2>3, MoveTyped
  <2>5. obj'[t] = store[req[t].agent]
    BY <1>3 DEF Typing
  <2>6. InHandler(t)'
    BY <1>3, <2>1, <2>2, <2>4, <2>5
       DEF InHandler, Moves, Building, Contesting, Severing, Operations, SeverRequest
  <2> QED BY <1>1, <1>3, <2>1, <2>4, <2>5, <2>6 DEF LocalTyping, shared, Typing
<1> QED BY <1>2, <1>3 DEF SeverGet

(* set_severance 126-128 *)
LEMMA SeverCheckEffect ==
    ASSUME Typing, NEW t \in Threads, SeverCheck(t)
    PROVE  /\ UNCHANGED <<shared, applied, posted, quiet, clash>> /\ LocalTyping'
           /\ pc[t] = "sever_check"
           /\ \/ /\ Over(t) /\ Frame(t)
                 /\ heap[obj[t]].severance # NoSeverance /\ NoteExit(t, TRUE)
              \/ /\ Moves(t, "sever_set") /\ UNCHANGED exited
                 /\ obj'[t] = obj[t]
                 /\ heap[obj[t]].severance = NoSeverance
<1>1. pc[t] = "sever_check" /\ pc[t] # "idle" /\ UNCHANGED <<shared, applied, posted, quiet, clash>>
  BY DEF SeverCheck
<1>2. InHandler(t)
  BY DEF Typing
<1>3. CASE /\ heap[obj[t]].severance # NoSeverance
           /\ Answer(t, Duplicate) /\ NoteExit(t, TRUE)
  BY <1>1, <1>3, AnswerEnds DEF LocalTyping, shared, Typing
<1>4. CASE /\ heap[obj[t]].severance = NoSeverance
           /\ pc' = [pc EXCEPT ![t] = "sever_set"]
           /\ UNCHANGED <<req, obj, stored, begun, met, reply, exited>>
  <2>1. "sever_set" \in Locations
    BY DEF Locations
  <2>2. /\ Moves(t, "sever_set")
        /\ pc' \in [Threads -> Locations]
        /\ req' \in [Threads -> Requests \cup {NoRequest}]
        /\ obj' \in [Threads -> 0..Len(heap)]
        /\ stored' \in [Threads -> HostedBundle \cup {EmptyBundle}]
        /\ met' \in [Threads -> SUBSET Operations]
        /\ \A u \in Threads \ {t} : InHandler(u)'
    BY <1>4, <2>1, MoveTyped
  <2>3. InHandler(t)'
    BY <1>1, <1>2, <1>4, <2>2
       DEF InHandler, Moves, Building, Contesting, Severing, Operations
  <2> QED BY <1>1, <1>4, <2>2, <2>3 DEF LocalTyping, shared, Typing
<1> QED BY <1>3, <1>4 DEF SeverCheck

(* set_severance 129-130 *)
LEMMA SeverSetEffect ==
    ASSUME Typing, NEW t \in Threads, SeverSet(t)
    PROVE  /\ pc[t] = "sever_set" /\ Over(t) /\ Frame(t)
           /\ LocalTyping' /\ SharedTyping'
           /\ obj[t] \in 1..Len(heap) /\ Len(heap') = Len(heap)
           /\ heap'[obj[t]].contestations = heap[obj[t]].contestations
           /\ \A ref \in 1..Len(heap) \ {obj[t]} : heap'[ref] = heap[ref]
           /\ heap'[obj[t]].severance = req[t].severance
           /\ UNCHANGED <<store, applied, posted, quiet, clash>>
           /\ NoteExit(t, req[t].severance # NoSeverance)
<1> DEFINE b == heap[obj[t]]
           new == [b EXCEPT !.severance = req[t].severance]
<1>1. /\ pc[t] = "sever_set" /\ pc[t] # "idle" /\ Answer(t, Ok)
      /\ UNCHANGED <<store, applied, posted, quiet, clash>>
      /\ NoteExit(t, req[t].severance # NoSeverance)
  BY DEF SeverSet
<1>2. req[t] \in SeverRequest /\ obj[t] \in 1..Len(heap)
  BY <1>1, Handles DEF Severing
<1>3. b \in HostedBundle /\ req[t].severance \in Sevs \cup {NoSeverance}
  BY <1>2, ElementOfSeq DEF Typing, SeverRequest
<1>4. heap' = [heap EXCEPT ![obj[t]] = new]
  BY DEF SeverSet
<1>5. /\ new \in HostedBundle /\ new.contestations = b.contestations
      /\ new.severance = req[t].severance
  <2> HIDE DEF b
  <2> QED BY <1>3, WithSeverance
<1>6. /\ heap' \in Seq(HostedBundle) /\ Len(heap') = Len(heap)
      /\ heap'[obj[t]] = new
      /\ \A r \in 1..Len(heap) \ {obj[t]} : heap'[r] = heap[r]
  <2> HIDE DEF b, new
  <2> QED BY <1>2, <1>4, <1>5, ChangedInPlace DEF Typing
<1>7. /\ heap'[obj[t]].contestations = heap[obj[t]].contestations
      /\ heap'[obj[t]].severance = req[t].severance
  <2> HIDE DEF new
  <2> QED BY <1>5, <1>6
<1>8. SharedTyping'
  <2>1. exited' \in SUBSET Agents
    BY <1>1, <1>2 DEF NoteExit, Typing, SeverRequest
  <2> QED BY <1>1, <1>6, <2>1 DEF SharedTyping, Typing
<1>9. /\ Over(t) /\ Frame(t) /\ begun' = begun
      /\ pc' \in [Threads -> Locations]
      /\ req' \in [Threads -> Requests \cup {NoRequest}]
      /\ obj' \in [Threads -> 0..Len(heap)]
      /\ stored' \in [Threads -> HostedBundle \cup {EmptyBundle}]
      /\ met' \in [Threads -> SUBSET Operations]
      /\ \A u \in Threads : InHandler(u)'
  BY <1>1, AnswerEnds
<1>10. LocalTyping'
  BY <1>6, <1>9 DEF LocalTyping, Typing
<1> QED BY <1>1, <1>2, <1>6, <1>7, <1>8, <1>9, <1>10

(* A thread takes up a request: whoever handles one of the same agent has   *)
(* met it, and it has met them.                                             *)
LEMMA BeginEffect ==
    ASSUME Typing, NEW t \in Threads, NEW r \in Requests, Begin(t, r)
    PROVE  /\ UNCHANGED <<shared, history>> /\ LocalTyping'
           /\ pc[t] = "idle" /\ pc'[t] = r.op /\ req'[t] = r /\ obj'[t] = NoObject
           /\ met'[t] = {req[v].op : v \in Active(r.agent)}
           /\ \A u \in Threads \ {t} :
                 /\ pc'[u] = pc[u] /\ req'[u] = req[u] /\ obj'[u] = obj[u]
                 /\ stored'[u] = stored[u]
                 /\ met'[u] = IF u \in Active(r.agent) THEN met[u] \cup {r.op} ELSE met[u]
<1>1. /\ pc[t] = "idle" /\ begun' = begun + 1 /\ begun < MaxRequests
      /\ req' = [req EXCEPT ![t] = r] /\ pc' = [pc EXCEPT ![t] = r.op]
      /\ UNCHANGED <<shared, obj, stored, reply, history>>
      /\ met' = [u \in Threads |->
                   IF u = t THEN {req[v].op : v \in Active(r.agent)}
                   ELSE IF u \in Active(r.agent) THEN met[u] \cup {r.op} ELSE met[u]]
  BY DEF Begin
<1>2. r.op \in Operations /\ r # NoRequest /\ Operations \subseteq Locations \ {"idle"}
  BY RequestKinds DEF Operations, Locations
<1>3. \A v \in Active(r.agent) : v \in Threads /\ req[v].op \in Operations
  BY Handles DEF Active
<1>4. t \notin Active(r.agent)
  BY <1>1 DEF Active
<1>5. met' \in [Threads -> SUBSET Operations]
  BY <1>1, <1>2, <1>3 DEF Typing
<1>6. begun' \in 0..MaxRequests
  BY <1>1, MaxRequestsAssumption DEF Typing
<1>7. \A u \in Threads \ {t} : pc'[u] = pc[u] /\ req'[u] = req[u] /\ obj'[u] = obj[u]
                               /\ stored'[u] = stored[u]
  BY <1>1 DEF Typing
<1>8. \A u \in Threads \ {t} : InHandler(u)'
  BY <1>7 DEF Typing, InHandler
<1>9. pc'[t] = r.op /\ req'[t] = r /\ obj'[t] = NoObject
  BY <1>1 DEF Typing, InHandler
<1>10. InHandler(t)'
  BY <1>2, <1>9 DEF InHandler, Operations, Building, Contesting, Severing
<1>11. /\ pc' \in [Threads -> Locations]
       /\ req' \in [Threads -> Requests \cup {NoRequest}]
       /\ obj' \in [Threads -> 0..Len(heap')]
       /\ stored' \in [Threads -> HostedBundle \cup {EmptyBundle}]
  BY <1>1, <1>2 DEF Typing, shared
<1>12. LocalTyping'
  BY <1>5, <1>6, <1>8, <1>10, <1>11 DEF LocalTyping
<1> QED BY <1>1, <1>7, <1>9, <1>12

(* What the process starts with, again and again. *)
Fresh ==
    /\ heap = <<>>
    /\ store = [a \in Agents |-> NoObject]
    /\ pc = [t \in Threads |-> "idle"]
    /\ req = [t \in Threads |-> NoRequest]
    /\ obj = [t \in Threads |-> NoObject]
    /\ stored = [t \in Threads |-> EmptyBundle]
    /\ begun \in 0..MaxRequests
    /\ met = [t \in Threads |-> {}]
    /\ applied = [a \in Agents |-> {}]
    /\ posted = [a \in Agents |-> {}]
    /\ quiet = {}
    /\ clash = {}
    /\ exited = {}

(* A process that has just started is well typed. *)
LEMMA FreshTyped == Fresh => Typing
<1> SUFFICES ASSUME Fresh PROVE Typing
  OBVIOUS
<1>1. heap \in Seq(HostedBundle) /\ Len(heap) = 0
  BY DEF Fresh
<1>2. \A t \in Threads : InHandler(t)
  BY DEF Fresh, InHandler, Building, Contesting, Severing, Operations
<1>3. /\ store \in [Agents -> 0..Len(heap)]
      /\ obj \in [Threads -> 0..Len(heap)]
  BY <1>1 DEF Fresh, NoObject
<1> QED BY <1>1, <1>2, <1>3 DEF Fresh, Typing, Locations

(* Every step keeps every variable in its type. *)
LEMMA TypingStep == Typing /\ [Next]_vars => Typing'
<1> SUFFICES ASSUME Typing, [Next]_vars PROVE Typing'
  OBVIOUS
<1>1. ASSUME NEW t \in Threads, Step(t) PROVE LocalTyping' /\ SharedTyping'
  <2>1. CASE GetFacts(t)
    BY <2>1, GetFactsEffect DEF SharedTyping, Typing, shared, history
  <2>2. CASE PutRead(t)
    BY <2>2, PutReadEffect DEF SharedTyping, Typing, shared, history
  <2>3. CASE PutMerge(t)
    BY <2>3, PutMergeEffect DEF SharedTyping, Typing, shared, history
  <2>4. CASE PutSeverance(t)
    BY <2>4, PutSeveranceEffect DEF SharedTyping, Typing, shared, history
  <2>5. CASE PutStore(t)
    BY <2>5, PutStoreEffect
  <2>6. CASE ContestGet(t)
    BY <2>6, ContestGetEffect DEF SharedTyping, Typing, shared, history
  <2>7. CASE ContestScan(t)
    <3>1. quiet' \in SUBSET (Agents \X Ids)
      <4>1. CASE UNCHANGED history
        BY <4>1 DEF history, Typing
      <4>2. CASE NoteQuiet(t, {req[t].entry.id})
                 /\ req[t].entry.id \in IdsOf(heap[obj[t]].contestations)
        <5>1. pc[t] = "contest_scan" /\ pc[t] # "idle"
          BY <2>7, ContestScanEffect
        <5>2. req[t].agent \in Agents /\ req[t] \in ContestRequest
          BY <5>1, Handles DEF Contesting
        <5>3. req[t].entry.id \in Ids
          BY <4>2, <5>2, NoIdAssumption DEF IdsOf, ContestRequest, Entry
        <5> QED BY <4>2, <5>2, <5>3 DEF NoteQuiet, Typing
      <4> QED BY <2>7, <4>1, <4>2, ContestScanEffect DEF history
    <3> QED BY <2>7, <3>1, ContestScanEffect DEF SharedTyping, Typing, shared
  <2>8. CASE ContestAppend(t)
    BY <2>8, ContestAppendEffect
  <2>9. CASE SeverGet(t)
    BY <2>9, SeverGetEffect DEF SharedTyping, Typing, shared, history
  <2>10. CASE SeverCheck(t)
    <3>1. req[t].agent \in Agents
      BY <2>10, SeverCheckEffect, Handles
    <3>2. exited' \in SUBSET Agents
      BY <2>10, <3>1, SeverCheckEffect DEF NoteExit, Typing
    <3> QED BY <2>10, <3>2, SeverCheckEffect DEF SharedTyping, Typing, shared
  <2>11. CASE SeverSet(t)
    BY <2>11, SeverSetEffect
  <2> QED BY <1>1, <2>1, <2>2, <2>3, <2>4, <2>5, <2>6, <2>7, <2>8, <2>9, <2>10, <2>11 DEF Step
<1>2. ASSUME NEW t \in Threads, NEW r \in Requests, Begin(t, r) PROVE LocalTyping' /\ SharedTyping'
  BY <1>2, BeginEffect DEF SharedTyping, Typing, shared, history
<1>3. Restart => Typing'
  <2>1. Restart => Fresh'
    BY DEF Restart, Fresh, Typing
  <2>2. Fresh' => Typing'
    BY FreshTyped, PTL
  <2> QED BY <2>1, <2>2
<1>4. UNCHANGED vars => Typing'
  BY DEF vars, shared, locals, history, Typing, InHandler
<1>5. LocalTyping' /\ SharedTyping' => Typing'
  BY TypingParts, PTL
<1> QED BY <1>1, <1>2, <1>3, <1>4, <1>5 DEF Next

(* The types hold in every reachable state. *)
LEMMA TypingHolds == Spec => []Typing
<1>1. Init => Fresh
  BY MaxRequestsAssumption DEF Init, Fresh
<1> QED BY <1>1, FreshTyped, TypingStep, PTL DEF Spec

(* Bundles with ids are bundles. *)
LEMMA HostedAreBundles == Seq(HostedBundle) \subseteq Seq(BundleObject)
<1>1. IdBearers \subseteq Entry
  BY DEF IdBearers, Entry
<1>2. Seq(IdBearers) \subseteq Seq(Entry)
  BY <1>1, SeqMonotonic
<1>3. HostedBundle \subseteq BundleObject
  BY <1>2 DEF HostedBundle, BundleObject
<1> QED BY <1>3, SeqMonotonic

(* Whatever the threads do, _store refers to bundles of the declared shape, *)
(* and a handler that writes to a bundle has one.                           *)
THEOREM TypeCorrect == Spec => []TypeOK
<1>1. Typing => TypeOK
  <2> SUFFICES ASSUME Typing PROVE TypeOK
    OBVIOUS
  <2>1. heap \in Seq(BundleObject)
    BY HostedAreBundles DEF Typing
  <2>2. \A t \in Threads :
           /\ req[t] \in Requests \cup {NoRequest}
           /\ pc[t] = "idle" <=> req[t] = NoRequest
           /\ pc[t] \in {"contest_scan", "contest_append", "sever_check", "sever_set"}
                 => obj[t] # NoObject
    BY DEF Typing, InHandler, Contesting, Severing
  <2> QED BY <2>1, <2>2 DEF Typing, TypeOK, Operations
<1> QED BY <1>1, TypingHolds, PTL
-----------------------------------------------------------------------------
(* What all steps of a handler have in common: the request ends, or goes on *)
(* with the bundle object it had or the one that is served.                 *)
Goes(t) ==
    \/ Over(t)
    \/ /\ pc[t] # "idle" /\ req'[t] = req[t] /\ met'[t] = met[t]
       /\ obj'[t] \in {obj[t], store[req[t].agent]}

(* Every step of a handler is such a step, and leaves the others alone. *)
LEMMA StepGoes ==
    ASSUME Typing, NEW t \in Threads, Step(t)
    PROVE  pc[t] # "idle" /\ Frame(t) /\ Goes(t)
<1>1. CASE GetFacts(t)
  BY <1>1, GetFactsEffect DEF Goes, GetFacts
<1>2. CASE PutRead(t)
  BY <1>2, PutReadEffect DEF Goes, Moves, PutRead
<1>3. CASE PutMerge(t)
  BY <1>3, PutMergeEffect DEF Goes, Moves, PutMerge
<1>4. CASE PutSeverance(t)
  BY <1>4, PutSeveranceEffect DEF Goes, Moves
<1>5. CASE PutStore(t)
  BY <1>5, PutStoreEffect DEF Goes
<1>6. CASE ContestGet(t)
  BY <1>6, ContestGetEffect DEF Goes, Moves, ContestGet
<1>7. CASE ContestScan(t)
  BY <1>7, ContestScanEffect DEF Goes, Moves
<1>8. CASE ContestAppend(t)
  BY <1>8, ContestAppendEffect DEF Goes
<1>9. CASE SeverGet(t)
  BY <1>9, SeverGetEffect DEF Goes, Moves, SeverGet
<1>10. CASE SeverCheck(t)
  BY <1>10, SeverCheckEffect DEF Goes, Moves, SeverCheck
<1>11. CASE SeverSet(t)
  BY <1>11, SeverSetEffect DEF Goes
<1> QED BY <1>1, <1>2, <1>3, <1>4, <1>5, <1>6, <1>7, <1>8, <1>9, <1>10, <1>11 DEF Step

(* Only put_facts and add_contestation write what is served or on record:   *)
(* the others leave _store, the lists and the history alone.                *)
LEMMA OnlyTwoWrite ==
    ASSUME Typing, NEW t \in Threads, Step(t), ~ PutStore(t)
    PROVE  /\ UNCHANGED <<store, applied>> /\ Len(heap') = Len(heap)
           /\ ~ ContestAppend(t) =>
                 /\ UNCHANGED <<posted, clash>>
                 /\ \A ref \in 1..Len(heap) : heap'[ref].contestations = heap[ref].contestations
<1>1. CASE GetFacts(t)
  BY <1>1, GetFactsEffect DEF shared, history
<1>2. CASE PutRead(t)
  BY <1>2, PutReadEffect DEF shared, history
<1>3. CASE PutMerge(t)
  BY <1>3, PutMergeEffect DEF shared, history
<1>4. CASE PutSeverance(t)
  BY <1>4, PutSeveranceEffect DEF shared, history
<1>6. CASE ContestGet(t)
  BY <1>6, ContestGetEffect DEF shared, history
<1>7. CASE ContestScan(t)
  BY <1>7, ContestScanEffect DEF shared
<1>8. CASE ContestAppend(t)
  BY <1>8, ContestAppendEffect
<1>9. CASE SeverGet(t)
  BY <1>9, SeverGetEffect DEF shared, history
<1>10. CASE SeverCheck(t)
  BY <1>10, SeverCheckEffect DEF shared, history
<1>11. CASE SeverSet(t)
  <2>1. \A ref \in 1..Len(heap) : heap'[ref].contestations = heap[ref].contestations
    BY <1>11, SeverSetEffect
  <2> QED BY <1>11, <2>1, SeverSetEffect DEF history
<1> QED BY <1>1, <1>2, <1>3, <1>4, <1>6, <1>7, <1>8, <1>9, <1>10, <1>11 DEF Step

(* The step that takes a thread to a place inside a handler. *)
LEMMA Arrives ==
    ASSUME Typing, NEW t \in Threads, Step(t)
    PROVE  /\ pc'[t] = "put_merge" => PutRead(t) /\ ~ Over(t)
           /\ pc'[t] = "put_severance" => PutMerge(t)
           /\ pc'[t] = "put_store" => PutSeverance(t)
           /\ pc'[t] = "contest_scan" => ContestGet(t) /\ ~ Over(t)
           /\ pc'[t] = "contest_append" => ContestScan(t) /\ ~ Over(t)
           /\ pc'[t] = "sever_check" => SeverGet(t) /\ ~ Over(t)
           /\ pc'[t] = "sever_set" => SeverCheck(t) /\ ~ Over(t)
<1>1. ASSUME pc'[t] # "idle" PROVE ~ Over(t)
  BY <1>1 DEF Over
<1>2. ASSUME ~ Over(t)
      PROVE  ~ GetFacts(t) /\ ~ PutStore(t) /\ ~ ContestAppend(t) /\ ~ SeverSet(t)
  BY <1>2, GetFactsEffect, PutStoreEffect, ContestAppendEffect, SeverSetEffect
<1>3. /\ PutMerge(t) => pc'[t] = "put_severance"
      /\ PutSeverance(t) => pc'[t] = "put_store"
  BY PutMergeEffect, PutSeveranceEffect DEF Moves
<1>4. ASSUME ~ Over(t)
      PROVE  /\ PutRead(t) => pc'[t] = "put_merge"
             /\ ContestGet(t) => pc'[t] = "contest_scan"
             /\ ContestScan(t) => pc'[t] = "contest_append"
             /\ SeverGet(t) => pc'[t] = "sever_check"
             /\ SeverCheck(t) => pc'[t] = "sever_set"
  BY <1>4, PutReadEffect, ContestGetEffect, ContestScanEffect, SeverGetEffect,
     SeverCheckEffect DEF Moves
<1> QED BY <1>1, <1>2, <1>3, <1>4 DEF Step

(* No bundle object comes to be shared by two agents. *)
LEMMA OwnedStep ==
    ASSUME Typing, Owned, NEW t \in Threads, Step(t)
    PROVE  Owned'
<1>1. pc[t] # "idle" /\ Frame(t) /\ Goes(t)
  BY StepGoes
<1>2. req[t].agent \in Agents
  BY <1>1, Handles
<1>3. ASSUME NEW u \in Threads, obj'[u] # NoObject
      PROVE  /\ req'[u].agent = req[u].agent
             /\ obj'[u] = obj[u] \/ (u = t /\ obj'[u] = store[req[t].agent])
  <2>1. CASE u = t
    <3>1. ~ Over(t)
      BY <1>3, <2>1 DEF Over
    <3> QED BY <1>1, <2>1, <3>1 DEF Goes
  <2>2. CASE u # t
    BY <1>1, <2>2 DEF Frame
  <2> QED BY <2>1, <2>2
<1>4. CASE PutStore(t)
  <2>1. /\ Len(heap) \in Nat /\ Over(t)
        /\ \A a \in Agents : store'[a] = IF a = req[t].agent THEN Len(heap) + 1 ELSE store[a]
    BY <1>4, PutStoreEffect
  <2>2. /\ \A a \in Agents : store[a] \in 0..Len(heap)
        /\ \A u \in Threads : obj[u] \in 0..Len(heap)
    BY DEF Typing
  <2>3. \A u \in Threads : obj'[u] # NoObject => obj'[u] = obj[u] /\ req'[u] = req[u]
    BY <1>1, <2>1 DEF Frame, Over
  <2> QED BY <2>1, <2>2, <2>3 DEF Owned, NoObject
<1>5. CASE ~ PutStore(t)
  <2>1. store' = store
    BY <1>5, OnlyTwoWrite
  <2> QED BY <1>2, <1>3, <2>1 DEF Owned
<1> QED BY <1>4, <1>5

(* Who overlaps has met. *)
LEMMA NotedStep ==
    ASSUME Typing, Noted, NEW t \in Threads, Step(t)
    PROVE  Noted'
<1>1. pc[t] # "idle" /\ Frame(t) /\ Goes(t)
  BY StepGoes
<1>2. \A u \in Threads : pc'[u] # "idle" =>
         pc[u] # "idle" /\ req'[u] = req[u] /\ met'[u] = met[u]
  BY <1>1 DEF Frame, Goes, Over
<1> QED BY <1>2 DEF Noted

(* A request that begins meets those that are still running. *)
LEMMA MeetingBegin ==
    ASSUME Typing, Owned, Noted, NEW t \in Threads, NEW r \in Requests, Begin(t, r)
    PROVE  Owned' /\ Noted'
<1>1. /\ UNCHANGED <<shared, history>>
      /\ pc[t] = "idle" /\ pc'[t] = r.op /\ req'[t] = r /\ obj'[t] = NoObject
      /\ met'[t] = {req[v].op : v \in Active(r.agent)}
      /\ \A u \in Threads \ {t} :
            /\ pc'[u] = pc[u] /\ req'[u] = req[u] /\ obj'[u] = obj[u]
            /\ met'[u] = IF u \in Active(r.agent) THEN met[u] \cup {r.op} ELSE met[u]
  BY BeginEffect
<1>2. Owned'
  <2>1. \A u \in Threads : obj'[u] # NoObject => obj'[u] = obj[u] /\ req'[u] = req[u]
    BY <1>1
  <2>2. store' = store
    BY <1>1 DEF shared
  <2> QED BY <2>1, <2>2 DEF Owned
<1>3. Noted'
  BY <1>1 DEF Noted, Active
<1> QED BY <1>2, <1>3
-----------------------------------------------------------------------------
(* Only the last step of set_severance writes a severance, to its object.   *)
LEMMA SeveranceWritten ==
    ASSUME Typing, NEW t \in Threads, Step(t),
           NEW ref \in 1..Len(heap), heap'[ref].severance # heap[ref].severance
    PROVE  pc[t] = "sever_set" /\ ref = obj[t]
<1>1. CASE GetFacts(t)
  BY <1>1, GetFactsEffect DEF shared
<1>2. CASE PutRead(t)
  BY <1>2, PutReadEffect DEF shared
<1>3. CASE PutMerge(t)
  BY <1>3, PutMergeEffect DEF shared
<1>4. CASE PutSeverance(t)
  BY <1>4, PutSeveranceEffect DEF shared
<1>5. CASE PutStore(t)
  BY <1>5, PutStoreEffect
<1>6. CASE ContestGet(t)
  BY <1>6, ContestGetEffect DEF shared
<1>7. CASE ContestScan(t)
  BY <1>7, ContestScanEffect DEF shared
<1>8. CASE ContestAppend(t)
  BY <1>8, ContestAppendEffect
<1>9. CASE SeverGet(t)
  BY <1>9, SeverGetEffect DEF shared
<1>10. CASE SeverCheck(t)
  BY <1>10, SeverCheckEffect DEF shared
<1>11. CASE SeverSet(t)
  BY <1>11, SeverSetEffect
<1> QED BY <1>1, <1>2, <1>3, <1>4, <1>5, <1>6, <1>7, <1>8, <1>9, <1>10, <1>11 DEF Step

(* Appending an entry adds its id. *)
LEMMA AppendedIds ==
    ASSUME NEW list \in Seq(IdBearers), NEW e \in IdBearers
    PROVE  IdsOf(Append(list, e)) = IdsOf(list) \cup {e.id}
<1>1. /\ Len(list) \in Nat /\ DOMAIN list = 1..Len(list)
      /\ DOMAIN Append(list, e) = 1..(Len(list) + 1)
      /\ \A n \in 1..Len(list) : Append(list, e)[n] = list[n]
      /\ Append(list, e)[Len(list) + 1] = e
  BY AppendProperties, LenProperties
<1>2. e.id # NoId
  BY NoIdAssumption DEF IdBearers
<1>3. \A n \in 1..(Len(list) + 1) : n \in 1..Len(list) \/ n = Len(list) + 1
  BY <1>1
<1>4. \A n \in 1..Len(list) : n \in 1..(Len(list) + 1)
  BY <1>1
<1>5. Len(list) + 1 \in 1..(Len(list) + 1)
  BY <1>1
<1> QED BY <1>1, <1>2, <1>3, <1>4, <1>5, Zenon DEF IdsOf

(* A list of the heap stays as it is, or a POST adds its entry to it. *)
LEMMA ListChanges ==
    ASSUME Typing, NEW t \in Threads, Step(t), NEW ref \in 1..Len(heap)
    PROVE  \/ heap'[ref].contestations = heap[ref].contestations
           \/ /\ pc[t] = "contest_append" /\ ref = obj[t]
              /\ heap'[ref].contestations = Append(heap[ref].contestations, req[t].entry)
              /\ heap[ref].contestations \in Seq(IdBearers) /\ req[t].entry \in IdBearers
<1>1. CASE PutStore(t)
  BY <1>1, PutStoreEffect
<1>2. CASE ContestAppend(t)
  BY <1>2, ContestAppendEffect
<1>3. CASE ~ PutStore(t) /\ ~ ContestAppend(t)
  BY <1>3, OnlyTwoWrite
<1> QED BY <1>1, <1>2, <1>3

(* The ids of a list of the heap only grow, by the id a POST appends. *)
LEMMA IdsChange ==
    ASSUME Typing, NEW t \in Threads, Step(t), NEW ref \in 1..Len(heap)
    PROVE  /\ IdsOf(heap[ref].contestations) \subseteq IdsOf(heap'[ref].contestations)
           /\ \A i \in IdsOf(heap'[ref].contestations) \ IdsOf(heap[ref].contestations) :
                 pc[t] = "contest_append" /\ ref = obj[t]
<1>1. CASE heap'[ref].contestations = heap[ref].contestations
  BY <1>1
<1>2. CASE /\ pc[t] = "contest_append" /\ ref = obj[t]
           /\ heap'[ref].contestations = Append(heap[ref].contestations, req[t].entry)
           /\ heap[ref].contestations \in Seq(IdBearers) /\ req[t].entry \in IdBearers
  <2>1. IdsOf(heap'[ref].contestations) = IdsOf(heap[ref].contestations) \cup {req[t].entry.id}
    BY <1>2, AppendedIds
  <2> QED BY <1>2, <2>1
<1> QED BY <1>1, <1>2, ListChanges

(* Threads with the same bundle object have met. *)
LEMMA SameObjectMet ==
    ASSUME Typing, Owned, Noted, NEW t \in Threads, NEW u \in Threads, t # u,
           pc[t] # "idle", pc[u] # "idle", obj[t] # NoObject, obj[t] = obj[u]
    PROVE  req[t].op \in met[u] /\ req[u].op \in met[t]
  BY DEF Owned, Noted

(* No step of a handler takes away what another found, unless they have met. *)
LEMMA UnwrittenStep ==
    ASSUME Typing, Owned, Noted, Unwritten, NEW t \in Threads, Step(t)
    PROVE  Unwritten'
<1>1. pc[t] # "idle" /\ Frame(t) /\ InHandler(t)
  BY StepGoes DEF Typing
<1>2. ASSUME NEW u \in Threads \ {t}, pc[u] \in {"sever_set", "contest_append"}
      PROVE  /\ obj[u] \in 1..Len(heap) /\ obj[u] # NoObject
             /\ obj'[u] = obj[u] /\ met'[u] = met[u] /\ req'[u] = req[u]
             /\ obj[t] = obj[u] => req[t].op \in met[u]
  <2>1. pc[u] # "idle" /\ pc[u] \in Contesting \cup Severing
    BY <1>2 DEF Contesting, Severing
  <2>2. obj[u] \in 1..Len(heap) /\ obj[u] # NoObject
    BY <2>1, Handles DEF Typing, InHandler
  <2> QED BY <1>1, <2>1, <2>2, SameObjectMet DEF Frame
<1>3. ASSUME NEW u \in Threads, pc'[u] = "sever_set", heap'[obj'[u]].severance # NoSeverance
      PROVE  "sever" \in met'[u]
  <2>1. CASE u = t
    <3>1. SeverCheck(t) /\ ~ Over(t)
      BY <1>3, <2>1, Arrives
    <3>2. /\ UNCHANGED shared /\ obj'[t] = obj[t] /\ heap[obj[t]].severance = NoSeverance
      BY <1>3, <2>1, <3>1, SeverCheckEffect DEF Over
    <3> QED BY <1>3, <2>1, <3>2 DEF shared
  <2>2. CASE u # t
    <3>1. pc[u] = "sever_set"
      BY <1>1, <1>3, <2>2 DEF Frame
    <3>2. /\ obj[u] \in 1..Len(heap) /\ obj'[u] = obj[u] /\ met'[u] = met[u]
          /\ obj[t] = obj[u] => req[t].op \in met[u]
      BY <1>2, <2>2, <3>1
    <3>3. CASE heap[obj[u]].severance # NoSeverance
      BY <3>1, <3>2, <3>3 DEF Unwritten
    <3>4. CASE heap[obj[u]].severance = NoSeverance
      <4>1. pc[t] = "sever_set" /\ obj[u] = obj[t]
        BY <1>3, <3>2, <3>4, SeveranceWritten
      <4>2. req[t].op = "sever"
        BY <1>1, <4>1 DEF InHandler, Severing
      <4> QED BY <3>2, <4>1, <4>2
    <3> QED BY <3>3, <3>4
  <2> QED BY <2>1, <2>2
<1>4. ASSUME NEW u \in Threads, pc'[u] = "contest_append",
             req'[u].entry.id \in IdsOf(heap'[obj'[u]].contestations)
      PROVE  "contest" \in met'[u]
  <2>1. CASE u = t
    <3>1. ContestScan(t) /\ ~ Over(t)
      BY <1>4, <2>1, Arrives
    <3>2. /\ UNCHANGED shared /\ obj'[t] = obj[t] /\ req'[t] = req[t]
          /\ req[t].entry.id \notin IdsOf(heap[obj[t]].contestations)
      BY <1>4, <2>1, <3>1, ContestScanEffect DEF Over, Moves
    <3> QED BY <1>4, <2>1, <3>2 DEF shared
  <2>2. CASE u # t
    <3>1. pc[u] = "contest_append"
      BY <1>1, <1>4, <2>2 DEF Frame
    <3>2. /\ obj[u] \in 1..Len(heap)
          /\ obj'[u] = obj[u] /\ met'[u] = met[u] /\ req'[u] = req[u]
          /\ obj[t] = obj[u] => req[t].op \in met[u]
      BY <1>2, <2>2, <3>1
    <3>3. CASE req[u].entry.id \in IdsOf(heap[obj[u]].contestations)
      BY <3>1, <3>2, <3>3 DEF Unwritten
    <3>4. CASE req[u].entry.id \notin IdsOf(heap[obj[u]].contestations)
      <4>1. pc[t] = "contest_append" /\ obj[u] = obj[t]
        BY <1>4, <3>2, <3>4, IdsChange
      <4>2. req[t].op = "contest"
        BY <1>1, <4>1 DEF InHandler, Contesting
      <4> QED BY <3>2, <4>1, <4>2
    <3> QED BY <3>3, <3>4
  <2> QED BY <2>1, <2>2
<1> QED BY <1>3, <1>4 DEF Unwritten

(* Only a PUT moves the reference in _store, and whoever it runs beside has *)
(* met it.                                                                  *)
LEMMA CurrentStep ==
    ASSUME Typing, Owned, Noted, Current, NEW t \in Threads, Step(t)
    PROVE  Current'
<1>1. pc[t] # "idle" /\ Frame(t) /\ InHandler(t)
  BY StepGoes DEF Typing
<1> SUFFICES ASSUME NEW u \in Threads, pc'[u] \in Contesting \cup Severing,
                    "put" \notin met'[u]
             PROVE  obj'[u] = store'[req'[u].agent]
  BY DEF Current
<1>2. CASE u = t
  <2>1. (ContestGet(t) \/ ContestScan(t) \/ SeverGet(t) \/ SeverCheck(t)) /\ ~ Over(t)
    BY <1>2, Arrives DEF Contesting, Severing, Over
  <2>2. CASE ContestGet(t)
    BY <1>2, <2>1, <2>2, ContestGetEffect DEF Moves, shared
  <2>3. CASE ContestScan(t)
    <3>1. /\ pc[t] = "contest_scan" /\ Moves(t, "contest_append") /\ obj'[t] = obj[t]
          /\ UNCHANGED shared
      BY <2>1, <2>3, ContestScanEffect
    <3> QED BY <1>2, <3>1 DEF Current, Contesting, Moves, shared
  <2>4. CASE SeverGet(t)
    BY <1>2, <2>1, <2>4, SeverGetEffect DEF Moves, shared
  <2>5. CASE SeverCheck(t)
    <3>1. /\ pc[t] = "sever_check" /\ Moves(t, "sever_set") /\ obj'[t] = obj[t]
          /\ UNCHANGED shared
      BY <2>1, <2>5, SeverCheckEffect
    <3> QED BY <1>2, <3>1 DEF Current, Severing, Moves, shared
  <2> QED BY <2>1, <2>2, <2>3, <2>4, <2>5
<1>3. CASE u # t
  <2>1. /\ pc[u] \in Contesting \cup Severing /\ pc[u] # "idle" /\ "put" \notin met[u]
        /\ obj'[u] = obj[u] /\ req'[u] = req[u]
    BY <1>1, <1>3 DEF Frame, Contesting, Severing
  <2>2. obj[u] = store[req[u].agent] /\ req[u].agent \in Agents
    BY <2>1, Handles DEF Current
  <2>3. CASE ~ PutStore(t)
    BY <2>1, <2>2, <2>3, OnlyTwoWrite
  <2>4. CASE PutStore(t)
    <3>1. pc[t] = "put_store" /\ req[t].op = "put"
      BY <1>1, <2>4, PutStoreEffect DEF InHandler, Building
    <3>2. req[t].agent # req[u].agent
      BY <1>1, <1>3, <2>1, <3>1 DEF Noted
    <3> QED BY <2>1, <2>2, <2>4, <3>2, PutStoreEffect
  <2> QED BY <2>3, <2>4
<1> QED BY <1>2, <1>3

(* A request is noted as quiet only when no PUT is handled beside it. *)
LEMMA QuietGrows ==
    ASSUME Typing, NEW t \in Threads, Step(t), NEW p \in quiet' \ quiet
    PROVE  /\ "put" \notin met[t] /\ p[1] = req[t].agent /\ p \in Agents \X Ids
           /\ \/ PutStore(t) /\ p[2] \in IdsOf(req[t].bundle.contestations)
              \/ /\ ContestScan(t) /\ p[2] = req[t].entry.id
                 /\ p[2] \in IdsOf(heap[obj[t]].contestations)
              \/ ContestAppend(t) /\ p[2] = req[t].entry.id
<1>1. p \in Agents \X Ids
  <2>1. Typing'
    BY TypingStep DEF Next
  <2> QED BY <2>1 DEF Typing
<1>2. ASSUME NEW ids, NoteQuiet(t, ids)
      PROVE  "put" \notin met[t] /\ \E i \in ids : p = <<req[t].agent, i>>
  BY <1>2 DEF NoteQuiet
<1>3. CASE PutStore(t)
  <2>1. NoteQuiet(t, IdsOf(req[t].bundle.contestations))
    BY <1>3, PutStoreEffect
  <2> QED BY <1>1, <1>2, <1>3, <2>1
<1>4. CASE ContestAppend(t)
  <2>1. NoteQuiet(t, {req[t].entry.id})
    BY <1>4, ContestAppendEffect
  <2> QED BY <1>1, <1>2, <1>4, <2>1
<1>5. CASE ContestScan(t)
  <2>1. /\ NoteQuiet(t, {req[t].entry.id})
        /\ req[t].entry.id \in IdsOf(heap[obj[t]].contestations)
    BY <1>5, ContestScanEffect DEF history
  <2> QED BY <1>1, <1>2, <1>5, <2>1
<1>6. CASE ~ PutStore(t) /\ ~ ContestAppend(t) /\ ~ ContestScan(t)
  <2>1. ~ GetFacts(t) /\ ~ PutRead(t) /\ ~ PutMerge(t) /\ ~ PutSeverance(t)
    BY GetFactsEffect, PutReadEffect, PutMergeEffect, PutSeveranceEffect DEF history
  <2>2. ~ ContestGet(t) /\ ~ SeverGet(t) /\ ~ SeverCheck(t) /\ ~ SeverSet(t)
    BY ContestGetEffect, SeverGetEffect, SeverCheckEffect, SeverSetEffect DEF history
  <2> QED BY <1>6, <2>1, <2>2 DEF Step
<1> QED BY <1>3, <1>4, <1>5, <1>6

(* Until its thread looks again, what a bundle object has it keeps. *)
LEMMA InBundleStays ==
    ASSUME Typing, NEW t \in Threads, Step(t),
           NEW ref \in 0..Len(heap), NEW i, InBundle(ref, i)
    PROVE  ref # NoObject /\ i \in IdsOf(heap'[ref].contestations)
<1>1. Len(heap) \in Nat
  BY LenProperties DEF Typing
<1>2. ref \in 1..Len(heap) /\ i \in IdsOf(heap[ref].contestations)
  BY <1>1 DEF InBundle, NoObject
<1> QED BY <1>2, IdsChange DEF InBundle

(* The bundle a thread builds keeps the ids of its body and of what is      *)
(* quiet.                                                                   *)
LEMMA QuietOnItsWay ==
    ASSUME Typing, Owned, Noted, QuietKept, NEW t \in Threads, Step(t),
           NEW u \in Threads, NEW i \in Ids
    PROVE  /\ pc'[u] = "put_merge" /\ <<req'[u].agent, i>> \in quiet'
                 => obj'[u] # NoObject /\ i \in IdsOf(heap'[obj'[u]].contestations)
           /\ pc'[u] \in {"put_severance", "put_store"} /\ <<req'[u].agent, i>> \in quiet'
                 => i \in IdsOf(stored'[u].contestations)
           /\ pc'[u] \in Building /\ i \in IdsOf(req'[u].bundle.contestations)
                 => i \in IdsOf(stored'[u].contestations)
<1>1. pc[t] # "idle" /\ Frame(t) /\ InHandler(t)
  BY StepGoes DEF Typing
<1>2. ASSUME u # t, pc[u] \in Building, <<req[u].agent, i>> \in quiet'
      PROVE  <<req[u].agent, i>> \in quiet
  <2>1. pc[u] # "idle" /\ req[u].op = "put"
    BY <1>2 DEF Building, Typing, InHandler
  <2>2. req[t].agent = req[u].agent => "put" \in met[t]
    BY <1>1, <1>2, <2>1 DEF Noted
  <2> QED BY <1>2, <2>2, QuietGrows
<1>3. CASE u # t
  <2>1. /\ pc'[u] = pc[u] /\ req'[u] = req[u] /\ obj'[u] = obj[u] /\ stored'[u] = stored[u]
        /\ obj[u] \in 0..Len(heap)
    BY <1>1, <1>3 DEF Frame, Typing
  <2>2. ASSUME pc[u] = "put_merge", <<req[u].agent, i>> \in quiet'
        PROVE  obj[u] # NoObject /\ i \in IdsOf(heap'[obj[u]].contestations)
    <3>1. InBundle(obj[u], i)
      BY <1>2, <1>3, <2>2 DEF QuietKept, Building
    <3> QED BY <2>1, <3>1, InBundleStays
  <2>3. ASSUME pc[u] \in {"put_severance", "put_store"}, <<req[u].agent, i>> \in quiet'
        PROVE  i \in IdsOf(stored[u].contestations)
    BY <1>2, <1>3, <2>3 DEF QuietKept, Building
  <2>4. pc[u] \in Building /\ i \in IdsOf(req[u].bundle.contestations)
           => i \in IdsOf(stored[u].contestations)
    BY DEF QuietKept
  <2> QED BY <2>1, <2>2, <2>3, <2>4
<1>4. CASE u = t /\ pc'[t] = "put_merge"
  <2>1. PutRead(t) /\ ~ Over(t)
    BY <1>4, Arrives
  <2>2. /\ UNCHANGED <<shared, history>>
        /\ pc[t] = "put" /\ Moves(t, "put_merge")
        /\ obj'[t] = store[req[t].agent]
        /\ stored'[t].contestations = IdBearing(req[t].bundle.contestations)
    BY <2>1, PutReadEffect
  <2>3. req[t].bundle.contestations \in Seq(Entry)
    BY <1>1, <2>2, Handles DEF PutRequest, BundleObject
  <2>4. IdsOf(stored'[t].contestations) = IdsOf(req[t].bundle.contestations)
    BY <2>2, <2>3, IdBearingKeeps
  <2>5. <<req[t].agent, i>> \in quiet => InBundle(store[req[t].agent], i)
    BY DEF QuietKept
  <2> QED BY <1>4, <2>2, <2>4, <2>5 DEF Moves, InBundle, shared, history
<1>5. CASE u = t /\ pc'[t] = "put_severance"
  <2>1. PutMerge(t)
    BY <1>5, Arrives
  <2>2. /\ UNCHANGED <<shared, history>>
        /\ pc[t] = "put_merge" /\ Moves(t, "put_severance")
        /\ stored'[t].contestations =
              MergeLists(stored[t].contestations, Deref(obj[t]).contestations)
    BY <2>1, PutMergeEffect
  <2>3. /\ stored[t].contestations \in Seq(IdBearers) /\ obj[t] \in 0..Len(heap)
    BY <1>1, <2>2 DEF InHandler, Building, HostedBundle, Typing
  <2>4. /\ Deref(obj[t]).contestations \in Seq(IdBearers)
        /\ obj[t] # NoObject => Deref(obj[t]) = heap[obj[t]]
    BY <2>3, DerefTyped
  <2>5. IdsOf(stored'[t].contestations) =
           IdsOf(stored[t].contestations) \cup IdsOf(Deref(obj[t]).contestations)
    BY <2>2, <2>3, <2>4, MergeListsKeeps
  <2>6. <<req[t].agent, i>> \in quiet => InBundle(obj[t], i)
    BY <2>2 DEF QuietKept
  <2>7. i \in IdsOf(req[t].bundle.contestations) => i \in IdsOf(stored[t].contestations)
    BY <2>2 DEF QuietKept, Building
  <2> QED BY <1>5, <2>2, <2>4, <2>5, <2>6, <2>7 DEF Moves, InBundle, history
<1>6. CASE u = t /\ pc'[t] = "put_store"
  <2>1. PutSeverance(t)
    BY <1>6, Arrives
  <2>2. /\ UNCHANGED <<shared, history>>
        /\ pc[t] = "put_severance" /\ Moves(t, "put_store")
        /\ stored'[t].contestations = stored[t].contestations
    BY <2>1, PutSeveranceEffect
  <2> QED BY <1>6, <2>2 DEF QuietKept, Building, Moves, history
<1> QED BY <1>3, <1>4, <1>5, <1>6 DEF Building

(* What is quiet is in the bundle that is served. *)
LEMMA QuietOnFile ==
    ASSUME Typing, Owned, Noted, Current, QuietKept, NEW t \in Threads, Step(t),
           NEW p \in quiet'
    PROVE  store'[p[1]] # NoObject /\ p[2] \in IdsOf(heap'[store'[p[1]]].contestations)
<1>1. pc[t] # "idle" /\ Frame(t) /\ InHandler(t)
  BY StepGoes DEF Typing
<1>2. p \in Agents \X Ids /\ p[1] \in Agents /\ p[2] \in Ids
  BY QuietGrows DEF Typing
<1>3. CASE PutStore(t) /\ p[1] = req[t].agent
  <2>1. /\ pc[t] = "put_store" /\ Len(heap) \in Nat
        /\ store'[p[1]] = Len(heap) + 1 /\ heap'[Len(heap) + 1] = stored[t]
    BY <1>2, <1>3, PutStoreEffect
  <2>2. CASE p \in quiet
    <3>1. <<req[t].agent, p[2]>> \in quiet
      BY <1>2, <1>3, <2>2
    <3>2. p[2] \in IdsOf(stored[t].contestations)
      BY <1>2, <2>1, <3>1 DEF QuietKept
    <3> QED BY <2>1, <3>2 DEF NoObject
  <2>3. CASE p \notin quiet
    <3>1. ~ ContestScan(t) /\ ~ ContestAppend(t)
      BY <2>1 DEF ContestScan, ContestAppend
    <3>2. p[2] \in IdsOf(req[t].bundle.contestations)
      BY <2>3, <3>1, QuietGrows
    <3>3. p[2] \in IdsOf(stored[t].contestations)
      BY <1>2, <2>1, <3>2 DEF QuietKept, Building
    <3> QED BY <2>1, <3>3 DEF NoObject
  <2> QED BY <2>2, <2>3
<1>4. CASE ~ (PutStore(t) /\ p[1] = req[t].agent)
  <2>1. store'[p[1]] = store[p[1]] /\ store[p[1]] \in 0..Len(heap)
    <3>1. store[p[1]] \in 0..Len(heap)
      BY <1>2 DEF Typing
    <3>2. CASE PutStore(t)
      BY <1>2, <1>4, <3>1, <3>2, PutStoreEffect
    <3>3. CASE ~ PutStore(t)
      BY <3>1, <3>3, OnlyTwoWrite
    <3> QED BY <3>2, <3>3
  <2>2. CASE p \in quiet
    <3>1. InBundle(store[p[1]], p[2])
      BY <2>2 DEF QuietKept
    <3> QED BY <2>1, <3>1, InBundleStays
  <2>3. CASE p \notin quiet
    <3>1. /\ "put" \notin met[t] /\ p[1] = req[t].agent
          /\ \/ /\ ContestScan(t) /\ p[2] = req[t].entry.id
                /\ p[2] \in IdsOf(heap[obj[t]].contestations)
             \/ ContestAppend(t) /\ p[2] = req[t].entry.id
      BY <1>4, <2>3, QuietGrows
    <3>2. pc[t] \in Contesting
      BY <3>1 DEF ContestScan, ContestAppend, Contesting
    <3>3. obj[t] = store[p[1]] /\ obj[t] # NoObject /\ obj[t] \in 1..Len(heap)
      BY <1>1, <3>1, <3>2, Handles DEF Current, InHandler
    <3>4. CASE ContestScan(t) /\ p[2] \in IdsOf(heap[obj[t]].contestations)
      BY <2>1, <3>3, <3>4, IdsChange
    <3>5. CASE ContestAppend(t) /\ p[2] = req[t].entry.id
      <4>1. /\ heap'[obj[t]].contestations = Append(heap[obj[t]].contestations, req[t].entry)
            /\ heap[obj[t]].contestations \in Seq(IdBearers) /\ req[t].entry \in IdBearers
        BY <3>5, ContestAppendEffect
      <4>2. p[2] \in IdsOf(heap'[obj[t]].contestations)
        BY <3>5, <4>1, AppendedIds
      <4> QED BY <2>1, <3>3, <4>2
    <3> QED BY <3>1, <3>4, <3>5
  <2> QED BY <2>2, <2>3
<1> QED BY <1>3, <1>4

(* No step of a handler takes off file what was quiet. *)
LEMMA QuietKeptStep ==
    ASSUME Typing, Owned, Noted, Current, QuietKept, NEW t \in Threads, Step(t)
    PROVE  QuietKept'
BY QuietOnFile, QuietOnItsWay DEF QuietKept, InBundle
-----------------------------------------------------------------------------
(* An agent is noted as exited only by a request that nothing which writes  *)
(* a severance ran beside, and that leaves one.                             *)
LEMMA ExitGrows ==
    ASSUME Typing, NEW t \in Threads, Step(t)
    PROVE  /\ exited \subseteq exited'
           /\ \A a \in exited' \ exited :
                 /\ met[t] \cap {"put", "sever"} = {} /\ a = req[t].agent /\ Over(t)
                 /\ \/ PutStore(t) /\ req[t].bundle.severance # NoSeverance
                    \/ SeverCheck(t) /\ heap[obj[t]].severance # NoSeverance
                    \/ SeverSet(t) /\ req[t].severance # NoSeverance
<1>1. ASSUME NEW filed, NoteExit(t, filed)
      PROVE  /\ exited \subseteq exited'
             /\ \A a \in exited' \ exited :
                   filed /\ met[t] \cap {"put", "sever"} = {} /\ a = req[t].agent
  BY <1>1 DEF NoteExit
<1>2. CASE PutStore(t)
  <2>1. NoteExit(t, req[t].bundle.severance # NoSeverance) /\ Over(t)
    BY <1>2, PutStoreEffect
  <2> HIDE DEF NoteExit
  <2> QED BY <1>1, <1>2, <2>1
<1>3. CASE SeverCheck(t)
  <2>1. \/ /\ Over(t) /\ heap[obj[t]].severance # NoSeverance /\ NoteExit(t, TRUE)
        \/ UNCHANGED exited
    BY <1>3, SeverCheckEffect
  <2> QED BY <1>1, <1>3, <2>1
<1>4. CASE SeverSet(t)
  <2>1. NoteExit(t, req[t].severance # NoSeverance) /\ Over(t)
    BY <1>4, SeverSetEffect
  <2> QED BY <1>1, <1>4, <2>1
<1>5. CASE ~ PutStore(t) /\ ~ SeverCheck(t) /\ ~ SeverSet(t)
  <2>1. UNCHANGED exited
    BY <1>5, GetFactsEffect, PutReadEffect, PutMergeEffect, PutSeveranceEffect,
       ContestGetEffect, ContestScanEffect, ContestAppendEffect, SeverGetEffect
       DEF history, Step
  <2> QED BY <2>1
<1> QED BY <1>2, <1>3, <1>4, <1>5

(* A bundle object keeps its severance, unless a severance POST writes it.  *)
LEMMA FiledStays ==
    ASSUME Typing, NEW t \in Threads, Step(t), NEW ref \in 0..Len(heap), Filed(ref),
           pc[t] = "sever_set" => ref # obj[t]
    PROVE  ref # NoObject /\ heap'[ref].severance # NoSeverance
<1>1. Len(heap) \in Nat
  BY LenProperties DEF Typing
<1>2. ref \in 1..Len(heap) /\ heap[ref].severance # NoSeverance
  BY <1>1 DEF Filed, NoObject
<1> QED BY <1>2, SeveranceWritten DEF Filed

(* A request that writes severances and is handled beside the one that      *)
(* notes the exit is known to it, so there is none.                         *)
LEMMA NoWriterBeside ==
    ASSUME Typing, Noted, NEW t \in Threads, Step(t), NEW u \in Threads \ {t},
           pc[u] \in Building \cup Severing, req[u].agent \in exited'
    PROVE  req[u].agent \in exited
<1>1. pc[t] # "idle"
  BY StepGoes
<1>2. pc[u] # "idle" /\ req[u].op \in {"put", "sever"}
  BY DEF Typing, InHandler, Building, Severing
<1>3. req[t].agent = req[u].agent => req[u].op \in met[t]
  BY <1>1, <1>2 DEF Noted
<1> QED BY <1>2, <1>3, ExitGrows

(* What the exit of an agent gives the handlers of its requests.            *)
ExitAt(u) ==
    /\ req[u].agent \in exited =>
          /\ pc[u] \in {"put_merge", "put_severance", "sever_check"} => Filed(obj[u])
          /\ pc[u] = "put_store" => stored[u].severance # NoSeverance
          /\ pc[u] # "sever_set"
    /\ pc[u] \in Building /\ req[u].bundle.severance # NoSeverance
          => stored[u].severance # NoSeverance

(* Another thread keeps what the exit gives it. *)
LEMMA ExitAtOther ==
    ASSUME Typing, Owned, Noted, ExitKept, NEW t \in Threads, Step(t), NEW u \in Threads \ {t}
    PROVE  ExitAt(u)'
<1>1. /\ pc'[u] = pc[u] /\ req'[u] = req[u] /\ obj'[u] = obj[u] /\ stored'[u] = stored[u]
      /\ obj[u] \in 0..Len(heap)
  BY StepGoes DEF Frame, Typing
<1>2. ASSUME pc[u] \in Building \cup Severing, req[u].agent \in exited'
      PROVE  req[u].agent \in exited
  BY <1>2, NoWriterBeside
<1>3. ASSUME pc[u] \in {"put_merge", "put_severance", "sever_check"}, req[u].agent \in exited'
      PROVE  obj[u] # NoObject /\ heap'[obj[u]].severance # NoSeverance
  <2>1. req[u].agent \in exited
    BY <1>2, <1>3 DEF Building, Severing
  <2>2. Filed(obj[u])
    BY <1>3, <2>1 DEF ExitKept
  <2>3. pc[t] = "sever_set" => obj[u] # obj[t]
    <3>1. obj[u] # NoObject
      BY <2>2 DEF Filed
    <3> QED BY <2>1, <3>1 DEF Owned, ExitKept
  <2> QED BY <1>1, <2>2, <2>3, FiledStays
<1>4. pc[u] = "put_store" /\ req[u].agent \in exited' => stored[u].severance # NoSeverance
  BY <1>2 DEF ExitKept, Building
<1>5. ~ (pc[u] = "sever_set" /\ req[u].agent \in exited')
  BY <1>2 DEF ExitKept, Severing
<1>6. pc[u] \in Building /\ req[u].bundle.severance # NoSeverance
          => stored[u].severance # NoSeverance
  BY DEF ExitKept
<1> QED BY <1>1, <1>3, <1>4, <1>5, <1>6 DEF ExitAt, Filed

(* The thread that steps has what the exit gives it at its next place. *)
LEMMA ExitAtSelf ==
    ASSUME Typing, ExitKept, NEW t \in Threads, Step(t)
    PROVE  ExitAt(t)'
<1>1. pc[t] # "idle" /\ InHandler(t)
  BY StepGoes DEF Typing
<1>2. ASSUME pc'[t] # "idle" PROVE exited' = exited
  BY <1>2, ExitGrows DEF Over
<1>3. CASE pc'[t] = "put_merge"
  <2>1. /\ UNCHANGED <<shared, history>> /\ pc[t] = "put" /\ Moves(t, "put_merge")
        /\ obj'[t] = store[req[t].agent]
        /\ stored'[t].severance = req[t].bundle.severance
    BY <1>3, Arrives, PutReadEffect
  <2>2. req[t].agent \in exited => Filed(store[req[t].agent])
    BY DEF ExitKept
  <2> QED BY <1>3, <2>1, <2>2 DEF ExitAt, Filed, Moves, shared, history
<1>4. CASE pc'[t] = "put_severance"
  <2>1. /\ UNCHANGED <<shared, history>> /\ pc[t] = "put_merge" /\ Moves(t, "put_severance")
        /\ obj'[t] = obj[t] /\ stored'[t].severance = stored[t].severance
    BY <1>4, Arrives, PutMergeEffect
  <2> QED BY <1>4, <2>1 DEF ExitKept, ExitAt, Filed, Moves, Building, shared, history
<1>5. CASE pc'[t] = "put_store"
  <2>1. /\ UNCHANGED <<shared, history>> /\ pc[t] = "put_severance" /\ Moves(t, "put_store")
        /\ stored'[t].severance = IF stored[t].severance = NoSeverance
                                  THEN Deref(obj[t]).severance ELSE stored[t].severance
    BY <1>5, Arrives, PutSeveranceEffect
  <2>2. req[t].agent \in exited => Deref(obj[t]).severance # NoSeverance
    BY <2>1 DEF ExitKept, Filed, Deref
  <2> QED BY <1>5, <2>1, <2>2 DEF ExitKept, ExitAt, Moves, Building, history
<1>6. CASE pc'[t] = "sever_check"
  <2>1. /\ UNCHANGED <<shared, history>> /\ Moves(t, "sever_check")
        /\ obj'[t] = store[req[t].agent]
    BY <1>6, Arrives, SeverGetEffect
  <2>2. req[t].agent \in exited => Filed(store[req[t].agent])
    BY DEF ExitKept
  <2> QED BY <1>6, <2>1, <2>2 DEF ExitAt, Filed, Moves, Building, shared, history
<1>7. CASE pc'[t] = "sever_set"
  <2>1. /\ UNCHANGED exited /\ pc[t] = "sever_check" /\ Moves(t, "sever_set")
        /\ heap[obj[t]].severance = NoSeverance
    BY <1>7, Arrives, SeverCheckEffect
  <2>2. req[t].agent \notin exited
    BY <2>1 DEF ExitKept, Filed
  <2> QED BY <1>7, <2>1, <2>2 DEF ExitAt, Moves, Building
<1> QED BY <1>3, <1>4, <1>5, <1>6, <1>7 DEF ExitAt, Building

(* What is served of an agent that has exited has a severance. *)
LEMMA ExitOnFile ==
    ASSUME Typing, Owned, Current, ExitKept, NEW t \in Threads, Step(t), NEW a \in exited'
    PROVE  store'[a] # NoObject /\ heap'[store'[a]].severance # NoSeverance
<1>1. pc[t] # "idle" /\ InHandler(t) /\ req[t].agent \in Agents
  BY StepGoes, Handles DEF Typing
<1>2. a \in Agents
  BY <1>1, ExitGrows DEF Typing
<1>3. CASE PutStore(t) /\ a = req[t].agent
  <2>1. /\ pc[t] = "put_store" /\ Len(heap) \in Nat
        /\ store'[a] = Len(heap) + 1 /\ heap'[Len(heap) + 1] = stored[t]
    BY <1>2, <1>3, PutStoreEffect
  <2>2. a \notin exited => req[t].bundle.severance # NoSeverance
    <3>1. ~ SeverCheck(t) /\ ~ SeverSet(t)
      BY <2>1 DEF SeverCheck, SeverSet
    <3> QED BY <3>1, ExitGrows
  <2>3. stored[t].severance # NoSeverance
    BY <1>3, <2>1, <2>2 DEF ExitKept, Building
  <2> QED BY <2>1, <2>3 DEF NoObject
<1>4. CASE ~ (PutStore(t) /\ a = req[t].agent)
  <2>1. store'[a] = store[a] /\ store[a] \in 0..Len(heap)
    <3>1. store[a] \in 0..Len(heap)
      BY <1>2 DEF Typing
    <3>2. CASE PutStore(t)
      BY <1>2, <1>4, <3>1, <3>2, PutStoreEffect
    <3>3. CASE ~ PutStore(t)
      BY <3>1, <3>3, OnlyTwoWrite
    <3> QED BY <3>2, <3>3
  <2>2. CASE a \in exited
    <3>1. Filed(store[a])
      BY <2>2 DEF ExitKept
    <3>2. pc[t] = "sever_set" => store[a] # obj[t]
      <4>1. store[a] # NoObject
        BY <3>1 DEF Filed
      <4> QED BY <1>2, <2>2, <4>1 DEF Owned, ExitKept
    <3> QED BY <2>1, <3>1, <3>2, FiledStays
  <2>3. CASE a \notin exited
    <3>1. /\ "put" \notin met[t] /\ a = req[t].agent
          /\ \/ SeverCheck(t) /\ heap[obj[t]].severance # NoSeverance
             \/ SeverSet(t) /\ req[t].severance # NoSeverance
      BY <1>4, <2>3, ExitGrows
    <3>2. pc[t] \in Severing
      BY <3>1 DEF SeverCheck, SeverSet, Severing
    <3>3. obj[t] = store[a] /\ obj[t] # NoObject
      BY <1>1, <3>1, <3>2 DEF Current, InHandler
    <3>4. CASE SeverCheck(t) /\ heap[obj[t]].severance # NoSeverance
      BY <2>1, <3>3, <3>4, SeverCheckEffect DEF shared
    <3>5. CASE SeverSet(t) /\ req[t].severance # NoSeverance
      BY <2>1, <3>3, <3>5, SeverSetEffect
    <3> QED BY <3>1, <3>4, <3>5
  <2> QED BY <2>2, <2>3
<1> QED BY <1>3, <1>4

(* No step of a handler takes an exit off file that nothing ran beside. *)
LEMMA ExitKeptStep ==
    ASSUME Typing, Owned, Noted, Current, ExitKept, NEW t \in Threads, Step(t)
    PROVE  ExitKept'
<1>1. \A a \in exited' : store'[a] # NoObject /\ heap'[store'[a]].severance # NoSeverance
  BY ExitOnFile
<1>2. \A u \in Threads : ExitAt(u)'
  BY ExitAtSelf, ExitAtOther
<1> QED BY <1>1, <1>2 DEF ExitKept, ExitAt, Filed
-----------------------------------------------------------------------------
(* What was submitted, or doubled for a reason, stays so as more arrives.   *)
LEMMA SubmittedStays ==
    ASSUME NEW e, NEW posts, NEW bodies, NEW posts2, NEW bodies2,
           posts \subseteq posts2, bodies \subseteq bodies2, Submitted(e, posts, bodies)
    PROVE  Submitted(e, posts2, bodies2)
  BY DEF Submitted

(* A good list stays good while the histories grow. *)
LEMMA GoodStays ==
    ASSUME NEW list, NEW posts, NEW bodies, NEW clashing,
           NEW posts2, NEW bodies2, NEW clashing2,
           posts \subseteq posts2, bodies \subseteq bodies2, clashing \subseteq clashing2,
           GoodList(list, posts, bodies, clashing)
    PROVE  GoodList(list, posts2, bodies2, clashing2)
<1>1. \A n \in DOMAIN list : Submitted(list[n], posts2, bodies2)
  BY SubmittedStays DEF GoodList
<1>2. \A i : DoubledForCause(i, clashing, bodies) => DoubledForCause(i, clashing2, bodies2)
  BY DEF DoubledForCause
<1> QED BY <1>1, <1>2 DEF GoodList

(* Until a restart the host's record of what it was sent only grows. *)
LEMMA HistoryGrows ==
    ASSUME Typing, NEW t \in Threads, Step(t), NEW a \in Agents
    PROVE  /\ posted[a] \subseteq posted'[a] /\ applied[a] \subseteq applied'[a]
           /\ Among(a, clash) \subseteq Among(a, clash')
<1>1. CASE PutStore(t)
  BY <1>1, PutStoreEffect DEF Among
<1>2. CASE ContestAppend(t)
  <2>1. /\ posted'[a] = IF a = req[t].agent
                        THEN posted[a] \cup {<<req[t].entry.id, req[t].entry.claim>>}
                        ELSE posted[a]
        /\ UNCHANGED applied /\ clash \subseteq clash'
    BY <1>2, ContestAppendEffect
  <2> QED BY <2>1 DEF Among
<1>3. CASE ~ PutStore(t) /\ ~ ContestAppend(t)
  BY <1>3, OnlyTwoWrite DEF Among
<1> QED BY <1>1, <1>2, <1>3

(* An appended entry is in the list twice only if its id was there.         *)
LEMMA AppendedDoubles ==
    ASSUME NEW list \in Seq(IdBearers), NEW e \in IdBearers
    PROVE  /\ \A n \in DOMAIN Append(list, e) :
                 \/ n \in DOMAIN list /\ Append(list, e)[n] = list[n]
                 \/ Append(list, e)[n] = e
           /\ \A i \in Ids : Doubled(Append(list, e), i) =>
                 Doubled(list, i) \/ (i = e.id /\ i \in IdsOf(list))
<1>1. /\ Len(list) \in Nat /\ DOMAIN list = 1..Len(list)
      /\ DOMAIN Append(list, e) = 1..(Len(list) + 1)
      /\ \A n \in 1..Len(list) : Append(list, e)[n] = list[n]
      /\ Append(list, e)[Len(list) + 1] = e
  BY AppendProperties, LenProperties
<1>2. \A n \in 1..(Len(list) + 1) : n \in 1..Len(list) \/ n = Len(list) + 1
  BY <1>1
<1>3. ASSUME NEW i \in Ids, Doubled(Append(list, e), i), ~ Doubled(list, i)
      PROVE  i = e.id /\ i \in IdsOf(list)
  <2>1. PICK m \in 1..(Len(list) + 1), n \in 1..(Len(list) + 1) :
           m # n /\ Append(list, e)[m].id = i /\ Append(list, e)[n].id = i
    BY <1>1, <1>3 DEF Doubled
  <2>2. i # NoId
    BY NoIdAssumption
  <2>3. CASE m = Len(list) + 1
    <3>1. n \in 1..Len(list)
      BY <1>2, <2>1, <2>3
    <3> QED BY <1>1, <2>1, <2>2, <2>3, <3>1 DEF IdsOf
  <2>4. CASE n = Len(list) + 1
    <3>1. m \in 1..Len(list)
      BY <1>2, <2>1, <2>4
    <3> QED BY <1>1, <2>1, <2>2, <2>4, <3>1 DEF IdsOf
  <2>5. CASE m \in 1..Len(list) /\ n \in 1..Len(list)
    BY <1>1, <1>3, <2>1, <2>5 DEF Doubled
  <2> QED BY <1>2, <2>3, <2>4, <2>5
<1> QED BY <1>1, <1>2, <1>3

(* A good list stays good where it is.                                      *)
LEMMA GoodInPlace ==
    ASSUME Typing, Unwritten, NEW t \in Threads, Step(t),
           NEW ref \in 1..Len(heap), NEW a \in Agents,
           obj[t] = ref => req[t].agent = a,
           GoodList(heap[ref].contestations, posted[a], applied[a], Among(a, clash))
    PROVE  GoodList(heap'[ref].contestations, posted'[a], applied'[a], Among(a, clash'))
<1>1. /\ posted[a] \subseteq posted'[a] /\ applied[a] \subseteq applied'[a]
      /\ Among(a, clash) \subseteq Among(a, clash')
  BY HistoryGrows
<1>2. GoodList(heap[ref].contestations, posted'[a], applied'[a], Among(a, clash'))
  BY <1>1, GoodStays
<1>3. CASE heap'[ref].contestations = heap[ref].contestations
  BY <1>2, <1>3
<1>4. CASE /\ pc[t] = "contest_append" /\ ref = obj[t]
           /\ heap'[ref].contestations = Append(heap[ref].contestations, req[t].entry)
           /\ heap[ref].contestations \in Seq(IdBearers) /\ req[t].entry \in IdBearers
  <2> DEFINE e == req[t].entry
             list == heap[ref].contestations
  <2>1. ContestAppend(t)
    BY <1>4 DEF Step, GetFacts, PutRead, PutMerge, PutSeverance, PutStore, ContestGet,
                ContestScan, SeverGet, SeverCheck, SeverSet
  <2>2. /\ <<e.id, e.claim>> \in posted'[a]
        /\ "contest" \in met[t] => <<a, e.id>> \in clash'
    BY <1>4, <2>1, ContestAppendEffect
  <2>3. e.id \in IdsOf(list) => e.id \in Among(a, clash')
    BY <1>4, <2>2 DEF Unwritten, Among, IdBearers
  <2>4. /\ \A n \in DOMAIN Append(list, e) :
              \/ n \in DOMAIN list /\ Append(list, e)[n] = list[n]
              \/ Append(list, e)[n] = e
        /\ \A i \in Ids : Doubled(Append(list, e), i) =>
              Doubled(list, i) \/ (i = e.id /\ i \in IdsOf(list))
    BY <1>4, AppendedDoubles
  <2>5. Submitted(e, posted'[a], applied'[a])
    BY <2>2 DEF Submitted
  <2> HIDE DEF e, list
  <2>6. GoodList(Append(list, e), posted'[a], applied'[a], Among(a, clash'))
    <3>1. GoodList(list, posted'[a], applied'[a], Among(a, clash'))
      BY <1>2 DEF list
    <3> QED BY <2>3, <2>4, <2>5, <3>1 DEF GoodList, DoubledForCause
  <2> QED BY <1>4, <2>6 DEF e, list
<1> QED BY <1>3, <1>4, ListChanges

(* A list under construction stays well built while the histories grow. *)
LEMMA WellBuiltStays ==
    ASSUME NEW list, NEW body, NEW posts, NEW bodies, NEW posts2, NEW bodies2,
           posts \subseteq posts2, bodies \subseteq bodies2,
           WellBuilt(list, body, posts, bodies)
    PROVE  WellBuilt(list, body, posts2, bodies2)
  BY SubmittedStays DEF WellBuilt

(* Line 62 builds well, and so do lines 63-68 from what is on file.         *)
LEMMA FilteredWell ==
    ASSUME NEW body \in Seq(Entry), NEW posts, NEW bodies
    PROVE  WellBuilt(IdBearing(body), body, posts, bodies)
<1>1. \A n \in DOMAIN IdBearing(body) : \E m \in DOMAIN body : body[m] = IdBearing(body)[n]
  BY IdBearingKeeps
<1>2. ASSUME NEW i \in Ids, Doubled(IdBearing(body), i) PROVE Doubled(body, i)
  BY <1>2, IdBearingKeeps DEF Doubled
<1> QED BY <1>1, <1>2 DEF WellBuilt

(* The merge of a body with what is on file is well built. *)
LEMMA MergedWell ==
    ASSUME NEW kept \in Seq(IdBearers), NEW existing \in Seq(IdBearers), NEW body,
           NEW posts, NEW bodies,
           WellBuilt(kept, body, posts, bodies),
           \A n \in DOMAIN existing : Submitted(existing[n], posts, bodies)
    PROVE  WellBuilt(MergeLists(kept, existing), body, posts, bodies)
<1> DEFINE merged == MergeLists(kept, existing)
<1>1. /\ \A k \in DOMAIN merged : \/ \E n \in DOMAIN kept : kept[n] = merged[k]
                                  \/ \E n \in DOMAIN existing : existing[n] = merged[k]
      /\ \A j, k \in DOMAIN merged :
            j # k /\ merged[j].id = merged[k].id =>
               \E m, n \in DOMAIN kept : /\ m # n
                                         /\ kept[m].id = merged[j].id
                                         /\ kept[n].id = merged[j].id
  BY MergeListsKeeps
<1> HIDE DEF merged
<1>2. \A k \in DOMAIN merged : \/ Submitted(merged[k], posts, bodies)
                               \/ \E m \in DOMAIN body : body[m] = merged[k]
  BY <1>1 DEF WellBuilt
<1>3. \A i \in Ids : Doubled(merged, i) => Doubled(kept, i)
  BY <1>1 DEF Doubled
<1>4. WellBuilt(merged, body, posts, bodies)
  BY <1>2, <1>3 DEF WellBuilt
<1> QED BY <1>4 DEF merged

(* Line 75: what is well built is good when its body is on record.          *)
LEMMA PublishedGood ==
    ASSUME NEW r \in PutRequest, NEW list \in Seq(IdBearers),
           NEW posts, NEW bodies, NEW clashing,
           WellBuilt(list, r.bundle.contestations, posts, bodies)
    PROVE  GoodList(list, posts, bodies \cup {BodyView(r)}, clashing)
<1> DEFINE body == r.bundle.contestations
           view == PerId(body, Ids \cup {NoId})
<1>1. body \in Seq(Entry)
  BY DEF PutRequest, BundleObject
<1>2. BodyView(r).contestations = view
  BY DEF BodyView
<1>3. \A n \in DOMAIN list : list[n] \in IdBearers
  BY ElementOfSeq, LenProperties
<1>4. \A i \in Ids : /\ Doubled(body, i) => Len(view[i]) > 1
                     /\ \A m \in DOMAIN body : body[m].id = i =>
                           \E k \in DOMAIN view[i] : view[i][k] = body[m].claim
  <2> HIDE DEF body
  <2> SUFFICES ASSUME NEW i \in Ids
               PROVE  /\ Doubled(body, i) => Len(view[i]) > 1
                      /\ \A m \in DOMAIN body : body[m].id = i =>
                            \E k \in DOMAIN view[i] : view[i][k] = body[m].claim
    OBVIOUS
  <2> DEFINE ids == Ids \cup {NoId}
  <2>1. i \in ids
    OBVIOUS
  <2> HIDE DEF ids
  <2>2. Shows(PerId(body, ids)[i], body, i)
    BY <1>1, <2>1, PerIdEntries
  <2> QED BY <2>2 DEF Doubled, ids, Shows
<1> HIDE DEF body, view
<1>5. ASSUME NEW n \in DOMAIN list
      PROVE  Submitted(list[n], posts, bodies \cup {BodyView(r)})
  <2>1. list[n].id \in Ids
    BY <1>3 DEF IdBearers
  <2>2. CASE Submitted(list[n], posts, bodies)
    BY <2>2, SubmittedStays
  <2>3. CASE \E m \in DOMAIN body : body[m] = list[n]
    <3>1. \E k \in DOMAIN view[list[n].id] : view[list[n].id][k] = list[n].claim
      BY <1>4, <2>1, <2>3
    <3> QED BY <1>2, <3>1 DEF Submitted
  <2> QED BY <2>2, <2>3 DEF WellBuilt, body
<1>6. ASSUME NEW i \in Ids, Doubled(list, i)
      PROVE  DoubledForCause(i, clashing, bodies \cup {BodyView(r)})
  <2>1. Doubled(body, i)
    BY <1>6 DEF WellBuilt, body
  <2> QED BY <1>2, <1>4, <2>1 DEF DoubledForCause
<1> QED BY <1>5, <1>6 DEF GoodList

(* A thread goes on building well.                                          *)
LEMMA WellBuiltStep ==
    ASSUME Typing, GoodLists, NEW t \in Threads, Step(t), pc'[t] \in Building
    PROVE  WellBuilt(stored'[t].contestations, req[t].bundle.contestations,
                     posted[req[t].agent], applied[req[t].agent])
<1>1. pc[t] # "idle" /\ InHandler(t)
  BY StepGoes DEF Typing
<1> DEFINE posts == posted[req[t].agent]
           bodies == applied[req[t].agent]
           body == req[t].bundle.contestations
<1>2. pc[t] \in Building => WellBuilt(stored[t].contestations, body, posts, bodies)
  BY DEF GoodLists
<1>3. CASE pc'[t] = "put_merge"
  <2>1. PutRead(t) /\ ~ Over(t)
    BY <1>3, Arrives
  <2>2. pc[t] = "put" /\ stored'[t].contestations = IdBearing(body)
    BY <2>1, PutReadEffect
  <2>3. body \in Seq(Entry)
    BY <1>1, <2>2, Handles DEF PutRequest, BundleObject
  <2> QED BY <2>2, <2>3, FilteredWell
<1>4. CASE pc'[t] = "put_severance"
  <2>1. PutMerge(t)
    BY <1>4, Arrives
  <2>2. /\ pc[t] = "put_merge"
        /\ stored'[t].contestations =
              MergeLists(stored[t].contestations, Deref(obj[t]).contestations)
    BY <2>1, PutMergeEffect
  <2>3. stored[t].contestations \in Seq(IdBearers) /\ obj[t] \in 0..Len(heap)
    BY <1>1, <2>2 DEF InHandler, Building, HostedBundle, Typing
  <2>4. /\ Deref(obj[t]).contestations \in Seq(IdBearers)
        /\ obj[t] # NoObject => Deref(obj[t]) = heap[obj[t]]
    BY <2>3, DerefTyped
  <2>5. \A n \in DOMAIN Deref(obj[t]).contestations :
           Submitted(Deref(obj[t]).contestations[n], posts, bodies)
    <3>1. CASE obj[t] # NoObject
      BY <2>4, <3>1 DEF GoodLists, GoodList
    <3>2. CASE obj[t] = NoObject
      BY <3>2 DEF Deref, EmptyBundle
    <3> QED BY <3>1, <3>2
  <2>6. WellBuilt(stored[t].contestations, body, posts, bodies)
    BY <1>2, <2>2 DEF Building
  <2> HIDE DEF posts, bodies, body
  <2>7. WellBuilt(MergeLists(stored[t].contestations, Deref(obj[t]).contestations),
                  body, posts, bodies)
    BY <2>3, <2>4, <2>5, <2>6, MergedWell
  <2> QED BY <2>2, <2>7 DEF posts, bodies, body
<1>5. CASE pc'[t] = "put_store"
  <2>1. PutSeverance(t)
    BY <1>5, Arrives
  <2> QED BY <1>2, <2>1, PutSeveranceEffect DEF Building
<1> QED BY <1>3, <1>4, <1>5 DEF Building

(* No step spoils a list, stored or under construction. *)
LEMMA GoodListsStep ==
    ASSUME Typing, Owned, Unwritten, GoodLists, NEW t \in Threads, Step(t)
    PROVE  GoodLists'
<1>1. pc[t] # "idle" /\ Frame(t) /\ Goes(t) /\ InHandler(t) /\ req[t].agent \in Agents
  BY StepGoes, Handles DEF Typing
<1>2. Len(heap) \in Nat
  BY LenProperties DEF Typing
<1>3. ASSUME NEW u \in Threads, pc'[u] # "idle"
      PROVE  pc[u] # "idle" /\ req'[u] = req[u] /\ req[u].agent \in Agents
  <2>1. pc[u] # "idle" /\ req'[u] = req[u]
    BY <1>1, <1>3 DEF Frame, Goes, Over
  <2> QED BY <2>1, Handles
<1>4. ASSUME NEW a \in Agents, store[a] # NoObject
      PROVE  GoodList(heap'[store[a]].contestations, posted'[a], applied'[a], Among(a, clash'))
  <2>1. store[a] \in 1..Len(heap)
    BY <1>2, <1>4 DEF Typing, NoObject
  <2>2. obj[t] = store[a] => req[t].agent = a
    BY <1>4 DEF Owned
  <2>3. GoodList(heap[store[a]].contestations, posted[a], applied[a], Among(a, clash))
    BY <1>4 DEF GoodLists
  <2> QED BY <2>1, <2>2, <2>3, GoodInPlace
<1>5. ASSUME NEW u \in Threads, obj[u] # NoObject, req[u].agent \in Agents
      PROVE  GoodList(heap'[obj[u]].contestations, posted'[req[u].agent],
                      applied'[req[u].agent], Among(req[u].agent, clash'))
  <2> DEFINE a == req[u].agent
  <2>1. obj[u] \in 1..Len(heap)
    BY <1>2, <1>5 DEF Typing, NoObject
  <2>2. obj[t] = obj[u] => req[t].agent = a
    BY <1>5 DEF Owned
  <2>3. GoodList(heap[obj[u]].contestations, posted[a], applied[a], Among(a, clash))
    BY <1>5 DEF GoodLists
  <2>4. a \in Agents
    BY <1>5
  <2> HIDE DEF a
  <2>5. GoodList(heap'[obj[u]].contestations, posted'[a], applied'[a], Among(a, clash'))
    BY <2>1, <2>2, <2>3, <2>4, GoodInPlace
  <2> QED BY <2>5 DEF a
<1>6. ASSUME NEW a \in Agents, store'[a] # NoObject
      PROVE  GoodList(heap'[store'[a]].contestations, posted'[a], applied'[a], Among(a, clash'))
  <2>1. CASE store'[a] = store[a]
    BY <1>4, <1>6, <2>1
  <2>2. CASE store'[a] # store[a]
    <3>1. PutStore(t)
      BY <2>2, OnlyTwoWrite
    <3>2. /\ pc[t] = "put_store" /\ a = req[t].agent
          /\ store'[a] = Len(heap) + 1 /\ heap'[Len(heap) + 1] = stored[t]
          /\ applied'[a] = applied[a] \cup {BodyView(req[t])} /\ posted' = posted
      BY <2>2, <3>1, PutStoreEffect
    <3>3. /\ req[t] \in PutRequest /\ stored[t].contestations \in Seq(IdBearers)
      BY <1>1, <3>2, Handles DEF InHandler, Building, HostedBundle
    <3>4. WellBuilt(stored[t].contestations, req[t].bundle.contestations,
                    posted[a], applied[a])
      BY <3>2 DEF GoodLists, Building
    <3>5. GoodList(stored[t].contestations, posted[a],
                   applied[a] \cup {BodyView(req[t])}, Among(a, clash'))
      BY <3>3, <3>4, PublishedGood
    <3> QED BY <3>2, <3>5
  <2> QED BY <2>1, <2>2
<1>7. ASSUME NEW u \in Threads, obj'[u] # NoObject
      PROVE  GoodList(heap'[obj'[u]].contestations, posted'[req'[u].agent],
                      applied'[req'[u].agent], Among(req'[u].agent, clash'))
  <2>1. /\ req'[u] = req[u] /\ req[u].agent \in Agents
        /\ obj'[u] = obj[u] \/ obj'[u] = store[req[u].agent]
    <3>1. u # t => req'[u] = req[u] /\ obj'[u] = obj[u] /\ pc'[u] = pc[u]
      BY <1>1 DEF Frame
    <3>2. u # t => pc[u] # "idle"
      BY <1>7, <3>1 DEF Typing, InHandler
    <3>3. u = t => req'[u] = req[u] /\ obj'[u] \in {obj[u], store[req[u].agent]}
      BY <1>1, <1>7 DEF Goes, Over
    <3> QED BY <1>1, <3>1, <3>2, <3>3, Handles
  <2> DEFINE a == req[u].agent
  <2> HIDE DEF a
  <2>2. GoodList(heap'[obj'[u]].contestations, posted'[a], applied'[a], Among(a, clash'))
    <3>1. CASE obj'[u] = obj[u]
      <4>1. GoodList(heap'[obj[u]].contestations, posted'[req[u].agent],
                     applied'[req[u].agent], Among(req[u].agent, clash'))
        BY <1>5, <1>7, <2>1, <3>1
      <4> QED BY <3>1, <4>1 DEF a
    <3>2. CASE obj'[u] = store[req[u].agent]
      BY <1>4, <1>7, <2>1, <3>2 DEF a
    <3> QED BY <2>1, <3>1, <3>2
  <2> QED BY <2>1, <2>2 DEF a
<1>8. ASSUME NEW u \in Threads, pc'[u] \in Building
      PROVE  WellBuilt(stored'[u].contestations, req'[u].bundle.contestations,
                       posted'[req'[u].agent], applied'[req'[u].agent])
  <2>1. pc'[u] # "idle"
    BY <1>8 DEF Building
  <2>2. req'[u] = req[u] /\ req[u].agent \in Agents
    BY <1>3, <2>1
  <2>3. WellBuilt(stored'[u].contestations, req[u].bundle.contestations,
                  posted[req[u].agent], applied[req[u].agent])
    <3>1. CASE u = t
      BY <1>8, <3>1, WellBuiltStep
    <3>2. CASE u # t
      BY <1>1, <1>8, <3>2 DEF Frame, GoodLists
    <3> QED BY <3>1, <3>2
  <2>4. /\ posted[req[u].agent] \subseteq posted'[req[u].agent]
        /\ applied[req[u].agent] \subseteq applied'[req[u].agent]
    BY <2>2, HistoryGrows
  <2>5. WellBuilt(stored'[u].contestations, req[u].bundle.contestations,
                  posted'[req[u].agent], applied'[req[u].agent])
    BY <2>3, <2>4, WellBuiltStays
  <2> QED BY <2>2, <2>5
<1> QED BY <1>6, <1>7, <1>8 DEF GoodLists

(* A request that is taken up disturbs nothing.                             *)
LEMMA InvBegin ==
    ASSUME Typing, Inv, NEW t \in Threads, NEW r \in Requests, Begin(t, r)
    PROVE  Inv'
<1>1. /\ UNCHANGED <<shared, history>>
      /\ pc'[t] \in Operations /\ obj'[t] = NoObject
      /\ \A u \in Threads \ {t} :
            /\ pc'[u] = pc[u] /\ req'[u] = req[u] /\ obj'[u] = obj[u]
            /\ stored'[u] = stored[u] /\ met[u] \subseteq met'[u]
  <2>1. r.op \in Operations
    BY RequestKinds
  <2>2. /\ UNCHANGED <<shared, history>> /\ pc'[t] = r.op /\ obj'[t] = NoObject
        /\ \A u \in Threads \ {t} :
              /\ pc'[u] = pc[u] /\ req'[u] = req[u] /\ obj'[u] = obj[u]
              /\ stored'[u] = stored[u]
              /\ met'[u] = IF u \in Active(r.agent) THEN met[u] \cup {r.op} ELSE met[u]
    BY BeginEffect
  <2>3. \A u \in Threads \ {t} : met[u] \subseteq met'[u]
    BY <2>2
  <2> QED BY <2>1, <2>2, <2>3
<1>2. pc'[t] \notin Building \cup Contesting \cup Severing
  BY <1>1 DEF Operations, Building, Contesting, Severing
<1>3. Owned' /\ Noted'
  BY MeetingBegin DEF Inv
<1>4. Unwritten'
  BY <1>1, <1>2 DEF Inv, Unwritten, Contesting, Severing, shared
<1>5. Current'
  BY <1>1, <1>2 DEF Inv, Current, shared
<1>5a. ExitKept'
  <2>1. \A a \in exited : Filed(store[a])'
    BY <1>1 DEF Inv, ExitKept, Filed, shared
  <2>2. ASSUME NEW u \in Threads \ {t} PROVE ExitAt(u)'
    BY <1>1 DEF Inv, ExitKept, ExitAt, Filed, Building, shared, history
  <2>3. ExitAt(t)'
    BY <1>1, <1>2 DEF ExitAt, Operations, Building, Severing
  <2>4. \A u \in Threads : ExitAt(u)'
    BY <2>2, <2>3
  <2> QED BY <1>1, <2>1, <2>4 DEF ExitKept, ExitAt, Filed, history
<1>6. QuietKept'
  BY <1>1, <1>2 DEF Inv, QuietKept, InBundle, Building, shared, history
<1>7. GoodLists'
  <2>1. \A u \in Threads : obj'[u] # NoObject => u # t
    BY <1>1
  <2>2. \A u \in Threads : pc'[u] \in Building => u # t
    BY <1>2
  <2> QED BY <1>1, <2>1, <2>2 DEF Inv, GoodLists, shared, history
<1> QED BY <1>3, <1>4, <1>5, <1>5a, <1>6, <1>7 DEF Inv

(* A process that has just started satisfies the invariant. *)
LEMMA FreshInv == Fresh => Inv
<1> SUFFICES ASSUME Fresh PROVE Inv
  OBVIOUS
<1>1. /\ \A a \in Agents : store[a] = NoObject
      /\ \A t \in Threads : pc[t] = "idle" /\ obj[t] = NoObject
      /\ quiet = {} /\ exited = {}
  BY DEF Fresh
<1> QED BY <1>1 DEF Inv, Owned, Noted, Unwritten, Current, QuietKept, GoodLists, ExitKept,
                    Building, Contesting, Severing

(* Every step keeps the invariant. *)
LEMMA InvStep == Typing /\ Inv /\ [Next]_vars => Inv'
<1> SUFFICES ASSUME Typing, Inv, [Next]_vars PROVE Inv'
  OBVIOUS
<1>1. ASSUME NEW t \in Threads, Step(t) PROVE Inv'
  BY <1>1, OwnedStep, NotedStep, UnwrittenStep, CurrentStep, QuietKeptStep, GoodListsStep,
     ExitKeptStep DEF Inv
<1>2. ASSUME NEW t \in Threads, NEW r \in Requests, Begin(t, r) PROVE Inv'
  BY <1>2, InvBegin
<1>3. Restart => Inv'
  <2>1. Restart => Fresh'
    BY DEF Restart, Fresh, Typing
  <2>2. Fresh' => Inv'
    BY FreshInv, PTL
  <2> QED BY <2>1, <2>2
<1>4. UNCHANGED vars => Inv'
  <2> SUFFICES ASSUME UNCHANGED vars PROVE Inv'
    OBVIOUS
  <2>1. Owned' /\ Noted' /\ Unwritten' /\ Current'
    BY DEF vars, shared, locals, history, Inv, Owned, Noted, Unwritten, Current
  <2>2. QuietKept' /\ GoodLists'
    BY DEF vars, shared, locals, history, Inv, QuietKept, InBundle, GoodLists
  <2>3. ExitKept'
    BY DEF vars, shared, locals, history, Inv, ExitKept, Filed
  <2> QED BY <2>1, <2>2, <2>3 DEF Inv
<1> QED BY <1>1, <1>2, <1>3, <1>4 DEF Next

(* Types and invariant hold in every reachable state. *)
LEMMA InvHolds == Spec => [](Typing /\ Inv)
<1>1. Init => Fresh
  BY MaxRequestsAssumption DEF Init, Fresh
<1>2. Init => Typing /\ Inv
  BY <1>1, FreshTyped, FreshInv
<1>3. Typing /\ Inv /\ [Next]_vars => Typing' /\ Inv'
  BY TypingStep, InvStep
<1> QED BY <1>2, <1>3, PTL DEF Spec
-----------------------------------------------------------------------------
(* What a client is shown: an agent is hosted when _store refers to a       *)
(* bundle for it, and an id is on file when its list has an entry of it.    *)
LEMMA Viewed ==
    ASSUME Typing, NEW a \in Agents
    PROVE  /\ Host!Hosted(a) <=> store[a] # NoObject
           /\ store[a] # NoObject => \A i \in Ids :
                 Shows(View[a].contestations[i], heap[store[a]].contestations, i)
<1>1. CASE store[a] = NoObject
  BY <1>1 DEF Host!Hosted, View
<1>2. CASE store[a] # NoObject
  <2> DEFINE b == heap[store[a]]
             list == b.contestations
  <2>1. store[a] \in 0..Len(heap) /\ Deref(store[a]) = b /\ b \in HostedBundle
    BY <1>2, DerefTyped DEF Typing
  <2>2. list \in Seq(Entry) /\ b.creds \in Creds /\ b.severance \in Sevs \cup {NoSeverance}
    <3> HIDE DEF b
    <3>1. IdBearers \subseteq Entry
      BY DEF IdBearers, Entry
    <3> QED BY <2>1, <3>1, SeqMonotonic DEF HostedBundle
  <2>3. View[a] = BundleView(b)
    BY <1>2 DEF View
  <2> HIDE DEF b
  <2>4. /\ BundleView(b).contestations = PerId(list, Ids)
        /\ BundleView(b) = [creds |-> b.creds, severance |-> b.severance,
                            contestations |-> PerId(list, Ids)]
    BY DEF BundleView
  <2> HIDE DEF list
  <2>5. ASSUME NEW i \in Ids PROVE Shows(PerId(list, Ids)[i], list, i)
    BY <2>2, PerIdEntries
  <2>6. PerId(list, Ids) \in [Ids -> Seq(Claims)]
    <3>1. \A i \in Ids : PerId(list, Ids)[i] \in Seq(Claims)
      BY <2>5 DEF Shows
    <3> QED BY <3>1 DEF PerId
  <2>7. BundleView(b) \in [creds : Creds, contestations : [Ids -> Seq(Claims)],
                           severance : Sevs \cup {NoSeverance}]
    BY <2>2, <2>4, <2>6
  <2>8. Host!Hosted(a)
    BY <2>3, <2>7, NoBundleAssumption DEF Host!Hosted
  <2> QED BY <1>2, <2>3, <2>4, <2>5, <2>8 DEF list, b
<1> QED BY <1>1, <1>2

(* What every host serves was submitted for the agent it serves it for,     *)
(* however many threads share the lists (put_facts 57-75).                  *)
THEOREM ServedSubmitted == Spec => []ServedWasSubmitted
<1>1. Typing /\ Inv => ServedWasSubmitted
  <2> SUFFICES ASSUME Typing, Inv, NEW a \in Agents, NEW i \in Ids, Host!OnFile(a, i),
                      NEW n \in DOMAIN View[a].contestations[i]
               PROVE  LET c == View[a].contestations[i][n]
                      IN  \/ <<i, c>> \in posted[a]
                          \/ \E b \in applied[a] :
                               \E k \in DOMAIN b.contestations[i] : b.contestations[i][k] = c
    BY DEF ServedWasSubmitted, Host!ServedWasSubmitted
  <2> DEFINE list == heap[store[a]].contestations
  <2>1. store[a] # NoObject /\ Shows(View[a].contestations[i], list, i)
    BY Viewed DEF Host!OnFile
  <2>2. GoodList(list, posted[a], applied[a], Among(a, clash))
    BY <2>1 DEF Inv, GoodLists
  <2> HIDE DEF list
  <2>3. PICK m \in DOMAIN list : list[m].id = i /\ list[m].claim = View[a].contestations[i][n]
    BY <2>1 DEF Shows
  <2>4. Submitted(list[m], posted[a], applied[a])
    BY <2>2 DEF GoodList
  <2> QED BY <2>3, <2>4 DEF Submitted
<1> QED BY <1>1, InvHolds, PTL

(* A complaint a host answered 200 to with no PUT of its agent beside it    *)
(* stays on file, whatever threads do afterwards (put_facts 57-75,          *)
(* add_contestation 90-109).                                                *)
THEOREM QuietStaysOnFile == Spec => []LossNeedsPutBeside
<1>1. Typing /\ Inv => LossNeedsPutBeside
  <2> SUFFICES ASSUME Typing, Inv, NEW p \in quiet PROVE Host!OnFile(p[1], p[2])
    BY DEF LossNeedsPutBeside
  <2> DEFINE list == heap[store[p[1]]].contestations
  <2>1. p[1] \in Agents /\ p[2] \in Ids
    BY DEF Typing
  <2>2. store[p[1]] # NoObject /\ p[2] \in IdsOf(list)
    BY DEF Inv, QuietKept, InBundle
  <2>3. Host!Hosted(p[1]) /\ Shows(View[p[1]].contestations[p[2]], list, p[2])
    BY <2>1, <2>2, Viewed
  <2> HIDE DEF list
  <2>4. View[p[1]].contestations[p[2]] # <<>>
    BY <2>2, <2>3 DEF Shows, IdsOf
  <2> QED BY <2>3, <2>4 DEF Host!OnFile
<1> QED BY <1>1, InvHolds, PTL

(* No merge doubles a complaint: served twice means posted twice at once,   *)
(* or sent twice in one body (put_facts 62-68, add_contestation 99-109).    *)
THEOREM DoubledOnlyForCause == Spec => []DoubledNeedsPostsBeside
<1>1. Typing /\ Inv => DoubledNeedsPostsBeside
  <2> SUFFICES ASSUME Typing, Inv, NEW a \in Agents, NEW i \in Ids,
                      Host!OnFile(a, i), Len(View[a].contestations[i]) > 1
               PROVE  <<a, i>> \in clash \/ \E b \in applied[a] : Len(b.contestations[i]) > 1
    BY DEF DoubledNeedsPostsBeside
  <2> DEFINE list == heap[store[a]].contestations
  <2>1. store[a] # NoObject /\ Shows(View[a].contestations[i], list, i)
    BY Viewed DEF Host!OnFile
  <2>2. GoodList(list, posted[a], applied[a], Among(a, clash))
    BY <2>1 DEF Inv, GoodLists
  <2> HIDE DEF list
  <2>3. Doubled(list, i)
    BY <2>1 DEF Shows, Doubled
  <2> QED BY <2>2, <2>3 DEF GoodList, DoubledForCause, Among
<1> QED BY <1>1, InvHolds, PTL

(* set_severance writes over a severance only when another request of its   *)
(* kind was handled beside it (123-130): the check of line 126 holds in     *)
(* every other case, whatever else runs.                                    *)
THEOREM FirstSeveranceUnlessBeside == Spec => SeveranceOverwrittenOnlyBeside
<1>1. Inv => \A t \in Threads :
                SeverSet(t) /\ heap[obj[t]].severance # NoSeverance => "sever" \in met[t]
  BY DEF Inv, Unwritten, SeverSet
<1> QED BY <1>1, InvHolds, PTL DEF SeveranceOverwrittenOnlyBeside
-----------------------------------------------------------------------------
(* The lists id by id, and one thread alone. *)

(* An increasing enumeration of a set of positions is the one of Nth. *)
LEMMA EnumeratedByNth ==
    ASSUME NEW L \in Nat, NEW S \in SUBSET (1..L), NEW K \in Nat, NEW g \in [1..K -> S],
           \A j, k \in 1..K : j < k => g[j] < g[k],
           \A n \in S : \E k \in 1..K : g[k] = n
    PROVE  Cardinality(S) = K /\ \A k \in 1..K : Nth(S, k) = g[k]
<1>1. ASSUME NEW k \in 1..K PROVE Cardinality(UpTo(S, g[k])) = k
  <2> DEFINE h == [j \in 1..k |-> g[j]]
  <2>1. /\ \A j \in 1..K : g[j] \in S /\ g[j] \in Nat
        /\ 1..k \subseteq 1..K /\ k \in Nat
    <3>1. \A n \in S : n \in 1..L
      OBVIOUS
    <3>2. \A j \in 1..K : g[j] \in S
      OBVIOUS
    <3>3. \A n \in 1..L : n \in Nat
      OBVIOUS
    <3>4. k \in Nat /\ \A j \in 1..k : j \in 1..K
      OBVIOUS
    <3> QED BY <3>1, <3>2, <3>3, <3>4
  <2>2. \A j \in 1..k : h[j] \in UpTo(S, g[k])
    <3>1. \A j \in 1..k : j < k \/ j = k
      OBVIOUS
    <3> QED BY <2>1, <3>1 DEF UpTo
  <2>3. \A n \in UpTo(S, g[k]) : \E j \in 1..k : h[j] = n
    <3> SUFFICES ASSUME NEW n \in S, n <= g[k] PROVE \E j \in 1..k : h[j] = n
      BY DEF UpTo
    <3>1. PICK j \in 1..K : g[j] = n
      OBVIOUS
    <3>2. ~ k < j
      BY <2>1, <3>1
    <3> QED BY <3>1, <3>2
  <2>4. \A i, j \in 1..k : h[i] = h[j] => i = j
    <3>1. \A i, j \in 1..k : i # j => i < j \/ j < i
      OBVIOUS
    <3>2. \A i, j \in 1..k : i < j => h[i] < h[j]
      BY <2>1
    <3> QED BY <2>1, <3>1, <3>2
  <2>5. h \in Bijection(1..k, UpTo(S, g[k]))
    <3> HIDE DEF h
    <3>1. h \in [1..k -> UpTo(S, g[k])]
      BY <2>2 DEF h
    <3> QED BY <3>1, <2>3, <2>4 DEF Bijection, Injection, Surjection, IsInjective
  <2>6. IsFiniteSet(1..k) /\ Cardinality(1..k) = k
    BY <2>1, FS_Interval
  <2>7. ExistsBijection(1..k, UpTo(S, g[k]))
    BY <2>5 DEF ExistsBijection
  <2> HIDE DEF h
  <2> QED BY <2>6, <2>7, FS_Bijection
<1>2. ASSUME NEW k \in 1..K PROVE k \in 1..Cardinality(S) /\ Nth(S, k) = g[k]
  <2>1. g[k] \in S /\ Cardinality(UpTo(S, g[k])) = k
    BY <1>1
  <2>2. k \in 1..Cardinality(S)
    BY <2>1, RankRange, Zenon
  <2>3. Nth(S, k) \in S /\ Cardinality(UpTo(S, Nth(S, k))) = k
    BY <2>2, NthRank, Zenon
  <2> QED BY <2>1, <2>2, <2>3, RanksDiffer, Zenon
<1>3. Cardinality(S) \in Nat
  BY Positions
<1>4. ASSUME NEW k \in 1..Cardinality(S) PROVE k \in 1..K
  <2>1. Nth(S, k) \in S /\ Cardinality(UpTo(S, Nth(S, k))) = k
    BY NthRank, Zenon
  <2>2. PICK j \in 1..K : g[j] = Nth(S, k)
    BY <2>1
  <2> QED BY <1>1, <2>1, <2>2
<1>5. Cardinality(S) = K
  <2>1. K # 0 => K <= Cardinality(S)
    <3>1. K # 0 => K \in 1..K
      OBVIOUS
    <3> QED BY <1>2, <1>3, <3>1
  <2>2. Cardinality(S) # 0 => Cardinality(S) <= K
    <3>1. Cardinality(S) # 0 => Cardinality(S) \in 1..Cardinality(S)
      BY <1>3
    <3> QED BY <1>3, <1>4, <3>1
  <2> QED BY <1>3, <2>1, <2>2
<1> QED BY <1>2, <1>5

(* The contents a list has under one id, in its order. *)
At(list, i) == {n \in DOMAIN list : list[n].id = i}
Under(list, i) ==
    [k \in 1..Cardinality(At(list, i)) |-> list[Nth(At(list, i), k)].claim]

(* What FactsHost is shown of a list. *)
LEMMA PerIdUnder ==
    ASSUME NEW list, NEW ids, NEW i \in ids
    PROVE  PerId(list, ids)[i] = Under(list, i)
BY DEF PerId, Under, At

(* A list without an entry of an id shows nothing of it. *)
LEMMA UnderNone ==
    ASSUME NEW list, NEW i, At(list, i) = {}
    PROVE  Under(list, i) = <<>>
<1>1. Cardinality({}) = 0
  BY FS_EmptySet
<1>2. Under(list, i) = [k \in 1..0 |-> list[Nth(At(list, i), k)].claim]
  BY <1>1 DEF Under
<1> QED BY <1>2

(* A single entry shows its contents. *)
LEMMA UnderOne ==
    ASSUME NEW list \in Seq(Entry), NEW i, NEW n, At(list, i) = {n}
    PROVE  Under(list, i) = <<list[n].claim>>
<1>1. Len(list) \in Nat /\ {n} \in SUBSET (1..Len(list))
  BY LenProperties DEF At
<1>2. Cardinality({n}) = 1
  BY FS_Singleton
<1>3. Nth({n}, 1) = n
  <2>1. 1 \in 1..Cardinality({n})
    BY <1>2
  <2> QED BY <1>1, <2>1, NthRank
<1>4. \A k \in 1..1 : k = 1
  OBVIOUS
<1>5. Under(list, i) = [k \in 1..1 |-> list[n].claim]
  BY <1>2, <1>3, <1>4 DEF Under
<1> QED BY <1>5

(* Lists that agree at the entries of an id show the same. *)
LEMMA UnderSame ==
    ASSUME NEW list, NEW other, NEW i, At(list, i) = At(other, i),
           \A n \in At(list, i) : list[n] = other[n],
           NEW L \in Nat, At(list, i) \in SUBSET (1..L)
    PROVE  Under(list, i) = Under(other, i)
<1>1. \A k \in 1..Cardinality(At(list, i)) : Nth(At(list, i), k) \in At(list, i)
  BY NthRank, Zenon
<1> QED BY <1>1 DEF Under

(* A comprehension that keeps all entries of an id shows the same of it.    *)
LEMMA UnderFiltered ==
    ASSUME NEW list \in Seq(Entry), NEW i, NEW S \in SUBSET (DOMAIN list),
           At(list, i) \subseteq S
    PROVE  Under(Comprehend(list, S), i) = Under(list, i)
<1> DEFINE of == At(list, i)
           kept == Comprehend(list, S)
           K == Cardinality(of)
           g == [k \in 1..K |-> Cardinality(UpTo(S, Nth(of, k)))]
<1>1. /\ Len(list) \in Nat /\ S \in SUBSET (1..Len(list))
      /\ of \in SUBSET (1..Len(list)) /\ of \in SUBSET S
  BY LenProperties DEF At
<1>2. /\ kept \in Seq(Entry) /\ DOMAIN kept = 1..Cardinality(S)
      /\ \A k \in 1..Cardinality(S) : Nth(S, k) \in S /\ kept[k] = list[Nth(S, k)]
  BY Comprehended
<1>3. \A n \in S : Cardinality(UpTo(S, n)) \in 1..Cardinality(S)
  BY <1>1, RankRange, Zenon
<1>4. ASSUME NEW n \in S PROVE Nth(S, Cardinality(UpTo(S, n))) = n
  <2> DEFINE r == Cardinality(UpTo(S, n))
  <2>1. r \in 1..Cardinality(S)
    BY <1>3
  <2>2. Nth(S, r) \in S /\ Cardinality(UpTo(S, Nth(S, r))) = r
    BY <1>1, <2>1, NthRank, Zenon
  <2> QED BY <1>1, <2>2, RanksDiffer, Zenon
<1>5. \A n \in S : kept[Cardinality(UpTo(S, n))] = list[n]
  BY <1>2, <1>3, <1>4
<1>6. K \in Nat /\ \A k \in 1..K : Nth(of, k) \in of
  <2>1. K \in Nat
    BY <1>1, Positions, Zenon
  <2>2. \A k \in 1..K : Nth(of, k) \in of
    BY <1>1, NthRank, Zenon
  <2> QED BY <2>1, <2>2
<1> HIDE DEF kept, of, K
<1>7. \A n \in of : list[n].id = i
  BY DEF of, At
<1>8. g \in [1..K -> At(kept, i)]
  <2>1. \A k \in 1..K : g[k] \in At(kept, i)
    BY <1>1, <1>2, <1>3, <1>5, <1>6, <1>7 DEF At
  <2> QED BY <2>1
<1>9. ASSUME NEW j \in 1..K, NEW k \in 1..K, j < k PROVE g[j] < g[k]
  <2>1. Nth(of, j) < Nth(of, k)
    BY <1>1, <1>9, NthIncreases, Zenon DEF K
  <2>2. Nth(of, j) \in S /\ Nth(of, k) \in S
    BY <1>1, <1>6
  <2> QED BY <1>1, <2>1, <2>2, UpToStrict
<1>10. ASSUME NEW m \in At(kept, i) PROVE \E k \in 1..K : g[k] = m
  <2>1. m \in 1..Cardinality(S) /\ kept[m].id = i
    BY <1>2 DEF At
  <2>2. Nth(S, m) \in S /\ Cardinality(UpTo(S, Nth(S, m))) = m
    BY <1>1, <2>1, NthRank, Zenon
  <2>3. Nth(S, m) \in of
    BY <1>1, <1>2, <2>1, <2>2 DEF of, At
  <2>4. PICK k \in 1..K : Nth(of, k) = Nth(S, m)
    BY <1>1, <2>3, NthOnto, Zenon DEF K
  <2> QED BY <2>2, <2>4
<1>11. \A k \in 1..K : g[k] = Cardinality(UpTo(S, Nth(of, k)))
  OBVIOUS
<1> HIDE DEF g
<1>12. Cardinality(At(kept, i)) = K /\ \A k \in 1..K : Nth(At(kept, i), k) = g[k]
  <2>1. Len(kept) \in Nat /\ At(kept, i) \in SUBSET (1..Len(kept))
    BY <1>2, LenProperties DEF At
  <2>2. \A j, k \in 1..K : j < k => g[j] < g[k]
    BY <1>9
  <2>3. \A m \in At(kept, i) : \E k \in 1..K : g[k] = m
    BY <1>10
  <2> QED BY <1>6, <1>8, <2>1, <2>2, <2>3, EnumeratedByNth
<1>13. \A k \in 1..K : kept[g[k]] = list[Nth(of, k)]
  BY <1>1, <1>5, <1>6, <1>11
<1>14. Under(list, i) = [k \in 1..K |-> list[Nth(of, k)].claim]
  BY DEF Under, of, K
<1> QED BY <1>12, <1>13, <1>14 DEF kept, Under

(* Nothing is shown of an id exactly if the list has no entry of it. *)
LEMMA UnderEmpty ==
    ASSUME NEW list \in Seq(Entry), NEW i
    PROVE  /\ Under(list, i) = <<>> <=> At(list, i) = {}
           /\ At(list, i) # {} => /\ 1 \in 1..Cardinality(At(list, i))
                                  /\ Head(Under(list, i)) = list[Nth(At(list, i), 1)].claim
<1> DEFINE of == At(list, i)
<1>1. Len(list) \in Nat /\ of \in SUBSET (1..Len(list))
  BY LenProperties DEF At
<1> HIDE DEF of
<1>2. Cardinality(of) \in Nat /\ (Cardinality(of) = 0 <=> of = {})
  BY <1>1, TwoCount, Zenon
<1>3. of # {} => 1 \in 1..Cardinality(of)
  BY <1>2
<1>4. /\ DOMAIN Under(list, i) = 1..Cardinality(of)
      /\ \A k \in 1..Cardinality(of) : Under(list, i)[k] = list[Nth(of, k)].claim
  BY DEF Under, of
<1>5. Under(list, i) \in Seq(Claims)
  <2>1. \A n \in of : list[n] \in Entry
    BY <1>1, ElementOfSeq
  <2>2. \A k \in 1..Cardinality(of) : list[Nth(of, k)].claim \in Claims
    <3>1. \A k \in 1..Cardinality(of) : Nth(of, k) \in of
      BY <1>1, NthRank, Zenon
    <3> QED BY <2>1, <3>1 DEF Entry
  <2> QED BY <1>2, <2>2, IsASeq DEF Under, of
<1>6. Len(Under(list, i)) = Cardinality(of)
  BY <1>2, <1>4, <1>5, LenProperties
<1>7. of # {} => /\ Under(list, i) # <<>>
                 /\ Head(Under(list, i)) = Under(list, i)[1]
  BY <1>2, <1>5, <1>6, EmptySeq, HeadTailProperties
<1> QED BY <1>3, <1>4, <1>7, UnderNone DEF of

(* A POST that appends: its id shows the one entry, every other id what it  *)
(* showed.                                                                  *)
LEMMA AppendUnder ==
    ASSUME NEW list \in Seq(Entry), NEW e \in Entry, e.id \notin IdsOf(list), e.id # NoId,
           NEW i
    PROVE  Under(Append(list, e), i) = IF i = e.id THEN <<e.claim>> ELSE Under(list, i)
<1> DEFINE longer == Append(list, e)
<1>1. /\ longer \in Seq(Entry) /\ Len(list) \in Nat
      /\ DOMAIN list = 1..Len(list) /\ DOMAIN longer = 1..(Len(list) + 1)
      /\ longer[Len(list) + 1] = e
      /\ \A n \in 1..Len(list) : longer[n] = list[n]
  BY AppendProperties, LenProperties
<1> HIDE DEF longer
<1>2. CASE i = e.id
  <2>1. \A n \in DOMAIN list : list[n].id # i
    BY <1>2 DEF IdsOf
  <2>2. At(longer, i) = {Len(list) + 1}
    BY <1>1, <1>2, <2>1 DEF At
  <2>3. Under(longer, i) = <<longer[Len(list) + 1].claim>>
    BY <1>1, <2>2, UnderOne
  <2> QED BY <1>1, <1>2, <2>3 DEF longer
<1>3. CASE i # e.id
  <2>1. At(longer, i) = At(list, i) /\ At(list, i) \in SUBSET (1..Len(list))
    BY <1>1, <1>3 DEF At
  <2>2. \A n \in At(longer, i) : longer[n] = list[n]
    BY <1>1, <2>1
  <2>3. Under(longer, i) = Under(list, i)
    BY <1>1, <2>1, <2>2, UnderSame
  <2> QED BY <1>3, <2>3 DEF longer
<1> QED BY <1>2, <1>3

(* put_facts 62-68, id by id: the body's entries, or the first on file. *)
LEMMA MergeUnder ==
    ASSUME NEW body \in Seq(Entry), NEW existing \in Seq(IdBearers), NEW i \in Ids
    PROVE  Under(MergeLists(IdBearing(body), existing), i)
              = Host!KeptUnder(Under(body, i), Under(existing, i))
<1> DEFINE kept == IdBearing(body)
           S == Unseen(kept, existing)
           new == Comprehend(existing, S)
           merged == kept \o new
<1>1. IdBearers \subseteq Entry /\ existing \in Seq(Entry) /\ i # NoId
  <2>1. IdBearers \subseteq Entry
    BY DEF IdBearers, Entry
  <2> QED BY <2>1, SeqMonotonic, NoIdAssumption
<1>2. kept \in Seq(Entry) /\ Under(kept, i) = Under(body, i)
  <2> DEFINE W == {n \in DOMAIN body : body[n].id # NoId}
  <2>1. W \in SUBSET DOMAIN body /\ At(body, i) \subseteq W /\ kept = Comprehend(body, W)
    BY <1>1 DEF IdBearing, At
  <2>2. kept \in Seq(Entry)
    BY <1>1, IdBearingKeeps, SeqMonotonic
  <2> HIDE DEF W, kept
  <2> QED BY <2>1, <2>2, UnderFiltered
<1>3. /\ S \in SUBSET DOMAIN existing
      /\ \A n \in S : existing[n].id \notin IdsOf(kept)
      /\ \A n \in S : \A m \in 1..(n - 1) : existing[m].id # existing[n].id
  BY DEF Unseen
<1>4. /\ new \in Seq(Entry) /\ DOMAIN new = 1..Cardinality(S) /\ Len(new) = Cardinality(S)
      /\ \A k \in 1..Cardinality(S) : Nth(S, k) \in S /\ new[k] = existing[Nth(S, k)]
      /\ \A n \in S : \E k \in 1..Cardinality(S) : Nth(S, k) = n
      /\ \A j, k \in 1..Cardinality(S) : Nth(S, j) = Nth(S, k) => j = k
  BY <1>1, <1>3, Comprehended
<1>5. MergeLists(kept, existing) = merged
  BY DEF MergeLists
<1> HIDE DEF kept, new
<1>6. /\ merged \in Seq(Entry) /\ Len(kept) \in Nat /\ Len(new) \in Nat
      /\ DOMAIN kept = 1..Len(kept) /\ DOMAIN new = 1..Len(new)
      /\ DOMAIN merged = 1..(Len(kept) + Len(new))
      /\ \A n \in 1..Len(kept) : merged[n] = kept[n]
      /\ \A k \in 1..Len(new) : merged[Len(kept) + k] = new[k]
      /\ \A n \in DOMAIN merged : n \in 1..Len(kept) \/ n - Len(kept) \in 1..Len(new)
  BY <1>2, <1>4, ConcatProperties, LenProperties
<1> HIDE DEF merged, S
<1>7. CASE At(kept, i) # {}
  <2>1. i \in IdsOf(kept)
    BY <1>1, <1>7 DEF At, IdsOf
  <2>2. \A k \in 1..Len(new) : new[k].id # i
    BY <1>3, <1>4, <2>1
  <2>3. ASSUME NEW n \in DOMAIN merged, merged[n].id = i PROVE n \in At(kept, i)
    <3>1. CASE n \in 1..Len(kept)
      BY <1>6, <2>3, <3>1 DEF At
    <3>2. CASE n - Len(kept) \in 1..Len(new)
      <4>1. n = Len(kept) + (n - Len(kept))
        BY <1>6
      <4>2. merged[n] = new[n - Len(kept)]
        BY <1>6, <3>2, <4>1
      <4> QED BY <2>2, <2>3, <3>2, <4>2
    <3> QED BY <1>6, <3>1, <3>2
  <2>4. At(merged, i) = At(kept, i) /\ At(kept, i) \in SUBSET (1..Len(kept))
    BY <1>6, <2>3 DEF At
  <2>5. \A n \in At(merged, i) : merged[n] = kept[n]
    BY <1>6, <2>4
  <2>6. Under(merged, i) = Under(kept, i)
    BY <1>6, <2>4, <2>5, UnderSame
  <2>7. Under(body, i) # <<>>
    BY <1>2, <1>7, UnderEmpty
  <2> QED BY <1>2, <1>5, <2>6, <2>7 DEF Host!KeptUnder, kept
<1>8. CASE At(kept, i) = {}
  <2>1. Under(body, i) = <<>> /\ i \notin IdsOf(kept)
    BY <1>2, <1>8, UnderEmpty DEF At, IdsOf
  <2>2. ASSUME NEW n \in DOMAIN merged, merged[n].id = i
        PROVE  n - Len(kept) \in 1..Len(new) /\ new[n - Len(kept)].id = i
               /\ n = Len(kept) + (n - Len(kept))
    <3>1. n \notin 1..Len(kept)
      BY <1>6, <1>8, <2>2 DEF At
    <3>2. n - Len(kept) \in 1..Len(new) /\ n = Len(kept) + (n - Len(kept))
      BY <1>6, <3>1
    <3>3. merged[n] = new[n - Len(kept)]
      BY <1>6, <3>2
    <3> QED BY <2>2, <3>2, <3>3
  <2>3. CASE At(existing, i) = {}
    <3>1. \A n \in DOMAIN existing : existing[n].id # i
      BY <2>3 DEF At
    <3>2. \A k \in 1..Len(new) : new[k].id # i
      BY <1>3, <1>4, <3>1
    <3>3. At(merged, i) = {}
      BY <2>2, <3>2 DEF At
    <3>4. Under(merged, i) = <<>> /\ Under(existing, i) = <<>>
      BY <2>3, <3>3, UnderNone
    <3> QED BY <1>5, <2>1, <3>4 DEF Host!KeptUnder, kept
  <2>4. CASE At(existing, i) # {}
    <3> DEFINE of == At(existing, i)
               n == Nth(of, 1)
    <3>1. Len(existing) \in Nat /\ DOMAIN existing = 1..Len(existing)
      BY <1>1, LenProperties
    <3>2. of \in SUBSET (1..Len(existing))
      BY <3>1 DEF At
    <3>3. /\ 1 \in 1..Cardinality(of) /\ Head(Under(existing, i)) = existing[n].claim
          /\ Under(existing, i) # <<>>
      BY <1>1, <2>4, UnderEmpty
    <3>4. n \in of /\ Cardinality(UpTo(of, n)) = 1
      BY <3>1, <3>2, <3>3, NthRank, Zenon
    <3> HIDE DEF n
    <3>5. ASSUME NEW m \in of, m < n PROVE FALSE
      <4>1. Cardinality(UpTo(of, m)) < Cardinality(UpTo(of, n))
        BY <3>1, <3>2, <3>4, <3>5, UpToStrict
      <4>2. Cardinality(UpTo(of, m)) \in 1..Cardinality(of)
        BY <3>1, <3>2, RankRange
      <4> QED BY <3>4, <4>1, <4>2
    <3>6. \A m \in of : m \in 1..Len(existing) /\ existing[m].id = i
      BY <3>1 DEF At
    <3>7. n \in S
      <4>1. ASSUME NEW m \in 1..(n - 1) PROVE existing[m].id # existing[n].id
        <5>1. m < n /\ m \in 1..Len(existing)
          BY <3>1, <3>4, <3>6
        <5> QED BY <3>1, <3>4, <3>5, <3>6, <5>1 DEF At
      <4> QED BY <1>1, <2>1, <3>1, <3>4, <3>6, <4>1 DEF S, Unseen
    <3>8. ASSUME NEW m \in S, existing[m].id = i PROVE m = n
      <4>1. m \in of /\ m \in 1..Len(existing) /\ n \in 1..Len(existing)
        BY <1>3, <3>1, <3>4, <3>6, <3>8 DEF At
      <4>2. ~ m < n
        BY <3>5, <4>1
      <4>3. ~ n < m
        <5>1. n < m => n \in 1..(m - 1)
          BY <4>1
        <5> QED BY <1>3, <3>4, <3>6, <3>8, <5>1
      <4> QED BY <4>1, <4>2, <4>3
    <3>9. PICK k \in 1..Cardinality(S) : Nth(S, k) = n
      BY <1>4, <3>7
    <3>10. Len(kept) + k \in DOMAIN merged /\ merged[Len(kept) + k] = existing[n]
      BY <1>4, <1>6, <3>9
    <3>11. ASSUME NEW m \in DOMAIN merged, merged[m].id = i PROVE m = Len(kept) + k
      <4> DEFINE j == m - Len(kept)
      <4>1. j \in 1..Cardinality(S) /\ new[j].id = i /\ m = Len(kept) + j
        BY <1>4, <2>2, <3>11
      <4> HIDE DEF j
      <4>2. Nth(S, j) = n
        BY <1>4, <3>8, <4>1
      <4>3. j = k
        BY <1>4, <3>9, <4>1, <4>2
      <4> QED BY <4>1, <4>3
    <3>12. At(merged, i) = {Len(kept) + k}
      BY <3>4, <3>6, <3>10, <3>11 DEF At
    <3>13. Under(merged, i) = <<existing[n].claim>>
      <4>1. Under(merged, i) = <<merged[Len(kept) + k].claim>>
        BY <1>6, <3>12, UnderOne
      <4> QED BY <3>10, <4>1
    <3> QED BY <1>5, <2>1, <3>3, <3>13 DEF Host!KeptUnder, kept
  <2> QED BY <2>3, <2>4
<1> QED BY <1>7, <1>8
-----------------------------------------------------------------------------
(* What a bundle is to FactsHost. *)
Shown(b) == [creds |-> b.creds, severance |-> b.severance,
             contestations |-> [i \in Ids |-> Under(b.contestations, i)]]

(* A bundle as FactsHost sees it, id by id. *)
LEMMA BundleShown ==
    ASSUME NEW b
    PROVE  BundleView(b) = Shown(b)
BY DEF BundleView, Shown, PerId, Under, At

(* What is served. *)
LEMMA ViewShown ==
    ASSUME NEW a \in Agents
    PROVE  View[a] = IF store[a] = NoObject THEN NoBundle ELSE Shown(heap[store[a]])
BY BundleShown DEF View

(* What a PUT has sent. *)
LEMMA BodyShown ==
    ASSUME NEW r
    PROVE  /\ BodyView(r).agent_id = r.agent_id /\ BodyView(r).creds = r.bundle.creds
           /\ BodyView(r).severance = r.bundle.severance
           /\ \A i \in Ids : BodyView(r).contestations[i] = Under(r.bundle.contestations, i)
<1>1. \A i \in Ids : PerId(r.bundle.contestations, Ids \cup {NoId})[i]
                        = Under(r.bundle.contestations, i)
  BY PerIdUnder
<1> QED BY <1>1 DEF BodyView

(* One thread: a handler that has read _store has what is served there, and *)
(* its local values are what the code before computed from it.              *)
Alone == \A t, u \in Threads : t = u
SerialAt(t) ==
    LET r == req[t]
        prior == Deref(obj[t])
    IN  /\ pc[t] \in Building \cup Contesting \cup Severing => obj[t] = store[r.agent]
        /\ pc[t] \in Building => stored[t].creds = r.bundle.creds
        /\ pc[t] = "put_merge" => stored[t].contestations = IdBearing(r.bundle.contestations)
        /\ pc[t] \in {"put_severance", "put_store"} =>
              stored[t].contestations =
                 MergeLists(IdBearing(r.bundle.contestations), prior.contestations)
        /\ pc[t] \in {"put_merge", "put_severance"} =>
              stored[t].severance = r.bundle.severance
        /\ pc[t] = "put_store" =>
              stored[t].severance =
                 IF r.bundle.severance = NoSeverance THEN prior.severance
                 ELSE r.bundle.severance
        /\ pc[t] = "contest_append" =>
              r.entry.id \notin IdsOf(heap[obj[t]].contestations)
        /\ pc[t] = "sever_set" => heap[obj[t]].severance = NoSeverance
Serial == \A t \in Threads : SerialAt(t)

(* Every step of the one handler keeps this. *)
LEMMA SerialStep ==
    ASSUME Alone, Typing, Serial, NEW t \in Threads, Step(t)
    PROVE  Serial'
<1> SUFFICES SerialAt(t)'
  BY DEF Alone, Serial
<1>1. SerialAt(t) /\ pc[t] # "idle"
  BY StepGoes DEF Serial
<1>2. Over(t) => SerialAt(t)'
  BY DEF Over, SerialAt, Building, Contesting, Severing
<1>3. CASE PutRead(t) /\ ~ Over(t)
  <2>1. /\ UNCHANGED shared /\ pc[t] = "put" /\ Moves(t, "put_merge")
        /\ obj'[t] = store[req[t].agent]
        /\ stored'[t].contestations = IdBearing(req[t].bundle.contestations)
    BY <1>3, PutReadEffect DEF shared
  <2>2. req[t].bundle \in BundleObject
    BY <2>1, Handles DEF PutRequest
  <2>3. stored' = [stored EXCEPT ![t] =
                      [req[t].bundle EXCEPT !.contestations = IdBearing(@)]]
    BY <1>3, AnswerEnds DEF PutRead
  <2>4. stored'[t] = [req[t].bundle EXCEPT !.contestations = IdBearing(@)]
    BY <2>3 DEF Typing
  <2>5. stored'[t].creds = req[t].bundle.creds
        /\ stored'[t].severance = req[t].bundle.severance
    BY <2>2, <2>4 DEF BundleObject
  <2> QED BY <2>1, <2>5 DEF SerialAt, Moves, shared, Building, Contesting, Severing
<1>4. CASE PutMerge(t)
  <2>1. /\ UNCHANGED shared /\ pc[t] = "put_merge" /\ Moves(t, "put_severance")
        /\ obj'[t] = obj[t]
        /\ stored'[t].contestations =
              MergeLists(stored[t].contestations, Deref(obj[t]).contestations)
    BY <1>4, PutMergeEffect
  <2>2. stored[t] \in HostedBundle
    BY <2>1 DEF Typing, InHandler, Building
  <2>3. stored'[t] = [stored[t] EXCEPT !.contestations =
                         MergeLists(@, Deref(obj[t]).contestations)]
    BY <1>4 DEF PutMerge, Typing
  <2>4. stored'[t].creds = stored[t].creds /\ stored'[t].severance = stored[t].severance
    BY <2>2, <2>3 DEF HostedBundle
  <2>5. Deref(obj[t])' = Deref(obj[t])
    BY <2>1 DEF Deref, shared
  <2> QED BY <1>1, <2>1, <2>4, <2>5
          DEF SerialAt, Moves, shared, Building, Contesting, Severing
<1>5. CASE PutSeverance(t)
  <2>1. /\ UNCHANGED shared /\ pc[t] = "put_severance" /\ Moves(t, "put_store")
        /\ obj'[t] = obj[t] /\ stored'[t].contestations = stored[t].contestations
    BY <1>5, PutSeveranceEffect
  <2>2. stored[t] \in HostedBundle
    BY <2>1 DEF Typing, InHandler, Building
  <2>3. stored'[t] = [stored[t] EXCEPT !.severance =
                         IF @ = NoSeverance THEN Deref(obj[t]).severance ELSE @]
    BY <1>5 DEF PutSeverance, Typing
  <2>4. /\ stored'[t].creds = stored[t].creds
        /\ stored'[t].severance = IF stored[t].severance = NoSeverance
                                  THEN Deref(obj[t]).severance ELSE stored[t].severance
    BY <2>2, <2>3 DEF HostedBundle
  <2>5. Deref(obj[t])' = Deref(obj[t])
    BY <2>1 DEF Deref, shared
  <2> QED BY <1>1, <2>1, <2>4, <2>5
          DEF SerialAt, Moves, shared, Building, Contesting, Severing
<1>6. CASE ContestGet(t) /\ ~ Over(t)
  BY <1>6, ContestGetEffect DEF SerialAt, Moves, shared, Building, Contesting, Severing
<1>7. CASE ContestScan(t) /\ ~ Over(t)
  BY <1>1, <1>7, ContestScanEffect
     DEF SerialAt, Moves, shared, Building, Contesting, Severing
<1>8. CASE SeverGet(t) /\ ~ Over(t)
  BY <1>8, SeverGetEffect DEF SerialAt, Moves, shared, Building, Contesting, Severing
<1>9. CASE SeverCheck(t) /\ ~ Over(t)
  BY <1>1, <1>9, SeverCheckEffect
     DEF SerialAt, Moves, shared, Building, Contesting, Severing
<1>10. GetFacts(t) \/ PutStore(t) \/ ContestAppend(t) \/ SeverSet(t) => Over(t)
  BY GetFactsEffect, PutStoreEffect, ContestAppendEffect, SeverSetEffect
<1> QED BY <1>2, <1>3, <1>4, <1>5, <1>6, <1>7, <1>8, <1>9, <1>10 DEF Step

(* So does every other step. *)
LEMMA SerialNext == Alone /\ Typing /\ Serial /\ [Next]_vars => Serial'
<1> SUFFICES ASSUME Alone, Typing, Serial, [Next]_vars PROVE Serial'
  OBVIOUS
<1>1. ASSUME NEW t \in Threads, Step(t) PROVE Serial'
  BY <1>1, SerialStep
<1>2. ASSUME NEW t \in Threads, NEW r \in Requests, Begin(t, r) PROVE Serial'
  <2>1. pc'[t] \in Operations
    BY <1>2, BeginEffect, RequestKinds
  <2> QED BY <2>1 DEF Alone, Serial, SerialAt, Operations, Building, Contesting, Severing
<1>3. CASE Restart
  BY <1>3 DEF Restart, Serial, SerialAt, Building, Contesting, Severing
<1>4. CASE UNCHANGED vars
  <2>1. \A t \in Threads : Deref(obj[t])' = Deref(obj[t])
    BY <1>4 DEF vars, shared, locals, Deref
  <2> QED BY <1>4, <2>1 DEF vars, shared, locals, Serial, SerialAt
<1> QED BY <1>1, <1>2, <1>3, <1>4 DEF Next

(* What leaves heap and _store alone leaves what is served alone. *)
LEMMA SameView ==
    ASSUME UNCHANGED shared
    PROVE  View' = View
BY DEF shared, View, BundleView

(* A write to the bundle that is served for a changes what is served for a, *)
(* and for nobody else.                                                     *)
LEMMA ViewWritten ==
    ASSUME Typing, Owned, NEW a \in Agents, store[a] # NoObject, store' = store,
           Len(heap') = Len(heap),
           \A ref \in 1..Len(heap) \ {store[a]} : heap'[ref] = heap[ref]
    PROVE  View' = [View EXCEPT ![a] = Shown(heap'[store[a]])]
<1>1. ASSUME NEW b \in Agents PROVE View'[b] = IF b = a THEN Shown(heap'[store[a]]) ELSE View[b]
  <2>1. View'[b] = IF store[b] = NoObject THEN NoBundle ELSE Shown(heap'[store[b]])
    <3>1. View'[b] = IF store'[b] = NoObject THEN NoBundle ELSE Shown(heap'[store'[b]])
      BY BundleShown DEF View
    <3> QED BY <3>1
  <2>2. View[b] = IF store[b] = NoObject THEN NoBundle ELSE Shown(heap[store[b]])
    BY ViewShown
  <2>3. CASE b = a
    BY <2>1, <2>3
  <2>4. CASE b # a /\ store[b] = NoObject
    BY <2>1, <2>2, <2>4
  <2>5. CASE b # a /\ store[b] # NoObject
    <3>1. store[b] \in 1..Len(heap) \ {store[a]}
      BY <2>5, LenProperties DEF Owned, Typing, NoObject
    <3> QED BY <2>1, <2>2, <2>5, <3>1
  <2> QED BY <2>3, <2>4, <2>5
<1>2. View' = [b \in Agents |-> View'[b]] /\ View = [b \in Agents |-> View[b]]
  BY DEF View
<1> QED BY <1>1, <1>2

(* The bundles the handlers have. *)
LEMMA ServedBundle ==
    ASSUME Typing, NEW a \in Agents, store[a] # NoObject
    PROVE  /\ heap[store[a]] \in HostedBundle /\ Deref(store[a]) = heap[store[a]]
           /\ heap[store[a]].contestations \in Seq(IdBearers)
           /\ heap[store[a]].contestations \in Seq(Entry)
<1>1. store[a] \in 0..Len(heap)
  BY DEF Typing
<1>2. heap[store[a]] \in HostedBundle /\ Deref(store[a]) = heap[store[a]]
  BY <1>1, DerefTyped
<1>3. IdBearers \subseteq Entry
  BY DEF IdBearers, Entry
<1> QED BY <1>2, <1>3, SeqMonotonic DEF HostedBundle

(* put_facts: what is published is the merge of FactsHost. *)
LEMMA PublishesMerge ==
    ASSUME Typing, Serial, NEW t \in Threads, pc[t] = "put_store"
    PROVE  Shown(stored[t]) = Host!Merged(View[req[t].agent], BodyView(req[t]))
<1> DEFINE r == req[t]
           a == r.agent
           B == r.bundle.contestations
           E == Deref(store[a]).contestations
<1>1. r \in PutRequest /\ a \in Agents /\ B \in Seq(Entry)
  BY Handles DEF Building, PutRequest, BundleObject
<1>2. /\ stored[t].creds = r.bundle.creds
      /\ stored[t].contestations = MergeLists(IdBearing(B), E)
      /\ stored[t].severance = IF r.bundle.severance = NoSeverance
                               THEN Deref(store[a]).severance ELSE r.bundle.severance
  BY DEF Serial, SerialAt, Building
<1>3. store[a] \in 0..Len(heap) /\ E \in Seq(IdBearers)
  BY <1>1, DerefTyped DEF Typing
<1> DEFINE existing == IF View[a] = NoBundle THEN [i \in Ids |-> <<>>]
                       ELSE View[a].contestations
           filed == IF View[a] = NoBundle THEN NoSeverance ELSE View[a].severance
<1>4. (\A i \in Ids : Under(E, i) = existing[i]) /\ Deref(store[a]).severance = filed
  <2>1. CASE store[a] = NoObject
    <3>1. View[a] = NoBundle /\ Deref(store[a]) = EmptyBundle
      BY <1>1, <2>1, ViewShown DEF Deref
    <3>2. E = <<>> /\ Deref(store[a]).severance = NoSeverance
      BY <3>1 DEF EmptyBundle
    <3>3. \A i \in Ids : Under(E, i) = <<>>
      BY <3>2, UnderNone DEF At
    <3> QED BY <3>1, <3>2, <3>3
  <2>2. CASE store[a] # NoObject
    <3>1. View[a] # NoBundle
      BY <1>1, <2>2, Viewed DEF Host!Hosted
    <3>2. View[a] = Shown(heap[store[a]]) /\ Deref(store[a]) = heap[store[a]]
      BY <1>1, <2>2, ViewShown, ServedBundle
    <3> QED BY <3>1, <3>2 DEF Shown
  <2> QED BY <2>1, <2>2
<1>5. \A i \in Ids : BodyView(r).contestations[i] = Under(B, i)
  BY BodyShown
<1> HIDE DEF B, E, existing, filed
<1>6. \A i \in Ids : Under(stored[t].contestations, i)
                        = Host!KeptUnder(BodyView(r).contestations[i], existing[i])
  BY <1>1, <1>2, <1>3, <1>4, <1>5, MergeUnder
<1>7. BodyView(r).creds = r.bundle.creds /\ BodyView(r).severance = r.bundle.severance
  BY BodyShown
<1> HIDE DEF r, a
<1>8. Host!Merged(View[a], BodyView(r)) =
         [creds |-> BodyView(r).creds,
          contestations |->
             [i \in Ids |-> Host!KeptUnder(BodyView(r).contestations[i], existing[i])],
          severance |-> IF BodyView(r).severance = NoSeverance THEN filed
                        ELSE BodyView(r).severance]
  BY DEF Host!Merged, existing, filed
<1>9. Shown(stored[t]) =
         [creds |-> BodyView(r).creds,
          contestations |->
             [i \in Ids |-> Host!KeptUnder(BodyView(r).contestations[i], existing[i])],
          severance |-> IF BodyView(r).severance = NoSeverance THEN filed
                        ELSE BodyView(r).severance]
  BY <1>2, <1>4, <1>6, <1>7 DEF Shown
<1> QED BY <1>8, <1>9 DEF r, a

(* The answers are the same on both sides. *)
LEMMA SameAnswers ==
    /\ Host!Ok = Ok /\ Host!Duplicate = Duplicate
    /\ Host!NotFound = NotFound /\ Host!Unprocessable = Unprocessable
BY DEF Host!Ok, Ok, Host!Duplicate, Duplicate, Host!NotFound, NotFound, Host!Unprocessable,
       Unprocessable

(* Hosted, on file and severed, for FactsHost and for the handlers.         *)
LEMMA ServedState ==
    ASSUME Typing, NEW a \in Agents
    PROVE  /\ Host!Hosted(a) <=> store[a] # NoObject
           /\ store[a] # NoObject =>
                 /\ \A i \in Ids : Host!OnFile(a, i) <=> i \in IdsOf(heap[store[a]].contestations)
                 /\ Host!Severed(a) <=> heap[store[a]].severance # NoSeverance
<1>1. Host!Hosted(a) <=> store[a] # NoObject
  BY Viewed
<1>2. ASSUME store[a] # NoObject, NEW i \in Ids
      PROVE  Host!OnFile(a, i) <=> i \in IdsOf(heap[store[a]].contestations)
  <2>1. Shows(View[a].contestations[i], heap[store[a]].contestations, i)
    BY <1>2, Viewed
  <2>2. i # NoId
    BY NoIdAssumption
  <2> QED BY <1>1, <1>2, <2>1, <2>2 DEF Host!OnFile, Shows, IdsOf
<1>3. ASSUME store[a] # NoObject
      PROVE  Host!Severed(a) <=> heap[store[a]].severance # NoSeverance
  <2>1. View[a] = Shown(heap[store[a]])
    BY <1>3, ViewShown
  <2>2. View[a].severance = heap[store[a]].severance
    BY <2>1 DEF Shown
  <2> QED BY <1>1, <1>3, <2>2 DEF Host!Severed
<1> QED BY <1>1, <1>2, <1>3

(* An exit a host answered 200 to with no PUT and no other severance POST   *)
(* of its agent beside it is never undone: every PUT that comes later       *)
(* carries a severance over (put_facts 72-73), and every severance POST     *)
(* finds one (set_severance 126).                                           *)
THEOREM QuietExitStands == Spec => []SeveranceLossNeedsWriterBeside
<1>1. Typing /\ Inv => SeveranceLossNeedsWriterBeside
  <2> SUFFICES ASSUME Typing, Inv, NEW a \in exited PROVE Host!Severed(a)
    BY DEF SeveranceLossNeedsWriterBeside
  <2>1. a \in Agents
    BY DEF Typing
  <2>2. store[a] # NoObject /\ heap[store[a]].severance # NoSeverance
    BY DEF Inv, ExitKept, Filed
  <2> QED BY <2>1, <2>2, ServedState
<1> QED BY <1>1, InvHolds, PTL

(* put_facts *)
LEMMA PutIsAtomic ==
    ASSUME Typing, Serial, NEW t \in Threads, PutRead(t) \/ PutStore(t)
    PROVE  Host!Next \/ UNCHANGED <<View, reply, applied, posted>>
<1> DEFINE r == req[t]
<1>1. pc[t] \in {"put", "put_store"} /\ r \in Requests /\ r.agent \in Agents
  BY Handles DEF PutRead, PutStore
<1>2. r.op = "put" /\ (pc[t] = "put_store" => r.agent_id = r.agent)
  BY <1>1 DEF Typing, InHandler, Building, Operations
<1>3. BodyView(r) \in PutBodies /\ BodyView(r).agent_id = r.agent_id
  BY <1>1, <1>2, BodyShown DEF PutBodies
<1>4. CASE PutRead(t)
  <2>1. UNCHANGED <<shared, history>>
    BY <1>4, PutReadEffect
  <2>2. View' = View /\ UNCHANGED <<applied, posted>>
    BY <2>1, SameView DEF history
  <2>3. CASE r.agent_id = r.agent
    BY <1>4, <2>2, <2>3 DEF PutRead
  <2>4. CASE r.agent_id # r.agent
    <3>1. reply' = Host!Unprocessable
      BY <1>4, <2>4, SameAnswers DEF PutRead, Answer
    <3>2. Host!PutRejected(r.agent, BodyView(r))
      BY <1>3, <2>2, <2>4, <3>1 DEF Host!PutRejected, Host!history
    <3> QED BY <1>1, <1>3, <3>2 DEF Host!Next, Host!Put, PutBodies
  <2> QED BY <2>3, <2>4
<1>5. CASE PutStore(t)
  <2>1. /\ pc[t] = "put_store" /\ Len(heap) \in Nat
        /\ heap'[Len(heap) + 1] = stored[t]
        /\ \A ref \in 1..Len(heap) : heap'[ref] = heap[ref]
        /\ \A b \in Agents : store'[b] = IF b = r.agent THEN Len(heap) + 1 ELSE store[b]
    BY <1>5, PutStoreEffect
  <2>2. ASSUME NEW b \in Agents
        PROVE  View'[b] = IF b = r.agent THEN Shown(stored[t]) ELSE View[b]
    <3>1. View'[b] = IF store'[b] = NoObject THEN NoBundle ELSE Shown(heap'[store'[b]])
      BY BundleShown DEF View
    <3>2. View[b] = IF store[b] = NoObject THEN NoBundle ELSE Shown(heap[store[b]])
      BY ViewShown
    <3>3. store[b] \in 0..Len(heap)
      BY DEF Typing
    <3>4. store[b] # NoObject => store[b] \in 1..Len(heap)
      BY <2>1, <3>3 DEF NoObject
    <3>5. Len(heap) + 1 # NoObject
      BY <2>1 DEF NoObject
    <3> QED BY <2>1, <3>1, <3>2, <3>4, <3>5
  <2>3. Shown(stored[t]) = Host!Merged(View[r.agent], BodyView(r))
    BY <2>1, PublishesMerge
  <2>4. View' = [View EXCEPT ![r.agent] = Host!Merged(@, BodyView(r))]
    <3>1. View' = [b \in Agents |-> View'[b]] /\ View = [b \in Agents |-> View[b]]
      BY DEF View
    <3> QED BY <1>1, <2>2, <2>3, <3>1
  <2>5. /\ reply' = Host!Ok /\ posted' = posted
        /\ applied' = [applied EXCEPT ![r.agent] = @ \cup {BodyView(r)}]
    BY <1>5, SameAnswers DEF PutStore, Answer
  <2>6. Host!PutFacts(r.agent, BodyView(r))
    BY <1>2, <1>3, <2>1, <2>4, <2>5 DEF Host!PutFacts, Host!PutOver
  <2> QED BY <1>1, <1>3, <2>6 DEF Host!Next, Host!Put, PutBodies
<1> QED BY <1>4, <1>5

(* add_contestation *)
LEMMA ContestIsAtomic ==
    ASSUME Typing, Owned, Serial, NEW t \in Threads,
           ContestGet(t) \/ ContestScan(t) \/ ContestAppend(t)
    PROVE  Host!Next \/ UNCHANGED <<View, reply, applied, posted>>
<1> DEFINE a == req[t].agent
           e == req[t].entry
<1>1. /\ pc[t] \in Contesting \cup {"contest"} /\ a \in Agents /\ e \in Entry
      /\ e.id \in Ids \cup {NoId} /\ e.claim \in Claims
  <2>1. pc[t] \in Contesting \cup {"contest"} /\ pc[t] # "idle"
    BY DEF ContestGet, ContestScan, ContestAppend, Contesting
  <2> QED BY <2>1, Handles DEF ContestRequest, Entry
<1>2. /\ pc[t] \in Contesting => obj[t] = store[a] /\ obj[t] # NoObject
      /\ pc[t] = "contest_append" => e.id # NoId
                                     /\ e.id \notin IdsOf(heap[obj[t]].contestations)
  BY DEF Serial, SerialAt, Typing, InHandler
<1>3. Host!ContestationNotAdded(a, e.id) => Host!Next
  BY <1>1 DEF Host!Next
<1>4. CASE ContestGet(t)
  <2>1. View' = View /\ UNCHANGED <<applied, posted>>
    BY <1>4, SameView DEF ContestGet, history
  <2>2. CASE store[a] # NoObject
    BY <1>4, <2>1, <2>2 DEF ContestGet
  <2>3. CASE store[a] = NoObject
    <3>1. reply' = Host!NotFound /\ ~ Host!Hosted(a)
      BY <1>1, <1>4, <2>3, SameAnswers, ServedState DEF ContestGet, Answer
    <3> QED BY <1>3, <2>1, <3>1 DEF Host!ContestationNotAdded, Host!history
  <2> QED BY <2>2, <2>3
<1>5. CASE ContestScan(t)
  <2>1. UNCHANGED <<shared, applied, posted>> /\ pc[t] = "contest_scan"
    BY <1>5, ContestScanEffect
  <2>2. View' = View
    BY <2>1, SameView
  <2>3. Host!Hosted(a) /\ obj[t] = store[a] /\ store[a] # NoObject
    BY <1>1, <1>2, <2>1, ServedState DEF Contesting
  <2>4. CASE e.id = NoId
    <3>1. reply' = Host!Unprocessable
      BY <1>5, <2>4, SameAnswers DEF ContestScan, Answer
    <3> QED BY <1>3, <2>1, <2>2, <2>3, <2>4, <3>1 DEF Host!ContestationNotAdded, Host!history
  <2>5. CASE e.id # NoId /\ e.id \in IdsOf(heap[obj[t]].contestations)
    <3>1. reply' = Host!Duplicate
      BY <1>5, <2>5, SameAnswers DEF ContestScan, Answer
    <3>2. Host!OnFile(a, e.id)
      BY <1>1, <2>3, <2>5, ServedState
    <3> QED BY <1>3, <2>1, <2>2, <2>3, <2>5, <3>1, <3>2
            DEF Host!ContestationNotAdded, Host!history
  <2>6. CASE e.id # NoId /\ e.id \notin IdsOf(heap[obj[t]].contestations)
    BY <1>5, <2>1, <2>2, <2>6 DEF ContestScan
  <2> QED BY <2>4, <2>5, <2>6
<1>6. CASE ContestAppend(t)
  <2> DEFINE ref == store[a]
             list == heap[ref].contestations
             i == e.id
  <2>1. pc[t] = "contest_append"
    BY <1>6 DEF ContestAppend
  <2>2. obj[t] = ref /\ ref # NoObject /\ i # NoId /\ i \in Ids /\ i \notin IdsOf(list)
    BY <1>1, <1>2, <2>1 DEF Contesting
  <2>3. heap[ref] \in HostedBundle /\ list \in Seq(Entry)
    BY <1>1, <2>2, ServedBundle
  <2>4. /\ Len(heap') = Len(heap) /\ store' = store
        /\ heap'[ref].contestations = Append(list, e)
        /\ heap'[ref].severance = heap[ref].severance
        /\ \A n \in 1..Len(heap) \ {ref} : heap'[n] = heap[n]
    BY <1>6, <2>2, ContestAppendEffect DEF ContestAppend
  <2>5. heap'[ref].creds = heap[ref].creds
    <3>1. ref \in 1..Len(heap)
      BY <1>6, <2>2, ContestAppendEffect
    <3>2. heap' = [heap EXCEPT ![ref].contestations = Append(@, e)]
      BY <1>6, <2>2 DEF ContestAppend
    <3>3. heap'[ref] = [heap[ref] EXCEPT !.contestations = Append(list, e)]
      BY <3>1, <3>2, LenProperties DEF Typing
    <3> QED BY <2>3, <3>3 DEF HostedBundle
  <2>6. View' = [View EXCEPT ![a] = Shown(heap'[ref])]
    BY <1>1, <2>2, <2>4, ViewWritten
  <2>7. View[a] = Shown(heap[ref])
    BY <1>1, <2>2, ViewShown
  <2> HIDE DEF a, e, ref, list
  <2>8. \A j \in Ids : Under(heap'[ref].contestations, j)
                          = IF j = i THEN <<e.claim>> ELSE Under(list, j)
    BY <1>1, <2>2, <2>3, <2>4, AppendUnder
  <2>9. Under(list, i) = <<>>
    <3>1. At(list, i) = {}
      BY <2>2 DEF At, IdsOf
    <3> QED BY <3>1, UnderNone
  <2>10. Append(<<>>, e.claim) = <<e.claim>>
    OBVIOUS
  <2>11. Shown(heap'[ref]) = [View[a] EXCEPT !.contestations[i] = Append(@, e.claim)]
    BY <2>2, <2>4, <2>5, <2>7, <2>8, <2>9, <2>10 DEF Shown, list
  <2>12. View' = [View EXCEPT ![a].contestations[i] = Append(@, e.claim)]
    BY <2>6, <2>11
  <2>13. Host!Hosted(a) /\ ~ Host!OnFile(a, i)
    BY <1>1, <2>2, ServedState DEF ref, list
  <2>14. /\ reply' = Host!Ok /\ UNCHANGED applied
         /\ posted' = [posted EXCEPT ![a] = @ \cup {<<i, e.claim>>}]
    BY <1>6, SameAnswers DEF ContestAppend, Answer, a, e
  <2>15. Host!AddContestation(a, i, e.claim)
    BY <2>2, <2>12, <2>13, <2>14 DEF Host!AddContestation
  <2> QED BY <1>1, <2>2, <2>15 DEF Host!Next
<1> QED BY <1>4, <1>5, <1>6

(* set_severance *)
LEMMA SeverIsAtomic ==
    ASSUME Typing, Owned, Serial, NEW t \in Threads,
           SeverGet(t) \/ SeverCheck(t) \/ SeverSet(t)
    PROVE  Host!Next \/ UNCHANGED <<View, reply, applied, posted>>
<1> DEFINE a == req[t].agent
           s == req[t].severance
<1>1. /\ pc[t] \in Severing \cup {"sever"} /\ a \in Agents
      /\ s \in Sevs \cup {NoSeverance}
  <2>1. pc[t] \in Severing \cup {"sever"} /\ pc[t] # "idle"
    BY DEF SeverGet, SeverCheck, SeverSet, Severing
  <2> QED BY <2>1, Handles DEF SeverRequest
<1>2. /\ pc[t] \in Severing => obj[t] = store[a] /\ obj[t] # NoObject
      /\ pc[t] = "sever_set" => heap[obj[t]].severance = NoSeverance
  BY DEF Serial, SerialAt, Typing, InHandler
<1>3. Host!SeveranceNotSet(a) => Host!Next
  BY <1>1 DEF Host!Next
<1>4. CASE SeverGet(t)
  <2>1. View' = View /\ UNCHANGED <<applied, posted>>
    BY <1>4, SameView DEF SeverGet, history
  <2>2. CASE store[a] # NoObject
    BY <1>4, <2>1, <2>2 DEF SeverGet
  <2>3. CASE store[a] = NoObject
    <3>1. reply' = Host!NotFound /\ ~ Host!Hosted(a)
      BY <1>1, <1>4, <2>3, SameAnswers, ServedState DEF SeverGet, Answer
    <3> QED BY <1>3, <2>1, <3>1 DEF Host!SeveranceNotSet, Host!history
  <2> QED BY <2>2, <2>3
<1>5. CASE SeverCheck(t)
  <2>1. View' = View /\ UNCHANGED <<applied, posted>> /\ pc[t] = "sever_check"
    BY <1>5, SameView DEF SeverCheck, history
  <2>2. obj[t] = store[a] /\ store[a] # NoObject
    BY <1>2, <2>1 DEF Severing
  <2>3. CASE heap[obj[t]].severance = NoSeverance
    BY <1>5, <2>1, <2>3 DEF SeverCheck
  <2>4. CASE heap[obj[t]].severance # NoSeverance
    <3>1. reply' = Host!Duplicate /\ Host!Severed(a)
      BY <1>1, <1>5, <2>2, <2>4, SameAnswers, ServedState DEF SeverCheck, Answer
    <3> QED BY <1>3, <2>1, <3>1 DEF Host!SeveranceNotSet, Host!history
  <2> QED BY <2>3, <2>4
<1>6. CASE SeverSet(t)
  <2> DEFINE ref == store[a]
  <2>1. pc[t] = "sever_set"
    BY <1>6 DEF SeverSet
  <2>2. obj[t] = ref /\ ref # NoObject /\ heap[ref].severance = NoSeverance
    BY <1>2, <2>1 DEF Severing
  <2>3. heap[ref] \in HostedBundle
    BY <1>1, <2>2, ServedBundle
  <2>4. /\ Len(heap') = Len(heap) /\ UNCHANGED <<store, applied, posted>> /\ ref \in 1..Len(heap)
        /\ \A n \in 1..Len(heap) \ {ref} : heap'[n] = heap[n]
    BY <1>6, <2>2, SeverSetEffect
  <2>5. heap'[ref] = [heap[ref] EXCEPT !.severance = s]
    <3>1. heap' = [heap EXCEPT ![ref].severance = s]
      BY <1>6, <2>2 DEF SeverSet
    <3> QED BY <2>4, <3>1, LenProperties DEF Typing
  <2>6. View' = [View EXCEPT ![a] = Shown(heap'[ref])]
    BY <1>1, <2>2, <2>4, ViewWritten
  <2>7. View[a] = Shown(heap[ref])
    BY <1>1, <2>2, ViewShown
  <2>8. Host!Hosted(a) /\ ~ Host!Severed(a)
    BY <1>1, <2>2, ServedState
  <2> HIDE DEF a, s, ref
  <2>9. /\ heap'[ref].creds = heap[ref].creds /\ heap'[ref].severance = s
        /\ heap'[ref].contestations = heap[ref].contestations
    BY <1>1, <2>3, <2>5 DEF HostedBundle
  <2>10. Shown(heap'[ref]) = [View[a] EXCEPT !.severance = s]
    BY <2>7, <2>9 DEF Shown
  <2>11. View' = [View EXCEPT ![a].severance = s]
    BY <2>6, <2>10
  <2>12. reply' = Host!Ok /\ UNCHANGED Host!history
    BY <1>6, <2>4, SameAnswers DEF SeverSet, Answer, Host!history
  <2>13. Host!SetSeverance(a, s)
    BY <2>8, <2>11, <2>12 DEF Host!SetSeverance
  <2> QED BY <1>1, <2>13 DEF Host!Next
<1> QED BY <1>4, <1>5, <1>6

(* get_facts *)
LEMMA GetIsAtomic ==
    ASSUME Typing, NEW t \in Threads, GetFacts(t)
    PROVE  Host!Next
<1>1. req[t].agent \in Agents
  BY Handles DEF GetFacts
<1>2. View' = View /\ UNCHANGED <<applied, posted>>
  BY SameView DEF GetFacts, history
<1>3. reply' = IF Host!Hosted(req[t].agent) THEN Host!Ok ELSE Host!NotFound
  BY <1>1, ServedState, SameAnswers DEF GetFacts, Answer
<1> QED BY <1>1, <1>2, <1>3 DEF Host!Next, Host!GetFacts, Host!history

(* A step of the one handler is a step of FactsHost, or shows it nothing.   *)
LEMMA StepIsAtomic ==
    Typing /\ Owned /\ Serial /\ [Next]_vars => [Host!Next]_(Host!vars)
<1> SUFFICES ASSUME Typing, Owned, Serial, [Next]_vars
             PROVE  Host!Next \/ UNCHANGED <<View, reply, applied, posted>>
  BY DEF Host!vars
<1>1. ASSUME NEW t \in Threads, Step(t)
      PROVE  Host!Next \/ UNCHANGED <<View, reply, applied, posted>>
  <2>1. PutMerge(t) \/ PutSeverance(t) => UNCHANGED <<View, reply, applied, posted>>
    BY SameView DEF PutMerge, PutSeverance, history
  <2> QED BY <1>1, <2>1, PutIsAtomic, ContestIsAtomic, SeverIsAtomic, GetIsAtomic DEF Step
<1>2. ASSUME NEW t \in Threads, NEW r \in Requests, Begin(t, r)
      PROVE  UNCHANGED <<View, reply, applied, posted>>
  BY <1>2, SameView DEF Begin, history
<1>3. CASE Restart
  <2>1. View' = [a \in Agents |-> NoBundle]
    BY <1>3 DEF Restart, View
  <2>2. Host!Restart
    BY <1>3, <2>1, SameAnswers DEF Restart, Host!Restart
  <2> QED BY <2>2 DEF Host!Next
<1>4. CASE UNCHANGED vars
  BY <1>4, SameView DEF vars, history
<1> QED BY <1>1, <1>2, <1>3, <1>4 DEF Next

(* Handled by one thread, requests have the effects and answers FactsHost   *)
(* gives its atomic handlers: the bundle put_facts builds in four steps is  *)
(* the merge of the body and of what is on file (put_facts 55-75), and what *)
(* the POST handlers find still stands when they write (90-130).            *)
THEOREM SerialRefines ==
    ASSUME Alone
    PROVE  Spec => SerialImplementsHost
<1>1. Init => Host!Init /\ Serial
  <2> SUFFICES ASSUME Init PROVE Host!Init /\ Serial
    OBVIOUS
  <2>1. View = [a \in Agents |-> NoBundle] /\ reply = Host!Ok
    BY SameAnswers DEF Init, View
  <2>2. Serial
    BY DEF Init, Serial, SerialAt, Building, Contesting, Severing
  <2> QED BY <2>1, <2>2 DEF Init, Host!Init
<1>2. Typing /\ Serial /\ [Next]_vars => Serial'
  BY SerialNext
<1>3. Typing /\ Inv /\ Serial /\ [Next]_vars => [Host!Next]_(Host!vars)
  BY StepIsAtomic DEF Inv
<1> QED BY <1>1, <1>2, <1>3, InvHolds, PTL DEF Spec, SerialImplementsHost, Host!Spec
=============================================================================
