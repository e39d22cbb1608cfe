-------------------------- MODULE ConfigDataProofs --------------------------
(***************************************************************************)
(* Facts about the operators of ConfigData that the proofs about the store *)
(* cite by name.                                                           *)
(***************************************************************************)
EXTENDS ConfigData, FiniteSetTheorems, SequenceTheorems, WellFoundedInduction, TLAPS

\* A set of naturals that is not empty has a first element, so First returns it.
LEMMA FirstOfSet ==
  ASSUME NEW S \in SUBSET Nat, S # {}
  PROVE  First(S) \in S /\ \A j \in S : First(S) <= j
<1>. DEFINE R == OpToRel(<, Nat)
<1>1. \E i \in S : \A j \in S : <<j, i>> \notin R
  BY NatLessThanWellFounded, WFMin
<1>2. \A i, j \in Nat : i < j => <<i, j>> \in R
  BY DEF OpToRel
<1>. HIDE DEF R
<1>3. PICK i \in S : \A j \in S : <<j, i>> \notin R
  BY <1>1
<1>4. ASSUME NEW j \in S PROVE i <= j
  <2>1. i \in Nat /\ j \in Nat
    OBVIOUS
  <2>2. ~(j < i)
    BY <2>1, <1>2, <1>3
  <2>. QED BY <2>1, <2>2
<1>. QED BY <1>4 DEF First

\* Named gives positions of the list, and First the least of them.
LEMMA FirstNamed ==
  ASSUME NEW T, NEW seq \in Seq(T), NEW n, Named(seq, n) # {}
  PROVE  /\ First(Named(seq, n)) \in 1 .. Len(seq)
         /\ seq[First(Named(seq, n))].name = n
<1>1. Named(seq, n) \in SUBSET Nat /\ Named(seq, n) \subseteq 1 .. Len(seq)
  BY LenProperties DEF Named
<1>. QED BY <1>1, FirstOfSet DEF Named

\* Of n + 1 elements mapped into 1 .. n, two share their image.
LEMMA TwoShare ==
  ASSUME NEW n \in Nat, NEW f \in [1 .. n + 1 -> 1 .. n]
  PROVE  \E x, y \in 1 .. n + 1 : x # y /\ f[x] = f[y]
<1>1. IsFiniteSet(1 .. n + 1) /\ Cardinality(1 .. n + 1) = n + 1
  BY FS_Interval
<1>2. IsFiniteSet(1 .. n) /\ Cardinality(1 .. n) = n
  BY FS_Interval
<1>3. Cardinality(1 .. n) < Cardinality(1 .. n + 1)
  BY <1>1, <1>2
<1>. QED BY <1>1, <1>2, <1>3, FS_PigeonHole

\* GenerateID returns an id of its type that the library does not use, whatever
\* the other names in the library: among Len + 1 candidates one is free.
LEMMA GenerateIDIsFresh ==
  ASSUME NEW name \in StationNames,
         NEW stations \in Seq(Station), Len(stations) < MaxStations
  PROVE  GenerateID(name, stations) \in IDs \ IDsOf(stations)
<1>. DEFINE n       == Len(stations)
            cand(i) == Candidate(Slug[name], i)
            free    == {i \in 1 .. n + 1 : cand(i) \notin IDsOf(stations)}
<1>1. n \in Nat /\ n + 1 <= MaxStations /\ MaxStations \in Nat
  BY SlugAssumption, LenProperties
<1>2. /\ \A i \in 1 .. n + 1 : cand(i) \in IDs
      /\ \A i, j \in 1 .. n + 1 : cand(i) = cand(j) => i = j
  BY <1>1, SlugAssumption
<1>3. free # {}
  <2>. SUFFICES ASSUME free = {} PROVE FALSE
    OBVIOUS
  <2>. DEFINE f == [i \in 1 .. n + 1 |-> CHOOSE k \in 1 .. n : stations[k].id = cand(i)]
  <2>1. \A i \in 1 .. n + 1 : \E k \in 1 .. n : stations[k].id = cand(i)
    BY LenProperties DEF IDsOf
  <2>2. \A i \in 1 .. n + 1 : f[i] \in 1 .. n /\ stations[f[i]].id = cand(i)
    BY <2>1
  <2>3. f \in [1 .. n + 1 -> 1 .. n]
    BY <2>2
  <2>4. PICK x, y \in 1 .. n + 1 : x # y /\ f[x] = f[y]
    <3>. HIDE DEF f, n
    <3>. QED BY <2>3, <1>1, TwoShare
  <2>. QED BY <2>2, <2>4, <1>2
<1>4. First(free) \in free
  <2>1. free \in SUBSET Nat
    BY <1>1
  <2>. QED BY <2>1, <1>3, FirstOfSet
<1>5. GenerateID(name, stations) = cand(First(free))
  BY DEF GenerateID
<1>. QED BY <1>2, <1>4, <1>5

\* Without(seq, i) has the other elements, in their order.
LEMMA WithoutElement ==
  ASSUME NEW T, NEW seq \in Seq(T), NEW i \in 1 .. Len(seq)
  PROVE  /\ Without(seq, i) \in Seq(T)
         /\ Len(Without(seq, i)) = Len(seq) - 1
         /\ \A k \in 1 .. Len(seq) - 1 :
              Without(seq, i)[k] = seq[IF k < i THEN k ELSE k + 1]
<1>. DEFINE a == SubSeq(seq, 1, i - 1)
            b == SubSeq(seq, i + 1, Len(seq))
<1>1. a \in Seq(T) /\ Len(a) = i - 1 /\ \A k \in 1 .. i - 1 : a[k] = seq[k]
  OBVIOUS
<1>2. b \in Seq(T) /\ Len(b) = Len(seq) - i /\ \A k \in 1 .. Len(seq) - i : b[k] = seq[i + k]
  OBVIOUS
<1>3. Len(seq) \in Nat
  BY LenProperties
<1>. HIDE DEF a, b
<1>4. /\ a \o b \in Seq(T)
      /\ Len(a \o b) = Len(a) + Len(b)
      /\ \A k \in 1 .. Len(a) + Len(b) :
           (a \o b)[k] = IF k <= Len(a) THEN a[k] ELSE b[k - Len(a)]
  BY <1>1, <1>2, ConcatProperties
<1>5. Len(a) + Len(b) = Len(seq) - 1
  BY <1>1, <1>2, <1>3
<1>6. ASSUME NEW k \in 1 .. Len(seq) - 1
      PROVE  (a \o b)[k] = seq[IF k < i THEN k ELSE k + 1]
  <2>1. CASE k < i
    BY <2>1, <1>1, <1>3, <1>4, <1>5
  <2>2. CASE k >= i
    <3>1. (a \o b)[k] = b[k - (i - 1)]
      BY <2>2, <1>1, <1>3, <1>4, <1>5
    <3>2. k - (i - 1) \in 1 .. Len(seq) - i
      BY <2>2, <1>3
    <3>3. b[k - (i - 1)] = seq[i + (k - (i - 1))]
      BY <3>2, <1>2
    <3>4. i + (k - (i - 1)) = k + 1 /\ ~(k < i)
      BY <2>2, <1>3
    <3>5. (a \o b)[k] = seq[k + 1]
      BY <3>1, <3>3, <3>4
    <3>. QED BY <3>4, <3>5, Zenon
  <2>3. k < i \/ k >= i
    BY <1>3
  <2>. QED BY <2>1, <2>2, <2>3, Zenon
<1>. QED BY <1>4, <1>5, <1>6 DEF Without, a, b

\* Removing an element keeps names distinct.
LEMMA WithoutKeepsNames ==
  ASSUME NEW T, NEW seq \in Seq(T), NEW i \in 1 .. Len(seq), DistinctNames(seq)
  PROVE  DistinctNames(Without(seq, i))
<1>. DEFINE w == Without(seq, i)
            f(k) == IF k < i THEN k ELSE k + 1
<1>1. Len(seq) \in Nat /\ DOMAIN seq = 1 .. Len(seq)
  BY LenProperties
<1>2. DOMAIN w = 1 .. Len(seq) - 1 /\ \A k \in 1 .. Len(seq) - 1 : w[k] = seq[f(k)]
  BY WithoutElement, LenProperties, Zenon
<1>3. \A k \in 1 .. Len(seq) - 1 : f(k) \in 1 .. Len(seq)
  BY <1>1
<1>4. \A j, k \in 1 .. Len(seq) - 1 : f(j) = f(k) => j = k
  BY <1>1
<1>. HIDE DEF w, f
<1>5. DistinctNames(w)
  BY <1>1, <1>2, <1>3, <1>4 DEF DistinctNames
<1>. QED BY <1>5 DEF w

\* Removing the stations of one id keeps the list a library with distinct ids.
LEMMA FilteredStations ==
  ASSUME NEW stations \in Seq(Station), NEW id, NEW kept \in Filtered(stations, id),
         DistinctIDs(stations)
  PROVE  /\ kept \in Seq(Station)
         /\ DistinctIDs(kept)
<1>. DEFINE keep == {i \in DOMAIN stations : stations[i].id # id}
            n    == Cardinality(keep)
<1>1. keep \subseteq 1 .. Len(stations) /\ DOMAIN stations = 1 .. Len(stations)
      /\ Len(stations) \in Nat
  BY LenProperties
<1>2. n \in Nat
  <2>. HIDE DEF keep
  <2>1. IsFiniteSet(1 .. Len(stations))
    BY <1>1, FS_Interval
  <2>. QED BY <2>1, <1>1, FS_Subset, FS_CardinalityType
<1>3. PICK f \in [1 .. n -> keep] :
        /\ \A a, b \in DOMAIN f : a < b => f[a] < f[b]
        /\ kept = [k \in DOMAIN f |-> stations[f[k]]]
  BY DEF Filtered
<1>. HIDE DEF n
<1>4. /\ DOMAIN kept = 1 .. n
      /\ \A k \in 1 .. n : f[k] \in 1 .. Len(stations) /\ kept[k] = stations[f[k]]
  BY <1>1, <1>3
<1>5. \A k \in 1 .. n : kept[k] \in Station
  BY <1>4, ElementOfSeq
<1>6. kept \in Seq(Station)
  <2>1. kept = [k \in 1 .. n |-> stations[f[k]]]
    BY <1>3
  <2>. QED BY <1>2, <1>4, <1>5, <2>1
<1>7. \A j, k \in 1 .. n : f[j] = f[k] => j = k
  BY <1>2, <1>3, <1>4
<1>. QED BY <1>1, <1>4, <1>6, <1>7 DEF DistinctIDs

\* Filtering drops no other id: its order is a bijection onto what is kept.
LEMMA FilteredIDs ==
  ASSUME NEW stations \in Seq(Station), NEW id, NEW kept \in Filtered(stations, id)
  PROVE  IDsOf(stations) \ {id} \subseteq IDsOf(kept)
<1>. DEFINE keep == {i \in DOMAIN stations : stations[i].id # id}
            n    == Cardinality(keep)
<1>1. PICK f \in [1 .. n -> keep] :
        /\ \A a, b \in DOMAIN f : a < b => f[a] < f[b]
        /\ kept = [k \in DOMAIN f |-> stations[f[k]]]
  BY DEF Filtered
<1>2. IsFiniteSet(keep) /\ n \in Nat /\ keep \subseteq Nat
  <2>1. Len(stations) \in Nat /\ keep \subseteq 1 .. Len(stations)
    BY LenProperties
  <2>. HIDE DEF keep
  <2>2. IsFiniteSet(1 .. Len(stations))
    BY <2>1, FS_Interval
  <2>3. IsFiniteSet(keep) /\ n \in Nat
    BY <2>1, <2>2, FS_Subset, FS_CardinalityType
  <2>. QED BY <2>1, <2>3
<1>. HIDE DEF keep
<1>3. IsFiniteSet(1 .. n) /\ Cardinality(1 .. n) = n
  BY <1>2, FS_Interval
<1>4. f \in Injection(1 .. n, keep)
  <2>. HIDE DEF n
  <2>1. \A a, b \in 1 .. n : a < b => f[a] < f[b]
    BY <1>1
  <2>2. \A a \in 1 .. n : f[a] \in Nat
    BY <1>1, <1>2
  <2>3. \A a, b \in 1 .. n : f[a] = f[b] => a = b
    BY <1>2, <2>1, <2>2
  <2>. QED BY <2>3 DEF Injection, IsInjective
<1>5. f \in Surjection(1 .. n, keep)
  BY <1>2, <1>3, <1>4, FS_Injection
<1>. SUFFICES ASSUME NEW i \in DOMAIN stations, stations[i].id # id
              PROVE  stations[i].id \in IDsOf(kept)
  BY DEF IDsOf
<1>6. PICK k \in 1 .. n : f[k] = i
  BY <1>5 DEF Surjection, keep
<1>7. DOMAIN kept = 1 .. n /\ kept[k] = stations[i]
  BY <1>1, <1>6
<1>. QED BY <1>6, <1>7 DEF IDsOf
=============================================================================
