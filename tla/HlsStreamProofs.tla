-------------------------- MODULE HlsStreamProofs --------------------------
(***************************************************************************)
(* Theorems about HlsStream: the two halves of seenSet always agree; no    *)
(* segment is forgotten; where seenSet remembers enough, the speaker hears *)
(* none twice, and in order if playlists never go back.                    *)
(***************************************************************************)
EXTENDS HlsStream, SequenceTheorems, FiniteSetTheorems, TLAPS

\* What adding x does to the slice and to the map.
LEMMA AddSpec ==
  ASSUME NEW x \in Nat, order \in Seq(Nat), Len(order) <= Cap
  PROVE  /\ Ordered(x) \in Seq(Nat)
         /\ ~Evicts => /\ Len(Ordered(x)) = Len(order) + 1
                       /\ \A i \in 1 .. Len(order) : Ordered(x)[i] = order[i]
                       /\ Ordered(x)[Len(order) + 1] = x
                       /\ Remembered(x) = seen \cup {x}
         /\ Evicts => /\ Len(order) = Cap /\ Len(Ordered(x)) = Cap
                      /\ \A i \in 1 .. Cap - 1 : Ordered(x)[i] = order[i + 1]
                      /\ Ordered(x)[Cap] = x
                      /\ Remembered(x) = (seen \cup {x}) \ {order[1]}
<1>. DEFINE n == Len(order)
            t == Append(order, x)
<1>1. /\ t \in Seq(Nat) /\ t # <<>> /\ Len(t) = n + 1
      /\ \A i \in 1 .. n : t[i] = order[i]
      /\ t[n + 1] = x
  BY AppendProperties
<1>2. /\ Tail(t) \in Seq(Nat) /\ Len(Tail(t)) = Len(t) - 1
      /\ \A i \in 1 .. Len(Tail(t)) : Tail(t)[i] = t[i + 1]
      /\ Head(t) = t[1]
  <2>. HIDE DEF t
  <2>. QED BY <1>1, HeadTailProperties
<1>3. n \in Nat /\ Cap \in Nat \ {0}
  BY LenProperties, StreamAssumption
<1>4. Evicts <=> n = Cap
  BY <1>3 DEF Evicts
<1>5. CASE ~Evicts
  <2>1. Ordered(x) = t /\ Remembered(x) = seen \cup {x}
    BY <1>5 DEF Ordered, Remembered
  <2>. HIDE DEF t
  <2>. QED BY <1>1, <1>5, <2>1
<1>6. CASE Evicts
  <2>1. Ordered(x) = Tail(t) /\ Remembered(x) = (seen \cup {x}) \ {Head(t)}
    BY <1>6 DEF Ordered, Remembered
  <2>. HIDE DEF t
  <2>2. n = Cap /\ Len(Tail(t)) = Cap
    BY <1>1, <1>2, <1>3, <1>4, <1>6
  <2>3. \A i \in 1 .. Cap - 1 : Tail(t)[i] = order[i + 1]
    BY <1>1, <1>2, <1>3, <2>2
  <2>4. Tail(t)[Cap] = x /\ Head(t) = order[1]
    BY <1>1, <1>2, <1>3, <2>2
  <2>. QED BY <1>2, <1>6, <2>1, <2>2, <2>3, <2>4
<1>. QED BY <1>5, <1>6

\* The part of TypeOK that speaks about seenSet.
SetOK(o, m) ==
  /\ o \in Seq(Nat) /\ Len(o) <= Cap
  /\ m = Elements(o)
  /\ \A i, j \in DOMAIN o : i # j => o[i] # o[j]

\* Adding a segment that is not in the set keeps its halves in step.
LEMMA AddKeepsSet ==
  ASSUME NEW x \in Nat, SetOK(order, seen), x \notin seen
  PROVE  SetOK(Ordered(x), Remembered(x))
<1>. DEFINE n == Len(order)
            o == Ordered(x)
            m == Remembered(x)
<1>1. n \in Nat /\ DOMAIN order = 1 .. n /\ n <= Cap /\ Cap \in Nat \ {0}
  BY LenProperties, StreamAssumption DEF SetOK
<1>2. /\ seen = {order[i] : i \in 1 .. n}
      /\ \A i, j \in 1 .. n : i # j => order[i] # order[j]
  BY <1>1 DEF SetOK, Elements
<1>3. o \in Seq(Nat)
  BY AddSpec DEF SetOK
<1>. HIDE DEF o, m
<1>4. DOMAIN o = 1 .. Len(o) /\ Len(o) \in Nat
  BY <1>3, LenProperties
<1>5. CASE ~Evicts
  <2>1. /\ Len(o) = n + 1 /\ o[n + 1] = x /\ m = seen \cup {x}
        /\ \A i \in 1 .. n : o[i] = order[i]
    BY <1>5, AddSpec DEF SetOK, o, m
  <2>2. n + 1 <= Cap
    BY <1>1, <1>5 DEF Evicts
  <2>3. m = {o[i] : i \in 1 .. n + 1}
    <3>1. m \subseteq {o[i] : i \in 1 .. n + 1}
      BY <1>1, <1>2, <2>1
    <3>2. ASSUME NEW i \in 1 .. n + 1 PROVE o[i] \in m
      <4>1. CASE i = n + 1
        BY <4>1, <2>1
      <4>2. CASE i \in 1 .. n
        BY <4>2, <2>1, <1>2
      <4>. QED BY <4>1, <4>2, <1>1
    <3>. QED BY <3>1, <3>2
  <2>4. \A i, j \in 1 .. n + 1 : i # j => o[i] # o[j]
    <3>1. \A i \in 1 .. n : o[i] # x
      BY <1>2, <2>1
    <3>2. \A i \in 1 .. n + 1 : i \in 1 .. n \/ i = n + 1
      BY <1>1
    <3>. QED BY <1>2, <2>1, <3>1, <3>2
  <2>. QED BY <1>3, <1>4, <2>1, <2>2, <2>3, <2>4 DEF SetOK, Elements, o, m
<1>6. CASE Evicts
  <2>1. /\ n = Cap /\ Len(o) = Cap /\ o[Cap] = x /\ m = (seen \cup {x}) \ {order[1]}
        /\ \A i \in 1 .. Cap - 1 : o[i] = order[i + 1]
    BY <1>6, AddSpec DEF SetOK, o, m
  <2>2. x # order[1]
    BY <1>1, <1>2, <2>1
  <2>3. m = {o[i] : i \in 1 .. Cap}
    <3>1. ASSUME NEW y \in m PROVE \E i \in 1 .. Cap : o[i] = y
      <4>1. CASE y = x
        BY <4>1, <1>1, <2>1
      <4>2. CASE y # x
        <5>1. PICK i \in 1 .. n : order[i] = y
          BY <4>2, <2>1, <1>2
        <5>2. i # 1
          BY <5>1, <2>1
        <5>3. i - 1 \in 1 .. Cap - 1 /\ (i - 1) + 1 = i
          BY <5>2, <1>1, <2>1
        <5>4. o[i - 1] = order[i] /\ i - 1 \in 1 .. Cap
          BY <5>3, <2>1, <1>1
        <5>. QED BY <5>1, <5>4
      <4>. QED BY <4>1, <4>2
    <3>2. ASSUME NEW i \in 1 .. Cap PROVE o[i] \in m
      <4>1. CASE i = Cap
        BY <4>1, <2>1, <2>2
      <4>2. CASE i # Cap
        <5>1. i \in 1 .. Cap - 1 /\ i + 1 \in 1 .. n /\ i + 1 # 1 /\ 1 \in 1 .. n
          BY <4>2, <1>1, <2>1
        <5>. QED BY <5>1, <2>1, <1>2
      <4>. QED BY <4>1, <4>2
    <3>. QED BY <3>1, <3>2
  <2>4. \A i, j \in 1 .. Cap : i # j => o[i] # o[j]
    <3>1. \A i \in 1 .. Cap - 1 : o[i] # x
      <4>. TAKE i \in 1 .. Cap - 1
      <4>1. i + 1 \in 1 .. n
        BY <1>1, <2>1
      <4>. QED BY <4>1, <1>2, <2>1
    <3>2. ASSUME NEW i \in 1 .. Cap - 1, NEW j \in 1 .. Cap - 1, i # j
          PROVE  o[i] # o[j]
      <4>1. i + 1 \in 1 .. n /\ j + 1 \in 1 .. n /\ i + 1 # j + 1
        BY <1>1, <2>1, <3>2
      <4>. QED BY <4>1, <1>2, <2>1
    <3>3. \A i \in 1 .. Cap : i \in 1 .. Cap - 1 \/ i = Cap
      BY <1>1
    <3>. QED BY <3>1, <3>2, <3>3, <2>1
  <2>. QED BY <1>1, <1>3, <1>4, <2>1, <2>3, <2>4 DEF SetOK, Elements, o, m
<1>. QED BY <1>5, <1>6
-----------------------------------------------------------------------------
(* Type correctness.                                                       *)

LEMMA StationType ==
  ASSUME station \in Stations
  PROVE  station.window \in Nat \ {0} /\ station.lag \in Nat
BY StreamAssumption DEF Station

LEMMA OldestType ==
  ASSUME station \in Stations, NEW newest \in Nat
  PROVE  Oldest(newest) \in Nat \ {0}
BY StationType DEF Oldest

\* The program never changes the station.
LEMMA SameStation == [Next]_vars => station' = station
BY DEF Next, Step, Publish, HangUp, Resolve, Loop, Fetch, FetchFails, Pause, Skip, Mark,
   Scanned, NoAudio, Whole, Part, WriteFails, Outside, vars

LEMMA TypeInit == Init => TypeOK
<1>. SUFFICES ASSUME Init PROVE TypeOK
  OBVIOUS
<1>1. published \in Nat
  BY StreamAssumption DEF Init
<1>2. <<>> \in Seq(Nat) /\ Len(<<>>) = 0 /\ DOMAIN <<>> = {}
  BY EmptySeq
<1>3. Elements(<<>>) = {} /\ 0 <= Cap
  BY <1>2, StreamAssumption DEF Elements
<1>. QED BY <1>1, <1>2, <1>3 DEF Init, TypeOK, PCs

LEMMA TypeStep == TypeOK /\ [Next]_vars => TypeOK'
<1>. SUFFICES ASSUME TypeOK, [Next]_vars PROVE TypeOK'
  OBVIOUS
<1>. USE DEF TypeOK, PCs, Outside, Remember
<1>1. CASE Publish
  BY <1>1 DEF Publish, stream
<1>2. CASE HangUp
  BY <1>2 DEF HangUp, stream
<1>3. CASE Resolve \/ Loop \/ FetchFails \/ Pause \/ Scanned
  BY <1>3 DEF Resolve, Loop, FetchFails, Pause, Scanned, stream
<1>4. CASE Fetch
  <2>1. PICK newest \in 0 .. published :
          /\ cursor' = Oldest(newest) /\ end' = newest
          /\ listed' = listed \cup (Oldest(newest) .. newest)
    BY <1>4 DEF Fetch
  <2>2. newest \in Nat /\ Oldest(newest) \in Nat
    <3>1. published \in Nat /\ newest \in Nat
      OBVIOUS
    <3>. QED BY <3>1, OldestType
  <2>3. cursor' \in Nat /\ end' \in Nat
    BY <2>1, <2>2
  <2>5. Oldest(newest) .. newest \subseteq Nat
    BY <2>2
  <2>6. listed' \subseteq Nat
    BY <2>1, <2>5
  <2>4. pc' = "scan" /\ UNCHANGED <<station, published, cancelled, order, seen, heard, lost>>
    BY <1>4 DEF Fetch
  <2>. QED BY <2>3, <2>4, <2>6
<1>5. CASE Skip
  BY <1>5 DEF Skip
<1>6. CASE Mark
  <2>1. SetOK(order, seen) /\ cursor \in Nat /\ cursor \notin seen
    BY <1>6 DEF Mark, SetOK
  <2>2. SetOK(order', seen')
    BY <1>6, <2>1, AddKeepsSet DEF Mark
  <2>3. pc' = "pump" /\ UNCHANGED <<station, published, cancelled, cursor, end, heard, listed, lost>>
    BY <1>6 DEF Mark
  <2>. QED BY <2>2, <2>3 DEF SetOK
<1>7. CASE NoAudio
  BY <1>7 DEF NoAudio
<1>8. CASE Whole \/ Part
  <2>1. heard' \in Seq(Nat)
    <3>1. heard' = Append(heard, cursor)
      BY <1>8 DEF Whole, Part
    <3>2. heard \in Seq(Nat) /\ cursor \in Nat
      OBVIOUS
    <3>. QED BY ONLY <3>1, <3>2, AppendProperties
  <2>2. cursor' \in Nat /\ pc' \in {"scan", "ended"}
    BY <1>8 DEF Whole, Part
  <2>3. UNCHANGED <<station, published, cancelled, end, order, seen, listed, lost>>
    BY <1>8 DEF Whole, Part
  <2>. QED BY <2>1, <2>2, <2>3
<1>9. CASE WriteFails
  BY <1>9 DEF WriteFails
<1>10. CASE UNCHANGED vars
  BY <1>10 DEF vars, stream
<1>. QED BY <1>1, <1>2, <1>3, <1>4, <1>5, <1>6, <1>7, <1>8, <1>9, <1>10 DEF Next, Step

\* The types of the state hold throughout; seenSet's map and slice hold the same
\* segments, none twice and never more than Cap (hls.go, seenSet).
THEOREM TypeCorrect == Spec => []TypeOK
<1>. QED BY TypeInit, TypeStep, PTL DEF Spec

-----------------------------------------------------------------------------
(* Order. Recent says that nothing the latest playlist listed and Stream   *)
(* has passed is forgotten: what is evicted is older than the playlist.    *)

High == IF order = <<>> THEN 0 ELSE order[Len(order)]

\* Entries are at least as far apart as their places: Cap entries reach back at
\* least Cap segments.
Rising ==
  /\ \A i \in DOMAIN order : order[i] >= 1
  /\ \A i, j \in DOMAIN order : i <= j => order[i] + j <= order[j] + i

Position ==
  /\ end <= published
  /\ Oldest(end) <= cursor /\ cursor <= end + 1
  /\ High <= end
  /\ pc = "pump" => order # <<>> /\ cursor = High

Recent == \A n \in Nat : n >= Oldest(end) /\ (n <= High \/ n < cursor) => n \in seen

PlayedRising == \A i, j \in DOMAIN heard : i < j => heard[i] < heard[j]

HeardBefore ==
  \A i \in DOMAIN heard : heard[i] <= High /\ (pc = "pump" => heard[i] < cursor)

OInv == TypeOK /\ Rising /\ Position /\ Recent /\ HeardBefore /\ PlayedRising

LEMMA OrderInit == Init => OInv
<1>. SUFFICES ASSUME Init PROVE OInv
  OBVIOUS
<1>1. DOMAIN <<>> = {}
  BY EmptySeq
<1>2. Oldest(0) = 1
  BY StationType DEF Oldest, Init
<1>3. published \in Nat
  BY StreamAssumption DEF Init
<1>. QED BY <1>1, <1>2, <1>3, TypeInit
         DEF Init, OInv, Rising, Position, Recent, HeardBefore, PlayedRising, High

\* An entry that Mark evicts is older than the playlist being looked at.
LEMMA MarkOrder ==
  ASSUME OInv, Mark, station.window <= Cap, TypeOK'
  PROVE  Rising' /\ High' = cursor /\ order' # <<>> /\ Recent' /\ High \in Nat /\ High < cursor
<1>. DEFINE n == Len(order)
            x == cursor
<1>1. /\ order \in Seq(Nat) /\ n <= Cap /\ x \in Nat /\ end \in Nat
      /\ seen = Elements(order) /\ order' \in Seq(Nat) /\ station \in Stations
  BY DEF OInv, TypeOK
<1>2. /\ n \in Nat /\ DOMAIN order = 1 .. n /\ DOMAIN order' = 1 .. Len(order')
      /\ Len(order') \in Nat /\ Cap \in Nat \ {0} /\ station.window \in Nat \ {0}
      /\ \A i \in 1 .. n : order[i] \in Nat
  BY <1>1, LenProperties, ElementOfSeq, StationType, StreamAssumption
<1>3. /\ order' = Ordered(x) /\ seen' = Remembered(x) /\ x \notin seen /\ x <= end
      /\ cursor' = x /\ end' = end /\ station' = station
  BY DEF Mark, Outside
<1>4. Oldest(end) \in Nat \ {0} /\ Oldest(end) <= x
  BY <1>1, OldestType DEF OInv, Position
<1>5. High \in Nat /\ High < x
  <2>1. High \in Nat
    BY <1>2, EmptySeq DEF High
  <2>. QED BY <2>1, <1>1, <1>3, <1>4 DEF OInv, Recent
<1>6. \A i \in 1 .. n : order[i] < x /\ order[i] >= 1 /\ order[i] + n < x + i
  <2>. TAKE i \in 1 .. n
  <2>1. order # <<>> /\ High = order[n] /\ n \in 1 .. n
    BY <1>2, EmptySeq DEF High
  <2>2. order[i] >= 1 /\ order[i] + n <= order[n] + i
    <3>1. i <= n
      BY <1>2
    <3>. QED BY <2>1, <3>1 DEF OInv, Rising
  <2>3. /\ i \in Nat /\ i <= n /\ n \in Nat /\ order[i] \in Nat
        /\ order[n] \in Nat /\ x \in Nat /\ order[n] < x
    BY <2>1, <1>1, <1>2, <1>5
  <2>. QED BY <2>2, <2>3
<1>9. /\ \A i \in 1 .. n : order[i] >= 1
      /\ \A i, j \in 1 .. n : i <= j => order[i] + j <= order[j] + i
  BY <1>2 DEF OInv, Rising
<1>7. CASE ~Evicts
  <2>1. /\ Len(order') = n + 1 /\ order'[n + 1] = x /\ seen' = seen \cup {x}
        /\ \A i \in 1 .. n : order'[i] = order[i]
    BY <1>1, <1>3, <1>7, AddSpec
  <2>2. order' # <<>> /\ High' = x
    BY <1>2, <2>1, EmptySeq DEF High
  <2>3. ASSUME NEW i \in 1 .. n + 1 PROVE order'[i] >= 1
    <3>1. CASE i = n + 1
      BY <3>1, <2>1, <1>4, <1>1
    <3>2. CASE i \in 1 .. n
      BY <3>2, <2>1, <1>9
    <3>. QED BY <3>1, <3>2, <1>2
  <2>4. ASSUME NEW i \in 1 .. n + 1, NEW j \in 1 .. n + 1, i <= j
        PROVE  order'[i] + j <= order'[j] + i
    <3>1. CASE j = n + 1 /\ i # n + 1
      <4>1. i \in 1 .. n
        BY <3>1, <1>2
      <4>2. order'[i] = order[i] /\ order[i] \in Nat /\ order[i] + n < x + i
        BY <4>1, <2>1, <1>6, <1>2
      <4>3. order'[j] = x
        BY <3>1, <2>1
      <4>. QED BY <4>1, <4>2, <4>3, <3>1, <1>1, <1>2
    <3>2. CASE j # n + 1
      <4>1. i \in 1 .. n /\ j \in 1 .. n
        BY <3>2, <2>4, <1>2
      <4>2. order'[i] = order[i] /\ order'[j] = order[j]
        BY <4>1, <2>1
      <4>. QED BY <4>1, <4>2, <2>4, <1>9
    <3>3. CASE i = n + 1
      BY <3>3, <2>4, <2>1, <1>1, <1>2
    <3>. QED BY <3>1, <3>2, <3>3
  <2>5. Rising'
    BY <1>2, <2>1, <2>3, <2>4 DEF Rising
  <2>6. Recent'
    BY <1>1, <1>3, <2>1, <2>2 DEF OInv, Recent, Oldest
  <2>. QED BY <2>2, <2>5, <2>6, <1>5
<1>8. CASE Evicts
  <2>1. /\ n = Cap /\ Len(order') = Cap /\ order'[Cap] = x
        /\ seen' = (seen \cup {x}) \ {order[1]}
        /\ \A i \in 1 .. Cap - 1 : order'[i] = order[i + 1]
    BY <1>1, <1>3, <1>8, AddSpec
  <2>2. order' # <<>> /\ High' = x
    BY <1>2, <2>1, EmptySeq DEF High
  <2>3. \A i \in 1 .. Cap : i = Cap \/ (i \in 1 .. Cap - 1 /\ i + 1 \in 1 .. n)
    BY <1>2, <2>1
  <2>4. ASSUME NEW i \in 1 .. Cap PROVE order'[i] >= 1
    <3>1. CASE i = Cap
      BY <3>1, <2>1, <1>4, <1>1
    <3>2. CASE i # Cap
      BY <3>2, <2>1, <2>3, <1>9
    <3>. QED BY <3>1, <3>2
  <2>5. ASSUME NEW i \in 1 .. Cap, NEW j \in 1 .. Cap, i <= j
        PROVE  order'[i] + j <= order'[j] + i
    <3>1. CASE i = Cap
      BY <3>1, <2>5, <2>1, <1>1, <1>2
    <3>2. CASE j = Cap /\ i # Cap
      <4>1. i + 1 \in 1 .. n /\ order'[i] = order[i + 1]
        BY <3>2, <2>1, <2>3
      <4>2. order[i + 1] + n < x + (i + 1) /\ order[i + 1] \in Nat
        BY <4>1, <1>6, <1>2
      <4>3. n = j /\ order'[j] = x /\ i \in Nat /\ j \in Nat /\ x \in Nat
        BY <3>2, <2>1, <1>1, <1>2
      <4>4. order[i + 1] + j <= x + i
        BY <4>2, <4>3
      <4>. QED BY <4>1, <4>3, <4>4
    <3>3. CASE j # Cap
      <4>1. i + 1 \in 1 .. n /\ order'[i] = order[i + 1]
        BY <3>3, <2>5, <2>1, <2>3, <1>2
      <4>2. j + 1 \in 1 .. n /\ order'[j] = order[j + 1]
        BY <3>3, <2>1, <2>3
      <4>3. order[i + 1] + (j + 1) <= order[j + 1] + (i + 1)
        <5>1. i + 1 <= j + 1
          BY <2>5, <1>2
        <5>. QED BY <5>1, <4>1, <4>2, <1>9
      <4>4. order[i + 1] \in Nat /\ order[j + 1] \in Nat
        BY <4>1, <4>2, <1>2
      <4>. QED BY <4>1, <4>2, <4>3, <4>4, <2>5, <1>2
    <3>. QED BY <3>1, <3>2, <3>3
  <2>6. Rising'
    BY <1>2, <2>1, <2>4, <2>5 DEF Rising
  <2>7. order[1] < Oldest(end) /\ order[1] \in Nat
    <3>1. 1 \in 1 .. n /\ order[1] >= 1 /\ order[1] + n < x + 1 /\ order[1] \in Nat
      BY <1>2, <1>6, <2>1
    <3>2. order[1] + station.window <= end
      BY <3>1, <2>1, <1>1, <1>2, <1>3
    <3>3. end > station.window /\ Oldest(end) = end - station.window + 1
      BY <3>1, <3>2, <1>1, <1>2 DEF Oldest
    <3>. QED BY <3>1, <3>2, <3>3, <1>1, <1>2
  <2>8. Recent'
    <3>1. ASSUME NEW m \in Nat, m >= Oldest(end), m <= x
          PROVE  m \in seen'
      <4>1. m = x \/ m \in seen
        BY <3>1, <1>1 DEF OInv, Recent
      <4>2. m # order[1]
        BY <3>1, <2>7, <1>4
      <4>. QED BY <4>1, <4>2, <2>1
    <3>2. Oldest(end)' = Oldest(end)
      BY <1>3 DEF Oldest
    <3>. QED BY <3>1, <3>2, <2>2, <1>1, <1>3 DEF Recent
  <2>. QED BY <2>2, <2>6, <2>8, <1>5
<1>. QED BY <1>7, <1>8

LEMMA OrderStep ==
  ASSUME station.window <= Cap, NeverGoesBack
  PROVE  OInv /\ [Next]_vars => OInv'
<1>. SUFFICES ASSUME OInv, [Next]_vars PROVE OInv'
  OBVIOUS
<1>1. TypeOK /\ TypeOK'
  BY TypeStep DEF OInv
<1>2. /\ published \in Nat /\ cursor \in Nat /\ end \in Nat /\ heard \in Seq(Nat)
      /\ order \in Seq(Nat) /\ station \in Stations
  BY <1>1 DEF TypeOK
<1>0. station' = station /\ station.window \in Nat \ {0} /\ station.lag = 0
  BY <1>2, SameStation, StationType DEF NeverGoesBack
<1>3. High \in Nat
  BY <1>2, LenProperties, ElementOfSeq, EmptySeq DEF High
<1>4. /\ DOMAIN heard = 1 .. Len(heard) /\ Len(heard) \in Nat
      /\ \A i \in 1 .. Len(heard) : heard[i] \in Nat
  BY <1>2, LenProperties, ElementOfSeq
<1>5. Oldest(end) \in Nat \ {0}
  BY <1>2, OldestType
<1>6. CASE UNCHANGED stream /\ pc' # "pump" /\ published' = published
  BY <1>0, <1>1, <1>6 DEF OInv, stream, Rising, Position, Recent, HeardBefore, PlayedRising, High, Oldest
<1>7. CASE Publish \/ HangUp \/ UNCHANGED vars
  <2>1. /\ UNCHANGED <<pc, stream>>
        /\ published' = published \/ published' = published + 1
    BY <1>7 DEF Publish, HangUp, vars
  <2>2. end <= published'
    BY <2>1, <1>2 DEF OInv, Position
  <2>. QED BY <2>1, <2>2, <1>0, <1>1
           DEF OInv, stream, Rising, Position, Recent, HeardBefore, PlayedRising, High, Oldest
<1>8. CASE Resolve \/ Loop \/ FetchFails \/ Pause \/ Scanned
  BY <1>6, <1>8 DEF Resolve, Loop, FetchFails, Pause, Scanned, Outside
<1>9. CASE Fetch
  <2>1. /\ cursor' = Oldest(published) /\ end' = published /\ pc' = "scan"
        /\ UNCHANGED <<station, published, order, seen, heard>>
    <3>1. PICK newest \in 0 .. published :
            /\ published <= newest + station.lag
            /\ cursor' = Oldest(newest) /\ end' = newest
      BY <1>9 DEF Fetch
    <3>2. newest = published
      BY <3>1, <1>0, <1>2
    <3>. QED BY <3>1, <3>2, <1>9 DEF Fetch, Outside
  <2>2. /\ Oldest(end) <= Oldest(published) /\ Oldest(published) <= published + 1
        /\ Oldest(published) \in Nat
    <3>1. end <= published
      BY DEF OInv, Position
    <3>2. station.window \in Nat \ {0} /\ end \in Nat /\ published \in Nat
      BY <1>0, <1>2
    <3>. QED BY ONLY <3>1, <3>2 DEF Oldest
  <2>3. High' = High /\ Oldest(end)' = Oldest(published)
    BY <2>1 DEF High, Oldest
  <2>4. Position'
    BY <2>1, <2>2, <2>3, <1>2, <1>3 DEF OInv, Position
  <2>5. Recent'
    <3>1. ASSUME NEW m \in Nat, m >= Oldest(published), m <= High \/ m < Oldest(published)
          PROVE  m \in seen
      BY <3>1, <2>2, <1>3, <1>5 DEF OInv, Recent
    <3>. QED BY <3>1, <2>1, <2>3 DEF Recent
  <2>. QED BY <1>1, <2>1, <2>3, <2>4, <2>5 DEF OInv, Rising, HeardBefore, PlayedRising
<1>10. CASE Skip
  <2>1. /\ cursor' = cursor + 1 /\ cursor \in seen /\ cursor <= end /\ pc' = "scan"
        /\ UNCHANGED <<station, published, end, order, seen, heard>>
    BY <1>10 DEF Skip, Outside
  <2>2. High' = High /\ Oldest(end)' = Oldest(end)
    BY <2>1 DEF High, Oldest
  <2>3. Position'
    BY <2>1, <2>2, <1>2, <1>3, <1>5 DEF OInv, Position
  <2>4. Recent'
    BY <2>1, <2>2, <1>2, <1>3, <1>5 DEF OInv, Recent
  <2>. QED BY <1>1, <2>1, <2>2, <2>3, <2>4 DEF OInv, Rising, HeardBefore, PlayedRising
<1>11. CASE Mark
  <2>1. /\ Rising' /\ High' = cursor /\ order' # <<>> /\ Recent' /\ High < cursor
    BY <1>1, <1>11, MarkOrder
  <2>2. UNCHANGED <<station, published, cursor, end, heard>> /\ cursor <= end
    BY <1>11 DEF Mark, Outside
  <2>3. Position'
    BY <2>1, <2>2 DEF OInv, Position, Oldest
  <2>4. HeardBefore'
    BY <2>1, <2>2, <1>2, <1>3, <1>4 DEF OInv, HeardBefore
  <2>. QED BY <1>1, <2>1, <2>2, <2>3, <2>4 DEF OInv, PlayedRising
<1>12. CASE NoAudio \/ Whole \/ Part
  <2>1. /\ pc = "pump" /\ cursor' = cursor + 1 /\ pc' # "pump"
        /\ UNCHANGED <<station, published, end, order, seen>>
    BY <1>12 DEF NoAudio, Whole, Part, Outside, Remember
  <2>2. High' = High /\ Oldest(end)' = Oldest(end) /\ cursor = High
    BY <2>1 DEF OInv, Position, High, Oldest
  <2>3. Position'
    BY <2>1, <2>2, <1>2, <1>3, <1>5 DEF OInv, Position
  <2>4. Recent'
    BY <2>1, <2>2, <1>2, <1>3, <1>5 DEF OInv, Recent
  <2>5. HeardBefore' /\ PlayedRising'
    <3>1. CASE heard' = heard
      BY <3>1, <2>1, <2>2 DEF OInv, HeardBefore, PlayedRising
    <3>2. CASE heard' = Append(heard, cursor)
      <4>. DEFINE k == Len(heard)
      <4>1. /\ heard' \in Seq(Nat) /\ Len(heard') = k + 1 /\ heard'[k + 1] = cursor
            /\ \A i \in 1 .. k : heard'[i] = heard[i]
        BY <3>2, <1>2, AppendProperties
      <4>2. DOMAIN heard' = 1 .. k + 1
        BY <4>1, LenProperties
      <4>3. \A i \in 1 .. k : heard'[i] \in Nat /\ heard'[i] < cursor
        BY <4>1, <2>1, <1>4 DEF OInv, HeardBefore
      <4>4. \A i \in 1 .. k + 1 : i = k + 1 \/ i \in 1 .. k
        BY <1>4
      <4>5. \A i \in 1 .. k + 1 : heard'[i] <= High
        BY <4>1, <4>3, <4>4, <2>2, <1>3
      <4>6. \A i, j \in 1 .. k : i < j => heard'[i] < heard'[j]
        BY <4>1, <1>4 DEF OInv, PlayedRising
      <4>7. ASSUME NEW i \in 1 .. k + 1, NEW j \in 1 .. k + 1, i < j
            PROVE  heard'[i] < heard'[j]
        <5>1. i \in 1 .. k
          BY <4>7, <1>4
        <5>2. CASE j = k + 1
          BY <5>1, <5>2, <4>1, <4>3
        <5>3. CASE j \in 1 .. k
          BY <5>1, <5>3, <4>6, <4>7
        <5>. QED BY <5>2, <5>3, <4>4
      <4>. QED BY <4>2, <4>5, <4>7, <2>1, <2>2 DEF HeardBefore, PlayedRising
    <3>. QED BY <3>1, <3>2, <1>12 DEF NoAudio, Whole, Part
  <2>. QED BY <1>1, <2>1, <2>3, <2>4, <2>5 DEF OInv, Rising
<1>13. CASE WriteFails
  <2>1. pc' # "pump" /\ UNCHANGED <<station, published, cursor, end, order, seen, heard>>
    BY <1>13 DEF WriteFails, Outside, Remember
  <2>. QED BY <1>1, <2>1
           DEF OInv, Rising, Position, Recent, HeardBefore, PlayedRising, High, Oldest
<1>. QED BY <1>7, <1>8, <1>9, <1>10, <1>11, <1>12, <1>13 DEF Next, Step

\* The order is kept where the station's playlists never go back.
FairlyOrdered == TypeOK /\ (NeverGoesBack => OInv)

LEMMA FairlyOrderedStep ==
  ASSUME FairlyOrdered, [Next]_vars, station.window <= Cap
  PROVE  FairlyOrdered'
<1>1. TypeOK'
  BY TypeStep DEF FairlyOrdered
<1>2. CASE NeverGoesBack
  BY <1>1, <1>2, OrderStep DEF FairlyOrdered
<1>3. CASE ~NeverGoesBack
  BY <1>1, <1>3, SameStation DEF FairlyOrdered, NeverGoesBack
<1>. QED BY <1>2, <1>3

\* While no playlist lists more segments than seenSet remembers (64), the speaker of a
\* station whose playlists never go back hears its segments in order and none twice
\* (hls.go, Stream).
THEOREM PlayedInOrder ==
  ASSUME \A p \in Stations : p.window <= Cap
  PROVE  Spec => []InOrder
<1>1. Init => FairlyOrdered
  BY TypeInit, OrderInit DEF FairlyOrdered
<1>2. FairlyOrdered /\ [Next]_vars => FairlyOrdered'
  <2>1. FairlyOrdered => station.window <= Cap
    BY DEF FairlyOrdered, TypeOK
  <2>. QED BY <2>1, FairlyOrderedStep
<1>3. FairlyOrdered => InOrder
  BY DEF FairlyOrdered, OInv, PlayedRising, InOrder
<1>. QED BY <1>1, <1>2, <1>3, PTL DEF Spec

-----------------------------------------------------------------------------
(* No segment is forgotten, whatever the station's playlists do and        *)
(* however few segments seenSet remembers.                                 *)

Given == Elements(heard) \cup lost

\* seenSet holds only what has been given, but for the segment on its way; of what a
\* playlist listed, at most the segments still to be looked at have not been given.
Accounted ==
  /\ Given \subseteq listed
  /\ pc # "ended" => seen \subseteq Given \cup (IF pc = "pump" THEN {cursor} ELSE {})
  /\ pc \in {"scan", "pump"} => /\ cursor .. end \subseteq listed
                                /\ listed \subseteq Given \cup (cursor .. end)
  /\ pc = "pump" => cursor <= end
  /\ pc \in {"resolve", "loop", "fetch", "retry", "wait"} => listed \subseteq Given

LEMMA AccountedStep == TypeOK /\ Accounted /\ [Next]_vars => Accounted'
<1>. SUFFICES ASSUME TypeOK, Accounted, [Next]_vars PROVE Accounted'
  OBVIOUS
<1>1. /\ cursor \in Nat /\ end \in Nat /\ heard \in Seq(Nat) /\ pc \in PCs
  BY DEF TypeOK
<1>2. CASE UNCHANGED <<cursor, end, seen, heard, listed, lost>> /\ pc' \in PCs \ {"scan", "pump"}
           /\ pc \in {"resolve", "loop", "fetch", "retry", "wait"}
  <2>1. Given' = Given
    BY <1>2 DEF Given, Elements
  <2>. QED BY <1>2, <2>1 DEF Accounted
<1>3. CASE Publish \/ HangUp \/ UNCHANGED vars
  <2>1. UNCHANGED <<pc, cursor, end, seen, heard, listed, lost>>
    BY <1>3 DEF Publish, HangUp, vars, stream
  <2>2. Given' = Given
    BY <2>1 DEF Given, Elements
  <2>. QED BY <2>1, <2>2 DEF Accounted
<1>4. CASE Resolve \/ Loop \/ FetchFails \/ Pause
  BY <1>2, <1>4 DEF Resolve, Loop, FetchFails, Pause, stream, PCs
<1>5. CASE Fetch
  <2>1. PICK newest \in 0 .. published :
          /\ cursor' = Oldest(newest) /\ end' = newest
          /\ listed' = listed \cup (Oldest(newest) .. newest)
    BY <1>5 DEF Fetch
  <2>2. pc = "fetch" /\ pc' = "scan" /\ UNCHANGED <<seen, heard, lost>>
    BY <1>5 DEF Fetch
  <2>3. Given' = Given
    BY <2>2 DEF Given, Elements
  <2>. QED BY <2>1, <2>2, <2>3 DEF Accounted
<1>6. CASE Skip
  <2>1. /\ pc = "scan" /\ pc' = "scan" /\ cursor <= end /\ cursor \in seen /\ cursor' = cursor + 1
        /\ UNCHANGED <<end, seen, heard, listed, lost>>
    BY <1>6 DEF Skip
  <2>2. Given' = Given
    BY <2>1 DEF Given, Elements
  <2>3. cursor .. end = {cursor} \cup (cursor + 1 .. end)
    BY <1>1, <2>1
  <2>4. cursor \in Given
    BY <2>1 DEF Accounted
  <2>. QED BY <2>1, <2>2, <2>3, <2>4 DEF Accounted
<1>7. CASE Mark
  <2>1. /\ pc = "scan" /\ pc' = "pump" /\ cursor <= end
        /\ UNCHANGED <<cursor, end, heard, listed, lost>>
        /\ seen' = Remembered(cursor)
    BY <1>7 DEF Mark
  <2>2. Given' = Given /\ seen' \subseteq seen \cup {cursor}
    BY <2>1 DEF Given, Elements, Remembered
  <2>. QED BY <2>1, <2>2 DEF Accounted
<1>8. CASE Scanned
  <2>1. /\ pc = "scan" /\ pc' = "wait" /\ cursor > end
        /\ UNCHANGED <<cursor, end, seen, heard, listed, lost>>
    BY <1>8 DEF Scanned, stream
  <2>2. Given' = Given
    BY <2>1 DEF Given, Elements
  <2>3. cursor .. end = {}
    BY <1>1, <2>1
  <2>. QED BY <2>1, <2>2, <2>3 DEF Accounted
<1>9. CASE NoAudio \/ Whole \/ Part
  <2>1. /\ pc = "pump" /\ pc' \in {"scan", "ended"} /\ cursor' = cursor + 1
        /\ UNCHANGED <<end, seen, listed>>
    BY <1>9 DEF NoAudio, Whole, Part, Remember
  <2>2. Given' = Given \cup {cursor}
    <3>1. CASE NoAudio
      BY <3>1 DEF NoAudio, Given, Elements
    <3>2. CASE Whole \/ Part
      <4>. DEFINE n == Len(heard)
      <4>1. heard' = Append(heard, cursor) /\ lost' = lost
        BY <3>2 DEF Whole, Part
      <4>2. /\ DOMAIN heard = 1 .. n /\ n \in Nat /\ DOMAIN heard' = 1 .. n + 1
            /\ heard'[n + 1] = cursor /\ \A i \in 1 .. n : heard'[i] = heard[i]
        BY <1>1, <4>1, AppendProperties, LenProperties
      <4>. HIDE DEF n
      <4>3. (\A i \in 1 .. n : i \in 1 .. n + 1) /\ n + 1 \in 1 .. n + 1
            /\ \A i \in 1 .. n + 1 : i \in 1 .. n \/ i = n + 1
        BY <4>2
      <4>4. Elements(heard') = Elements(heard) \cup {cursor}
        BY <4>2, <4>3 DEF Elements
      <4>5. Given' = Elements(heard') \cup lost'
        BY DEF Given, Elements
      <4>. QED BY <4>1, <4>4, <4>5 DEF Given
    <3>. QED BY <1>9, <3>1, <3>2
  <2>3. cursor <= end /\ cursor \in listed
    <3>1. cursor <= end
      BY <2>1 DEF Accounted
    <3>2. cursor \in cursor .. end
      BY <1>1, <3>1
    <3>. QED BY <2>1, <3>1, <3>2 DEF Accounted
  <2>4. cursor .. end = {cursor} \cup (cursor + 1 .. end)
    BY <1>1, <2>3
  <2>. QED BY <2>1, <2>2, <2>3, <2>4 DEF Accounted
<1>10. CASE WriteFails
  <2>1. pc' = "ended" /\ UNCHANGED <<heard, listed, lost>>
    BY <1>10 DEF WriteFails, Remember
  <2>2. Given' = Given
    BY <2>1 DEF Given, Elements
  <2>. QED BY <2>1, <2>2 DEF Accounted
<1>. QED
  BY <1>3, <1>4, <1>5, <1>6, <1>7, <1>8, <1>9, <1>10 DEF Next, Step

\* Whatever a fetched playlist listed has been played, or tried in vain, before the next
\* is fetched: from any station, also one that goes back or lists more than seenSet holds.
THEOREM NothingForgotten == Spec => []NoneForgotten
<1>1. Init => Accounted
  <2>1. Elements(<<>>) = {}
    BY DEF Elements
  <2>. QED BY <2>1 DEF Init, Accounted, Given
<1>2. Accounted => NoneForgotten
  BY DEF Accounted, NoneForgotten, Given
<1>. QED BY <1>1, <1>2, AccountedStep, TypeCorrect, PTL DEF Spec

-----------------------------------------------------------------------------
(* No segment is played twice. A playlist may go back by lag segments, so  *)
(* a segment may come again until window + lag newer ones are published.   *)

Scanning == pc \in {"scan", "pump"}
Reach    == station.window + station.lag

\* Segments that have been added to seenSet.
Passed == Given \cup (IF pc = "pump" THEN {cursor} ELSE {})

\* The playlist being looked at, or a later one, may list n.
Due(n) == n + Reach > published \/ (Scanning /\ n + station.window > end)

\* Entry i came from a playlist that ended with N and had been passed up to it: of what
\* came after it, only segments before that playlist are older.
Behind(i) ==
  \E N \in 0 .. published :
    /\ order[i] <= N /\ (Scanning => N <= end + station.lag)
    /\ Oldest(N) .. order[i] \subseteq Passed
    /\ \A j \in DOMAIN order : i < j =>
         \/ order[j] > order[i]
         \/ order[j] + station.window <= N /\ N < order[j] + Reach

Once ==
  pc # "ended" =>
    /\ seen \subseteq Passed
    /\ Scanning => /\ end <= published /\ Oldest(end) <= cursor
                   /\ Oldest(end) .. cursor - 1 \subseteq Passed
    /\ pc = "pump" => cursor \notin Given /\ cursor <= end
    /\ \A n \in Passed : Due(n) => n \in seen
    /\ \A i \in DOMAIN order : Behind(i)

LEMMA OnceInit == Init => Once
<1>. SUFFICES ASSUME Init PROVE Once
  OBVIOUS
<1>1. DOMAIN <<>> = {} /\ Elements(<<>>) = {}
  BY EmptySeq DEF Elements
<1>. QED BY <1>1 DEF Init, Once, Passed, Given, Scanning

\* k integers from a on.
IntervalOf(a, k) == a .. a + k - 1

LEMMA SizeOfInterval ==
  ASSUME NEW a \in Int, NEW k \in Nat
  PROVE  IsFiniteSet(IntervalOf(a, k)) /\ Cardinality(IntervalOf(a, k)) = k
<1>1. a + k - 1 \in Int /\ (IF a > a + k - 1 THEN 0 ELSE a + k - 1 - a + 1) = k
  OBVIOUS
<1>. QED BY <1>1, FS_Interval DEF IntervalOf

\* c segments, each of which may be listed with x again, or is older than the playlist
\* that ended with N.
Around(o, c, x, N, w, l) ==
  /\ w \in Nat \ {0} /\ l \in Nat /\ c \in Nat /\ x \in Nat /\ N \in Nat
  /\ o \in [1 .. c -> Nat]
  /\ \A i \in 1 .. c : \/ o[i] > x /\ o[i] < x + w + l
                       \/ o[i] + w <= N /\ N < o[i] + w + l

\* Fewer than w + 2 l different ones can.
LEMMA FewAround ==
  ASSUME NEW w, NEW l, NEW c, NEW x, NEW N, NEW o, Around(o, c, x, N, w, l), w + 2 * l <= c
  PROVE  \E i, j \in 1 .. c : i # j /\ o[i] = o[j]
<1>. USE DEF Around
<1>. DEFINE A == IntervalOf(x + 1, w + l - 1)
            B == IntervalOf(N - w - l + 1, l)
<1>1. IsFiniteSet(A) /\ Cardinality(A) = w + l - 1
  BY SizeOfInterval, x + 1 \in Int, w + l - 1 \in Nat
<1>2. IsFiniteSet(B) /\ Cardinality(B) = l
  BY SizeOfInterval, N - w - l + 1 \in Int
<1>3. IsFiniteSet(1 .. c) /\ Cardinality(1 .. c) = c
  BY FS_Interval
<1>4. ASSUME NEW i \in 1 .. c PROVE o[i] \in A \cup B
  <2>. DEFINE y == o[i]
  <2>1. /\ y \in Nat
        /\ (y > x /\ y < x + w + l) \/ (y + w <= N /\ N < y + w + l)
    OBVIOUS
  <2>. HIDE DEF y
  <2>2. CASE y > x /\ y < x + w + l
    BY <2>1, <2>2 DEF IntervalOf, y
  <2>3. CASE y + w <= N /\ N < y + w + l
    BY <2>1, <2>3 DEF IntervalOf, y
  <2>. QED BY <2>1, <2>2, <2>3
<1>. HIDE DEF A, B
<1>5. IsFiniteSet(A \cup B) /\ Cardinality(A \cup B) <= Cardinality(A) + Cardinality(B)
  <2>1. IsFiniteSet(A \cap B)
    BY <1>1, FS_Subset
  <2>2. Cardinality(A \cap B) \in Nat
    BY <2>1, FS_CardinalityType
  <2>3. /\ IsFiniteSet(A \cup B)
        /\ Cardinality(A \cup B) = Cardinality(A) + Cardinality(B) - Cardinality(A \cap B)
    BY <1>1, <1>2, FS_Union
  <2>. QED BY <1>1, <1>2, <2>2, <2>3
<1>6. Cardinality(A \cup B) < Cardinality(1 .. c)
  <2>1. Cardinality(A \cup B) \in Nat
    BY <1>5, FS_CardinalityType
  <2>. QED BY <1>1, <1>2, <1>3, <1>5, <2>1
<1>7. o \in [1 .. c -> A \cup B]
  BY <1>4
<1>. HIDE DEF Around
<1>. QED BY <1>3, <1>5, <1>6, <1>7, FS_PigeonHole

\* What every step but Mark keeps: seenSet, and what has been passed.
LEMMA OnceKept ==
  ASSUME TypeOK, Once, pc # "ended", pc' # "ended", UNCHANGED <<station, order, seen>>,
         published' \in Nat, published <= published', Passed' = Passed,
         \A N \in Nat : N <= published /\ (Scanning => N <= end + station.lag) /\ Scanning'
                          => N <= end' + station.lag,
         \A n \in Nat : Due(n)' => Due(n),
         Scanning' => /\ end' <= published' /\ Oldest(end') <= cursor'
                      /\ Oldest(end') .. cursor' - 1 \subseteq Passed,
         pc' = "pump" => cursor' \notin Given' /\ cursor' <= end'
  PROVE  Once'
<1>1. Passed \subseteq Nat
  <2>1. /\ heard \in Seq(Nat) /\ lost \subseteq Nat /\ cursor \in Nat
    BY DEF TypeOK
  <2>2. Elements(heard) \subseteq Nat
    BY <2>1, LenProperties, ElementOfSeq DEF Elements
  <2>. QED BY <2>1, <2>2 DEF Passed, Given
<1>2. ASSUME NEW n \in Passed', Due(n)' PROVE n \in seen'
  BY <1>1, <1>2 DEF Once
<1>3. ASSUME NEW i \in DOMAIN order' PROVE Behind(i)'
  <2>1. PICK N \in 0 .. published :
          /\ order[i] <= N /\ (Scanning => N <= end + station.lag)
          /\ Oldest(N) .. order[i] \subseteq Passed
          /\ \A j \in DOMAIN order : i < j =>
               order[j] > order[i] \/ (order[j] + station.window <= N /\ N < order[j] + Reach)
    BY <1>3 DEF Once, Behind
  <2>2. published \in Nat /\ N \in Nat /\ N <= published /\ N \in 0 .. published'
    BY DEF TypeOK
  <2>3. Scanning' => N <= end' + station'.lag
    BY <2>1, <2>2
  <2>. QED BY <2>1, <2>2, <2>3 DEF Behind, Oldest, Reach
<1>4. Scanning' => /\ (end <= published)' /\ (Oldest(end) <= cursor)'
                   /\ (Oldest(end) .. cursor - 1 \subseteq Passed)'
  BY DEF Oldest
<1>. QED BY <1>2, <1>3, <1>4 DEF Once

\* The position of the loop, and what it has passed.
LEMMA OncePlace ==
  ASSUME TypeOK
  PROVE  /\ cursor \in Nat /\ end \in Nat /\ published \in Nat /\ pc \in PCs
         /\ station \in Stations /\ station.window \in Nat \ {0} /\ station.lag \in Nat
         /\ Oldest(end) \in Nat \ {0} /\ heard \in Seq(Nat)
BY StationType, OldestType DEF TypeOK

\* One more segment is heard, or lost.
LEMMA PassedGrows ==
  ASSUME heard \in Seq(Nat), cursor \in Nat
  PROVE  /\ heard' = Append(heard, cursor) => Elements(heard') = Elements(heard) \cup {cursor}
         /\ heard' = heard => Elements(heard') = Elements(heard)
<1>1. ASSUME heard' = Append(heard, cursor)
      PROVE  Elements(heard') = Elements(heard) \cup {cursor}
  <2>. DEFINE n == Len(heard)
  <2>1. /\ n \in Nat /\ DOMAIN heard = 1 .. n /\ DOMAIN heard' = 1 .. n + 1
        /\ heard'[n + 1] = cursor /\ \A i \in 1 .. n : heard'[i] = heard[i]
    BY <1>1, AppendProperties, LenProperties
  <2>. HIDE DEF n
  <2>2. /\ \A i \in 1 .. n : i \in 1 .. n + 1
        /\ n + 1 \in 1 .. n + 1
        /\ \A i \in 1 .. n + 1 : i \in 1 .. n \/ i = n + 1
    BY <2>1
  <2>. QED BY <2>1, <2>2 DEF Elements
<1>2. heard' = heard => Elements(heard') = Elements(heard)
  BY DEF Elements
<1>. QED BY <1>1, <1>2

\* The steps between two playlists, and those of the station and the speaker.
LEMMA OthersKeepOnce ==
  ASSUME TypeOK, Once, pc # "ended", pc' # "ended",
         Publish \/ HangUp \/ Resolve \/ Loop \/ FetchFails \/ Pause \/ UNCHANGED vars
  PROVE  Once'
<1>1. /\ UNCHANGED <<station, cursor, end, order, seen, heard, listed, lost>>
      /\ published' = published \/ published' = published + 1
      /\ \/ pc' = pc
         \/ ~Scanning /\ pc' \in PCs \ {"scan", "pump"}
  BY DEF Publish, HangUp, Resolve, Loop, FetchFails, Pause, Outside, vars, stream, Scanning, PCs
<1>2. cursor \in Nat /\ end \in Nat /\ published \in Nat /\ station.window \in Nat \ {0}
      /\ station.lag \in Nat
  BY OncePlace
<1>3. published' \in Nat /\ published <= published'
  BY <1>1, <1>2
<1>4. Given' = Given
  BY <1>1 DEF Given, Elements
<1>5. Passed' = Passed
  BY <1>1, <1>4 DEF Passed, Scanning
<1>6. Scanning' => Scanning
  BY <1>1 DEF Scanning
<1>7. \A n \in Nat : Due(n)' => Due(n)
  BY <1>1, <1>2, <1>3, <1>6 DEF Due, Reach
<1>8. Scanning' => /\ end' <= published' /\ Oldest(end') <= cursor'
                   /\ Oldest(end') .. cursor' - 1 \subseteq Passed
  BY <1>1, <1>2, <1>3, <1>6 DEF Once
<1>9. pc' = "pump" => cursor' \notin Given' /\ cursor' <= end'
  BY <1>1, <1>4 DEF Once, Scanning
<1>. QED BY <1>1, <1>3, <1>5, <1>6, <1>7, <1>8, <1>9, OnceKept

\* A playlist fetched now ends with one of the lag newest segments.
LEMMA FetchKeepsOnce ==
  ASSUME TypeOK, Once, Fetch
  PROVE  Once'
<1>1. /\ pc = "fetch" /\ pc' = "scan"
      /\ UNCHANGED <<station, published, order, seen, heard, lost>>
  BY DEF Fetch, Outside
<1>2. PICK newest \in 0 .. published :
        published <= newest + station.lag /\ cursor' = Oldest(newest) /\ end' = newest
  BY DEF Fetch
<1>3. /\ published \in Nat /\ newest \in Nat /\ newest <= published
      /\ station.window \in Nat \ {0} /\ station.lag \in Nat
      /\ Oldest(newest) \in Nat \ {0}
  <2>1. published \in Nat /\ station \in Stations
    BY DEF TypeOK
  <2>2. newest \in Nat /\ newest <= published
    BY <2>1
  <2>. QED BY <2>1, <2>2, StationType, OldestType
<1>4. Given' = Given
  BY <1>1 DEF Given, Elements
<1>5. Passed' = Passed
  BY <1>1, <1>4 DEF Passed
<1>6. ~Scanning /\ Scanning'
  BY <1>1 DEF Scanning
<1>7. \A n \in Nat : Due(n)' => Due(n)
  BY <1>1, <1>2, <1>3 DEF Due, Reach
<1>8. \A N \in Nat : N <= published => N <= end' + station.lag
  BY <1>2, <1>3
<1>9. /\ end' <= published' /\ Oldest(end') <= cursor'
      /\ Oldest(end') .. cursor' - 1 \subseteq Passed
  BY <1>1, <1>2, <1>3
<1>. QED BY <1>1, <1>3, <1>5, <1>7, <1>8, <1>9, OnceKept

\* The loop passes the segment at its cursor: it was in the set, or has been given.
LEMMA AdvanceKeepsOnce ==
  ASSUME TypeOK, Once, pc' # "ended", Skip \/ Scanned \/ NoAudio \/ Whole \/ Part
  PROVE  Once'
<1>1. /\ UNCHANGED <<station, published, end, order, seen>>
      /\ pc \in {"scan", "pump"} /\ pc' \in {"scan", "wait"}
  BY DEF Skip, Scanned, NoAudio, Whole, Part, Outside, Remember, stream
<1>2. /\ cursor \in Nat /\ end \in Nat /\ published \in Nat /\ station.window \in Nat \ {0}
      /\ station.lag \in Nat /\ heard \in Seq(Nat) /\ Oldest(end) \in Nat \ {0}
  BY OncePlace
<1>3. Passed' = Passed /\ (pc' = "scan" => cursor' = cursor + 1 /\ cursor \in Passed)
  <2>1. CASE Skip
    <3>1. /\ pc = "scan" /\ pc' = "scan" /\ UNCHANGED <<heard, lost>>
          /\ cursor' = cursor + 1 /\ cursor \in seen
      BY <2>1 DEF Skip
    <3>. QED BY <3>1 DEF Passed, Given, Elements, Once
  <2>2. CASE Scanned
    <3>1. pc = "scan" /\ pc' = "wait" /\ UNCHANGED <<heard, lost>>
      BY <2>2 DEF Scanned, stream
    <3>. QED BY <3>1 DEF Passed, Given, Elements
  <2>3. CASE NoAudio \/ Whole \/ Part
    <3>1. /\ pc = "pump" /\ pc' # "pump" /\ cursor' = cursor + 1
          /\ \/ heard' = heard /\ lost' = lost \cup {cursor}
             \/ heard' = Append(heard, cursor) /\ lost' = lost
      BY <2>3 DEF NoAudio, Whole, Part
    <3>2. Elements(heard') \cup lost' = Elements(heard) \cup lost \cup {cursor}
      BY <1>2, <3>1, PassedGrows
    <3>. QED BY <3>1, <3>2 DEF Passed, Given
  <2>. QED BY <2>1, <2>2, <2>3
<1>4. Scanning
  BY <1>1 DEF Scanning
<1>5. /\ end <= published /\ Oldest(end) <= cursor
      /\ Oldest(end) .. cursor - 1 \subseteq Passed
  BY <1>1, <1>4 DEF Once
<1>6. \A n \in Nat : Due(n)' => Due(n)
  BY <1>1, <1>4 DEF Due, Reach
<1>8. Scanning' => /\ end' <= published' /\ Oldest(end') <= cursor'
                   /\ Oldest(end') .. cursor' - 1 \subseteq Passed
  <2>1. SUFFICES ASSUME cursor' = cursor + 1, cursor \in Passed
                 PROVE  /\ Oldest(end) <= cursor'
                        /\ Oldest(end) .. cursor' - 1 \subseteq Passed
    BY <1>1, <1>3, <1>5 DEF Scanning
  <2>2. Oldest(end) .. cursor = (Oldest(end) .. cursor - 1) \cup {cursor}
    BY <1>2, <1>5
  <2>. QED BY <1>2, <1>5, <2>1, <2>2
<1>. QED BY <1>1, <1>2, <1>3, <1>4, <1>6, <1>8, OnceKept

\* The segment that Mark adds has not been passed, and keeps what is known of every
\* entry before it.
LEMMA MarkIsNew ==
  ASSUME TypeOK, Once, Mark
  PROVE  /\ cursor \notin Passed /\ cursor \in Nat \ {0}
         /\ \A i \in DOMAIN order : \E N \in 0 .. published :
              /\ order[i] <= N /\ N <= end + station.lag
              /\ Oldest(N) .. order[i] \subseteq Passed
              /\ \A j \in DOMAIN order : i < j =>
                   order[j] > order[i] \/ (order[j] + station.window <= N /\ N < order[j] + Reach)
              /\ cursor > order[i] \/ (cursor + station.window <= N /\ N < cursor + Reach)
<1>. DEFINE z == cursor
            w == station.window
            l == station.lag
<1>1. /\ z \in Nat /\ end \in Nat /\ published \in Nat /\ w \in Nat \ {0} /\ l \in Nat
      /\ Oldest(end) \in Nat \ {0} /\ order \in Seq(Nat)
  BY OncePlace DEF TypeOK
<1>2. pc = "scan" /\ z <= end /\ z \notin seen
  BY DEF Mark
<1>3. Scanning
  BY <1>2 DEF Scanning
<1>4. /\ Oldest(end) <= z /\ \A n \in Passed : Due(n) => n \in seen
      /\ \A i \in DOMAIN order : Behind(i)
  BY <1>2, <1>3 DEF Once
<1>5. z \in Nat \ {0} /\ z + w > end
  BY <1>1, <1>2, <1>4 DEF Oldest
<1>6. z \notin Passed
  BY <1>2, <1>3, <1>4, <1>5 DEF Due
<1>7. ASSUME NEW i \in DOMAIN order, NEW N \in 0 .. published,
             order[i] <= N, N <= end + l, Oldest(N) .. order[i] \subseteq Passed
      PROVE  z > order[i] \/ (z + w <= N /\ N < z + Reach)
  <2>1. order[i] \in Nat /\ N \in Nat
    BY <1>1, ElementOfSeq, LenProperties
  <2>2. CASE z > order[i]
    BY <2>2
  <2>3. CASE z <= order[i]
    <3>1. z \notin Oldest(N) .. order[i]
      BY <1>6, <1>7
    <3>2. Oldest(N) \in Nat /\ (Oldest(N) = 1 \/ Oldest(N) = N - w + 1)
      BY <1>1, <2>1 DEF Oldest
    <3>3. z < Oldest(N)
      BY <1>1, <2>1, <2>3, <3>1, <3>2
    <3>4. z + w <= N
      <4>1. z \in Nat \ {0} /\ w \in Nat /\ N \in Nat
        BY <1>1, <1>5, <2>1
      <4>. HIDE DEF z, w
      <4>2. Oldest(N) = N - w + 1
        BY <3>2, <3>3, <4>1
      <4>. QED BY <3>3, <4>1, <4>2
    <3>5. N <= end + l /\ z + w > end
      BY <1>5, <1>7
    <3>6. N < z + (w + l)
      <4>1. z \in Nat /\ w \in Nat /\ l \in Nat /\ N \in Nat /\ end \in Nat
        BY <1>1, <2>1
      <4>. HIDE DEF z, w, l
      <4>. QED BY <3>5, <4>1
    <3>. QED BY <3>4, <3>6 DEF Reach
  <2>. QED BY <1>1, <2>1, <2>2, <2>3
<1>8. ASSUME NEW i \in DOMAIN order
      PROVE  \E N \in 0 .. published :
               /\ order[i] <= N /\ N <= end + l
               /\ Oldest(N) .. order[i] \subseteq Passed
               /\ \A j \in DOMAIN order : i < j =>
                    order[j] > order[i] \/ (order[j] + w <= N /\ N < order[j] + Reach)
               /\ z > order[i] \/ (z + w <= N /\ N < z + Reach)
  <2>1. PICK N \in 0 .. published :
          /\ order[i] <= N /\ (Scanning => N <= end + l)
          /\ Oldest(N) .. order[i] \subseteq Passed
          /\ \A j \in DOMAIN order : i < j =>
               order[j] > order[i] \/ (order[j] + w <= N /\ N < order[j] + Reach)
    BY <1>4, <1>8 DEF Behind
  <2>2. z > order[i] \/ (z + w <= N /\ N < z + Reach)
    BY <1>3, <1>7, <2>1
  <2>. QED BY <1>3, <2>1, <2>2
<1>. QED BY <1>5, <1>6, <1>8

\* An entry that Mark evicts is no longer due: Cap other segments were added after it.
LEMMA EvictedIsPast ==
  ASSUME TypeOK, TypeOK', Once, Mark, Evicts, station.window + 2 * station.lag <= Cap
  PROVE  ~Due(order[1])
<1>. DEFINE x == order[1]
            w == station.window
            l == station.lag
<1>1. /\ cursor \in Nat /\ end \in Nat /\ published \in Nat /\ w \in Nat \ {0} /\ l \in Nat
      /\ order \in Seq(Nat) /\ Cap \in Nat \ {0}
  BY OncePlace, StreamAssumption DEF TypeOK
<1>2. /\ Len(order) = Cap /\ Len(order') = Cap /\ order'[Cap] = cursor
      /\ \A i \in 1 .. Cap - 1 : order'[i] = order[i + 1]
      /\ order' \in Seq(Nat)
      /\ DOMAIN order = 1 .. Cap /\ DOMAIN order' = 1 .. Cap
  <2>1. order' = Ordered(cursor) /\ Len(order) <= Cap
    BY DEF Mark, TypeOK
  <2>2. /\ Len(order) = Cap /\ Len(order') = Cap /\ order'[Cap] = cursor
        /\ \A i \in 1 .. Cap - 1 : order'[i] = order[i + 1]
        /\ order' \in Seq(Nat)
    BY <1>1, <2>1, AddSpec
  <2>. QED BY <1>1, <2>2, LenProperties
<1>3. /\ pc = "scan" /\ cursor <= end /\ end <= published /\ Scanning
  BY DEF Mark, Once, Scanning
<1>4. 1 \in DOMAIN order /\ x \in Nat
  <2>1. 1 \in 1 .. Cap
    BY <1>1
  <2>. QED BY <1>1, <1>2, <2>1, ElementOfSeq
<1>5. PICK N \in 0 .. published :
        /\ x <= N
        /\ \A j \in DOMAIN order : 1 < j =>
             order[j] > x \/ (order[j] + w <= N /\ N < order[j] + Reach)
        /\ cursor > x \/ (cursor + w <= N /\ N < cursor + Reach)
  BY <1>4, MarkIsNew
<1>6. SUFFICES ASSUME Due(x) PROVE FALSE
  OBVIOUS
<1>7. ASSUME NEW i \in DOMAIN order PROVE order[i] < x + w + l
  <2>1. PICK M \in 0 .. published : order[i] <= M /\ M <= end + l
    BY <1>7, MarkIsNew
  <2>2. order[i] \in Nat /\ M \in Nat /\ M <= published
    <3>1. order[i] \in Nat
      BY <1>1, <1>2, <1>7, ElementOfSeq
    <3>2. M \in Nat /\ M <= published
      BY <1>1, <2>1
    <3>. QED BY <3>1, <3>2
  <2>3. CASE x + Reach > published
    <3>1. x + (w + l) > published
      BY <2>3 DEF Reach
    <3>. HIDE DEF x, w, l
    <3>. QED BY <1>1, <1>4, <2>1, <2>2, <3>1
  <2>4. CASE x + w > end
    <3>. HIDE DEF x, w, l
    <3>. QED BY <1>1, <1>4, <2>1, <2>2, <2>4
  <2>. QED BY <1>6, <2>3, <2>4 DEF Due
<1>8. cursor < x + w + l
  <2>1. CASE x + Reach > published
    <3>1. x + (w + l) > published
      BY <2>1 DEF Reach
    <3>. HIDE DEF x, w, l
    <3>. QED BY <1>1, <1>3, <1>4, <3>1
  <2>2. CASE x + w > end
    <3>. HIDE DEF x, w, l
    <3>. QED BY <1>1, <1>3, <1>4, <2>2
  <2>. QED BY <1>6, <2>1, <2>2 DEF Due
<1>9. \A i \in 1 .. Cap : \/ order'[i] > x /\ order'[i] < x + w + l
                          \/ order'[i] + w <= N /\ N < order'[i] + w + l
  <2>. SUFFICES ASSUME NEW i \in 1 .. Cap
                PROVE  \/ order'[i] > x /\ order'[i] < x + w + l
                       \/ order'[i] + w <= N /\ N < order'[i] + w + l
    OBVIOUS
  <2>1. \A y \in Nat : N < y + Reach <=> N < y + w + l
    BY <1>1 DEF Reach
  <2>2. CASE i = Cap
    BY <1>1, <1>2, <1>5, <1>8, <2>1, <2>2
  <2>3. CASE i # Cap
    <3>1. i \in 1 .. Cap - 1 /\ i + 1 \in DOMAIN order /\ 1 < i + 1
      BY <1>1, <1>2, <2>3
    <3>2. order'[i] = order[i + 1] /\ order[i + 1] \in Nat
      BY <1>1, <1>2, <3>1, ElementOfSeq
    <3>. QED BY <1>5, <1>7, <2>1, <3>1, <3>2
  <2>. QED BY <2>2, <2>3
<1>10. order' \in [1 .. Cap -> Nat] /\ N \in Nat
  <2>1. N \in Nat
    BY <1>1
  <2>2. order' \in [1 .. Len(order') -> Nat]
    BY <1>2, LenProperties
  <2>. QED BY <1>2, <2>1, <2>2
<1>11. Around(order', Cap, x, N, w, l)
  BY <1>1, <1>4, <1>9, <1>10 DEF Around
<1>12. \E i, j \in 1 .. Cap : i # j /\ order'[i] = order'[j]
  BY <1>11, FewAround
<1>. QED BY <1>2, <1>12 DEF TypeOK

LEMMA MarkKeepsOnce ==
  ASSUME TypeOK, TypeOK', Once, Mark, station.window + 2 * station.lag <= Cap
  PROVE  Once'
<1>. DEFINE n == Len(order)
            z == cursor
<1>1. /\ z \in Nat /\ end \in Nat /\ published \in Nat /\ station.window \in Nat \ {0}
      /\ station.lag \in Nat /\ Oldest(end) \in Nat \ {0} /\ Cap \in Nat \ {0}
      /\ order \in Seq(Nat) /\ n \in Nat /\ n <= Cap /\ DOMAIN order = 1 .. n
      /\ order' \in Seq(Nat) /\ Len(order') \in Nat /\ DOMAIN order' = 1 .. Len(order')
      /\ seen = Elements(order)
  BY OncePlace, StreamAssumption, LenProperties DEF TypeOK
<1>2. /\ pc = "scan" /\ pc' = "pump" /\ z <= end /\ z \notin seen
      /\ order' = Ordered(z) /\ seen' = Remembered(z)
      /\ UNCHANGED <<station, published, cursor, end, heard, lost>>
  BY DEF Mark, Outside
<1>3. /\ Scanning /\ Scanning'
      /\ seen \subseteq Passed /\ end <= published /\ Oldest(end) <= z
      /\ Oldest(end) .. z - 1 \subseteq Passed
      /\ \A x \in Passed : Due(x) => x \in seen
  BY <1>2 DEF Once, Scanning
<1>4. Given' = Given /\ Given = Passed /\ Passed' = Passed \cup {z}
  BY <1>2 DEF Passed, Given, Elements
<1>5. z \notin Passed
  BY MarkIsNew
<1>13. ~Evicts => /\ Len(order') = n + 1 /\ order'[n + 1] = z
                  /\ \A i \in 1 .. n : order'[i] = order[i]
                  /\ seen' = seen \cup {z}
  BY <1>1, <1>2, AddSpec
<1>14. Evicts => /\ n = Cap /\ Len(order') = Cap /\ order'[Cap] = z
                 /\ \A i \in 1 .. Cap - 1 : order'[i] = order[i + 1]
                 /\ seen' = (seen \cup {z}) \ {order[1]}
  <2>. SUFFICES ASSUME Evicts
                PROVE  /\ n = Cap /\ Len(order') = Cap /\ order'[Cap] = z
                       /\ \A i \in 1 .. Cap - 1 : order'[i] = order[i + 1]
                       /\ seen' = (seen \cup {z}) \ {order[1]}
    OBVIOUS
  <2>1. order \in Seq(Nat) /\ Len(order) <= Cap /\ z \in Nat /\ z \notin seen
    BY <1>1, <1>2
  <2>2. /\ Len(order) = Cap /\ Len(Ordered(z)) = Cap /\ Ordered(z)[Cap] = z
        /\ \A i \in 1 .. Cap - 1 : Ordered(z)[i] = order[i + 1]
        /\ Remembered(z) = (seen \cup {z}) \ {order[1]}
    BY <2>1, AddSpec
  <2>3. order' = Ordered(z) /\ seen' = Remembered(z)
    BY <1>2
  <2>. QED BY <2>2, <2>3
<1>15. n \in Nat /\ Cap \in Nat \ {0}
  BY <1>1
<1>. HIDE DEF n
\* An entry at i that is at k of the new slice, and what came after it.
<1>6. ASSUME NEW i \in DOMAIN order, NEW k \in DOMAIN order', order'[k] = order[i],
             \A j \in DOMAIN order' : k < j =>
               order'[j] = z \/ \E m \in DOMAIN order : i < m /\ order'[j] = order[m]
      PROVE  Behind(k)'
  <2>1. PICK N \in 0 .. published :
          /\ order[i] <= N /\ N <= end + station.lag
          /\ Oldest(N) .. order[i] \subseteq Passed
          /\ \A j \in DOMAIN order : i < j =>
               order[j] > order[i] \/ (order[j] + station.window <= N /\ N < order[j] + Reach)
          /\ z > order[i] \/ (z + station.window <= N /\ N < z + Reach)
    BY MarkIsNew
  <2>2. \A j \in DOMAIN order' : k < j =>
          order'[j] > order[i] \/ (order'[j] + station.window <= N /\ N < order'[j] + Reach)
    BY <1>6, <2>1
  <2>3. Oldest(N)' = Oldest(N) /\ Reach' = Reach
    BY <1>2 DEF Oldest, Reach
  <2>. QED BY <1>2, <1>4, <1>6, <2>1, <2>2, <2>3 DEF Behind
<1>7. ASSUME NEW k \in DOMAIN order', order'[k] = z, \A j \in DOMAIN order' : ~(k < j)
      PROVE  Behind(k)'
  <2>. DEFINE o == Oldest(end)
  <2>1. o .. z = (o .. z - 1) \cup {z}
    <3>1. o \in Nat /\ z \in Nat /\ o <= z
      BY <1>1, <1>3
    <3>. HIDE DEF o, z
    <3>. QED BY <3>1
  <2>2. Oldest(end)' = Oldest(end) /\ end \in 0 .. published /\ end <= end + station.lag
    BY <1>1, <1>2, <1>3 DEF Oldest
  <2>3. Oldest(end) .. z \subseteq Passed'
    BY <1>3, <1>4, <2>1
  <2>. QED BY <1>2, <1>7, <2>2, <2>3 DEF Behind, Oldest
<1>8. \A i \in DOMAIN order' : Behind(i)'
  <2>1. CASE ~Evicts
    <3>1. /\ DOMAIN order' = 1 .. n + 1 /\ order'[n + 1] = z
          /\ \A i \in 1 .. n : order'[i] = order[i]
      BY <1>1, <1>13, <2>1
    <3>2. ASSUME NEW i \in 1 .. n PROVE Behind(i)'
      <4>1. i \in DOMAIN order /\ i \in DOMAIN order'
        BY <1>1, <3>1
      <4>2. ASSUME NEW j \in DOMAIN order', i < j
            PROVE  order'[j] = z \/ \E m \in DOMAIN order : i < m /\ order'[j] = order[m]
        <5>1. CASE j = n + 1
          BY <3>1, <5>1
        <5>2. CASE j # n + 1
          <6>1. j \in 1 .. n
            BY <1>15, <3>1, <5>2
          <6>. QED BY <1>1, <3>1, <4>2, <6>1
        <5>. QED BY <5>1, <5>2
      <4>. QED BY <1>6, <3>1, <4>1, <4>2
    <3>3. ASSUME NEW k \in DOMAIN order', k = n + 1 PROVE Behind(k)'
      <4>1. order'[k] = z /\ \A j \in DOMAIN order' : ~(k < j)
        BY <1>15, <3>1, <3>3
      <4>. QED BY <1>7, <4>1
    <3>4. \A i \in DOMAIN order' : i \in 1 .. n \/ i = n + 1
      BY <1>15, <3>1
    <3>. QED BY <3>2, <3>3, <3>4
  <2>2. CASE Evicts
    <3>1. /\ DOMAIN order = 1 .. Cap /\ DOMAIN order' = 1 .. Cap /\ order'[Cap] = z
          /\ \A i \in 1 .. Cap - 1 : order'[i] = order[i + 1]
      BY <1>1, <1>14, <2>2
    <3>2. ASSUME NEW k \in 1 .. Cap - 1 PROVE Behind(k)'
      <4>1. k + 1 \in DOMAIN order /\ k \in DOMAIN order'
        BY <1>1, <3>1
      <4>2. ASSUME NEW j \in DOMAIN order', k < j, j # Cap
            PROVE  j + 1 \in DOMAIN order /\ k + 1 < j + 1 /\ order'[j] = order[j + 1]
        <5>1. j \in 1 .. Cap - 1
          BY <1>15, <3>1, <4>2
        <5>2. j + 1 \in 1 .. Cap /\ k + 1 < j + 1
          BY <1>15, <4>2, <5>1
        <5>. QED BY <3>1, <5>1, <5>2
      <4>. QED BY <1>6, <3>1, <4>1, <4>2
    <3>3. Behind(Cap)'
      <4>1. Cap \in DOMAIN order' /\ \A j \in DOMAIN order' : ~(Cap < j)
        BY <1>15, <3>1
      <4>. QED BY <1>7, <3>1, <4>1
    <3>4. \A i \in DOMAIN order' : i \in 1 .. Cap - 1 \/ i = Cap
      BY <1>15, <3>1
    <3>. QED BY <3>2, <3>3, <3>4
  <2>. QED BY <2>1, <2>2
<1>9. z \in seen' /\ seen' \subseteq seen \cup {z}
  <2>1. CASE ~Evicts
    BY <1>13, <2>1
  <2>2. CASE Evicts
    <3>1. 1 \in DOMAIN order
      BY <1>1, <1>14, <2>2
    <3>2. order[1] \in seen
      BY <1>1, <3>1 DEF Elements
    <3>. QED BY <1>2, <1>14, <2>2, <3>2
  <2>. QED BY <2>1, <2>2
<1>10. ASSUME NEW x \in Passed', Due(x)' PROVE x \in seen'
  <2>1. CASE x = z
    BY <1>9, <2>1
  <2>2. CASE x # z
    <3>1. x \in seen /\ Due(x)
      BY <1>2, <1>3, <1>4, <1>10, <2>2 DEF Due, Reach
    <3>2. CASE ~Evicts
      BY <1>13, <3>1, <3>2
    <3>3. CASE Evicts
      <4>1. x # order[1]
        BY <3>1, <3>3, EvictedIsPast
      <4>. QED BY <1>14, <3>1, <3>3, <4>1
    <3>. QED BY <3>2, <3>3
  <2>. QED BY <2>1, <2>2
<1>11. seen' \subseteq Passed'
  BY <1>3, <1>4, <1>9
<1>12. /\ end' <= published' /\ Oldest(end') <= cursor' /\ Oldest(end)' = Oldest(end)
       /\ Oldest(end) .. cursor' - 1 \subseteq Passed'
  BY <1>2, <1>3, <1>4 DEF Oldest
<1>. QED BY <1>2, <1>4, <1>5, <1>8, <1>10, <1>11, <1>12 DEF Once

LEMMA OnceStep ==
  ASSUME TypeOK, TypeOK', Once, [Next]_vars, station.window + 2 * station.lag <= Cap
  PROVE  Once'
<1>1. CASE pc' = "ended"
  BY <1>1 DEF Once
<1>2. CASE pc = "ended" /\ pc' # "ended"
  BY <1>2 DEF Next, Step, Publish, HangUp, Resolve, Loop, Fetch, FetchFails, Pause, Skip, Mark,
              Scanned, NoAudio, Whole, Part, WriteFails, vars
<1>3. CASE pc # "ended" /\ pc' # "ended"
  <2>1. CASE Publish \/ HangUp \/ Resolve \/ Loop \/ FetchFails \/ Pause \/ UNCHANGED vars
    BY <1>3, <2>1, OthersKeepOnce
  <2>2. CASE Fetch
    BY <2>2, FetchKeepsOnce
  <2>3. CASE Mark
    BY <2>3, MarkKeepsOnce
  <2>4. CASE Skip \/ Scanned \/ NoAudio \/ Whole \/ Part
    BY <1>3, <2>4, AdvanceKeepsOnce
  <2>5. CASE WriteFails
    BY <1>3, <2>5 DEF WriteFails
  <2>. QED BY <2>1, <2>2, <2>3, <2>4, <2>5 DEF Next, Step
<1>. QED BY <1>1, <1>2, <1>3

-----------------------------------------------------------------------------
(* Refinement of AudioFeed.                                                *)

\* The segment that is played was not played before, nor was a later one if playlists
\* never go back.
LEMMA PlayNew ==
  ASSUME FairlyOrdered, Once, pc = "pump", heard' = Append(heard, cursor)
  PROVE  /\ cursor \in Feed!Segments(heard')
         /\ cursor \notin Feed!Segments(heard)
         /\ NeverGoesBack => \A m \in Feed!Segments(heard) : m < cursor
<1>1. heard \in Seq(Nat) /\ cursor \in Nat
  BY DEF FairlyOrdered, TypeOK
<1>2. Feed!Segments(heard) = Elements(heard) /\ Feed!Segments(heard') = Elements(heard')
  BY DEF Feed!Segments, Elements
<1>3. cursor \in Elements(heard')
  BY <1>1, PassedGrows
<1>4. cursor \notin Elements(heard)
  BY DEF Once, Given
<1>5. NeverGoesBack => \A m \in Elements(heard) : m < cursor
  BY DEF FairlyOrdered, OInv, HeardBefore, Elements
<1>. QED BY <1>2, <1>3, <1>4, <1>5

LEMMA FeedStep ==
  ASSUME FairlyOrdered, Once, [Next]_vars
  PROVE  [Feed!Next]_<<heard, NeverGoesBack, pc = "ended">>
<1>0. NeverGoesBack' = NeverGoesBack
  BY SameStation DEF NeverGoesBack
<1>1. CASE Whole \/ Part
  <2>1. pc = "pump" /\ heard' = Append(heard, cursor) /\ (pc' = "ended") \in BOOLEAN
    BY <1>1 DEF Whole, Part
  <2>2. /\ cursor \in Feed!Segments(heard')
        /\ cursor \notin Feed!Segments(heard)
        /\ NeverGoesBack => \A m \in Feed!Segments(heard) : m < cursor
    BY <2>1, PlayNew
  <2>3. Feed!Play
    BY <1>0, <2>1, <2>2 DEF Feed!Play
  <2>. QED BY <2>3 DEF Feed!Next
<1>2. CASE heard' = heard /\ (pc = "ended" => pc' = "ended")
  <2>1. CASE pc # "ended" /\ pc' = "ended"
    BY <1>0, <1>2, <2>1 DEF Feed!Next, Feed!End
  <2>2. CASE (pc = "ended") = (pc' = "ended")
    BY <1>0, <1>2, <2>2
  <2>. QED BY <1>2, <2>1, <2>2
<1>3. CASE ~(Whole \/ Part)
  BY <1>2, <1>3 DEF Next, Step, Publish, HangUp, Resolve, Loop, Fetch, FetchFails, Pause,
     Skip, Mark, Scanned, NoAudio, WriteFails, Outside, Remember, stream, vars
<1>. QED BY <1>1, <1>3

\* While seenSet remembers as many segments as a playlist lists and twice as many as it
\* may go back by, hls.Stream implements the feed the speaker is promised: no segment is
\* played twice, and in order where playlists never go back.
THEOREM StreamImplementsFeed ==
  ASSUME \A p \in Stations : p.window + 2 * p.lag <= Cap
  PROVE  Spec => ImplementsFeed
<1>. DEFINE Inv == FairlyOrdered /\ Once
<1>1. Init => Feed!Init
  BY DEF Init, Feed!Init, NeverGoesBack
<1>2. Init => Inv
  BY TypeInit, OrderInit, OnceInit DEF FairlyOrdered
<1>3. Inv /\ [Next]_vars => Inv'
  <2>. SUFFICES ASSUME FairlyOrdered, Once, [Next]_vars PROVE Inv'
    OBVIOUS
  <2>1. TypeOK /\ TypeOK'
    BY TypeStep DEF FairlyOrdered
  <2>2. station.window + 2 * station.lag <= Cap
    BY <2>1 DEF TypeOK
  <2>3. station.window <= Cap
    <3>1. station.window \in Nat /\ station.lag \in Nat /\ Cap \in Nat
      BY <2>1, OncePlace, StreamAssumption
    <3>. QED BY <2>2, <3>1
  <2>. QED BY <2>1, <2>2, <2>3, FairlyOrderedStep, OnceStep
<1>4. Inv /\ [Next]_vars => [Feed!Next]_<<heard, NeverGoesBack, pc = "ended">>
  BY FeedStep
<1>. QED BY <1>1, <1>2, <1>3, <1>4, PTL DEF Spec, ImplementsFeed, Feed!Spec
=============================================================================
