---------------------------- MODULE FindingProofs ----------------------------
(***************************************************************************)
(* Proofs about Finding, for any number of clients, any answers of TuneIn, *)
(* any announcements and any capacity of the channel.                      *)
(***************************************************************************)
EXTENDS Finding, FiniteSetTheorems, SequenceTheorems, TLAPS

-----------------------------------------------------------------------------
(* The inductive invariants.                                               *)

\* What a search or a discovery may answer with.
Links(body) == {body[n].link : n \in DOMAIN body} \cup {body[n].stream : n \in DOMAIN body}
Answers == Announcements \cup UNION {Links(body) : body \in Bodies}

RequestType == [pc : {"idle", "searching", "waiting", "done", "error"},
                body : Bodies \cup {<<>>}, at : Nat \ {0}, found : Seq(Answers),
                missed : SUBSET Nat, gone : BOOLEAN]
FlightType == [pc : {"none", "starting", "browsing"}, leader : Clients \cup {Nothing},
               found : Seq(Announcements)]

Typed ==
  /\ request \in [Clients -> RequestType] /\ flight \in FlightType
  /\ \A r \in Clients : request[r].at <= Len(request[r].body) + 1
  /\ expired \in BOOLEAN
  /\ entries \in Seq(Announcements) /\ Len(entries) <= Capacity
  /\ announced \in Seq(Announcements) /\ Len(announced) <= MaxAnnounced

\* Requests wait only for a discovery under way; its leader is one of them.
Waits ==
  /\ IF flight.pc = "none" THEN flight = NoFlight ELSE flight.leader \in Clients
  /\ \A r \in Clients : /\ request[r].pc = "waiting" => flight.pc # "none"
                        /\ flight.leader = r => request[r].pc = "waiting"

\* How many announcements have been received: the channel holds the rest.
Taken == Len(announced) - Len(entries)

Queued ==
  /\ ~Browsing => flight.found = <<>> /\ entries = <<>> /\ announced = <<>>
  /\ Len(entries) <= Len(announced)
  /\ \A k \in 1 .. Len(entries) : entries[k] = announced[Taken + k]

\* The list and the announcements that were received.
Listed ==
  /\ Addresses(flight.found) = {announced[m].ip : m \in 1 .. Taken} \ {Nothing}
  /\ IsFiniteSet(Addresses(flight.found))
  /\ Len(flight.found) = Cardinality(Addresses(flight.found))
  /\ \A k \in DOMAIN flight.found : \E n \in 1 .. Taken :
       /\ flight.found[k] = announced[n]
       /\ \A m \in 1 .. n - 1 : announced[m].ip # announced[n].ip

\* The audio items before the one the loop is at.
KeptBefore(body, at) == {n \in DOMAIN body : Kept(body[n]) /\ n < at}

\* What the loop has made of them.
Searched(q) ==
  LET kept == KeptBefore(q.body, q.at)
  IN  /\ Len(q.found) = Cardinality(kept)
      /\ q.missed \subseteq 1 .. q.at - 1
      /\ \A n \in kept :
           q.found[Cardinality({m \in kept : m <= n})] =
             IF n \in q.missed \/ q.body[n].stream = Nothing
             THEN q.body[n].link ELSE q.body[n].stream

Searches ==
  \A r \in Clients :
    /\ request[r].pc = "searching" => Searched(request[r])
    /\ request[r].pc = "done" /\ request[r].body # <<>> =>
         Searched(request[r]) /\ request[r].at = Len(request[r].body) + 1

FindingInv == Typed /\ Waits /\ Queued /\ Listed /\ Searches

-----------------------------------------------------------------------------
(* What TuneIn answers, and the items of it that are kept.                 *)

LEMMA BodyItems ==
  ASSUME NEW body \in Bodies \cup {<<>>}
  PROVE  /\ Len(body) \in Nat /\ DOMAIN body = 1 .. Len(body)
         /\ \A n \in DOMAIN body : body[n].link \in Answers /\ body[n].stream \in Answers
<1>1. CASE body = <<>>
  BY <1>1
<1>2. CASE body \in Bodies
  <2>. DEFINE S == {body[n] : n \in DOMAIN body}
  <2>1. body \in Seq(S)
    BY <1>2, FindingAssumption
  <2>. HIDE DEF S
  <2>2. Len(body) \in Nat /\ DOMAIN body = 1 .. Len(body)
    BY <2>1, LenProperties
  <2>3. \A n \in DOMAIN body : body[n].link \in Links(body) /\ body[n].stream \in Links(body)
    BY DEF Links
  <2>4. Links(body) \subseteq Answers
    BY <1>2 DEF Answers
  <2>. QED BY <2>2, <2>3, <2>4
<1>. QED BY <1>1, <1>2

LEMMA KeptFinite ==
  ASSUME NEW body \in Bodies \cup {<<>>}, NEW at \in Nat
  PROVE  IsFiniteSet(KeptBefore(body, at))
<1>1. KeptBefore(body, at) \in SUBSET (1 .. Len(body)) /\ Len(body) \in Nat
  BY BodyItems DEF KeptBefore
<1>2. IsFiniteSet(1 .. Len(body))
  BY <1>1, FS_Interval
<1>. QED BY <1>1, <1>2, FS_Subset

\* The loop goes on by one item.
LEMMA KeptStep ==
  ASSUME NEW body \in Bodies \cup {<<>>}, NEW at \in 1 .. Len(body)
  PROVE  KeptBefore(body, at + 1) =
           KeptBefore(body, at) \cup (IF Kept(body[at]) THEN {at} ELSE {})
<1>1. Len(body) \in Nat /\ DOMAIN body = 1 .. Len(body)
  BY BodyItems
<1>2. ASSUME NEW n \in 1 .. Len(body) PROVE n < at + 1 <=> n < at \/ n = at
  BY <1>1
<1>. QED BY <1>1, <1>2 DEF KeptBefore

\* The place of a kept item in the answer.
LEMMA KeptPlace ==
  ASSUME NEW body \in Bodies \cup {<<>>}, NEW at \in Nat,
         NEW n \in KeptBefore(body, at)
  PROVE  Cardinality({m \in KeptBefore(body, at) : m <= n}) \in
           1 .. Cardinality(KeptBefore(body, at))
<1>. DEFINE kept == KeptBefore(body, at)
            upTo == {m \in kept : m <= n}
<1>1. IsFiniteSet(kept) /\ upTo \in SUBSET kept
  BY KeptFinite
<1>2. n \in upTo
  BY BodyItems DEF KeptBefore
<1>. HIDE DEF kept, upTo
<1>3. /\ IsFiniteSet(upTo) /\ Cardinality(upTo) <= Cardinality(kept)
      /\ Cardinality(upTo) \in Nat /\ Cardinality(kept) \in Nat
  BY <1>1, FS_Subset, FS_CardinalityType
<1>4. Cardinality(upTo) # 0
  BY <1>2, <1>3, FS_EmptySet
<1>5. Cardinality(upTo) \in 1 .. Cardinality(kept)
  BY <1>3, <1>4
<1>. QED BY <1>5 DEF kept, upTo

\* An item is resolved: it comes last.
LEMMA ResolvedLast ==
  ASSUME NEW q \in RequestType, NEW x \in Answers, NEW p,
         q.at \in 1 .. Len(q.body), Searched(q), Kept(q.body[q.at]),
         p.body = q.body, p.at = q.at + 1, p.found = Append(q.found, x),
         p.missed \in {q.missed, q.missed \cup {q.at}},
         x = IF q.at \in p.missed \/ q.body[q.at].stream = Nothing
             THEN q.body[q.at].link ELSE q.body[q.at].stream
  PROVE  Searched(p)
<1>. DEFINE body == q.body
            at == q.at
            kept == KeptBefore(body, at)
            next == KeptBefore(body, at + 1)
            size == Cardinality(kept)
            Upto(n) == {m \in kept : m <= n}
            Chosen(n, missed) == IF n \in missed \/ body[n].stream = Nothing
                                 THEN body[n].link ELSE body[n].stream
<1>1. /\ body \in Bodies \cup {<<>>} /\ at \in Nat \ {0} /\ q.found \in Seq(Answers)
      /\ Len(body) \in Nat /\ DOMAIN body = 1 .. Len(body)
  BY BodyItems DEF RequestType
<1>2. /\ Len(q.found) = size /\ q.missed \subseteq 1 .. at - 1
      /\ \A n \in kept : q.found[Cardinality(Upto(n))] = Chosen(n, q.missed)
  BY DEF Searched
<1>3. next = kept \cup {at} /\ at \notin kept /\ kept \subseteq 1 .. at - 1
  <2>1. next = kept \cup {at}
    BY <1>1, KeptStep
  <2>. QED BY <1>1, <2>1 DEF KeptBefore
<1>4. IsFiniteSet(kept) /\ size \in Nat
  BY <1>1, KeptFinite, FS_CardinalityType
<1>5. \A n \in kept : Cardinality(Upto(n)) \in 1 .. size
  BY <1>1, KeptPlace
<1>. HIDE DEF kept, next, Chosen, body, at
<1>6. Cardinality(next) = size + 1
  BY <1>3, <1>4, FS_AddElement
<1>. HIDE DEF size
<1>7. /\ Len(p.found) = size + 1 /\ p.found[size + 1] = x
      /\ \A k \in 1 .. size : p.found[k] = q.found[k]
  <2>. DEFINE f == q.found
  <2>1. f \in Seq(Answers) /\ Len(f) = size /\ p.found = Append(f, x)
    BY <1>1, <1>2
  <2>. HIDE DEF f
  <2>2. /\ Len(Append(f, x)) = Len(f) + 1 /\ Append(f, x)[Len(f) + 1] = x
        /\ \A k \in 1 .. Len(f) : Append(f, x)[k] = f[k]
    BY <2>1, AppendProperties
  <2>3. /\ Len(p.found) = size + 1 /\ p.found[size + 1] = x
        /\ \A k \in 1 .. size : p.found[k] = f[k]
    BY <2>1, <2>2
  <2>. QED BY <2>3 DEF f
<1>8. p.missed \subseteq 1 .. (at + 1) - 1
  BY <1>1, <1>2 DEF at
<1>9. ASSUME NEW n \in next
      PROVE  p.found[Cardinality({m \in next : m <= n})] = Chosen(n, p.missed)
  <2>1. CASE n = at
    <3>1. {m \in next : m <= n} = next
      <4>1. \A m \in next : m <= n
        BY <1>1, <1>3, <2>1
      <4>. QED BY <4>1
    <3>2. Chosen(at, p.missed) = x
      BY DEF Chosen, at, body
    <3>. QED BY <1>6, <1>7, <2>1, <3>1, <3>2
  <2>2. CASE n \in kept
    <3>1. {m \in next : m <= n} = Upto(n)
      BY <1>1, <1>3, <2>2
    <3>2. p.found[Cardinality(Upto(n))] = Chosen(n, q.missed)
      BY <1>2, <1>5, <1>7, <2>2
    <3>3. n # at /\ (n \in p.missed <=> n \in q.missed)
      BY <1>3, <2>2 DEF at
    <3>. QED BY <3>1, <3>2, <3>3 DEF Chosen
  <2>. QED BY <1>3, <2>1, <2>2
<1>10. KeptBefore(p.body, p.at) = next /\ p.body = body /\ p.at = at + 1
  BY DEF next, body, at
<1>. QED BY <1>6, <1>7, <1>8, <1>9, <1>10 DEF Searched, Chosen

-----------------------------------------------------------------------------
(* The steps of one request that leave the discovery alone.                *)

LEMMA FindingInit == Init => FindingInv
<1>. SUFFICES ASSUME Init PROVE FindingInv
  OBVIOUS
<1>1. /\ request = [r \in Clients |-> Unasked] /\ flight = NoFlight
      /\ expired = FALSE /\ entries = <<>> /\ announced = <<>>
      /\ Nothing \notin Clients /\ Capacity \in Nat /\ MaxAnnounced \in Nat
  BY FindingAssumption DEF Init
<1>2. /\ Unasked \in RequestType /\ Unasked.pc = "idle" /\ Unasked.at = 1 /\ Unasked.body = <<>>
      /\ NoFlight \in FlightType /\ NoFlight.pc = "none" /\ NoFlight.leader = Nothing
      /\ NoFlight.found = <<>>
  BY DEF Unasked, NoFlight, RequestType, FlightType
<1>3. Typed
  <2>1. request \in [Clients -> RequestType] /\ flight \in FlightType
    BY <1>1, <1>2
  <2>2. \A r \in Clients : request[r].at <= Len(request[r].body) + 1
    BY <1>1, <1>2
  <2>3. /\ entries \in Seq(Announcements) /\ announced \in Seq(Announcements)
        /\ Len(entries) = 0 /\ Len(announced) = 0
    BY <1>1
  <2>4. Len(entries) <= Capacity /\ Len(announced) <= MaxAnnounced
    BY <1>1, <2>3
  <2>5. expired \in BOOLEAN
    BY <1>1
  <2>. QED BY <2>1, <2>2, <2>3, <2>4, <2>5 DEF Typed
<1>4. Waits
  BY <1>1, <1>2 DEF Waits
<1>5. Queued
  BY <1>1, <1>2 DEF Queued
<1>6. Listed
  <2>1. Taken = 0 /\ Addresses(flight.found) = {} /\ DOMAIN flight.found = {}
    BY <1>1, <1>2 DEF Taken, Addresses
  <2>2. Len(flight.found) = 0 /\ 1 .. 0 = {}
    BY <1>1, <1>2
  <2>3. IsFiniteSet({}) /\ Cardinality({}) = 0
    BY FS_EmptySet
  <2>. QED BY <2>1, <2>2, <2>3 DEF Listed
<1>7. Searches
  BY <1>1, <1>2 DEF Searches
<1>. QED BY <1>3, <1>4, <1>5, <1>6, <1>7 DEF FindingInv

\* What has been announced and listed is not touched by a step that leaves it alone.
LEMMA LanKept ==
  ASSUME Queued, Listed, UNCHANGED <<flight, entries, announced>>
  PROVE  Queued' /\ Listed'
<1>1. UNCHANGED <<Taken, Browsing>>
  BY DEF Taken, Browsing
<1>2. UNCHANGED Addresses(flight.found)
  BY <1>1 DEF Addresses
<1>3. Queued'
  BY <1>1 DEF Queued
<1>4. /\ (Addresses(flight.found) = {announced[m].ip : m \in 1 .. Taken} \ {Nothing})'
      /\ (IsFiniteSet(Addresses(flight.found)))'
      /\ (Len(flight.found) = Cardinality(Addresses(flight.found)))'
  BY <1>1, <1>2 DEF Listed
<1>5. (\A k \in DOMAIN flight.found : \E n \in 1 .. Taken :
         /\ flight.found[k] = announced[n]
         /\ \A m \in 1 .. n - 1 : announced[m].ip # announced[n].ip)'
  BY <1>1 DEF Listed
<1>. QED BY <1>3, <1>4, <1>5 DEF Listed

LEMMA OneRequestMoves ==
  ASSUME FindingInv, NEW r \in Clients, NEW q \in RequestType, UNCHANGED lan,
         request' = [request EXCEPT ![r] = q], q.at <= Len(q.body) + 1,
         q.pc = "waiting" <=> request[r].pc = "waiting",
         q.pc = "searching" => Searched(q),
         q.pc = "done" /\ q.body # <<>> => Searched(q) /\ q.at = Len(q.body) + 1
  PROVE  FindingInv'
<1>1. /\ Typed /\ Waits /\ Queued /\ Listed /\ Searches /\ request \in [Clients -> RequestType]
      /\ UNCHANGED <<flight, expired, entries, announced>>
  BY DEF FindingInv, Typed, lan
<1>2. /\ request' \in [Clients -> RequestType] /\ request'[r] = q
      /\ \A s \in Clients : s # r => request'[s] = request[s]
  BY <1>1
<1>3. Typed'
  BY <1>1, <1>2 DEF Typed
<1>4. Waits'
  BY <1>1, <1>2 DEF Waits
<1>5. Searches'
  <2>. SUFFICES ASSUME NEW s \in Clients
                PROVE  /\ request'[s].pc = "searching" => Searched(request'[s])
                       /\ request'[s].pc = "done" /\ request'[s].body # <<>> =>
                            /\ Searched(request'[s])
                            /\ request'[s].at = Len(request'[s].body) + 1
    BY DEF Searches, Searched, KeptBefore, Kept
  <2>1. CASE s = r
    BY <1>2, <2>1
  <2>2. CASE s # r
    BY <1>1, <1>2, <2>2 DEF Searches
  <2>. QED BY <2>1, <2>2
<1>. QED BY <1>1, <1>3, <1>4, <1>5, LanKept DEF FindingInv

\* A request that has yet to look at its first item.
LEMMA NothingSearched ==
  ASSUME NEW q, q.body \in Bodies \cup {<<>>}, q.at = 1, q.found = <<>>, q.missed = {}
  PROVE  Searched(q)
<1>1. KeptBefore(q.body, q.at) = {}
  BY BodyItems DEF KeptBefore
<1>. QED BY <1>1, FS_EmptySet DEF Searched

LEMMA SearchKeepsInv ==
  ASSUME FindingInv, NEW r \in Clients, Search(r)
  PROVE  FindingInv'
<1>1. request[r].pc # "waiting" /\ UNCHANGED lan
  BY DEF Search, Free
<1>2. /\ Unasked \in RequestType /\ Unasked.at = 1 /\ Unasked.body = <<>>
      /\ Unasked.found = <<>> /\ Unasked.missed = {}
  BY DEF Unasked, RequestType
<1>3. ASSUME NEW body \in Bodies,
             request' = [request EXCEPT ![r] = [Unasked EXCEPT !.pc = "searching", !.body = body]]
      PROVE  FindingInv'
  <2>. DEFINE q == [Unasked EXCEPT !.pc = "searching", !.body = body]
  <2>1. /\ q \in RequestType /\ q.pc = "searching" /\ q.at = 1 /\ q.body = body
        /\ q.found = <<>> /\ q.missed = {}
    BY <1>2 DEF RequestType
  <2>2. Len(body) \in Nat
    BY BodyItems
  <2>3. request' = [request EXCEPT ![r] = q]
    BY <1>3
  <2>. HIDE DEF q
  <2>4. Searched(q) /\ q.at <= Len(q.body) + 1
    BY <2>1, <2>2, NothingSearched
  <2>. QED BY <1>1, <2>1, <2>3, <2>4, OneRequestMoves
<1>4. CASE request' = [request EXCEPT ![r] = [Unasked EXCEPT !.pc = "error"]]
  <2>. DEFINE q == [Unasked EXCEPT !.pc = "error"]
  <2>1. q \in RequestType /\ q.pc = "error" /\ q.at = 1 /\ q.body = <<>>
    BY <1>2 DEF RequestType
  <2>2. request' = [request EXCEPT ![r] = q]
    BY <1>4
  <2>. HIDE DEF q
  <2>3. q.at <= Len(q.body) + 1
    BY <2>1
  <2>. QED BY <1>1, <2>1, <2>2, <2>3, OneRequestMoves
<1>. QED BY <1>3, <1>4 DEF Search

LEMMA HangUpKeepsInv ==
  ASSUME FindingInv, NEW r \in Clients, HangUp(r)
  PROVE  FindingInv'
<1>. DEFINE q == [request[r] EXCEPT !.gone = TRUE]
<1>1. /\ request[r] \in RequestType /\ request[r].at <= Len(request[r].body) + 1
      /\ request \in [Clients -> RequestType]
  BY DEF FindingInv, Typed
<1>2. request[r].pc = "waiting" /\ UNCHANGED lan /\ request' = [request EXCEPT ![r] = q]
  BY <1>1 DEF HangUp
<1>3. q \in RequestType /\ q.pc = "waiting" /\ q.at = request[r].at /\ q.body = request[r].body
  BY <1>1, <1>2 DEF RequestType
<1>. HIDE DEF q
<1>. QED BY <1>1, <1>2, <1>3, OneRequestMoves

LEMMA HandlerKeepsInv ==
  ASSUME FindingInv, NEW r \in Clients, Handler(r)
  PROVE  FindingInv'
<1>. DEFINE o == request[r]
<1>1. /\ o \in RequestType /\ o.body \in Bodies \cup {<<>>} /\ o.at \in Nat \ {0}
      /\ o.at <= Len(o.body) + 1 /\ request \in [Clients -> RequestType]
  BY DEF FindingInv, Typed, RequestType
<1>2. /\ o.pc = "searching" /\ UNCHANGED lan /\ Searched(o) /\ Len(o.body) \in Nat
  BY <1>1, BodyItems DEF Handler, SkipItem, ResolveItem, SearchAnswered, AtItem, FindingInv, Searches
<1>3. CASE SkipItem(r)
  <2>. DEFINE q == [o EXCEPT !.at = @ + 1]
  <2>1. /\ o.at \in 1 .. Len(o.body) /\ ~Kept(o.body[o.at])
        /\ request' = [request EXCEPT ![r] = q]
    BY <1>1, <1>2, <1>3 DEF SkipItem, AtItem, Current
  <2>2. /\ q \in RequestType /\ q.pc = "searching" /\ q.at = o.at + 1 /\ q.body = o.body
        /\ q.found = o.found /\ q.missed = o.missed
    <3>1. o.at + 1 \in Nat \ {0}
      BY <1>1
    <3>. HIDE DEF o
    <3>. QED BY <1>1, <1>2, <3>1 DEF RequestType
  <2>. HIDE DEF q, o
  <2>3. KeptBefore(q.body, q.at) = KeptBefore(o.body, o.at)
    BY <1>1, <2>1, <2>2, KeptStep
  <2>4. q.at <= Len(q.body) + 1
    BY <1>2, <2>1, <2>2
  <2>5. q.missed \subseteq 1 .. q.at - 1
    <3>1. o.missed \subseteq 1 .. o.at - 1
      BY <1>2 DEF Searched
    <3>. QED BY <1>1, <2>2, <3>1
  <2>6. Searched(q)
    BY <1>2, <2>2, <2>3, <2>5 DEF Searched
  <2>7. q.pc = "waiting" <=> request[r].pc = "waiting"
    BY <1>2, <2>2 DEF o
  <2>. QED BY <1>2, <2>1, <2>2, <2>4, <2>6, <2>7, OneRequestMoves
<1>4. CASE ResolveItem(r)
  <2>1. o.at \in 1 .. Len(o.body) /\ Kept(o.body[o.at])
    BY <1>1, <1>2, <1>4 DEF ResolveItem, AtItem, Current
  <2>2. PICK answered \in BOOLEAN :
          request' = [request EXCEPT ![r].at = @ + 1,
                        ![r].found = Append(@, StreamOf(Current(r), answered)),
                        ![r].missed = IF answered THEN @ ELSE @ \cup {request[r].at}]
    BY <1>4 DEF ResolveItem
  <2>. DEFINE x == StreamOf(o.body[o.at], answered)
              missed == IF answered THEN o.missed ELSE o.missed \cup {o.at}
              q == [o EXCEPT !.at = @ + 1, !.found = Append(@, x), !.missed = missed]
  <2>3. request' = [request EXCEPT ![r] = q]
    BY <1>1, <2>2 DEF Current
  <2>4. x \in Answers
    BY <1>1, <2>1, BodyItems DEF StreamOf
  <2>5. o.missed \subseteq 1 .. o.at - 1
    BY <1>2 DEF Searched
  <2>6. x = IF o.at \in missed \/ o.body[o.at].stream = Nothing
            THEN o.body[o.at].link ELSE o.body[o.at].stream
    <3>1. o.at \in missed <=> ~answered
      BY <1>1, <2>5
    <3>. QED BY <3>1 DEF StreamOf
  <2>7. missed \in SUBSET Nat /\ missed \in {o.missed, o.missed \cup {o.at}}
    BY <1>1 DEF RequestType
  <2>. HIDE DEF x, missed
  <2>8. o.found \in Seq(Answers) /\ Append(o.found, x) \in Seq(Answers)
    BY <1>1, <2>4 DEF RequestType
  <2>9. /\ q \in RequestType /\ q.pc = "searching" /\ q.at = o.at + 1 /\ q.body = o.body
        /\ q.found = Append(o.found, x) /\ q.missed = missed
    <3>1. o.at + 1 \in Nat \ {0}
      BY <1>1
    <3>. HIDE DEF o
    <3>. QED BY <1>1, <1>2, <2>7, <2>8, <3>1 DEF RequestType
  <2>. HIDE DEF q, o
  <2>10. Searched(q)
    BY <1>1, <1>2, <2>1, <2>4, <2>6, <2>7, <2>9, ResolvedLast
  <2>11. q.at <= Len(q.body) + 1
    BY <1>2, <2>1, <2>9
  <2>12. q.pc = "waiting" <=> request[r].pc = "waiting"
    BY <1>2, <2>9 DEF o
  <2>. QED BY <1>2, <2>3, <2>9, <2>10, <2>11, <2>12, OneRequestMoves
<1>5. CASE SearchAnswered(r)
  <2>. DEFINE q == [o EXCEPT !.pc = "done"]
  <2>1. o.at = Len(o.body) + 1 /\ request' = [request EXCEPT ![r] = q]
    BY <1>1, <1>2, <1>5 DEF SearchAnswered, AtItem
  <2>2. /\ q \in RequestType /\ q.pc = "done" /\ q.at = o.at /\ q.body = o.body
        /\ q.found = o.found /\ q.missed = o.missed
    BY <1>1 DEF RequestType
  <2>. HIDE DEF q
  <2>3. Searched(q)
    BY <1>2, <2>2 DEF Searched
  <2>4. q.pc = "waiting" <=> request[r].pc = "waiting"
    BY <1>2, <2>2
  <2>. HIDE DEF o
  <2>. QED BY <1>1, <1>2, <2>1, <2>2, <2>3, <2>4, OneRequestMoves
<1>. QED BY <1>3, <1>4, <1>5 DEF Handler

-----------------------------------------------------------------------------
(* The discovery.                                                          *)

\* What is listed of the announcements before any has been made.
LEMMA NothingListed ==
  ASSUME flight.found = <<>>, entries = <<>>, announced = <<>>
  PROVE  Queued /\ Listed
<1>1. Len(entries) = 0 /\ Len(announced) = 0 /\ Taken = 0 /\ 1 .. 0 = {}
  BY DEF Taken
<1>2. Addresses(flight.found) = {} /\ DOMAIN flight.found = {} /\ Len(flight.found) = 0
  BY DEF Addresses
<1>3. IsFiniteSet({}) /\ Cardinality({}) = 0
  BY FS_EmptySet
<1>4. Queued
  BY <1>1 DEF Queued
<1>5. Listed
  BY <1>1, <1>2, <1>3 DEF Listed
<1>. QED BY <1>4, <1>5

\* A discovery's answer is a list of announcements.
LEMMA FoundAreAnswers == Seq(Announcements) \subseteq Seq(Answers)
<1>1. Announcements \subseteq Answers
  BY DEF Answers
<1>. QED BY <1>1

LEMMA DiscoverKeepsInv ==
  ASSUME FindingInv, NEW r \in Clients, Discover(r)
  PROVE  FindingInv'
<1>. DEFINE q == [Unasked EXCEPT !.pc = "waiting"]
<1>1. /\ Typed /\ Waits /\ Queued /\ Listed /\ Searches /\ request \in [Clients -> RequestType]
      /\ Nothing \notin Clients
  BY FindingAssumption DEF FindingInv, Typed
<1>2. /\ request' = [request EXCEPT ![r] = q] /\ request[r].pc # "waiting"
      /\ UNCHANGED <<expired, entries, announced>>
      /\ flight' = IF flight = NoFlight
                   THEN [NoFlight EXCEPT !.pc = "starting", !.leader = r] ELSE flight
  BY DEF Discover, Free
<1>3. q \in RequestType /\ q.pc = "waiting" /\ q.at <= Len(q.body) + 1
  <2>1. /\ Unasked \in RequestType /\ Unasked.at = 1 /\ Unasked.body = <<>>
    BY DEF Unasked, RequestType
  <2>2. q \in RequestType /\ q.pc = "waiting" /\ q.at = 1 /\ q.body = <<>>
    BY <2>1 DEF RequestType
  <2>. HIDE DEF q
  <2>. QED BY <2>2
<1>. HIDE DEF q
<1>4. /\ request' \in [Clients -> RequestType] /\ request'[r] = q
      /\ \A s \in Clients : s # r => request'[s] = request[s]
  BY <1>1, <1>2, <1>3
<1>5. /\ NoFlight \in FlightType /\ NoFlight.pc = "none" /\ NoFlight.leader = Nothing
      /\ NoFlight.found = <<>>
  BY DEF NoFlight, FlightType
<1>6. Searches'
  <2>. SUFFICES ASSUME NEW s \in Clients
                PROVE  /\ request'[s].pc = "searching" => Searched(request'[s])
                       /\ request'[s].pc = "done" /\ request'[s].body # <<>> =>
                            /\ Searched(request'[s])
                            /\ request'[s].at = Len(request'[s].body) + 1
    BY DEF Searches, Searched, KeptBefore, Kept
  <2>1. CASE s = r
    BY <1>3, <1>4, <2>1
  <2>2. CASE s # r
    BY <1>1, <1>4, <2>2 DEF Searches
  <2>. QED BY <2>1, <2>2
<1>7. CASE flight = NoFlight
  <2>1. /\ flight' \in FlightType /\ flight'.pc = "starting" /\ flight'.leader = r
        /\ flight'.found = <<>>
    BY <1>2, <1>5, <1>7 DEF FlightType
  <2>2. Typed'
    BY <1>1, <1>2, <1>3, <1>4, <2>1 DEF Typed
  <2>3. Waits'
    BY <1>1, <1>3, <1>4, <2>1 DEF Waits
  <2>4. entries' = <<>> /\ announced' = <<>>
    BY <1>1, <1>2, <1>5, <1>7 DEF Queued, Browsing
  <2>5. Queued' /\ Listed'
    <3>1. (flight.found = <<>> /\ entries = <<>> /\ announced = <<>> => Queued /\ Listed)'
      BY NothingListed, PTL
    <3>. QED BY <2>1, <2>4, <3>1
  <2>. QED BY <1>6, <2>2, <2>3, <2>5 DEF FindingInv
<1>8. CASE flight # NoFlight
  <2>1. UNCHANGED <<flight, entries, announced>>
    BY <1>2, <1>8
  <2>2. Typed'
    BY <1>1, <1>2, <1>3, <1>4, <2>1 DEF Typed
  <2>3. flight.pc # "none" /\ flight.leader # r
    BY <1>1, <1>2, <1>8 DEF Waits
  <2>4. Waits'
    BY <1>1, <1>3, <1>4, <2>1, <2>3 DEF Waits
  <2>. QED BY <1>1, <1>6, <2>1, <2>2, <2>4, LanKept DEF FindingInv
<1>. QED BY <1>7, <1>8

\* Everybody who waits is answered and the next discovery starts afresh.
LEMMA DeliverKeepsInv ==
  ASSUME FindingInv, NEW pc \in {"done", "error"}, Deliver(pc)
  PROVE  FindingInv'
<1>. DEFINE q == [Unasked EXCEPT !.pc = pc, !.found = flight.found]
<1>1. /\ Typed /\ Waits /\ Queued /\ Listed /\ Searches /\ request \in [Clients -> RequestType]
      /\ Nothing \notin Clients /\ Capacity \in Nat /\ MaxAnnounced \in Nat
  BY FindingAssumption DEF FindingInv, Typed
<1>2. /\ request' = [r \in Clients |-> IF request[r].pc = "waiting" THEN q ELSE request[r]]
      /\ flight' = NoFlight /\ expired' = FALSE /\ entries' = <<>> /\ announced' = <<>>
  BY DEF Deliver
<1>3. /\ q \in RequestType /\ q.pc = pc /\ q.body = <<>> /\ q.at = 1
  <2>1. /\ Unasked \in RequestType /\ Unasked.at = 1 /\ Unasked.body = <<>>
    BY DEF Unasked, RequestType
  <2>2. flight.found \in Seq(Answers)
    BY <1>1, FoundAreAnswers DEF Typed, FlightType
  <2>. QED BY <2>1, <2>2 DEF RequestType
<1>. HIDE DEF q
<1>4. /\ NoFlight \in FlightType /\ NoFlight.pc = "none" /\ NoFlight.leader = Nothing
      /\ NoFlight.found = <<>>
  BY DEF NoFlight, FlightType
<1>5. /\ request' \in [Clients -> RequestType]
      /\ \A r \in Clients : request'[r] = IF request[r].pc = "waiting" THEN q ELSE request[r]
  BY <1>1, <1>2, <1>3
<1>6. Typed'
  <2>1. Len(entries') = 0 /\ Len(announced') = 0
    BY <1>2
  <2>2. Len(entries') <= Capacity /\ Len(announced') <= MaxAnnounced
    BY <1>1, <2>1
  <2>3. entries' \in Seq(Announcements) /\ announced' \in Seq(Announcements)
    BY <1>2
  <2>4. \A r \in Clients : request'[r].at <= Len(request'[r].body) + 1
    <3>1. q.at <= Len(q.body) + 1
      BY <1>3
    <3>. QED BY <1>1, <1>5, <3>1 DEF Typed
  <2>. QED BY <1>2, <1>4, <1>5, <2>2, <2>3, <2>4 DEF Typed
<1>7. Waits'
  BY <1>1, <1>2, <1>3, <1>4, <1>5 DEF Waits
<1>8. Queued' /\ Listed'
  <2>1. (flight.found = <<>> /\ entries = <<>> /\ announced = <<>> => Queued /\ Listed)'
    BY NothingListed, PTL
  <2>. QED BY <1>2, <1>4, <2>1
<1>9. Searches'
  <2>. SUFFICES ASSUME NEW s \in Clients
                PROVE  /\ request'[s].pc = "searching" => Searched(request'[s])
                       /\ request'[s].pc = "done" /\ request'[s].body # <<>> =>
                            /\ Searched(request'[s])
                            /\ request'[s].at = Len(request'[s].body) + 1
    BY DEF Searches, Searched, KeptBefore, Kept
  <2>1. CASE request[s].pc = "waiting"
    BY <1>3, <1>5, <2>1
  <2>2. CASE request[s].pc # "waiting"
    BY <1>1, <1>5, <2>2 DEF Searches
  <2>. QED BY <2>1, <2>2
<1>. QED BY <1>6, <1>7, <1>8, <1>9 DEF FindingInv

\* A step of the discovery or the LAN leaves the requests alone.
LEMMA RequestsKept ==
  ASSUME FindingInv, UNCHANGED request, flight' \in FlightType,
         flight'.leader = flight.leader, flight.pc # "none", flight'.pc # "none"
  PROVE  Waits' /\ Searches'
<1>1. Waits'
  BY DEF FindingInv, Waits
<1>2. Searches'
  BY DEF FindingInv, Searches
<1>. QED BY <1>1, <1>2

LEMMA BrowseKeepsInv ==
  ASSUME FindingInv, Browse
  PROVE  FindingInv'
<1>1. CASE Deliver("error")
  BY <1>1, DeliverKeepsInv
<1>2. CASE /\ flight.pc = "starting" /\ flight' = [flight EXCEPT !.pc = "browsing"]
           /\ UNCHANGED <<request, expired, entries, announced>>
  <2>1. Typed /\ Queued /\ flight \in FlightType
    BY DEF FindingInv, Typed
  <2>2. /\ flight' \in FlightType /\ flight'.pc = "browsing" /\ flight'.leader = flight.leader
        /\ flight'.found = <<>> /\ entries' = <<>> /\ announced' = <<>>
    BY <1>2, <2>1 DEF FlightType, Queued, Browsing
  <2>3. Typed'
    BY <1>2, <2>1, <2>2 DEF Typed
  <2>4. Queued' /\ Listed'
    <3>1. (flight.found = <<>> /\ entries = <<>> /\ announced = <<>> => Queued /\ Listed)'
      BY NothingListed, PTL
    <3>. QED BY <2>2, <3>1
  <2>. QED BY <1>2, <2>2, <2>3, <2>4, RequestsKept DEF FindingInv
<1>. QED BY <1>1, <1>2 DEF Browse

LEMMA ExpireKeepsInv ==
  ASSUME FindingInv, Expire
  PROVE  FindingInv'
<1>1. /\ expired' = TRUE /\ UNCHANGED <<request, flight, entries, announced>>
      /\ flight.pc = "browsing" /\ flight \in FlightType
  BY DEF Expire, FindingInv, Typed, Browsing
<1>2. Typed'
  BY <1>1 DEF FindingInv, Typed
<1>3. Queued' /\ Listed'
  BY <1>1, LanKept DEF FindingInv
<1>. QED BY <1>1, <1>2, <1>3, RequestsKept DEF FindingInv

LEMMA AnnounceKeepsInv ==
  ASSUME FindingInv, Announce
  PROVE  FindingInv'
<1>1. /\ flight.pc = "browsing" /\ flight \in FlightType /\ UNCHANGED <<request, flight, expired>>
      /\ Typed /\ Queued /\ Listed
      /\ entries \in Seq(Announcements) /\ announced \in Seq(Announcements)
      /\ Len(entries) < Capacity /\ Len(announced) < MaxAnnounced
      /\ Capacity \in Nat /\ MaxAnnounced \in Nat
  BY FindingAssumption DEF Announce, FindingInv, Typed, Browsing
<1>2. PICK a \in Announcements : entries' = Append(entries, a) /\ announced' = Append(announced, a)
  BY DEF Announce
<1>. DEFINE e == Len(entries)
            n == Len(announced)
<1>3. e \in Nat /\ n \in Nat /\ e <= n
  BY <1>1, LenProperties DEF Queued
<1>4. /\ entries' \in Seq(Announcements) /\ Len(entries') = e + 1 /\ entries'[e + 1] = a
      /\ \A k \in 1 .. e : entries'[k] = entries[k]
  BY <1>1, <1>2, AppendProperties
<1>5. /\ announced' \in Seq(Announcements) /\ Len(announced') = n + 1 /\ announced'[n + 1] = a
      /\ \A k \in 1 .. n : announced'[k] = announced[k]
  BY <1>1, <1>2, AppendProperties
<1>6. Taken = n - e /\ Taken' = n - e /\ n - e \in 0 .. n
  <2>1. Taken = n - e
    BY DEF Taken
  <2>2. Taken' = Len(announced') - Len(entries')
    BY DEF Taken
  <2>. HIDE DEF e, n
  <2>3. (n + 1) - (e + 1) = n - e /\ n - e \in 0 .. n
    BY <1>3
  <2>. QED BY <1>4, <1>5, <2>1, <2>2, <2>3
<1>. HIDE DEF e, n
<1>7. Typed'
  <2>1. e + 1 <= Capacity /\ n + 1 <= MaxAnnounced
    BY <1>1, <1>3 DEF e, n
  <2>2. Len(entries') <= Capacity /\ Len(announced') <= MaxAnnounced
    BY <1>4, <1>5, <2>1
  <2>. QED BY <1>1, <1>4, <1>5, <2>2 DEF Typed
<1>8. Queued'
  <2>1. \A k \in 1 .. e : entries[k] = announced[(n - e) + k]
    BY <1>1, <1>6 DEF Queued, e
  <2>2. ASSUME NEW k \in 1 .. e + 1 PROVE entries'[k] = announced'[(n - e) + k]
    <3>1. CASE k \in 1 .. e
      <4>1. (n - e) + k \in 1 .. n
        BY <1>3, <3>1
      <4>. QED BY <1>4, <1>5, <2>1, <3>1, <4>1
    <3>2. CASE k = e + 1
      <4>1. (n - e) + k = n + 1
        BY <1>3, <3>2
      <4>. QED BY <1>4, <1>5, <3>2, <4>1
    <3>. QED BY <1>3, <3>1, <3>2
  <2>3. Len(entries') <= Len(announced')
    BY <1>3, <1>4, <1>5
  <2>4. flight'.pc = "browsing"
    BY <1>1
  <2>. QED BY <1>4, <1>6, <2>2, <2>3, <2>4 DEF Queued, Browsing
<1>9. Listed'
  <2>1. \A m \in 1 .. Taken : announced'[m] = announced[m]
    BY <1>3, <1>5, <1>6
  <2>2. (Addresses(flight.found))' = Addresses(flight.found) /\ Taken' = Taken
    BY <1>1, <1>6 DEF Addresses
  <2>3. {announced'[m].ip : m \in 1 .. Taken} = {announced[m].ip : m \in 1 .. Taken}
    BY <2>1
  <2>4. ASSUME NEW k \in DOMAIN flight.found
        PROVE  \E m \in 1 .. Taken : /\ flight.found[k] = announced'[m]
                                     /\ \A j \in 1 .. m - 1 : announced'[j].ip # announced'[m].ip
    <3>1. PICK m \in 1 .. Taken : /\ flight.found[k] = announced[m]
                                  /\ \A j \in 1 .. m - 1 : announced[j].ip # announced[m].ip
      BY <1>1 DEF Listed
    <3>2. \A j \in 1 .. m - 1 : j \in 1 .. Taken
      BY <1>3, <1>6
    <3>. QED BY <2>1, <3>1, <3>2
  <2>. QED BY <1>1, <2>2, <2>3, <2>4 DEF Listed
<1>. QED BY <1>1, <1>7, <1>8, <1>9, RequestsKept DEF FindingInv

\* The address that is appended is the one that is new.
LEMMA AddressesAppend ==
  ASSUME NEW s \in Seq(Announcements), NEW a \in Announcements
  PROVE  Addresses(Append(s, a)) = Addresses(s) \cup {a.ip}
<1>. DEFINE t == Append(s, a)
            n == Len(s)
<1>1. /\ n \in Nat /\ DOMAIN s = 1 .. n /\ DOMAIN t = 1 .. n + 1 /\ t[n + 1] = a
      /\ \A k \in 1 .. n : t[k] = s[k]
  BY AppendProperties, LenProperties
<1>. HIDE DEF t, n
<1>2. Addresses(t) \subseteq Addresses(s) \cup {a.ip}
  <2>. SUFFICES ASSUME NEW k \in 1 .. n + 1 PROVE t[k].ip \in Addresses(s) \cup {a.ip}
    BY <1>1 DEF Addresses
  <2>1. CASE k = n + 1
    BY <1>1, <2>1
  <2>2. CASE k \in 1 .. n
    BY <1>1, <2>2 DEF Addresses
  <2>. QED BY <1>1, <2>1, <2>2
<1>3. Addresses(s) \subseteq Addresses(t)
  <2>1. \A k \in 1 .. n : k \in 1 .. n + 1
    BY <1>1
  <2>. QED BY <1>1, <2>1 DEF Addresses
<1>4. a.ip \in Addresses(t)
  <2>1. n + 1 \in 1 .. n + 1
    BY <1>1
  <2>. QED BY <1>1, <2>1 DEF Addresses
<1>. QED BY <1>2, <1>3, <1>4 DEF t

LEMMA ReceiveKeepsInv ==
  ASSUME FindingInv, Receive
  PROVE  FindingInv'
<1>. DEFINE a == Head(entries)
            e == Len(entries)
            n == Len(announced)
            list == flight.found
            ips(k) == {announced[m].ip : m \in 1 .. k}
<1>1. /\ flight.pc = "browsing" /\ flight \in FlightType
      /\ UNCHANGED <<request, expired, announced>>
      /\ Typed /\ Queued /\ Listed /\ Waits
      /\ entries \in Seq(Announcements) /\ announced \in Seq(Announcements)
      /\ list \in Seq(Announcements)
      /\ entries # <<>> /\ entries' = Tail(entries)
      /\ e <= Capacity /\ n <= MaxAnnounced /\ Capacity \in Nat
  BY FindingAssumption DEF Receive, FindingInv, Typed, FlightType, Browsing
<1>2. /\ a \in Announcements /\ a = entries[1]
      /\ entries' \in Seq(Announcements) /\ Len(entries') = e - 1
      /\ \A k \in 1 .. Len(entries') : entries'[k] = entries[k + 1]
  BY <1>1, HeadTailProperties
<1>3. e \in Nat \ {0} /\ n \in Nat /\ e <= n /\ \A k \in 1 .. e : entries[k] = announced[(n - e) + k]
  <2>1. e \in Nat /\ n \in Nat /\ e # 0
    BY <1>1, LenProperties, EmptySeq
  <2>2. e <= n /\ \A k \in 1 .. e : entries[k] = announced[(n - e) + k]
    BY <1>1 DEF Queued, Taken
  <2>. HIDE DEF e, n
  <2>. QED BY <2>1, <2>2
<1>4. Taken = n - e /\ Taken' = (n - e) + 1
  <2>1. Taken = n - e
    BY DEF Taken
  <2>2. Taken' = n - Len(entries')
    BY <1>1 DEF Taken
  <2>. HIDE DEF e, n
  <2>. QED BY <1>2, <1>3, <2>1, <2>2
<1>5. flight' = IF New(a) THEN [flight EXCEPT !.found = Append(list, a)] ELSE flight
  BY <1>1 DEF Receive
<1>6. /\ flight' \in FlightType /\ flight'.pc = "browsing" /\ flight'.leader = flight.leader
      /\ flight'.found = IF New(a) THEN Append(list, a) ELSE list
  <2>1. Append(list, a) \in Seq(Announcements)
    BY <1>1, <1>2
  <2>. HIDE DEF list, a
  <2>2. CASE New(a)
    BY <1>1, <1>5, <2>1, <2>2 DEF FlightType
  <2>3. CASE ~New(a)
    BY <1>1, <1>5, <2>3 DEF list
  <2>. QED BY <2>2, <2>3
<1>. HIDE DEF e, n, a
<1>7. Typed'
  <2>1. Len(entries') <= Capacity
    BY <1>1, <1>2, <1>3
  <2>. QED BY <1>1, <1>2, <1>6, <2>1 DEF Typed
<1>8. Queued'
  <2>1. ASSUME NEW k \in 1 .. Len(entries') PROVE entries'[k] = announced[((n - e) + 1) + k]
    <3>1. k + 1 \in 1 .. e /\ (n - e) + (k + 1) = ((n - e) + 1) + k
      BY <1>2, <1>3
    <3>. QED BY <1>2, <1>3, <3>1
  <2>2. Len(entries') <= n
    BY <1>2, <1>3
  <2>. QED BY <1>1, <1>4, <1>6, <2>1, <2>2 DEF Queued, Browsing, n
<1>9. Listed'
  <2>. DEFINE t == n - e
  <2>1. t \in Nat /\ announced[t + 1] = a /\ Taken = t /\ Taken' = t + 1
    <3>1. t \in Nat /\ 1 \in 1 .. e
      BY <1>3
    <3>. QED BY <1>2, <1>3, <1>4, <3>1
  <2>. HIDE DEF t
  <2>2. /\ Addresses(list) = ips(t) \ {Nothing} /\ IsFiniteSet(Addresses(list))
        /\ Len(list) = Cardinality(Addresses(list))
        /\ \A k \in DOMAIN list : \E m \in 1 .. t :
             /\ list[k] = announced[m]
             /\ \A j \in 1 .. m - 1 : announced[j].ip # announced[m].ip
    BY <1>1, <2>1 DEF Listed
  <2>3. ips(t + 1) = ips(t) \cup {a.ip}
    <3>1. \A m \in 1 .. t + 1 : m \in 1 .. t \/ m = t + 1
      BY <2>1
    <3>2. t + 1 \in 1 .. t + 1 /\ \A m \in 1 .. t : m \in 1 .. t + 1
      BY <2>1
    <3>. QED BY <2>1, <3>1, <3>2
  <2>. HIDE DEF ips
  <2>4. \A m \in 1 .. t : m \in 1 .. t + 1
    BY <2>1
  <2>5. CASE ~New(a)
    <3>1. flight'.found = list
      BY <1>6, <2>5
    <3>2. ips(t + 1) \ {Nothing} = ips(t) \ {Nothing}
      BY <2>2, <2>3, <2>5 DEF New
    <3>3. /\ Addresses(list) = ips(t + 1) \ {Nothing}
          /\ \A k \in DOMAIN list : \E m \in 1 .. t + 1 :
               /\ list[k] = announced[m]
               /\ \A j \in 1 .. m - 1 : announced[j].ip # announced[m].ip
      BY <2>2, <2>4, <3>2
    <3>4. (Addresses(flight.found))' = Addresses(list)
      BY <3>1 DEF Addresses
    <3>5. ips(t + 1) = {announced'[m].ip : m \in 1 .. Taken'}
      BY <1>1, <2>1 DEF ips
    <3>. HIDE DEF list
    <3>6. /\ (Addresses(flight.found) = {announced[m].ip : m \in 1 .. Taken} \ {Nothing})'
          /\ (IsFiniteSet(Addresses(flight.found)))'
          /\ (Len(flight.found) = Cardinality(Addresses(flight.found)))'
      BY <2>2, <3>1, <3>3, <3>4, <3>5
    <3>7. (\A k \in DOMAIN flight.found : \E m \in 1 .. Taken :
             /\ flight.found[k] = announced[m]
             /\ \A j \in 1 .. m - 1 : announced[j].ip # announced[m].ip)'
      BY <1>1, <2>1, <3>1, <3>3
    <3>. QED BY <3>6, <3>7 DEF Listed
  <2>6. CASE New(a)
    <3>. DEFINE new == Append(list, a)
    <3>1. flight'.found = new /\ a.ip # Nothing /\ a.ip \notin Addresses(list)
      BY <1>6, <2>6 DEF New
    <3>. HIDE DEF list
    <3>2. Addresses(new) = Addresses(list) \cup {a.ip}
      BY <1>1, <1>2, AddressesAppend
    <3>3. Addresses(new) = ips(t + 1) \ {Nothing}
      BY <2>2, <2>3, <3>1, <3>2
    <3>4. /\ Len(new) = Len(list) + 1 /\ Len(list) \in Nat /\ DOMAIN new = 1 .. Len(list) + 1
          /\ DOMAIN list = 1 .. Len(list) /\ new[Len(list) + 1] = a
          /\ \A k \in 1 .. Len(list) : new[k] = list[k]
      BY <1>1, <1>2, AppendProperties, LenProperties
    <3>. HIDE DEF new
    <3>5. IsFiniteSet(Addresses(new)) /\ Cardinality(Addresses(new)) = Len(list) + 1
      <4>. DEFINE S == Addresses(list)
                  x == a.ip
      <4>1. IsFiniteSet(S) /\ x \notin S /\ Addresses(new) = S \cup {x} /\ Cardinality(S) = Len(list)
        BY <2>2, <3>1, <3>2
      <4>. HIDE DEF S, x
      <4>2. IsFiniteSet(S \cup {x}) /\ Cardinality(S \cup {x}) = Cardinality(S) + 1
        BY <4>1, FS_AddElement
      <4>. QED BY <4>1, <4>2
    <3>6. ASSUME NEW k \in DOMAIN new
          PROVE  \E m \in 1 .. t + 1 :
                   /\ new[k] = announced[m]
                   /\ \A j \in 1 .. m - 1 : announced[j].ip # announced[m].ip
      <4>1. CASE k \in 1 .. Len(list)
        <5>1. PICK m \in 1 .. t : /\ list[k] = announced[m]
                                  /\ \A j \in 1 .. m - 1 : announced[j].ip # announced[m].ip
          BY <2>2, <3>4, <4>1
        <5>2. m \in 1 .. t + 1 /\ new[k] = announced[m]
          BY <2>4, <3>4, <4>1, <5>1
        <5>. QED BY <5>1, <5>2
      <4>2. CASE k = Len(list) + 1
        <5>1. \A j \in 1 .. t : announced[j].ip # a.ip
          BY <2>2, <3>1 DEF ips
        <5>2. t + 1 \in 1 .. t + 1 /\ (t + 1) - 1 = t
          BY <2>1
        <5>. QED BY <2>1, <3>4, <4>2, <5>1, <5>2
      <4>. QED BY <3>4, <4>1, <4>2
    <3>7. (Addresses(flight.found))' = Addresses(new)
      BY <3>1 DEF Addresses
    <3>8. ips(t + 1) = {announced'[m].ip : m \in 1 .. Taken'}
      BY <1>1, <2>1 DEF ips
    <3>. QED BY <1>1, <2>1, <3>1, <3>3, <3>4, <3>5, <3>6, <3>7, <3>8 DEF Listed
  <2>. QED BY <2>5, <2>6
<1>. QED BY <1>1, <1>6, <1>7, <1>8, <1>9, RequestsKept DEF FindingInv

-----------------------------------------------------------------------------
(* The theorems.                                                           *)

LEMMA FindingNext == FindingInv /\ [Next]_vars => FindingInv'
<1>. SUFFICES ASSUME FindingInv, [Next]_vars PROVE FindingInv'
  OBVIOUS
<1>1. CASE Announce
  BY <1>1, AnnounceKeepsInv
<1>2. CASE Expire
  BY <1>2, ExpireKeepsInv
<1>3. CASE Receive
  BY <1>3, ReceiveKeepsInv
<1>4. CASE Browse
  BY <1>4, BrowseKeepsInv
<1>5. CASE BrowseEnds
  BY <1>5, DeliverKeepsInv DEF BrowseEnds
<1>6. ASSUME NEW r \in Clients, Users(r) PROVE FindingInv'
  BY <1>6, SearchKeepsInv, DiscoverKeepsInv, HangUpKeepsInv DEF Users
<1>7. ASSUME NEW r \in Clients, Handler(r) PROVE FindingInv'
  BY <1>7, HandlerKeepsInv
<1>8. CASE UNCHANGED vars
  <2>1. UNCHANGED <<request, flight, expired, entries, announced>>
    BY <1>8 DEF vars, lan
  <2>2. Typed' /\ Waits' /\ Searches'
    BY <2>1 DEF FindingInv, Typed, Waits, Searches
  <2>. QED BY <2>1, <2>2, LanKept DEF FindingInv
<1>. QED BY <1>1, <1>2, <1>3, <1>4, <1>5, <1>6, <1>7, <1>8 DEF Next

LEMMA AlwaysFindingInv == Spec => []FindingInv
BY FindingInit, FindingNext, PTL DEF Spec

\* Every variable keeps its type, nobody waits for a discovery that is not under way,
\* and the request that a discovery runs for is one of those that wait for it.
THEOREM FindingTypes == Spec => []TypeOK
<1>1. FindingInv => TypeOK
  <2>. SUFFICES ASSUME FindingInv PROVE TypeOK
    OBVIOUS
  <2>1. Typed /\ Waits
    BY DEF FindingInv
  <2>2. NoFlight.pc = "none" /\ NoFlight.leader = Nothing /\ Nothing \notin Clients
    BY FindingAssumption DEF NoFlight
  <2>3. ASSUME NEW r \in Clients
        PROVE  /\ request[r].pc \in {"idle", "searching", "waiting", "done", "error"}
               /\ request[r].at \in 1 .. Len(request[r].body) + 1
               /\ request[r].pc = "waiting" => flight # NoFlight
               /\ flight.leader = r => request[r].pc = "waiting"
    <3>1. request[r] \in RequestType /\ request[r].at <= Len(request[r].body) + 1
      BY <2>1 DEF Typed
    <3>2. /\ request[r].pc \in {"idle", "searching", "waiting", "done", "error"}
          /\ request[r].at \in Nat \ {0} /\ request[r].body \in Bodies \cup {<<>>}
      BY <3>1 DEF RequestType
    <3>3. Len(request[r].body) \in Nat
      BY <3>2, BodyItems
    <3>4. request[r].at \in 1 .. Len(request[r].body) + 1
      BY <3>1, <3>2, <3>3
    <3>. QED BY <2>1, <2>2, <3>2, <3>4 DEF Waits
  <2>4. flight.pc \in {"none", "starting", "browsing"} /\ (flight.pc # "none" <=> flight.leader \in Clients)
    BY <2>1, <2>2 DEF Typed, FlightType, Waits
  <2>. QED BY <2>1, <2>3, <2>4 DEF TypeOK, Typed
<1>. QED BY <1>1, AlwaysFindingInv, PTL

\* Each address that has been received is listed once and under the first name it was
\* heard by, however the speakers repeat and rename themselves.
THEOREM EachSpeakerListedOnce == Spec => []ListsEachSpeakerOnce
<1>1. FindingInv => ListsEachSpeakerOnce
  <2>. SUFFICES ASSUME FindingInv PROVE ListsEachSpeakerOnce
    OBVIOUS
  <2>1. /\ Listed /\ Queued /\ announced \in Seq(Announcements) /\ entries \in Seq(Announcements)
    BY DEF FindingInv, Typed
  <2>. DEFINE t == Len(announced) - Len(entries)
  <2>2. t = Taken /\ t \in 0 .. Len(announced)
    <3>1. Len(announced) \in Nat /\ Len(entries) \in Nat /\ Len(entries) <= Len(announced)
      BY <2>1, LenProperties DEF Queued
    <3>. QED BY <3>1 DEF Taken
  <2>3. /\ Received = SubSeq(announced, 1, t)
    BY DEF Received
  <2>. HIDE DEF t
  <2>4. /\ DOMAIN Received = 1 .. t /\ \A m \in 1 .. t : Received[m] = announced[m]
    <3>1. Len(announced) \in Nat
      BY <2>1, LenProperties
    <3>2. 1 \in 1 .. Len(announced) + 1 /\ t \in 1 - 1 .. Len(announced)
      BY <2>2, <3>1
    <3>3. /\ SubSeq(announced, 1, t) \in Seq(Announcements)
          /\ Len(SubSeq(announced, 1, t)) = IF 1 <= t THEN t - 1 + 1 ELSE 0
          /\ \A i \in 1 .. t - 1 + 1 : SubSeq(announced, 1, t)[i] = announced[1 + i - 1]
      BY <2>1, <3>2, SubSeqProperties
    <3>4. Len(Received) = t /\ \A i \in 1 .. t : Received[i] = announced[i]
      BY <2>2, <2>3, <3>1, <3>3
    <3>. QED BY <2>3, <3>3, <3>4, LenProperties
  <2>5. Addresses(Received) = {announced[m].ip : m \in 1 .. t}
    BY <2>4 DEF Addresses
  <2>6. \A n \in 1 .. t : \A m \in 1 .. n - 1 : m \in 1 .. t
    BY <2>2
  <2>. HIDE DEF Addresses
  <2>7. ASSUME NEW k \in DOMAIN flight.found
        PROVE  \E n \in DOMAIN Received :
                 /\ flight.found[k] = Received[n]
                 /\ \A m \in 1 .. n - 1 : Received[m].ip # Received[n].ip
    <3>1. PICK n \in 1 .. t : /\ flight.found[k] = announced[n]
                              /\ \A m \in 1 .. n - 1 : announced[m].ip # announced[n].ip
      BY <2>1, <2>2 DEF Listed
    <3>. QED BY <2>4, <2>6, <3>1
  <2>8. Addresses(flight.found) = Addresses(Received) \ {Nothing}
    BY <2>1, <2>2, <2>5 DEF Listed
  <2>. QED BY <2>1, <2>7, <2>8 DEF ListsEachSpeakerOnce, Listed
<1>. QED BY <1>1, AlwaysFindingInv, PTL

\* A search answers with all of TuneIn's audio items that have a link, in their order,
\* whichever of the links fail on the way.
THEOREM SearchesLoseNothing == Spec => []SearchKeepsEveryItem
<1>1. FindingInv => SearchKeepsEveryItem
  <2>. SUFFICES ASSUME FindingInv, NEW r \in Clients,
                       request[r].pc = "done", request[r].body # <<>>
                PROVE  LET body == request[r].body
                           kept == {n \in DOMAIN body : Kept(body[n])}
                       IN  /\ Len(request[r].found) = Cardinality(kept)
                           /\ \A n \in kept :
                                request[r].found[Cardinality({m \in kept : m <= n})] =
                                  IF n \in request[r].missed \/ body[n].stream = Nothing
                                  THEN body[n].link ELSE body[n].stream
    BY DEF SearchKeepsEveryItem
  <2>. DEFINE q == request[r]
              kept == {n \in DOMAIN q.body : Kept(q.body[n])}
  <2>1. Searched(q) /\ q.at = Len(q.body) + 1
    BY DEF FindingInv, Searches
  <2>2. q.body \in Bodies \cup {<<>>}
    BY DEF FindingInv, Typed, RequestType
  <2>3. Len(q.body) \in Nat /\ DOMAIN q.body = 1 .. Len(q.body)
    BY <2>2, BodyItems
  <2>. HIDE DEF q
  <2>4. KeptBefore(q.body, q.at) = kept
    BY <2>1, <2>3 DEF KeptBefore
  <2>. QED BY <2>1, <2>4 DEF Searched, q
<1>. QED BY <1>1, AlwaysFindingInv, PTL

\* The announcements that have left the channel are all but its last ones.
LEMMA TakenRange ==
  ASSUME FindingInv
  PROVE  /\ Taken \in Nat /\ Len(announced) \in Nat /\ DOMAIN announced = 1 .. Len(announced)
         /\ Taken <= Len(announced) /\ Len(announced) - Capacity <= Taken
<1>1. /\ announced \in Seq(Announcements) /\ entries \in Seq(Announcements)
      /\ Len(entries) <= Capacity /\ Len(entries) <= Len(announced)
  BY DEF FindingInv, Typed, Queued
<1>2. /\ Len(announced) \in Nat /\ Len(entries) \in Nat /\ Capacity \in Nat
      /\ DOMAIN announced = 1 .. Len(announced)
  BY <1>1, FindingAssumption, LenProperties
<1>. QED BY <1>1, <1>2 DEF Taken

\* Whatever ends a browse, those who wait for it all get one list, without an error, of
\* every address announced but those that the channel may hold, each once.
THEOREM EverybodyGetsWhatWasHeard == Spec => AnswersWhatItHeard
<1>. DEFINE Answered(r) ==
              LET listed == Addresses(request'[r].found)
              IN  /\ request'[r].pc = "done"
                  /\ {announced[n].ip : n \in 1 .. Len(announced) - Capacity} \ {Nothing}
                       \subseteq listed
                  /\ listed \subseteq {announced[n].ip : n \in DOMAIN announced} \ {Nothing}
                  /\ Len(request'[r].found) = Cardinality(listed)
                  /\ \A q \in Clients :
                       request[q].pc = "waiting" => request'[q].found = request'[r].found
            P == Browsing /\ flight' = NoFlight =>
                   \A r \in Clients : request[r].pc = "waiting" => Answered(r)
<1>1. FindingInv /\ [Next]_vars => [P]_vars
  <2>. SUFFICES ASSUME FindingInv, Next, Browsing, flight' = NoFlight,
                       NEW r \in Clients, request[r].pc = "waiting"
                PROVE  Answered(r)
    OBVIOUS
  <2>1. /\ flight \in FlightType /\ flight.pc = "browsing" /\ NoFlight.pc = "none"
    BY DEF FindingInv, Typed, Browsing, NoFlight
  <2>2. flight' # flight /\ flight # NoFlight
    BY <2>1
  <2>3. CASE Receive
    <3>1. flight'.pc = "browsing"
      BY <2>1, <2>3 DEF Receive, FlightType
    <3>. QED BY <2>1, <3>1
  <2>4. CASE Browse
    BY <2>1, <2>4 DEF Browse
  <2>5. CASE BrowseEnds
    <3>1. Deliver("done")
      BY <2>5 DEF BrowseEnds
    <3>2. DOMAIN Unasked = {"pc", "body", "at", "found", "missed", "gone"}
      BY DEF Unasked
    <3>3. /\ [Unasked EXCEPT !.pc = "done", !.found = flight.found].found = flight.found
          /\ [Unasked EXCEPT !.pc = "done", !.found = flight.found].pc = "done"
      BY <3>2
    <3>4. \A q \in Clients : request[q].pc = "waiting" =>
            request'[q].found = flight.found /\ request'[q].pc = "done"
      BY <3>1, <3>3 DEF Deliver
    <3>5. /\ Addresses(flight.found) = {announced[m].ip : m \in 1 .. Taken} \ {Nothing}
          /\ Len(flight.found) = Cardinality(Addresses(flight.found))
      BY DEF FindingInv, Listed
    <3>6. /\ \A n \in 1 .. Len(announced) - Capacity : n \in 1 .. Taken
          /\ \A n \in 1 .. Taken : n \in DOMAIN announced
      <4>1. Capacity \in Nat
        BY FindingAssumption
      <4>. QED BY TakenRange, <4>1
    <3>7. /\ request'[r].pc = "done" /\ request'[r].found = flight.found
          /\ \A q \in Clients :
               request[q].pc = "waiting" => request'[q].found = request'[r].found
      BY <3>4
    <3>8. /\ {announced[n].ip : n \in 1 .. Len(announced) - Capacity} \ {Nothing}
               \subseteq Addresses(request'[r].found)
          /\ Addresses(request'[r].found)
               \subseteq {announced[n].ip : n \in DOMAIN announced} \ {Nothing}
      <4>. HIDE DEF Addresses
      <4>. QED BY <3>5, <3>6, <3>7
    <3>9. Len(request'[r].found) = Cardinality(Addresses(request'[r].found))
      BY <3>5, <3>7
    <3>. QED BY <3>7, <3>8, <3>9
  <2>6. CASE Announce \/ Expire
    BY <2>2, <2>6 DEF Announce, Expire
  <2>7. ASSUME NEW q \in Clients, Users(q) \/ Handler(q) PROVE FALSE
    BY <2>2, <2>7 DEF Users, Handler, Search, Discover, HangUp, SkipItem, ResolveItem,
                      SearchAnswered, lan
  <2>. QED BY <2>3, <2>4, <2>5, <2>6, <2>7 DEF Next
<1>. QED BY <1>1, AlwaysFindingInv, PTL DEF Spec, AnswersWhatItHeard
=============================================================================
