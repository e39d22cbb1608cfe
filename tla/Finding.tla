------------------------------ MODULE Finding -------------------------------
(***************************************************************************)
(* What the bridge finds for its users: stations on TuneIn and speakers on *)
(* the LAN. A search belongs to its request alone. Discoveries are shared: *)
(* while one browses, DiscoverHandler lets further requests wait for its   *)
(* result (singleflight), and it runs on the context of the request that   *)
(* started it.                                                             *)
(***************************************************************************)
EXTENDS Naturals, Sequences, FiniteSets

CONSTANTS
  Clients,          \* browsers, each with one request at a time
  Bodies,           \* what TuneIn may answer: sequences of items
  Announcements,    \* what speakers may announce over mDNS
  Nothing,          \* no address, no client
  Capacity,         \* of the channel of announcements: 8 in the code
  MaxAnnounced      \* bound: announcements during one browse

\* An audio item has a link, or not, and its link's answer names a stream, or not.
IsItem(item) == item.audio \in BOOLEAN /\ DOMAIN item = {"audio", "link", "stream"}

ASSUME FindingAssumption ==
  /\ \A body \in Bodies : /\ body \in Seq({body[n] : n \in DOMAIN body})
                          /\ \A n \in DOMAIN body : IsItem(body[n])
  /\ \A a \in Announcements : DOMAIN a = {"name", "ip"}
  /\ Nothing \notin Clients
  /\ Capacity \in Nat \ {0} /\ MaxAnnounced \in Nat

VARIABLES
  request,          \* client -> its request
  flight,           \* the discovery under way
  expired,          \* its five seconds are over
  entries,          \* the channel the browser sends announcements on
  announced         \* history: announcements since it began

lan  == <<flight, expired, entries, announced>>
vars == <<request, lan>>

\* pc: "idle", "searching", "waiting" for a discovery, "done" or "error".
Unasked  == [pc |-> "idle", body |-> <<>>, at |-> 1, found |-> <<>>, missed |-> {},
             gone |-> FALSE]
NoFlight == [pc |-> "none", leader |-> Nothing, found |-> <<>>]
Browsing == flight.pc = "browsing"

Init ==
  /\ request = [r \in Clients |-> Unasked]
  /\ flight = NoFlight
  /\ expired = FALSE /\ entries = <<>> /\ announced = <<>>

Free(r) == request[r].pc \notin {"searching", "waiting"}

\* The browser is closed. A search goes on for nobody, and is left out.
HangUp(r) ==
  /\ request[r].pc = "waiting" /\ ~request[r].gone
  /\ request' = [request EXCEPT ![r].gone = TRUE]
  /\ UNCHANGED lan

-----------------------------------------------------------------------------
(* TuneIn's Search.                                                        *)

Kept(item) == item.audio /\ item.link # Nothing

Search(r) ==
  /\ Free(r)
  /\ \/ \E body \in Bodies : request' = [request EXCEPT
          ![r] = [Unasked EXCEPT !.pc = "searching", !.body = body]]
     \/ request' = [request EXCEPT ![r] = [Unasked EXCEPT !.pc = "error"]]
  /\ UNCHANGED lan

\* The loop over the items.
AtItem(r) == request[r].pc = "searching" /\ request[r].at <= Len(request[r].body)
Current(r) == request[r].body[request[r].at]

SkipItem(r) ==
  /\ AtItem(r)
  /\ ~Kept(Current(r))
  /\ request' = [request EXCEPT ![r].at = @ + 1]
  /\ UNCHANGED lan

\* Mutant: an answer that names no stream is taken as it is.
StreamUnchecked(item, answered) == IF answered THEN item.stream ELSE item.link

\* The stream that the link's answer names; if it names none or there is no answer,
\* the link itself.
StreamOf(item, answered) ==
  IF answered /\ item.stream # Nothing THEN item.stream ELSE item.link

ResolveItem(r) ==
  /\ AtItem(r)
  /\ Kept(Current(r))
  /\ \E answered \in BOOLEAN :
       request' = [request EXCEPT ![r].at = @ + 1,
                     ![r].found = Append(@, StreamOf(Current(r), answered)),
                     ![r].missed = IF answered THEN @ ELSE @ \cup {request[r].at}]
  /\ UNCHANGED lan

SearchAnswered(r) ==
  /\ request[r].pc = "searching" /\ ~AtItem(r)
  /\ request' = [request EXCEPT ![r].pc = "done"]
  /\ UNCHANGED lan

-----------------------------------------------------------------------------
(* DiscoverHandler.                                                        *)

\* discoverSF.Do: the first request starts the discovery, the others wait for it.
Discover(r) ==
  /\ Free(r)
  /\ request' = [request EXCEPT ![r] = [Unasked EXCEPT !.pc = "waiting"]]
  /\ flight' = IF flight = NoFlight
               THEN [NoFlight EXCEPT !.pc = "starting", !.leader = r] ELSE flight
  /\ UNCHANGED <<expired, entries, announced>>

\* Mutant: the others are not woken.
DeliverToLeader(pc) ==
  /\ request' = [request EXCEPT ![flight.leader] =
                  [Unasked EXCEPT !.pc = pc, !.found = flight.found]]
  /\ flight' = NoFlight
  /\ expired' = FALSE /\ entries' = <<>> /\ announced' = <<>>

\* Every request that waits gets the same answer, also one that started after the
\* browser of the first was closed.
Deliver(pc) ==
  /\ request' = [r \in Clients |->
       IF request[r].pc = "waiting"
       THEN [Unasked EXCEPT !.pc = pc, !.found = flight.found] ELSE request[r]]
  /\ flight' = NoFlight
  /\ expired' = FALSE /\ entries' = <<>> /\ announced' = <<>>

\* NewResolver and Browse, which fail without a network.
Browse ==
  /\ flight.pc = "starting"
  /\ \/ /\ flight' = [flight EXCEPT !.pc = "browsing"]
        /\ UNCHANGED <<request, expired, entries, announced>>
     \/ Deliver("error")

-----------------------------------------------------------------------------
(* The LAN and Discover's loop.                                            *)

Announce ==
  /\ Browsing
  /\ Len(announced) < MaxAnnounced /\ Len(entries) < Capacity
  /\ \E a \in Announcements : /\ entries' = Append(entries, a)
                              /\ announced' = Append(announced, a)
  /\ UNCHANGED <<request, flight, expired>>

Expire ==
  /\ Browsing /\ ~expired
  /\ expired' = TRUE
  /\ UNCHANGED <<request, flight, entries, announced>>

Addresses(found) == {found[k].ip : k \in DOMAIN found}

\* Mutant: speakers that announce themselves again are listed again.
NewHere(a) == a.ip # Nothing

\* Speakers without an IPv4 address and those seen before are skipped.
New(a) == a.ip # Nothing /\ a.ip \notin Addresses(flight.found)

Receive ==
  /\ Browsing /\ entries # <<>>
  /\ entries' = Tail(entries)
  /\ flight' = IF New(Head(entries))
               THEN [flight EXCEPT !.found = Append(@, Head(entries))] ELSE flight
  /\ UNCHANGED <<request, expired, announced>>

\* Mutant: the timeout is not set.
Untimed == FALSE

LeaderLeft == request[flight.leader].gone
TimedOut   == expired

\* Mutant: the context's error is returned, for those who stay as well.
BrowseEndsInError ==
  /\ Browsing
  /\ TimedOut \/ LeaderLeft
  /\ Deliver(IF LeaderLeft THEN "error" ELSE "done")

\* browseCtx is done, or zeroconf has therefore closed the channel. With announcements
\* left in the channel, select takes either branch.
BrowseEnds ==
  /\ Browsing
  /\ TimedOut \/ LeaderLeft
  /\ Deliver("done")

-----------------------------------------------------------------------------
Handler(r) == SkipItem(r) \/ ResolveItem(r) \/ SearchAnswered(r)
Users(r)   == Search(r) \/ Discover(r) \/ HangUp(r)

Next == \/ Announce \/ Expire \/ Receive \/ Browse \/ BrowseEnds
        \/ \E r \in Clients : Users(r) \/ Handler(r)

Spec == Init /\ [][Next]_vars

\* Goroutines are scheduled, timers fire, HTTP requests end. select chooses at random,
\* so that Done, once ready, is chosen in the end.
FairSpec ==
  /\ Spec /\ WF_vars(Browse) /\ WF_vars(Expire) /\ SF_vars(BrowseEnds)
  /\ \A r \in Clients : WF_vars(Handler(r))

-----------------------------------------------------------------------------
(* Properties.                                                             *)

\* Every request is one of its kind, and only those that wait for the discovery under
\* way wait for one; its leader is one of them.
TypeOK ==
  /\ \A r \in Clients : /\ request[r].pc \in {"idle", "searching", "waiting", "done", "error"}
                        /\ request[r].at \in 1 .. Len(request[r].body) + 1
                        /\ request[r].pc = "waiting" => flight # NoFlight
                        /\ flight.leader = r => request[r].pc = "waiting"
  /\ flight.pc \in {"none", "starting", "browsing"}
  /\ flight.pc # "none" <=> flight.leader \in Clients
  /\ expired \in BOOLEAN
  /\ Len(entries) <= Capacity /\ Len(announced) <= MaxAnnounced

\* A search answers with every audio item that has a link, in TuneIn's order, under its
\* stream where its own link named one: a link that fails costs no other item its place
\* or its stream.
SearchKeepsEveryItem ==
  \A r \in Clients : request[r].pc = "done" /\ request[r].body # <<>> =>
    LET body == request[r].body
        kept == {n \in DOMAIN body : Kept(body[n])}
    IN  /\ Len(request[r].found) = Cardinality(kept)
        /\ \A n \in kept :
             request[r].found[Cardinality({m \in kept : m <= n})] =
               IF n \in request[r].missed \/ body[n].stream = Nothing
               THEN body[n].link ELSE body[n].stream

Received == SubSeq(announced, 1, Len(announced) - Len(entries))

\* However often and under whatever names the speakers announce themselves, each address
\* received is listed exactly once, under the name it was first heard by.
ListsEachSpeakerOnce ==
  Browsing =>
    /\ Addresses(flight.found) = Addresses(Received) \ {Nothing}
    /\ Len(flight.found) = Cardinality(Addresses(flight.found))
    /\ \A k \in DOMAIN flight.found : \E n \in DOMAIN Received :
         /\ flight.found[k] = Received[n]
         /\ \A m \in 1 .. n - 1 : Received[m].ip # Received[n].ip

\* However a browse ends, by its timeout or because the client that started it left,
\* everybody who waits is answered without an error and alike: each address once, no
\* address that was not announced, and none missing but of the last announcements, which
\* the channel may still hold.
AnswersWhatItHeard ==
  [][Browsing /\ flight' = NoFlight =>
       \A r \in Clients : request[r].pc = "waiting" =>
         LET listed == Addresses(request'[r].found)
         IN  /\ request'[r].pc = "done"
             /\ {announced[n].ip : n \in 1 .. Len(announced) - Capacity} \ {Nothing}
                  \subseteq listed
             /\ listed \subseteq {announced[n].ip : n \in DOMAIN announced} \ {Nothing}
             /\ Len(request'[r].found) = Cardinality(listed)
             /\ \A q \in Clients :
                  request[q].pc = "waiting" => request'[q].found = request'[r].found]_vars

\* Every search and every discovery is answered, although others come and go, the
\* client that started it leaves and speakers fill the channel.
RequestsAnswered == \A r \in Clients : ~Free(r) ~> Free(r)
=============================================================================
