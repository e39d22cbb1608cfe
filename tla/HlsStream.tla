----------------------------- MODULE HlsStream -----------------------------
(***************************************************************************)
(* hls.Stream: the bridge polls a live playlist, which always lists the    *)
(* station's newest segments, and copies the audio of those it has not     *)
(* seen yet to the speaker. The segments seen last are remembered by       *)
(* seenSet. Segments are numbered in the order the station publishes them. *)
(***************************************************************************)
EXTENDS Naturals, Sequences, FiniteSets

CONSTANTS
  Cap,         \* of seenSet: 64 in the code
  Stations,    \* the kinds of stations there are, see Station
  MaxSegments  \* bound: segments the station publishes

\* A playlist lists window segments, a cached one may be up to lag segments older than
\* the newest, and segments are raw AAC or MPEG-TS.
Station == [window : Nat \ {0}, lag : Nat, raw : BOOLEAN]

ASSUME StreamAssumption ==
  Cap \in Nat \ {0} /\ Stations \subseteq Station /\ MaxSegments \in Nat

VARIABLES
  station,
  published,    \* number of the newest segment, 0 before the first
  cancelled,    \* the request's context is cancelled: the speaker hung up
  pc,           \* the next statement of Stream
  cursor, end,  \* the segments of the fetched playlist still to be looked at
  order, seen,  \* seenSet's slice and its map
  heard,        \* history: segments whose audio was written, in order
  listed, lost  \* history: segments fetched playlists listed, ones that gave no audio

stream == <<cursor, end, order, seen, heard, listed, lost>>
vars   == <<station, published, cancelled, pc, stream>>

PCs == {"resolve", "loop", "fetch", "retry", "scan", "pump", "wait", "ended"}

Init ==
  /\ station \in Stations
  /\ published \in 0 .. MaxSegments
  /\ cancelled = FALSE
  /\ pc = "resolve"
  /\ cursor = 1 /\ end = 0
  /\ order = <<>> /\ seen = {}
  /\ heard = <<>> /\ listed = {} /\ lost = {}

-----------------------------------------------------------------------------
(* The station and the speaker.                                            *)

Publish ==
  /\ published < MaxSegments
  /\ published' = published + 1
  /\ UNCHANGED <<station, cancelled, pc, stream>>

HangUp ==
  /\ ~cancelled
  /\ cancelled' = TRUE
  /\ UNCHANGED <<station, published, pc, stream>>

-----------------------------------------------------------------------------
(* Stream's loop.                                                          *)

Outside == UNCHANGED <<station, published, cancelled>>

\* Mutant: the request's context is not passed on.
NeverDone == FALSE

Done == cancelled    \* ctx.Err() # nil, ctx.Done() is ready

\* resolveMedia: an error is final. Which variant is taken does not matter here.
Resolve ==
  /\ pc = "resolve"
  /\ pc' \in {"loop", "ended"}
  /\ Outside /\ UNCHANGED stream

Loop ==
  /\ pc = "loop"
  /\ pc' = IF Done THEN "ended" ELSE "fetch"
  /\ Outside /\ UNCHANGED stream

Oldest(newest) ==
  IF newest > station.window THEN newest - station.window + 1 ELSE 1

\* fetchSegments.
Fetch ==
  /\ pc = "fetch"
  /\ \E newest \in 0 .. published :
       /\ published <= newest + station.lag
       /\ cursor' = Oldest(newest) /\ end' = newest
       /\ listed' = listed \cup (Oldest(newest) .. newest)
  /\ pc' = "scan"
  /\ Outside /\ UNCHANGED <<order, seen, heard, lost>>

FetchFails ==
  /\ pc = "fetch"
  /\ pc' = "retry"
  /\ Outside /\ UNCHANGED stream

\* select: when the timer has fired as well, either branch is taken.
Pause ==
  /\ pc \in {"retry", "wait"}
  /\ pc' \in {"loop"} \cup (IF Done THEN {"ended"} ELSE {})
  /\ Outside /\ UNCHANGED stream

-----------------------------------------------------------------------------
(* seenSet.add of a segment that is not in it.                             *)

Evicts == Len(order) + 1 > Cap

\* Mutant: the evicted segment stays in the map.
KeptInMap(s) == seen \cup {s}

Remembered(s) ==
  (seen \cup {s}) \ (IF Evicts THEN {Head(Append(order, s))} ELSE {})

Ordered(s) == IF Evicts THEN Tail(Append(order, s)) ELSE Append(order, s)

-----------------------------------------------------------------------------
(* The segments of one playlist.                                           *)

Skip ==
  /\ pc = "scan" /\ cursor <= end /\ cursor \in seen
  /\ cursor' = cursor + 1
  /\ Outside /\ UNCHANGED <<pc, end, order, seen, heard, listed, lost>>

\* Mutant: the segment is not added to the set.
Unmarked ==
  /\ pc = "scan" /\ cursor <= end /\ cursor \notin seen
  /\ pc' = "pump"
  /\ Outside /\ UNCHANGED stream

Mark ==
  /\ pc = "scan" /\ cursor <= end /\ cursor \notin seen
  /\ order' = Ordered(cursor)
  /\ seen' = Remembered(cursor)
  /\ pc' = "pump"
  /\ Outside /\ UNCHANGED <<cursor, end, heard, listed, lost>>

Scanned ==
  /\ pc = "scan" /\ cursor > end
  /\ pc' = "wait"
  /\ Outside /\ UNCHANGED stream

Remember == UNCHANGED <<end, order, seen, listed>>

\* Mutant: a segment that cannot be fetched ends the pass over the playlist.
NoAudioBreaks ==
  /\ pc = "pump"
  /\ lost' = lost \cup {cursor}
  /\ cursor' = end + 1 /\ pc' = "scan"
  /\ Outside /\ Remember /\ UNCHANGED heard

\* pumpSegment: the request fails, or the segment holds no audio.
NoAudio ==
  /\ pc = "pump"
  /\ lost' = lost \cup {cursor}
  /\ cursor' = cursor + 1 /\ pc' = "scan"
  /\ Outside /\ Remember /\ UNCHANGED heard

Whole ==
  /\ pc = "pump"
  /\ heard' = Append(heard, cursor)
  /\ cursor' = cursor + 1 /\ pc' = "scan"
  /\ Outside /\ Remember /\ UNCHANGED lost

\* The body breaks off (15 s timeout, connection, framing): the demuxer's error is
\* tolerated, io.Copy's is returned.
Part ==
  /\ pc = "pump"
  /\ heard' = Append(heard, cursor)
  /\ cursor' = cursor + 1
  /\ pc' = IF station.raw THEN "ended" ELSE "scan"
  /\ Outside /\ Remember /\ UNCHANGED lost

WriteFails ==
  /\ pc = "pump"
  /\ pc' = "ended"
  /\ Outside /\ Remember /\ UNCHANGED <<cursor, heard, lost>>

-----------------------------------------------------------------------------
Step ==
  \/ Resolve \/ Loop \/ Fetch \/ FetchFails \/ Pause
  \/ Skip \/ Mark \/ Scanned
  \/ NoAudio \/ Whole \/ Part \/ WriteFails

Next == Publish \/ HangUp \/ Step

Spec == Init /\ [][Next]_vars

\* The HTTP client and the timers end every step; the station may stop publishing
\* and the speaker may listen for ever.
FairSpec == Spec /\ WF_vars(Step)

-----------------------------------------------------------------------------
(* Properties.                                                             *)

Elements(s) == {s[i] : i \in DOMAIN s}

\* The types of the state, and seenSet's two halves: the map holds exactly the
\* entries of the slice, no entry twice, never more than Cap.
TypeOK ==
  /\ station \in Stations
  /\ published \in Nat /\ cancelled \in BOOLEAN /\ pc \in PCs
  /\ cursor \in Nat /\ end \in Nat
  /\ order \in Seq(Nat) /\ Len(order) <= Cap
  /\ seen = Elements(order)
  /\ \A i, j \in DOMAIN order : i # j => order[i] # order[j]
  /\ heard \in Seq(Nat) /\ listed \subseteq Nat /\ lost \subseteq Nat

NeverGoesBack == station.lag = 0

\* The speaker hears the segments in the order they were published, none twice, from
\* a station whose playlists never go back.
InOrder ==
  NeverGoesBack => \A i, j \in DOMAIN heard : i < j => heard[i] < heard[j]

\* A segment that a fetched playlist listed has been played or has failed by the
\* time the playlist is fetched again.
NoneForgotten ==
  pc \in {"loop", "fetch", "retry", "wait"} => listed = Elements(heard) \cup lost

\* When the speaker has hung up, Stream returns.
EndsWhenCancelled == cancelled ~> pc = "ended"

Feed == INSTANCE AudioFeed WITH
          played <- heard, ordered <- NeverGoesBack, over <- pc = "ended"

\* Stream implements the feed the speaker is promised.
ImplementsFeed == Feed!Spec
=============================================================================
