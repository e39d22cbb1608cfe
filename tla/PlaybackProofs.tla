--------------------------- MODULE PlaybackProofs ---------------------------
(***************************************************************************)
(* Proofs about Playback, for any addresses, libraries and connections.    *)
(***************************************************************************)
EXTENDS Playback, TLAPS

-----------------------------------------------------------------------------
(* The inductive invariant.                                                *)

URI == {NoURI} \cup {Direct(u) : u \in URLs} \cup {Proxied(i) : i \in IDs}

SpeakerType == [pc : {"stopped", "set", "ready", "waiting", "playing", "failed"}, uri : URI,
                conn : Conns \cup {NoURL}, hears : URLs \cup {NoURL}]
ConnType == [pc : {"closed", "lookup", "do", "copy"}, id : IDs \cup {""},
             url : URLs \cup {NoURL}, listener : BOOLEAN]

Shape ==
  /\ library \in Library /\ profiles \in [Profiles -> Library]
  /\ active \in Profiles \cup {NoProfile} /\ edits \in 0 .. MaxEdits
  /\ asked \in Saved \cup {NoURL} /\ replaced \in BOOLEAN /\ named \subseteq URLs
  /\ bridgeURL \in BOOLEAN /\ serving \in {"up", "draining", "exited"}
  /\ adding \in [pc : {"idle", "probed"}, url : URLs \cup {NoURL}, needsProxy : BOOLEAN]
  /\ adding.pc = "probed" => adding.url \in URLs
  /\ playing \in [pc : {"idle", "give"}, id : IDs \cup {""}, station : Saved \cup {NoURL}]
  /\ playing.pc = "give" => playing.id \in IDs /\ playing.station \in Saved
  /\ speaker \in SpeakerType /\ conns \in [Conns -> ConnType]
  /\ head \in [URLs -> BOOLEAN] /\ up \in [URLs -> BOOLEAN]
  /\ changes \in 0 .. MaxChanges /\ plays \in 0 .. MaxPlays /\ fickle \subseteq URLs

\* The speaker's connection is the handler's that has it for a listener.
Linked ==
  /\ \A c \in Conns :
       /\ conns[c].listener <=> speaker.conn = c
       /\ conns[c].listener => conns[c].id = speaker.uri.id
       /\ IF conns[c].pc = "closed" THEN conns[c] = Closed ELSE conns[c].id \in IDs
  /\ speaker.conn # NoURL =>
       speaker.pc \in {"waiting", "playing"} /\ speaker.uri.via = "proxy"

\* An address that the speaker may hear.
Meant(u) == u \in named /\ (~replaced => u = asked.url)

\* What the speaker was told to play is what its address leads to, as long as the id has
\* not been put to another use.
Led ==
  /\ IF speaker.uri.via = "none" THEN speaker.pc = "stopped" ELSE asked \in Saved
  /\ speaker.uri.via = "direct" => ~replaced /\ speaker.uri.url = asked.url /\ Meant(asked.url)
  /\ speaker.uri.via = "proxy" =>
       LET now == library[speaker.uri.id]
       IN  (~replaced => now = asked) /\ (now # NoURL => now.url \in named)
  /\ speaker.pc = "playing" => Meant(speaker.hears)
  /\ \A c \in Conns : conns[c].listener /\ conns[c].pc \in {"do", "copy"} => Meant(conns[c].url)

\* A station that was probed and is not marked has an upstream that accepts HEAD, or has
\* changed.
Accepts(u) == u \in fickle \/ head[u]
Marked(st) == st.probed => st.needsProxy \/ Accepts(st.url)
AllMarked(lib) == \A i \in IDs : lib[i] # NoURL => Marked(lib[i])

Probed ==
  /\ AllMarked(library)
  /\ \A p \in Profiles : AllMarked(profiles[p])
  /\ playing.pc = "give" => Marked(playing.station)
  /\ adding.pc = "probed" => adding.needsProxy \/ Accepts(adding.url)
  /\ SpeakerCanFetch

PlaybackInv == Shape /\ Linked /\ Led /\ Probed

LEMMA InitInv == Init => PlaybackInv
<1>. SUFFICES ASSUME Init PROVE PlaybackInv
  OBVIOUS
<1>1. /\ adding = NotAdding /\ playing = NotPlaying /\ speaker = Silent
      /\ asked = NoURL /\ replaced = FALSE /\ named = {} /\ edits = 0
      /\ conns = [c \in Conns |-> Closed] /\ up = [u \in URLs |-> TRUE]
      /\ library \in Library /\ Unprobed(library) /\ head \in [URLs -> BOOLEAN]
      /\ profiles \in [Profiles -> Library] /\ \A p \in Profiles : Unprobed(profiles[p])
      /\ active \in Profiles \cup {NoProfile}
      /\ bridgeURL \in BOOLEAN /\ serving = "up" /\ changes = 0 /\ plays = 0 /\ fickle = {}
  BY PlaybackAssumption DEF Init, Shelf
<1>2. /\ adding.pc = "idle" /\ playing.pc = "idle" /\ speaker.uri = NoURI
      /\ NoURI.via = "none" /\ speaker.conn = NoURL
      /\ speaker.pc = "stopped" /\ Closed.listener = FALSE /\ Closed.pc = "closed"
  BY <1>1 DEF NotAdding, NotPlaying, Silent, NoURI, Closed
<1>3. Shape
  <2>1. Silent \in SpeakerType /\ Closed \in ConnType
    BY DEF Silent, SpeakerType, URI, Closed, ConnType
  <2>2. 0 \in 0 .. MaxChanges /\ 0 \in 0 .. MaxPlays /\ 0 \in 0 .. MaxEdits
    BY PlaybackAssumption
  <2>3. /\ NotAdding \in [pc : {"idle", "probed"}, url : URLs \cup {NoURL}, needsProxy : BOOLEAN]
        /\ NotPlaying \in [pc : {"idle", "give"}, id : IDs \cup {""}, station : Saved \cup {NoURL}]
    BY DEF NotAdding, NotPlaying
  <2>. QED BY <1>1, <1>2, <2>1, <2>2, <2>3 DEF Shape
<1>4. Linked
  BY <1>1, <1>2, PlaybackAssumption DEF Linked
<1>5. Led
  BY <1>1, <1>2 DEF Led, Closed
<1>6. Probed
  BY <1>1, <1>2 DEF Probed, AllMarked, Marked, Accepts, SpeakerCanFetch, Unprobed, Library
<1>. QED BY <1>3, <1>4, <1>5, <1>6 DEF PlaybackInv

-----------------------------------------------------------------------------
(* The speaker and the handlers that serve it.                             *)

\* A step that changes neither the library nor what the speaker was told.
LEMMA ShapeAfter ==
  ASSUME Shape, speaker' \in SpeakerType, conns' \in [Conns -> ConnType],
         UNCHANGED <<library, adding, bridgeURL, plays, asked, replaced, named>>,
         profiles' \in [Profiles -> Library], active' \in Profiles \cup {NoProfile},
         edits' \in 0 .. MaxEdits, serving' \in {"up", "draining", "exited"},
         playing' \in {playing, NotPlaying}, head' \in [URLs -> BOOLEAN],
         up' \in [URLs -> BOOLEAN], changes' \in 0 .. MaxChanges, fickle' \subseteq URLs
  PROVE  Shape'
<1>1. library' \in Library
  BY DEF Shape
<1>2. asked' \in Saved \cup {NoURL} /\ replaced' \in BOOLEAN /\ named' \subseteq URLs
  BY DEF Shape
<1>3. /\ bridgeURL' \in BOOLEAN /\ plays' \in 0 .. MaxPlays
      /\ adding' \in [pc : {"idle", "probed"}, url : URLs \cup {NoURL}, needsProxy : BOOLEAN]
      /\ (adding'.pc = "probed" => adding'.url \in URLs)
  BY DEF Shape
<1>4. /\ playing' \in [pc : {"idle", "give"}, id : IDs \cup {""}, station : Saved \cup {NoURL}]
      /\ (playing'.pc = "give" => playing'.id \in IDs /\ playing'.station \in Saved)
  <2>1. CASE playing' = playing
    BY <2>1 DEF Shape
  <2>2. CASE playing' = NotPlaying
    BY <2>2 DEF NotPlaying
  <2>. QED BY <2>1, <2>2
<1>. QED BY <1>1, <1>2, <1>3, <1>4 DEF Shape

\* A step of the speaker's, or of a handler's.
LEMMA ShapeStands ==
  ASSUME Shape, speaker' \in SpeakerType, conns' \in [Conns -> ConnType],
         UNCHANGED <<library, profiles, active, edits, adding, bridgeURL, serving, playing, plays,
                     asked, replaced, named, head, up, changes, fickle>>
  PROVE  Shape'
<1>1. /\ profiles' \in [Profiles -> Library] /\ active' \in Profiles \cup {NoProfile}
      /\ edits' \in 0 .. MaxEdits /\ serving' \in {"up", "draining", "exited"}
      /\ playing' \in {playing, NotPlaying} /\ head' \in [URLs -> BOOLEAN]
      /\ up' \in [URLs -> BOOLEAN] /\ changes' \in 0 .. MaxChanges /\ fickle' \subseteq URLs
  BY DEF Shape
<1>. QED BY <1>1, ShapeAfter

\* The addresses that the speaker is given.
LEMMA Addresses ==
  ASSUME NEW uri \in URI
  PROVE  /\ uri.via \in {"none", "direct", "proxy"}
         /\ uri.via = "direct" => uri.url \in URLs /\ uri = Direct(uri.url)
         /\ uri.via = "proxy" => uri.id \in IDs /\ uri = Proxied(uri.id)
<1>1. CASE uri = NoURI
  BY <1>1 DEF NoURI
<1>2. ASSUME NEW u \in URLs, uri = Direct(u) PROVE uri.via = "direct" /\ uri.url = u
  BY <1>2 DEF Direct
<1>3. ASSUME NEW i \in IDs, uri = Proxied(i) PROVE uri.via = "proxy" /\ uri.id = i
  BY <1>3 DEF Proxied
<1>. QED BY <1>1, <1>2, <1>3 DEF URI

\* A speaker that is stopped hangs up: nobody listens any more.
LEMMA HungUpConns ==
  ASSUME Shape, Linked
  PROVE  /\ HungUp \in [Conns -> ConnType]
         /\ \A c \in Conns :
              /\ ~HungUp[c].listener
              /\ IF HungUp[c].pc = "closed" THEN HungUp[c] = Closed ELSE HungUp[c].id \in IDs
<1>1. conns \in [Conns -> ConnType] /\ speaker.conn \in Conns \cup {NoURL} /\ NoURL \notin Conns
  BY PlaybackAssumption DEF Shape, SpeakerType
<1>2. CASE speaker.conn = NoURL
  BY <1>1, <1>2 DEF HungUp, Linked
<1>3. CASE speaker.conn # NoURL
  <2>. DEFINE c == speaker.conn
              e == [conns[c] EXCEPT !.listener = FALSE]
  <2>1. c \in Conns /\ conns[c] \in ConnType /\ HungUp = [conns EXCEPT ![c] = e]
    BY <1>1, <1>3 DEF HungUp
  <2>2. conns[c].listener /\ conns[c].pc # "closed" /\ conns[c].id \in IDs
    <3>1. conns[c].listener
      BY <2>1 DEF Linked
    <3>2. conns[c].pc = "closed" => conns[c] = Closed
      BY <2>1 DEF Linked
    <3>3. conns[c].pc # "closed"
      <4>1. Closed.listener = FALSE
        BY DEF Closed
      <4>. HIDE DEF c
      <4>. QED BY <3>1, <3>2, <4>1
    <3>. QED BY <2>1, <3>1, <3>3 DEF Linked
  <2>3. e \in ConnType /\ ~e.listener /\ e.pc = conns[c].pc /\ e.id = conns[c].id
    BY <2>1 DEF ConnType
  <2>. HIDE DEF e
  <2>4. HungUp \in [Conns -> ConnType] /\ HungUp[c] = e
        /\ \A d \in Conns : d # c => HungUp[d] = conns[d]
    BY <1>1, <2>1, <2>3
  <2>5. \A d \in Conns : d # c => ~conns[d].listener
    BY DEF Linked
  <2>. HIDE DEF c
  <2>. QED BY <2>2, <2>3, <2>4, <2>5 DEF Linked
<1>. QED BY <1>2, <1>3

\* A speaker that has no connection.
LEMMA Unlinked ==
  ASSUME PlaybackInv, conns' = HungUp, speaker' \in SpeakerType, speaker'.conn = NoURL
  PROVE  conns' \in [Conns -> ConnType] /\ Linked'
<1>1. Shape /\ Linked /\ NoURL \notin Conns
  BY PlaybackAssumption DEF PlaybackInv
<1>2. \A c \in Conns :
        /\ ~conns'[c].listener
        /\ IF conns'[c].pc = "closed" THEN conns'[c] = Closed ELSE conns'[c].id \in IDs
  BY <1>1, HungUpConns
<1>3. \A c \in Conns : speaker'.conn # c
  BY <1>1
<1>. QED BY <1>1, <1>2, <1>3, HungUpConns DEF Linked

\* The speaker gives up while it has no connection.
LEMMA GivesUp ==
  ASSUME PlaybackInv, speaker.conn = NoURL, speaker.uri.via # "none", speaker' = Gone,
         UNCHANGED conns, OutsideStream
  PROVE  PlaybackInv'
<1>1. speaker \in SpeakerType
  BY DEF PlaybackInv, Shape
<1>2. /\ speaker' \in SpeakerType /\ speaker'.pc = "failed" /\ speaker'.conn = NoURL
      /\ speaker'.uri = speaker.uri
  BY <1>1 DEF SpeakerType, Gone
<1>3. UNCHANGED <<library, profiles, active, edits, adding, bridgeURL, serving, playing, plays,
                  asked, replaced, named, head, up, changes, fickle, conns>>
  BY DEF OutsideStream, catalogue, shelves, requests, told, upstreams
<1>4. Shape'
  BY <1>2, <1>3, ShapeStands DEF PlaybackInv, Shape
<1>5. Linked'
  BY <1>2, <1>3 DEF PlaybackInv, Linked
<1>6. Led'
  BY <1>2, <1>3 DEF PlaybackInv, Led, Meant
<1>7. Probed'
  BY <1>2, <1>3 DEF PlaybackInv, Probed, AllMarked, Marked, Accepts, SpeakerCanFetch
<1>. QED BY <1>4, <1>5, <1>6, <1>7 DEF PlaybackInv

\* A handler returns.
LEMMA EndKeepsInv ==
  ASSUME PlaybackInv, NEW c \in Conns, End(c), OutsideStream
  PROVE  PlaybackInv'
<1>1. /\ Shape /\ Linked /\ Led /\ Probed
      /\ speaker \in SpeakerType /\ conns \in [Conns -> ConnType] /\ NoURL \notin Conns
  BY PlaybackAssumption DEF PlaybackInv, Shape
<1>2. UNCHANGED <<library, profiles, active, edits, adding, bridgeURL, serving, playing, plays,
                  asked, replaced, named, head, up, changes, fickle>>
  BY DEF OutsideStream, catalogue, shelves, requests, told, upstreams
<1>3. /\ Gone \in SpeakerType /\ Gone.pc = "failed" /\ Gone.conn = NoURL /\ Gone.uri = speaker.uri
      /\ Closed \in ConnType /\ Closed.listener = FALSE /\ Closed.pc = "closed"
  BY <1>1 DEF SpeakerType, Gone, Closed, ConnType
<1>4. /\ conns' \in [Conns -> ConnType] /\ conns'[c] = Closed
      /\ \A d \in Conns : d # c => conns'[d] = conns[d]
  BY <1>1, <1>3 DEF End
<1>5. speaker' = IF conns[c].listener THEN Gone ELSE speaker
  BY DEF End
<1>6. Shape'
  <2>1. speaker' \in SpeakerType
    BY <1>1, <1>3, <1>5
  <2>. QED BY <1>1, <1>2, <1>4, <2>1, ShapeStands
<1>7. Linked'
  <2>1. CASE conns[c].listener
    <3>1. \A d \in Conns : d # c => ~conns[d].listener
      BY <1>1, <2>1 DEF Linked
    <3>. QED BY <1>1, <1>3, <1>4, <1>5, <2>1, <3>1 DEF Linked
  <2>2. CASE ~conns[c].listener
    BY <1>1, <1>3, <1>4, <1>5, <2>2 DEF Linked
  <2>. QED BY <2>1, <2>2
<1>8. Led'
  <2>1. conns[c].listener => speaker.uri.via = "proxy"
    BY <1>1 DEF Linked
  <2>. QED BY <1>1, <1>2, <1>3, <1>4, <1>5, <2>1 DEF Led, Meant
<1>9. Probed'
  BY <1>1, <1>2, <1>3, <1>5 DEF Probed, AllMarked, Marked, Accepts, SpeakerCanFetch
<1>. QED BY <1>6, <1>7, <1>8, <1>9 DEF PlaybackInv

-----------------------------------------------------------------------------
(* The steps.                                                              *)

\* One more of the edits, or of the plays, that the bounds allow.
LEMMA Counted ==
  ASSUME Shape
  PROVE  /\ edits < MaxEdits => edits + 1 \in 0 .. MaxEdits
         /\ plays < MaxPlays => plays + 1 \in 0 .. MaxPlays
<1>1. MaxEdits \in Nat /\ MaxPlays \in Nat
  BY PlaybackAssumption
<1>2. edits \in 0 .. MaxEdits /\ plays \in 0 .. MaxPlays
  BY DEF Shape
<1>. QED BY <1>1, <1>2

\* The stations change under a speaker that is in the middle of one: its id names the
\* station it did, unless it has been put to another use.
LEMMA BecomesKeepsInv ==
  ASSUME PlaybackInv, NEW lib \in Library, Becomes(lib),
         replaced' \in BOOLEAN, replaced => replaced',
         speaker.uri.via # "proxy" => replaced' = replaced,
         speaker.uri.via = "proxy" /\ ~replaced' => lib[speaker.uri.id] = library[speaker.uri.id],
         AllMarked(lib),
         profiles' \in [Profiles -> Library], \A p \in Profiles : AllMarked(profiles'[p]),
         active' \in Profiles \cup {NoProfile}, edits' \in 0 .. MaxEdits,
         adding' \in {adding, NotAdding},
         UNCHANGED <<bridgeURL, serving, playing, plays, speaker, conns, head, up, changes, fickle>>
  PROVE  PlaybackInv'
<1>1. Shape /\ Linked /\ Led /\ Probed /\ speaker.uri \in URI /\ lib \in [IDs -> Saved \cup {NoURL}]
  BY DEF PlaybackInv, Shape, SpeakerType, Library
<1>2. library' = lib /\ UNCHANGED asked
  BY DEF Becomes
<1>3. named' = IF speaker.uri.via = "proxy" THEN named \cup URLsOf({lib[speaker.uri.id]}) ELSE named
  BY DEF Becomes
<1>4. \A i \in IDs : \A u : u \in URLsOf({lib[i]}) <=> lib[i] # NoURL /\ u = lib[i].url
  BY DEF URLsOf
<1>5. \A i \in IDs : lib[i] # NoURL => lib[i] \in Saved /\ lib[i].url \in URLs
  BY <1>1 DEF Saved
<1>6. speaker.uri.via = "proxy" => speaker.uri.id \in IDs
  BY <1>1, Addresses
<1>7. /\ named \subseteq named' /\ named' \subseteq URLs
      /\ speaker.uri.via = "proxy" /\ lib[speaker.uri.id] # NoURL => lib[speaker.uri.id].url \in named'
  <2>1. CASE speaker.uri.via # "proxy"
    BY <1>1, <1>3, <2>1 DEF Shape
  <2>2. CASE speaker.uri.via = "proxy"
    <3>1. named' = named \cup URLsOf({lib[speaker.uri.id]}) /\ speaker.uri.id \in IDs
      BY <1>3, <1>6, <2>2
    <3>2. named \subseteq URLs
      BY <1>1 DEF Shape
    <3>. QED BY <1>4, <1>5, <3>1, <3>2
  <2>. QED BY <2>1, <2>2
<1>8. \A u : Meant(u) => Meant(u)'
  BY <1>2, <1>7 DEF Meant
<1>9. NotAdding.pc = "idle" /\ NotAdding \in [pc : {"idle", "probed"}, url : URLs \cup {NoURL},
                                              needsProxy : BOOLEAN]
  BY DEF NotAdding
<1>10. Shape'
  <2>1. adding' \in [pc : {"idle", "probed"}, url : URLs \cup {NoURL}, needsProxy : BOOLEAN]
        /\ (adding'.pc = "probed" => adding'.url \in URLs)
    BY <1>1, <1>9 DEF Shape
  <2>. QED BY <1>1, <1>2, <1>7, <2>1 DEF Shape
<1>11. Linked'
  BY <1>1 DEF Linked
<1>12. Led'
  <2>1. \A c \in Conns : conns'[c].listener /\ conns'[c].pc \in {"do", "copy"} => Meant(conns[c].url)'
    BY <1>1, <1>8 DEF Led
  <2>2. speaker'.pc = "playing" => Meant(speaker.hears)'
    BY <1>1, <1>8 DEF Led
  <2>3. speaker.uri.via = "direct" => ~replaced'
    BY <1>1 DEF Led
  <2>. QED BY <1>1, <1>2, <1>7, <1>8, <2>1, <2>2, <2>3 DEF Led
<1>13. Probed'
  BY <1>1, <1>2, <1>9 DEF Probed, AllMarked, Marked, Accepts, SpeakerCanFetch
<1>. QED BY <1>10, <1>11, <1>12, <1>13 DEF PlaybackInv

\* AddStation, DeleteStation and Play.
LEMMA ProbeKeepsInv ==
  ASSUME PlaybackInv, ProbeStation
  PROVE  PlaybackInv'
<1>1. Shape /\ Linked /\ Led /\ Probed /\ edits < MaxEdits /\ edits' = edits + 1
  BY DEF PlaybackInv, ProbeStation, Edit
<1>2. UNCHANGED <<library, profiles, active, bridgeURL, serving, playing, plays, asked, replaced,
                  named, speaker, conns, head, up, changes, fickle>>
  BY DEF ProbeStation, shelves, requests, told, upstreams
<1>3. PICK u \in URLs : adding' = [pc |-> "probed", url |-> u,
                                   needsProxy |-> ~HeadAnswers(u) \/ u.tls \/ u.m3u8]
  BY DEF ProbeStation
<1>4. /\ adding' \in [pc : {"idle", "probed"}, url : URLs \cup {NoURL}, needsProxy : BOOLEAN]
      /\ adding'.url = u /\ (~adding'.needsProxy => head[u])
  <2>1. (~HeadAnswers(u) \/ u.tls \/ u.m3u8) \in BOOLEAN
    BY PlaybackAssumption DEF Address, HeadAnswers
  <2>. QED BY <1>3, <2>1 DEF HeadAnswers
<1>5. Shape'
  <2>1. edits' \in 0 .. MaxEdits
    BY <1>1, Counted
  <2>. QED BY <1>1, <1>2, <1>4, <2>1 DEF Shape
<1>6. Linked' /\ Led'
  BY <1>1, <1>2 DEF Linked, Led, Meant
<1>7. Probed'
  BY <1>1, <1>2, <1>4 DEF Probed, AllMarked, Marked, Accepts, SpeakerCanFetch
<1>. QED BY <1>5, <1>6, <1>7 DEF PlaybackInv

LEMMA AddKeepsInv ==
  ASSUME PlaybackInv, AddStation
  PROVE  PlaybackInv'
<1>. DEFINE st == [url |-> adding.url, needsProxy |-> adding.needsProxy, probed |-> TRUE]
<1>1. Shape /\ Linked /\ Led /\ Probed /\ speaker.uri \in URI
  BY DEF PlaybackInv, Shape, SpeakerType
<1>2. /\ UNCHANGED <<profiles, active, edits, bridgeURL, serving, playing, plays, replaced, speaker,
                     conns, head, up, changes, fickle>>
      /\ adding' = NotAdding /\ adding.pc = "probed"
  BY DEF AddStation, shelves, upstreams
<1>3. PICK i \in IDs : library[i] = NoURL /\ Becomes([library EXCEPT ![i] = st])
  BY DEF AddStation, FreeIDs
<1>4. st \in Saved /\ Marked(st)
  BY <1>1, <1>2 DEF Shape, Saved, Marked, Probed
<1>. DEFINE lib == [library EXCEPT ![i] = st]
<1>. HIDE DEF st
<1>5. lib \in Library /\ lib[i] = st /\ \A j \in IDs : j # i => lib[j] = library[j]
  BY <1>1, <1>4 DEF Shape, Library
<1>6. Becomes(lib)
  BY <1>3
<1>. HIDE DEF lib
<1>7. AllMarked(lib)
  BY <1>1, <1>4, <1>5 DEF Probed, AllMarked
<1>8. speaker.uri.via = "proxy" /\ ~replaced' => lib[speaker.uri.id] = library[speaker.uri.id]
  <2>1. speaker.uri.via = "proxy" /\ ~replaced => library[speaker.uri.id] # NoURL
    BY <1>1, PlaybackAssumption DEF Led
  <2>. QED BY <1>1, <1>2, <1>3, <1>5, <2>1, Addresses
<1>. QED BY <1>1, <1>2, <1>5, <1>6, <1>7, <1>8, BecomesKeepsInv DEF Shape, Probed

LEMMA DeleteKeepsInv ==
  ASSUME PlaybackInv, DeleteStation
  PROVE  PlaybackInv'
<1>1. Shape /\ Linked /\ Led /\ Probed /\ speaker.uri \in URI
  BY DEF PlaybackInv, Shape, SpeakerType
<1>2. /\ UNCHANGED <<profiles, active, adding, bridgeURL, serving, playing, plays, speaker, conns,
                     head, up, changes, fickle>>
      /\ edits < MaxEdits /\ edits' = edits + 1
  BY DEF DeleteStation, Edit, shelves, upstreams
<1>3. PICK i \in IDs : /\ Becomes([library EXCEPT ![i] = NoURL])
                       /\ replaced' = (replaced \/ speaker.uri = Proxied(i))
  BY DEF DeleteStation
<1>. DEFINE lib == [library EXCEPT ![i] = NoURL]
<1>4. lib \in Library /\ lib[i] = NoURL /\ \A j \in IDs : j # i => lib[j] = library[j]
  BY <1>1 DEF Shape, Library
<1>5. Becomes(lib)
  BY <1>3
<1>. HIDE DEF lib
<1>6. AllMarked(lib)
  BY <1>1, <1>4 DEF Probed, AllMarked
<1>7. edits' \in 0 .. MaxEdits
  BY <1>1, <1>2, Counted
<1>8. speaker.uri.via = "proxy" /\ ~replaced' => lib[speaker.uri.id] = library[speaker.uri.id]
  BY <1>1, <1>3, <1>4, Addresses
<1>9. speaker.uri.via # "proxy" => replaced' = replaced
  <2>1. Proxied(i).via = "proxy"
    BY DEF Proxied
  <2>. QED BY <1>1, <1>3, <2>1 DEF Shape
<1>10. replaced' \in BOOLEAN /\ (replaced => replaced')
  BY <1>1, <1>3 DEF Shape
<1>. QED BY <1>1, <1>2, <1>4, <1>5, <1>6, <1>7, <1>8, <1>9, <1>10, BecomesKeepsInv DEF Shape, Probed

\* LoadProfile, SetActiveProfile and SaveProfile: another library comes, and this one stays
\* in a profile.
LEMMA ProfilesKeepInv ==
  ASSUME PlaybackInv, NEW p \in Profiles, LoadProfile(p) \/ SetActiveProfile(p) \/ SaveProfile(p)
  PROVE  PlaybackInv'
<1>1. Shape /\ Linked /\ Led /\ Probed /\ speaker.uri \in URI /\ OnProfile
  BY DEF PlaybackInv, Shape, SpeakerType, LoadProfile, SetActiveProfile, SaveProfile
<1>2. /\ UNCHANGED <<adding, bridgeURL, serving, playing, plays, speaker, conns, head, up, changes,
                     fickle>>
      /\ edits < MaxEdits /\ edits' = edits + 1
  BY <1>1 DEF OnProfile, Edit, upstreams
<1>3. edits' \in 0 .. MaxEdits
  BY <1>1, <1>2, Counted
<1>4. \E q \in Profiles : profiles' = profiles \/ profiles' = [profiles EXCEPT ![q] = library]
  BY DEF LoadProfile, SetActiveProfile, SaveProfile
<1>5. profiles' \in [Profiles -> Library] /\ \A q \in Profiles : AllMarked(profiles'[q])
  <2>1. CASE profiles' = profiles
    BY <1>1, <2>1 DEF Shape, Probed
  <2>2. ASSUME NEW q \in Profiles, profiles' = [profiles EXCEPT ![q] = library]
        PROVE  profiles' \in [Profiles -> Library] /\ \A r \in Profiles : AllMarked(profiles'[r])
    <3>1. \A r \in Profiles : profiles'[r] = IF r = q THEN library ELSE profiles[r]
      BY <1>1, <2>2 DEF Shape
    <3>2. profiles' \in [Profiles -> Library]
      BY <1>1, <2>2 DEF Shape
    <3>3. \A r \in Profiles : AllMarked(profiles'[r])
      BY <1>1, <3>1 DEF Probed
    <3>. QED BY <3>2, <3>3
  <2>. QED BY <1>4, <2>1, <2>2
<1>6. active' \in Profiles \cup {NoProfile}
  BY <1>1 DEF LoadProfile, SetActiveProfile, SaveProfile, Shape
<1>7. CASE Shows(p)
  <2>. DEFINE lib == profiles[p]
  <2>1. /\ Becomes(lib) /\ lib \in Library /\ AllMarked(lib)
        /\ replaced' = (replaced \/ (/\ speaker.uri.via = "proxy"
                                    /\ lib[speaker.uri.id] # library[speaker.uri.id]))
    BY <1>1, <1>7 DEF Shows, Shape, Probed
  <2>. HIDE DEF lib
  <2>2. /\ replaced' \in BOOLEAN /\ (replaced => replaced')
        /\ (speaker.uri.via # "proxy" => replaced' = replaced)
        /\ (speaker.uri.via = "proxy" /\ ~replaced' => lib[speaker.uri.id] = library[speaker.uri.id])
    BY <1>1, <2>1 DEF Shape
  <2>. QED BY <1>1, <1>2, <1>3, <1>5, <1>6, <2>1, <2>2, BecomesKeepsInv
<1>8. CASE UNCHANGED <<library, active, told>>
  <2>1. UNCHANGED <<library, asked, replaced, named>>
    BY <1>8 DEF told
  <2>2. Shape'
    <3>1. /\ speaker' \in SpeakerType /\ conns' \in [Conns -> ConnType]
          /\ serving' \in {"up", "draining", "exited"} /\ playing' = playing
          /\ head' \in [URLs -> BOOLEAN] /\ up' \in [URLs -> BOOLEAN]
          /\ changes' \in 0 .. MaxChanges /\ fickle' \subseteq URLs
      BY <1>1, <1>2 DEF Shape
    <3>. QED BY <1>1, <1>2, <1>3, <1>5, <1>6, <2>1, <3>1, ShapeAfter
  <2>3. Linked' /\ Led'
    BY <1>1, <1>2, <2>1 DEF Linked, Led, Meant
  <2>4. Probed'
    BY <1>1, <1>2, <1>5, <2>1 DEF Probed, AllMarked, Marked, Accepts, SpeakerCanFetch
  <2>. QED BY <2>2, <2>3, <2>4 DEF PlaybackInv
<1>. QED BY <1>7, <1>8 DEF LoadProfile, SetActiveProfile, SaveProfile

LEMMA PlayKeepsInv ==
  ASSUME PlaybackInv, Play
  PROVE  PlaybackInv'
<1>1. Shape /\ Linked /\ Led /\ Probed
  BY DEF PlaybackInv
<1>2. /\ UNCHANGED <<library, profiles, active, edits, adding, bridgeURL, serving, speaker, conns,
                     asked, replaced, named, head, up, changes, fickle>>
      /\ plays < MaxPlays /\ plays' = plays + 1
  BY DEF Play, catalogue, shelves, told, upstreams
<1>3. PICK i \in IDs : /\ library[i] # NoURL
                       /\ playing' = [pc |-> "give", id |-> i, station |-> library[i]]
  BY DEF Play
<1>4. library[i] \in Saved /\ Marked(library[i])
  BY <1>1, <1>3 DEF Shape, Library, Probed, AllMarked
<1>5. Shape'
  <2>1. plays' \in 0 .. MaxPlays
    BY <1>1, <1>2, Counted
  <2>2. playing' \in [pc : {"idle", "give"}, id : IDs \cup {""}, station : Saved \cup {NoURL}]
    BY <1>3, <1>4
  <2>. QED BY <1>1, <1>2, <1>3, <1>4, <2>1, <2>2 DEF Shape
<1>6. Linked' /\ Led'
  BY <1>1, <1>2 DEF Linked, Led, Meant
<1>7. Probed'
  BY <1>1, <1>2, <1>3, <1>4 DEF Probed, AllMarked, Marked, Accepts, SpeakerCanFetch
<1>. QED BY <1>5, <1>6, <1>7 DEF PlaybackInv

LEMMA ChangeKeepsInv ==
  ASSUME PlaybackInv, Change
  PROVE  PlaybackInv'
<1>1. Shape /\ Linked /\ Led /\ Probed /\ speaker.uri \in URI
  BY DEF PlaybackInv, Shape, SpeakerType
<1>2. /\ UNCHANGED <<library, profiles, active, edits, adding, bridgeURL, serving, playing, plays,
                     asked, replaced, named, speaker, conns>>
      /\ changes < MaxChanges /\ changes' = changes + 1
  BY DEF Change, catalogue, shelves, requests, told
<1>3. PICK u \in URLs : /\ fickle' = fickle \cup {u}
                        /\ \/ head' = [head EXCEPT ![u] = ~@] /\ UNCHANGED up
                           \/ up' = [up EXCEPT ![u] = ~@] /\ UNCHANGED head
  BY DEF Change
<1>4. /\ head' \in [URLs -> BOOLEAN] /\ up' \in [URLs -> BOOLEAN] /\ fickle' \subseteq URLs
      /\ changes' \in 0 .. MaxChanges
  <2>1. /\ head \in [URLs -> BOOLEAN] /\ up \in [URLs -> BOOLEAN] /\ fickle \subseteq URLs
        /\ changes \in 0 .. MaxChanges /\ MaxChanges \in Nat
    BY <1>1, PlaybackAssumption DEF Shape
  <2>2. head' \in [URLs -> BOOLEAN]
    BY <1>3, <2>1
  <2>3. up' \in [URLs -> BOOLEAN]
    BY <1>3, <2>1
  <2>4. changes' \in 0 .. MaxChanges
    BY <1>2, <2>1
  <2>. QED BY <1>3, <2>1, <2>2, <2>3, <2>4
<1>5. \A v \in URLs : v \notin fickle' => v \notin fickle /\ head'[v] = head[v]
  BY <1>1, <1>3 DEF Shape
<1>6. \A v \in URLs : Accepts(v) => Accepts(v)'
  BY <1>5 DEF Accepts
<1>7. \A lib \in Library : AllMarked(lib) => AllMarked(lib)'
  BY <1>6 DEF AllMarked, Marked, Library, Saved
<1>8. Shape'
  <2>1. /\ speaker' \in SpeakerType /\ conns' \in [Conns -> ConnType]
        /\ profiles' \in [Profiles -> Library] /\ active' \in Profiles \cup {NoProfile}
        /\ edits' \in 0 .. MaxEdits /\ serving' \in {"up", "draining", "exited"}
    BY <1>1, <1>2 DEF Shape
  <2>. QED BY <1>1, <1>2, <1>4, <2>1, ShapeAfter
<1>9. Linked' /\ Led'
  BY <1>1, <1>2 DEF Linked, Led, Meant
<1>10. Probed'
  <2>1. AllMarked(library)'
    BY <1>1, <1>2, <1>7 DEF Shape, Probed, AllMarked
  <2>2. \A p \in Profiles : AllMarked(profiles[p])'
    BY <1>1, <1>2, <1>7 DEF Shape, Probed, AllMarked
  <2>3. playing.pc = "give" => Marked(playing.station)'
    BY <1>1, <1>2, <1>6 DEF Shape, Saved, Probed, Marked
  <2>4. (adding.pc = "probed" => adding.needsProxy \/ Accepts(adding.url))'
    <3>1. adding.pc = "probed" => adding.url \in URLs
      BY <1>1 DEF Shape
    <3>2. adding.pc = "probed" => adding.needsProxy \/ Accepts(adding.url)
      BY <1>1, Zenon DEF Probed
    <3>3. adding' = adding
      BY <1>2
    <3>. QED BY <1>6, <3>1, <3>2, <3>3, Zenon
  <2>5. SpeakerCanFetch'
    BY <1>1, <1>2, <1>5, Addresses DEF Probed, SpeakerCanFetch
  <2>. QED BY <1>2, <2>1, <2>2, <2>3, <2>4, <2>5 DEF Probed, AllMarked, Marked, Accepts
<1>. QED BY <1>8, <1>9, <1>10 DEF PlaybackInv

LEMMA SignalsKeepInv ==
  ASSUME PlaybackInv, Terminate \/ Exit
  PROVE  PlaybackInv'
<1>1. Shape /\ Linked /\ Led /\ Probed
  BY DEF PlaybackInv
<1>2. /\ UNCHANGED <<library, profiles, active, edits, adding, bridgeURL, playing, plays, asked,
                     replaced, named, speaker, conns, head, up, changes, fickle>>
      /\ serving' \in {"draining", "exited"}
  BY DEF Terminate, Exit, catalogue, shelves, requests, told, upstreams
<1>3. Shape'
  <2>1. /\ speaker' \in SpeakerType /\ conns' \in [Conns -> ConnType]
        /\ profiles' \in [Profiles -> Library] /\ active' \in Profiles \cup {NoProfile}
        /\ edits' \in 0 .. MaxEdits /\ head' \in [URLs -> BOOLEAN] /\ up' \in [URLs -> BOOLEAN]
        /\ changes' \in 0 .. MaxChanges /\ fickle' \subseteq URLs
    BY <1>1, <1>2 DEF Shape
  <2>. QED BY <1>1, <1>2, <2>1, ShapeAfter
<1>4. Linked' /\ Led'
  BY <1>1, <1>2 DEF Linked, Led, Meant
<1>5. Probed'
  BY <1>1, <1>2 DEF Probed, AllMarked, Marked, Accepts, SpeakerCanFetch
<1>. QED BY <1>3, <1>4, <1>5 DEF PlaybackInv

\* The speaker is silenced, by Stop, at its own buttons or before it is told something else.
LEMMA Silenced ==
  ASSUME PlaybackInv, conns' = HungUp, speaker' = Silent, Unasked,
         UNCHANGED <<library, profiles, active, edits, adding, bridgeURL, serving, head, up, changes,
                     fickle, plays>>,
         playing' \in {playing, NotPlaying}
  PROVE  PlaybackInv'
<1>1. /\ Silent \in SpeakerType /\ Silent.conn = NoURL /\ Silent.uri.via = "none"
      /\ Silent.pc = "stopped" /\ asked' = NoURL /\ replaced' = FALSE /\ named' = {}
      /\ NotPlaying.pc = "idle"
      /\ NotPlaying \in [pc : {"idle", "give"}, id : IDs \cup {""}, station : Saved \cup {NoURL}]
  BY DEF Silent, SpeakerType, URI, NoURI, NotPlaying, Unasked
<1>2. conns' \in [Conns -> ConnType] /\ Linked'
  BY <1>1, Unlinked
<1>3. Shape'
  BY <1>1, <1>2 DEF PlaybackInv, Shape
<1>4. Led'
  <2>1. \A c \in Conns : ~conns'[c].listener
    BY HungUpConns DEF PlaybackInv
  <2>. QED BY <1>1, <2>1 DEF Led
<1>5. Probed'
  BY <1>1 DEF PlaybackInv, Probed, AllMarked, Marked, Accepts, SpeakerCanFetch
<1>. QED BY <1>2, <1>3, <1>4, <1>5 DEF PlaybackInv

LEMMA StopKeepsInv ==
  ASSUME PlaybackInv, StopSpeaker
  PROVE  PlaybackInv'
<1>1. /\ conns' = HungUp /\ speaker' = Silent /\ Unasked
      /\ UNCHANGED <<library, profiles, active, edits, adding, bridgeURL, serving, head, up, changes,
                     fickle, plays>>
      /\ playing' = playing
  BY DEF StopSpeaker, catalogue, shelves, upstreams
<1>. QED BY <1>1, Silenced

\* playbackURL: what the speaker is given leads to the station. It is the station's own
\* address only if the speaker can fetch that.
LEMMA PlaybackURLLeads ==
  ASSUME NEW i \in IDs, NEW st \in Saved
  PROVE  /\ PlaybackURL(i, st) \in {Direct(st.url), Proxied(i)}
         /\ bridgeURL /\ PlaybackURL(i, st).via = "direct" =>
              ~st.needsProxy /\ ~st.url.tls /\ ~st.url.m3u8
<1>1. Proxied(i).via = "proxy"
  BY DEF Proxied
<1>. QED BY <1>1 DEF PlaybackURL

\* upnp.Play.
LEMMA GiveKeepsInv ==
  ASSUME PlaybackInv, GiveSpeaker
  PROVE  PlaybackInv'
<1>. DEFINE st == playing.station
            uri == PlaybackURL(playing.id, playing.station)
            now == IF uri.via = "proxy" THEN library[playing.id] ELSE playing.station
<1>1. /\ UNCHANGED <<library, profiles, active, edits, adding, bridgeURL, serving, head, up, changes,
                     fickle, plays>>
      /\ playing' = NotPlaying
  BY DEF GiveSpeaker, catalogue, shelves, upstreams
<1>2. /\ Shape /\ Linked /\ Led /\ Probed /\ playing.id \in IDs /\ st \in Saved /\ Marked(st)
  BY DEF PlaybackInv, Shape, Probed, GiveSpeaker
<1>3. /\ NotPlaying \in [pc : {"idle", "give"}, id : IDs \cup {""}, station : Saved \cup {NoURL}]
      /\ NotPlaying.pc = "idle"
  BY DEF NotPlaying
<1>4. CASE UNCHANGED <<conns, speaker, told>>
  <2>1. UNCHANGED <<asked, replaced, named>>
    BY <1>4 DEF told
  <2>2. Shape'
    <3>1. /\ speaker' \in SpeakerType /\ conns' \in [Conns -> ConnType]
          /\ profiles' \in [Profiles -> Library] /\ active' \in Profiles \cup {NoProfile}
          /\ edits' \in 0 .. MaxEdits /\ serving' \in {"up", "draining", "exited"}
          /\ head' \in [URLs -> BOOLEAN] /\ up' \in [URLs -> BOOLEAN]
          /\ changes' \in 0 .. MaxChanges /\ fickle' \subseteq URLs
      BY <1>1, <1>2, <1>4 DEF Shape
    <3>. QED BY <1>1, <1>2, <2>1, <3>1, ShapeAfter
  <2>3. Linked' /\ Led'
    BY <1>1, <1>2, <1>4, <2>1 DEF Linked, Led, Meant
  <2>4. Probed'
    BY <1>1, <1>2, <1>3, <1>4, <2>1 DEF Probed, AllMarked, Marked, Accepts, SpeakerCanFetch
  <2>. QED BY <2>2, <2>3, <2>4 DEF PlaybackInv
<1>5. CASE conns' = HungUp /\ speaker' = Silent /\ Unasked
  BY <1>1, <1>5, Silenced
<1>6. CASE /\ conns' = HungUp
           /\ speaker' = [Silent EXCEPT !.pc = "set", !.uri = uri]
           /\ asked' = st
           /\ replaced' = (now # asked') /\ named' = URLsOf({asked', now})
  <2>1. uri \in {Direct(st.url), Proxied(playing.id)} /\ uri \in URI /\ st.url \in URLs
    BY <1>2, PlaybackURLLeads DEF URI, Saved
  <2>2. bridgeURL /\ uri.via = "direct" => ~st.needsProxy /\ ~st.url.tls /\ ~st.url.m3u8
    BY <1>2, PlaybackURLLeads
  <2>3. /\ Direct(st.url).via = "direct" /\ Direct(st.url).url = st.url
        /\ Proxied(playing.id).via = "proxy" /\ Proxied(playing.id).id = playing.id
    BY DEF Direct, Proxied
  <2>4. /\ now \in Saved \cup {NoURL} /\ st # NoURL
        /\ uri.via = "direct" => now = st
        /\ uri.via = "proxy" => now = library[playing.id]
    BY <1>2, <2>1, <2>3, PlaybackAssumption DEF Shape, Library
  <2>. HIDE DEF uri, now
  <2>5. /\ speaker' \in SpeakerType /\ speaker'.conn = NoURL /\ speaker'.pc = "set"
        /\ speaker'.uri = uri
    BY <1>6, <2>1 DEF Silent, SpeakerType
  <2>6. conns' \in [Conns -> ConnType] /\ Linked' /\ \A c \in Conns : ~conns'[c].listener
    BY <1>2, <1>6, <2>5, Unlinked, HungUpConns
  <2>7. /\ named' \subseteq URLs /\ st.url \in named'
        /\ now # NoURL => now.url \in named'
    BY <1>2, <1>6, <2>4 DEF URLsOf, Saved
  <2>8. Shape'
    <3>1. asked' \in Saved \cup {NoURL} /\ replaced' \in BOOLEAN
      BY <1>2, <1>6
    <3>. QED BY <1>1, <1>2, <1>3, <2>5, <2>6, <2>7, <3>1 DEF Shape
  <2>9. Led'
    <3>1. uri.via # "none"
      BY <2>1, <2>3
    <3>2. uri.via = "direct" => uri.url = st.url /\ ~replaced'
      BY <1>6, <2>1, <2>3, <2>4
    <3>3. uri.via = "proxy" => uri.id = playing.id /\ (~replaced' => library[uri.id] = st)
      BY <1>6, <2>1, <2>3, <2>4
    <3>. HIDE DEF st
    <3>. QED BY <1>1, <1>2, <1>6, <2>4, <2>5, <2>6, <2>7, <3>1, <3>2, <3>3 DEF Led, Meant
  <2>10. Probed'
    <3>1. bridgeURL /\ uri.via = "direct" =>
            /\ ~uri.url.tls /\ ~uri.url.m3u8
            /\ st.probed /\ uri.url \notin fickle => head[uri.url]
      BY <1>2, <2>1, <2>2, <2>3 DEF Marked, Accepts
    <3>2. SpeakerCanFetch'
      BY <1>1, <1>6, <2>5, <3>1 DEF SpeakerCanFetch
    <3>. QED BY <1>1, <1>2, <1>3, <3>2 DEF Probed, AllMarked, Marked, Accepts
  <2>. QED BY <2>6, <2>8, <2>9, <2>10 DEF PlaybackInv
<1>. QED BY <1>4, <1>5, <1>6 DEF GiveSpeaker

\* A step of the speaker's own that changes neither its address nor its connection.
LEMMA SpeakerMoves ==
  ASSUME PlaybackInv, speaker.conn = NoURL, UNCHANGED conns, OutsideStream,
         speaker' \in SpeakerType, speaker'.uri = speaker.uri, speaker'.conn = NoURL,
         speaker.uri.via # "none",
         speaker'.pc = "playing" => Meant(speaker'.hears)
  PROVE  PlaybackInv'
<1>1. UNCHANGED <<library, profiles, active, edits, adding, bridgeURL, serving, playing, plays,
                  asked, replaced, named, head, up, changes, fickle, conns>>
  BY DEF OutsideStream, catalogue, shelves, requests, told, upstreams
<1>2. Shape'
  BY <1>1, ShapeStands DEF PlaybackInv, Shape
<1>3. Linked'
  BY <1>1 DEF PlaybackInv, Linked
<1>4. Led'
  BY <1>1 DEF PlaybackInv, Led, Meant
<1>5. Probed'
  BY <1>1 DEF PlaybackInv, Probed, AllMarked, Marked, Accepts, SpeakerCanFetch
<1>. QED BY <1>2, <1>3, <1>4, <1>5 DEF PlaybackInv

LEMMA ProbesKeepInv ==
  ASSUME PlaybackInv, SpeakerProbes
  PROVE  PlaybackInv'
<1>1. /\ speaker \in SpeakerType /\ speaker.pc = "set" /\ UNCHANGED conns /\ OutsideStream
      /\ speaker.uri.via # "none"
      /\ speaker' = [speaker EXCEPT !.pc = "ready"] \/ speaker' = Gone
  BY DEF PlaybackInv, Shape, Led, SpeakerProbes
<1>2. speaker.conn = NoURL
  BY <1>1 DEF PlaybackInv, Linked
<1>3. CASE speaker' = Gone
  BY <1>1, <1>2, <1>3, GivesUp
<1>4. CASE speaker' = [speaker EXCEPT !.pc = "ready"]
  <2>1. /\ speaker' \in SpeakerType /\ speaker'.pc = "ready" /\ speaker'.conn = NoURL
        /\ speaker'.uri = speaker.uri
    BY <1>1, <1>2, <1>4 DEF SpeakerType
  <2>. QED BY <1>1, <1>2, <2>1, SpeakerMoves
<1>. QED BY <1>1, <1>3, <1>4

LEMMA LosesKeepsInv ==
  ASSUME PlaybackInv, SpeakerLoses
  PROVE  PlaybackInv'
<1>1. /\ speaker.uri.via = "direct" /\ speaker' = Gone /\ UNCHANGED conns /\ OutsideStream
  BY DEF SpeakerLoses
<1>2. speaker.conn = NoURL
  BY <1>1 DEF PlaybackInv, Linked
<1>. QED BY <1>1, <1>2, GivesUp

LEMMA FetchesKeepInv ==
  ASSUME PlaybackInv, SpeakerFetches
  PROVE  PlaybackInv'
<1>1. /\ Shape /\ Linked /\ Led /\ Probed /\ speaker \in SpeakerType /\ speaker.uri \in URI
      /\ conns \in [Conns -> ConnType] /\ NoURL \notin Conns
      /\ speaker.pc = "ready" /\ OutsideStream
  BY PlaybackAssumption DEF PlaybackInv, Shape, SpeakerType, SpeakerFetches
<1>2. speaker.conn = NoURL
  BY <1>1 DEF Linked
<1>3. CASE speaker' = Gone /\ UNCHANGED conns
  <2>1. speaker.uri.via # "none"
    BY <1>1 DEF Led
  <2>. QED BY <1>1, <1>2, <1>3, <2>1, GivesUp
<1>4. CASE /\ speaker.uri.via = "direct" /\ UNCHANGED conns
           /\ speaker' = [speaker EXCEPT !.pc = "playing", !.hears = speaker.uri.url]
  <2>1. speaker.uri.url \in URLs
    BY <1>1, <1>4, Addresses
  <2>2. /\ speaker' \in SpeakerType /\ speaker'.conn = NoURL /\ speaker'.uri = speaker.uri
        /\ speaker'.hears = speaker.uri.url
    BY <1>1, <1>2, <1>4, <2>1 DEF SpeakerType
  <2>3. Meant(speaker'.hears) /\ speaker.uri.via # "none"
    BY <1>1, <1>4, <2>2 DEF Led
  <2>. QED BY <1>1, <1>2, <1>4, <2>2, <2>3, SpeakerMoves
<1>5. ASSUME NEW c \in Conns, conns[c] = Closed, speaker.uri.via = "proxy",
             conns' = [conns EXCEPT ![c] = [Closed EXCEPT !.pc = "lookup", !.listener = TRUE,
                                                          !.id = speaker.uri.id]],
             speaker' = [speaker EXCEPT !.pc = "waiting", !.conn = c]
      PROVE  PlaybackInv'
  <2>. DEFINE e == [Closed EXCEPT !.pc = "lookup", !.listener = TRUE, !.id = speaker.uri.id]
  <2>1. UNCHANGED <<library, profiles, active, edits, adding, bridgeURL, serving, playing, plays,
                    asked, replaced, named, head, up, changes, fickle>>
    BY <1>1 DEF OutsideStream, catalogue, shelves, requests, told, upstreams
  <2>2. speaker.uri.id \in IDs
    BY <1>1, <1>5, Addresses
  <2>3. /\ e \in ConnType /\ e.pc = "lookup" /\ e.listener = TRUE /\ e.id = speaker.uri.id
    BY <2>2 DEF Closed, ConnType
  <2>4. /\ speaker' \in SpeakerType /\ speaker'.pc = "waiting" /\ speaker'.conn = c
        /\ speaker'.uri = speaker.uri
    BY <1>1, <1>5 DEF SpeakerType
  <2>. HIDE DEF e
  <2>5. /\ conns' \in [Conns -> ConnType] /\ conns'[c] = e
        /\ \A d \in Conns : d # c => conns'[d] = conns[d]
    BY <1>1, <1>5, <2>3 DEF e
  <2>6. \A d \in Conns : ~conns[d].listener
    BY <1>1, <1>2 DEF Linked
  <2>7. Shape'
    BY <1>1, <2>1, <2>4, <2>5, ShapeStands
  <2>8. Linked'
    <3>1. \A d \in Conns : conns'[d].listener <=> speaker'.conn = d
      BY <2>3, <2>4, <2>5, <2>6
    <3>2. \A d \in Conns : conns'[d].listener => conns'[d].id = speaker'.uri.id
      BY <2>3, <2>4, <2>5, <2>6
    <3>3. \A d \in Conns : IF conns'[d].pc = "closed" THEN conns'[d] = Closed
                                                      ELSE conns'[d].id \in IDs
      BY <1>1, <2>2, <2>3, <2>5 DEF Linked
    <3>. QED BY <1>5, <2>4, <3>1, <3>2, <3>3 DEF Linked
  <2>9. Led'
    <3>1. speaker.uri.via # "none"
      BY <1>5
    <3>. QED BY <1>1, <2>1, <2>3, <2>4, <2>5, <2>6, <3>1 DEF Led, Meant
  <2>10. Probed'
    BY <1>1, <2>1, <2>4 DEF Probed, AllMarked, Marked, Accepts, SpeakerCanFetch
  <2>. QED BY <2>7, <2>8, <2>9, <2>10 DEF PlaybackInv
<1>6. CASE /\ speaker.uri.via = "proxy"
           /\ \E c \in Conns : conns[c] = Closed
           /\ LET c == CHOOSE free \in Conns : conns[free] = Closed
              IN  /\ conns' = [conns EXCEPT ![c] = [Closed EXCEPT !.pc = "lookup",
                                                      !.listener = TRUE, !.id = speaker.uri.id]]
                  /\ speaker' = [speaker EXCEPT !.pc = "waiting", !.conn = c]
  <2>. DEFINE c == CHOOSE free \in Conns : conns[free] = Closed
  <2>1. c \in Conns /\ conns[c] = Closed
    BY <1>6
  <2>2. /\ conns' = [conns EXCEPT ![c] = [Closed EXCEPT !.pc = "lookup", !.listener = TRUE,
                                                        !.id = speaker.uri.id]]
        /\ speaker' = [speaker EXCEPT !.pc = "waiting", !.conn = c]
    BY <1>6
  <2>. HIDE DEF c
  <2>. QED BY <1>5, <1>6, <2>1, <2>2
<1>. QED BY <1>3, <1>4, <1>6 DEF SpeakerFetches

-----------------------------------------------------------------------------
(* Stream's steps.                                                         *)

\* A handler goes on, with the listener it has.
LEMMA HandlerMoves ==
  ASSUME PlaybackInv, NEW c \in Conns, conns[c].pc # "closed", OutsideStream,
         NEW e \in ConnType, e.pc \in {"do", "copy"}, e.id = conns[c].id,
         e.listener = conns[c].listener,
         e.listener => Meant(e.url),
         conns' = [conns EXCEPT ![c] = e],
         \/ UNCHANGED speaker
         \/ /\ e.listener
            /\ speaker' = [speaker EXCEPT !.pc = "playing", !.hears = e.url]
  PROVE  PlaybackInv'
<1>1. /\ Shape /\ Linked /\ Led /\ Probed /\ speaker \in SpeakerType
      /\ conns \in [Conns -> ConnType] /\ NoURL \notin Conns
  BY PlaybackAssumption DEF PlaybackInv, Shape
<1>2. UNCHANGED <<library, profiles, active, edits, adding, bridgeURL, serving, playing, plays,
                  asked, replaced, named, head, up, changes, fickle>>
  BY DEF OutsideStream, catalogue, shelves, requests, told, upstreams
<1>3. /\ conns' \in [Conns -> ConnType] /\ conns'[c] = e
      /\ \A d \in Conns : d # c => conns'[d] = conns[d]
  BY <1>1
<1>4. speaker' \in SpeakerType /\ speaker'.uri = speaker.uri /\ speaker'.conn = speaker.conn
  <2>1. CASE UNCHANGED speaker
    BY <1>1, <2>1
  <2>2. CASE speaker' = [speaker EXCEPT !.pc = "playing", !.hears = e.url]
    <3>1. e.url \in URLs \cup {NoURL}
      BY DEF ConnType
    <3>. QED BY <1>1, <2>2, <3>1 DEF SpeakerType
  <2>. QED BY <2>1, <2>2
<1>5. \/ speaker'.pc = speaker.pc /\ speaker'.hears = speaker.hears
      \/ e.listener /\ speaker'.pc = "playing" /\ speaker'.hears = e.url
  BY <1>1 DEF SpeakerType
<1>6. conns[c].listener <=> speaker.conn = c
  BY <1>1 DEF Linked
<1>7. Shape'
  BY <1>1, <1>2, <1>3, <1>4, ShapeStands
<1>8. Linked'
  <2>1. \A d \in Conns : /\ conns'[d].listener = conns[d].listener
                         /\ conns'[d].id = conns[d].id
    BY <1>3
  <2>2. \A d \in Conns : IF conns'[d].pc = "closed" THEN conns'[d] = Closed
                                                    ELSE conns'[d].id \in IDs
    BY <1>1, <1>3 DEF Linked
  <2>3. speaker'.conn # NoURL => speaker'.pc \in {"waiting", "playing"} /\ speaker'.uri.via = "proxy"
    BY <1>1, <1>4, <1>5 DEF Linked
  <2>. QED BY <1>1, <1>4, <2>1, <2>2, <2>3 DEF Linked
<1>9. Led'
  <2>1. e.listener => speaker.uri.via = "proxy"
    BY <1>1, <1>6, PlaybackAssumption DEF Linked
  <2>. QED BY <1>1, <1>2, <1>3, <1>4, <1>5, <2>1 DEF Led, Meant
<1>10. Probed'
  BY <1>1, <1>2, <1>4 DEF Probed, AllMarked, Marked, Accepts, SpeakerCanFetch
<1>. QED BY <1>7, <1>8, <1>9, <1>10 DEF PlaybackInv

LEMMA HandlerKeepsInv ==
  ASSUME PlaybackInv, NEW c \in Conns, Handler(c) \/ UpstreamBreaks(c)
  PROVE  PlaybackInv'
<1>1. /\ Shape /\ Linked /\ Led /\ conns[c] \in ConnType /\ conns \in [Conns -> ConnType]
      /\ NoURL \notin Conns
  BY PlaybackAssumption DEF PlaybackInv, Shape
<1>2. OutsideStream
  BY DEF Handler, StreamLookup, StreamDo, StreamEnds, UpstreamBreaks
<1>3. CASE End(c)
  BY <1>2, <1>3, EndKeepsInv
<1>4. CASE /\ conns[c].pc = "lookup" /\ library[conns[c].id] # NoURL
           /\ conns' = [conns EXCEPT ![c].pc = "do", ![c].url = library[conns[c].id].url]
           /\ UNCHANGED speaker
  <2>. DEFINE st == library[conns[c].id]
              e == [conns[c] EXCEPT !.pc = "do", !.url = st.url]
  <2>1. conns[c].id \in IDs
    BY <1>1, <1>4 DEF Linked
  <2>2. st \in Saved /\ st.url \in URLs
    BY <1>1, <1>4, <2>1 DEF Shape, Library, Saved
  <2>3. conns[c].listener => Meant(st.url)
    <3>1. conns[c].listener => speaker.uri.via = "proxy" /\ conns[c].id = speaker.uri.id
      BY <1>1 DEF Linked
    <3>. QED BY <1>1, <1>4, <3>1 DEF Led, Meant
  <2>4. conns' = [conns EXCEPT ![c] = e]
    BY <1>1, <1>4
  <2>. HIDE DEF st
  <2>5. /\ e \in ConnType /\ e.pc = "do" /\ e.url = st.url /\ e.id = conns[c].id
        /\ e.listener = conns[c].listener
    BY <1>1, <2>2 DEF ConnType
  <2>6. conns[c].pc # "closed" /\ (e.listener => Meant(e.url))
    BY <1>4, <2>3, <2>5
  <2>7. UNCHANGED speaker
    BY <1>4
  <2>. HIDE DEF e
  <2>. QED BY <1>2, <2>4, <2>5, <2>6, <2>7, HandlerMoves
<1>5. CASE /\ conns[c].pc = "do"
           /\ conns' = [conns EXCEPT ![c].pc = "copy"]
           /\ speaker' = IF conns[c].listener /\ Relayed(conns[c].url)
                         THEN [speaker EXCEPT !.pc = "playing", !.hears = conns[c].url] ELSE speaker
  <2>. DEFINE e == [conns[c] EXCEPT !.pc = "copy"]
  <2>1. conns[c].listener => Meant(conns[c].url)
    BY <1>1, <1>5 DEF Led
  <2>2. conns' = [conns EXCEPT ![c] = e]
    BY <1>1, <1>5
  <2>3. /\ e \in ConnType /\ e.pc = "copy" /\ e.url = conns[c].url /\ e.id = conns[c].id
        /\ e.listener = conns[c].listener
    BY <1>1 DEF ConnType
  <2>4. \/ UNCHANGED speaker
        \/ e.listener /\ speaker' = [speaker EXCEPT !.pc = "playing", !.hears = e.url]
    BY <1>5, <2>3
  <2>5. conns[c].pc # "closed" /\ (e.listener => Meant(e.url))
    BY <1>5, <2>1, <2>3
  <2>. HIDE DEF e
  <2>. QED BY <1>2, <2>2, <2>3, <2>4, <2>5, HandlerMoves
<1>. QED BY <1>3, <1>4, <1>5 DEF Handler, StreamLookup, StreamDo, StreamEnds, UpstreamBreaks

-----------------------------------------------------------------------------
(* The theorems.                                                           *)

LEMMA NextKeepsInv == PlaybackInv /\ [Next]_vars => PlaybackInv'
<1>. SUFFICES ASSUME PlaybackInv, [Next]_vars PROVE PlaybackInv'
  OBVIOUS
<1>1. CASE ProbeStation \/ AddStation \/ DeleteStation \/ Play \/ Change \/ Terminate \/ Exit
  BY <1>1, ProbeKeepsInv, AddKeepsInv, DeleteKeepsInv, PlayKeepsInv, ChangeKeepsInv, SignalsKeepInv
<1>9. CASE ProfileStep
  BY <1>9, ProfilesKeepInv DEF ProfileStep
<1>2. CASE StopSpeaker
  BY <1>2, StopKeepsInv
<1>3. CASE GiveSpeaker
  BY <1>3, GiveKeepsInv
<1>4. CASE SpeakerProbes
  BY <1>4, ProbesKeepInv
<1>5. CASE SpeakerFetches
  BY <1>5, FetchesKeepInv
<1>6. CASE SpeakerLoses
  BY <1>6, LosesKeepsInv
<1>7. ASSUME NEW c \in Conns, Handler(c) \/ UpstreamBreaks(c)
      PROVE  PlaybackInv'
  BY <1>7, HandlerKeepsInv
<1>8. CASE UNCHANGED vars
  <2>1. UNCHANGED <<library, profiles, active, edits, adding, bridgeURL, serving, playing, plays,
                    asked, replaced, named, speaker, conns, head, up, changes, fickle>>
    BY <1>8 DEF vars, catalogue, shelves, requests, told, upstreams
  <2>2. Shape'
    BY <2>1, ShapeStands DEF PlaybackInv, Shape
  <2>3. Linked'
    BY <2>1 DEF PlaybackInv, Linked
  <2>4. Led'
    BY <2>1 DEF PlaybackInv, Led, Meant
  <2>5. Probed'
    BY <2>1 DEF PlaybackInv, Probed, AllMarked, Marked, Accepts, SpeakerCanFetch
  <2>. QED BY <2>2, <2>3, <2>4, <2>5 DEF PlaybackInv
<1>. QED
  BY <1>1, <1>2, <1>3, <1>4, <1>5, <1>6, <1>7, <1>8, <1>9 DEF Next, Users, SpeakerStep

LEMMA AlwaysPlaybackInv == Spec => []PlaybackInv
BY InitInv, NextKeepsInv, PTL DEF Spec

\* Every variable keeps its type, and a speaker that waits on a /stream/{id} is the
\* listener of exactly that handler: one that hangs up is seen to.
THEOREM PlaybackTypes == Spec => []TypeOK
<1>1. PlaybackInv => TypeOK
  <2>. SUFFICES ASSUME PlaybackInv PROVE TypeOK
    OBVIOUS
  <2>1. Shape /\ Linked
    BY DEF PlaybackInv
  <2>2. /\ adding.pc \in {"idle", "probed"} /\ adding.url \in URLs \cup {NoURL}
        /\ playing.pc \in {"idle", "give"} /\ playing.station \in Saved \cup {NoURL}
    BY <2>1 DEF Shape
  <2>3. speaker.pc \in {"stopped", "set", "ready", "waiting", "playing", "failed"}
    BY <2>1 DEF Shape, SpeakerType
  <2>4. \A c \in Conns : conns[c].pc \in {"closed", "lookup", "do", "copy"}
    BY <2>1 DEF Shape, ConnType
  <2>5. \A c \in Conns : conns[c].listener <=> speaker.conn = c
    BY <2>1 DEF Linked
  <2>. QED BY <2>1, <2>2, <2>3, <2>4, <2>5 DEF Shape, TypeOK
<1>. QED BY <1>1, AlwaysPlaybackInv, PTL

\* Where the bridge knows its own address the speaker is never sent to an https:// address
\* or a playlist itself, and never to an upstream that refused HEAD when the station was
\* added, while this upstream answers as it did: whatever happens between the probe and
\* the playing, and through however many profiles the station has been saved and loaded.
THEOREM NeverSentAstray == Spec => []SpeakerCanFetch
<1>1. PlaybackInv => SpeakerCanFetch
  BY DEF PlaybackInv, Probed
<1>. QED BY <1>1, AlwaysPlaybackInv, PTL

\* What the speaker plays is the station it was last told to play: through the bridge
\* too, although /stream/{id} finds its station by an id that is looked up again at each
\* request, and old handlers may outlive the request for another station. When that
\* station is deleted, or a profile is loaded or made active that has another one under its
\* id, it is one of those the id has led to since then.
THEOREM PlaysWhatItWasTold == Spec => []HearsWhatWasAsked
<1>1. PlaybackInv => HearsWhatWasAsked
  BY DEF PlaybackInv, Led, Meant, HearsWhatWasAsked
<1>. QED BY <1>1, AlwaysPlaybackInv, PTL
=============================================================================
