------------------------------ MODULE Playback ------------------------------
(***************************************************************************)
(* How a station gets to the speaker: AddStation probes its address once   *)
(* and remembers whether the speaker can fetch it, Play hands the speaker  *)
(* the address itself or one of the bridge's /stream/{id}, Stream relays.  *)
(* Meanwhile profiles put other libraries in the place of this one.        *)
(*                                                                         *)
(* An address is what matters of it: [tls, m3u8, audio]. The store is its  *)
(* library and its profiles, the UPnP calls of one Play are one step, and  *)
(* hls.Stream is a relay that ends with its listener or its upstream:      *)
(* ConfigStore, SpeakerManager and HlsStream have the details.             *)
(*                                                                         *)
(* Profiles are those there ever are: one that is added later holds an     *)
(* empty library till then, one that is removed is not named again, and a  *)
(* new name changes no library.                                            *)
(***************************************************************************)
EXTENDS Naturals, Sequences, FiniteSets

CONSTANTS
  URLs,             \* the addresses there are
  NoURL,            \* no address, and no station
  IDs,              \* station ids
  Profiles,         \* profiles
  NoProfile,        \* active_profile of a file that has none
  Files,            \* what config.yaml, or the factory set in its place, may hold
  Heads,            \* which upstreams accept HEAD at first
  Conns,            \* bound: GET requests the speaker may have open
  MaxPlays,         \* bound: requests to play
  MaxEdits,         \* bound: stations added or deleted, profiles loaded, saved or made active
  MaxChanges        \* bound: changes of what the upstreams answer

\* tls: an https:// address; m3u8: it ends in .m3u8; audio: what a GET returns.
Address == [tls : BOOLEAN, m3u8 : BOOLEAN, audio : {"plain", "hls", "none"}, key : Nat]

\* probed: AddStation has asked for this station (history).
Saved == [url : URLs, needsProxy : BOOLEAN, probed : BOOLEAN]

Library == [IDs -> Saved \cup {NoURL}]

Shelf == [library : Library, profiles : [Profiles -> Library], active : Profiles \cup {NoProfile}]

\* Nothing has asked the upstreams of a file, or of the factory, what they answer.
Unprobed(lib) == \A i \in IDs : lib[i] # NoURL => ~lib[i].probed

ASSUME PlaybackAssumption ==
  /\ URLs \subseteq Address /\ NoURL \notin URLs \cup Saved \cup Conns
  /\ Files \subseteq Shelf /\ NoProfile \notin Profiles
  /\ \A f \in Files : Unprobed(f.library) /\ \A p \in Profiles : Unprobed(f.profiles[p])
  /\ Heads \subseteq [URLs -> BOOLEAN]
  /\ MaxPlays \in Nat /\ MaxEdits \in Nat /\ MaxChanges \in Nat

VARIABLES
  library,          \* id -> station, NoURL if there is none
  profiles,         \* profile -> the library it holds
  active,           \* the active profile
  edits,            \* operations on the stations and the profiles so far
  bridgeURL,        \* the manager knows the bridge's own address
  serving,          \* the HTTP server is "up", "draining" after SIGTERM, "exited"
  adding,           \* AddStation between its probe and its save
  playing,          \* Manager.Play between its lookup and its UPnP calls
  speaker,          \* what it was told to play and how far it is
  conns,            \* GET /stream/{id} requests and the upstreams they hold
  head, up,         \* what each upstream answers: HEAD accepted, GET answered
  changes,          \* changes of these so far
  plays,            \* requests to play so far
  fickle,           \* history: addresses whose answers have changed
  asked,            \* history: the station the speaker was last told to play,
  replaced,         \* whether its id was deleted or put to another use since,
  named             \* and the addresses that its id has led to

upstreams == <<head, up, changes, fickle>>
shelves   == <<profiles, active>>
told      == <<asked, replaced, named>>
catalogue == <<library, shelves, adding, edits>>
requests  == <<playing, plays, told>>
vars == <<catalogue, bridgeURL, serving, requests, speaker, conns, upstreams>>

Direct(u)  == [via |-> "direct", url |-> u, id |-> ""]
Proxied(i) == [via |-> "proxy", url |-> NoURL, id |-> i]
NoURI      == [via |-> "none", url |-> NoURL, id |-> ""]

NotAdding == [pc |-> "idle", url |-> NoURL, needsProxy |-> FALSE]
NotPlaying == [pc |-> "idle", id |-> "", station |-> NoURL]
Silent    == [pc |-> "stopped", uri |-> NoURI, conn |-> NoURL, hears |-> NoURL]
Closed    == [pc |-> "closed", id |-> "", url |-> NoURL, listener |-> FALSE]

Init ==
  /\ \E f \in Files : library = f.library /\ profiles = f.profiles /\ active = f.active
  /\ edits = 0
  /\ bridgeURL \in BOOLEAN
  /\ serving = "up"
  /\ adding = NotAdding /\ playing = NotPlaying
  /\ speaker = Silent
  /\ conns = [c \in Conns |-> Closed]
  /\ head \in Heads /\ up = [u \in URLs |-> TRUE]
  /\ changes = 0 /\ plays = 0 /\ fickle = {}
  /\ asked = NoURL /\ replaced = FALSE /\ named = {}

-----------------------------------------------------------------------------
(* The upstreams.                                                          *)

HeadAnswers(u) == head[u] /\ up[u]

Change ==
  /\ changes < MaxChanges
  /\ changes' = changes + 1
  /\ \E u \in URLs :
       /\ fickle' = fickle \cup {u}
       /\ \/ head' = [head EXCEPT ![u] = ~@] /\ UNCHANGED up
          \/ up' = [up EXCEPT ![u] = ~@] /\ UNCHANGED head
  /\ UNCHANGED <<catalogue, bridgeURL, serving, requests, speaker, conns>>

-----------------------------------------------------------------------------
(* AddStation and DeleteStation.                                           *)

\* A request of the user's changes the stations or the profiles.
Edit == serving = "up" /\ edits < MaxEdits /\ edits' = edits + 1

URLsOf(stations) == {st.url : st \in stations \ {NoURL}}

\* The library becomes lib, and with it what the speaker's /stream/{id} leads to.
Becomes(lib) ==
  /\ library' = lib
  /\ named' = IF speaker.uri.via = "proxy" THEN named \cup URLsOf({lib[speaker.uri.id]}) ELSE named
  /\ UNCHANGED asked

\* Mutant: the new station takes the id of its name, free or not.
AnyID == IDs

\* The ids GenerateID may come to.
FreeIDs == {i \in IDs : library[i] = NoURL}

\* The address is typed in, or one that a search found. HeadOK asks the upstream of now, ...
ProbeStation ==
  /\ Edit /\ adding.pc = "idle"
  /\ FreeIDs # {}
  /\ \E u \in URLs :
       adding' = [pc |-> "probed", url |-> u, needsProxy |-> ~HeadAnswers(u) \/ u.tls \/ u.m3u8]
  /\ UNCHANGED <<library, shelves, bridgeURL, serving, requests, speaker, conns, upstreams>>

\* ... and the station is saved with that answer.
AddStation ==
  /\ adding.pc = "probed"
  /\ \E i \in FreeIDs :
       Becomes([library EXCEPT ![i] = [url |-> adding.url, needsProxy |-> adding.needsProxy,
                                       probed |-> TRUE]])
  /\ adding' = NotAdding
  /\ UNCHANGED <<shelves, edits, bridgeURL, serving, playing, plays, replaced, speaker, conns,
                 upstreams>>

DeleteStation ==
  /\ Edit
  /\ \E i \in IDs :
       /\ library[i] # NoURL
       /\ Becomes([library EXCEPT ![i] = NoURL])
       /\ replaced' = (replaced \/ speaker.uri = Proxied(i))
  /\ UNCHANGED <<shelves, adding, bridgeURL, serving, playing, plays, speaker, conns, upstreams>>

-----------------------------------------------------------------------------
(* Profiles: ids are unique within a library, not between two of them.     *)

\* The library of profile p takes the place of this one. Bound: an id is left for a station
\* that is being added.
Shows(p) ==
  /\ adding.pc = "probed" => \E i \in IDs : profiles[p][i] = NoURL
  /\ Becomes(profiles[p])
  /\ replaced' = (replaced \/ (/\ speaker.uri.via = "proxy"
                               /\ profiles[p][speaker.uri.id] # library[speaker.uri.id]))

OnProfile ==
  /\ Edit
  /\ UNCHANGED <<adding, bridgeURL, serving, playing, plays, speaker, conns, upstreams>>

LoadProfile(p) ==
  /\ OnProfile
  /\ Shows(p)
  /\ UNCHANGED <<profiles, active>>

\* The active profile keeps the library of now, if another one is made active.
SetActiveProfile(p) ==
  /\ OnProfile
  /\ Shows(p)
  /\ profiles' = IF active \in Profiles \ {p} THEN [profiles EXCEPT ![active] = library]
                                              ELSE profiles
  /\ active' = p

SaveProfile(p) ==
  /\ OnProfile
  /\ profiles' = [profiles EXCEPT ![p] = library]
  /\ UNCHANGED <<library, active, told>>

-----------------------------------------------------------------------------
(* Manager.Play and Manager.Stop.                                          *)

Play ==
  /\ serving = "up" /\ playing.pc = "idle"
  /\ plays < MaxPlays /\ plays' = plays + 1
  /\ \E i \in IDs :
       /\ library[i] # NoURL
       /\ playing' = [pc |-> "give", id |-> i, station |-> library[i]]
  /\ UNCHANGED <<catalogue, bridgeURL, serving, speaker, conns, told, upstreams>>

\* Mutant: only stations that were marked when they were added are proxied, those of
\* config.yaml and the factory set are not looked at.
PlaybackURLByFlag(i, st) ==
  IF st.needsProxy /\ bridgeURL THEN Proxied(i) ELSE Direct(st.url)

\* playbackURL.
PlaybackURL(i, st) ==
  IF (st.needsProxy \/ st.url.tls \/ st.url.m3u8) /\ bridgeURL THEN Proxied(i) ELSE Direct(st.url)

\* Mutant: the speaker is not stopped first.
KeptOpen == conns

\* The speaker closes its connection when it is stopped.
HungUp == IF speaker.conn = NoURL THEN conns
          ELSE [conns EXCEPT ![speaker.conn].listener = FALSE]

\* The speaker has nothing to play.
Unasked == asked' = NoURL /\ replaced' = FALSE /\ named' = {}

\* upnp.Play: the speaker is stopped, then given the address and started. It refuses
\* https:// with an error. Any of the calls may fail, the first before it is obeyed.
GiveSpeaker ==
  /\ playing.pc = "give"
  /\ LET uri == PlaybackURL(playing.id, playing.station)
         now == IF uri.via = "proxy" THEN library[playing.id] ELSE playing.station
     IN  \/ UNCHANGED <<conns, speaker, told>>
         \/ /\ conns' = HungUp
            /\ speaker' = Silent /\ Unasked
         \/ /\ conns' = HungUp
            /\ ~(uri.via = "direct" /\ uri.url.tls)
            /\ speaker' = [Silent EXCEPT !.pc = "set", !.uri = uri]
            /\ asked' = playing.station
            /\ replaced' = (now # asked') /\ named' = URLsOf({asked', now})
  /\ playing' = NotPlaying
  /\ UNCHANGED <<catalogue, bridgeURL, serving, plays, upstreams>>

\* Stop, or somebody at the speaker turns it off.
StopSpeaker ==
  /\ speaker.pc # "stopped"
  /\ conns' = HungUp
  /\ speaker' = Silent /\ Unasked
  /\ UNCHANGED <<catalogue, bridgeURL, serving, playing, plays, upstreams>>

-----------------------------------------------------------------------------
(* The speaker, as the README describes it.                                *)

OutsideStream == UNCHANGED <<catalogue, bridgeURL, serving, requests, upstreams>>

Gone == [speaker EXCEPT !.pc = "failed", !.conn = NoURL, !.hears = NoURL]

\* Mutant: a HEAD request is passed on to the upstream.
StreamHeadForwarded(i) == library[i] # NoURL /\ HeadAnswers(library[i].url)

\* Stream's answer to HEAD: nothing is asked of the upstream.
StreamHead(i) == library[i] # NoURL

\* HEAD comes first, an error makes the speaker give up.
SpeakerProbes ==
  /\ speaker.pc = "set"
  /\ LET uri == speaker.uri
         ok  == IF uri.via = "direct" THEN HeadAnswers(uri.url)
                ELSE serving = "up" /\ StreamHead(uri.id)
     IN  speaker' = IF ok THEN [speaker EXCEPT !.pc = "ready"] ELSE Gone
  /\ UNCHANGED conns /\ OutsideStream

\* Then GET. It decodes plain audio only.
SpeakerFetches ==
  /\ speaker.pc = "ready"
  /\ \/ /\ speaker.uri.via = "direct"
        /\ LET u == speaker.uri.url
           IN  speaker' = IF up[u] /\ u.audio = "plain"
                          THEN [speaker EXCEPT !.pc = "playing", !.hears = u] ELSE Gone
        /\ UNCHANGED conns
     \/ /\ speaker.uri.via = "proxy" /\ serving = "up"
        /\ \E c \in Conns : conns[c] = Closed
        /\ LET c == CHOOSE free \in Conns : conns[free] = Closed
           IN
             /\ conns' = [conns EXCEPT ![c] = [Closed EXCEPT !.pc = "lookup", !.listener = TRUE,
                                                             !.id = speaker.uri.id]]
             /\ speaker' = [speaker EXCEPT !.pc = "waiting", !.conn = c]
     \/ /\ speaker.uri.via = "proxy" /\ serving # "up"
        /\ speaker' = Gone /\ UNCHANGED conns
  /\ OutsideStream

\* An upstream it fetches itself breaks off.
SpeakerLoses ==
  /\ speaker.pc = "playing" /\ speaker.uri.via = "direct" /\ ~up[speaker.uri.url]
  /\ speaker' = Gone
  /\ UNCHANGED conns /\ OutsideStream

-----------------------------------------------------------------------------
(* Stream's GET.                                                           *)

\* The handler returns and with it the upstream is closed.
End(c) ==
  /\ conns' = [conns EXCEPT ![c] = Closed]
  /\ speaker' = IF conns[c].listener THEN Gone ELSE speaker

\* HLS is known by the end of the address and transmuxed, the rest is passed on as it
\* is, to a speaker that decodes plain audio only.
Relayed(u) == u.audio = IF u.m3u8 THEN "hls" ELSE "plain"

StreamLookup(c) ==
  /\ conns[c].pc = "lookup"
  /\ LET st == library[conns[c].id]
     IN  \/ st = NoURL /\ End(c)
         \/ /\ st # NoURL
            /\ conns' = [conns EXCEPT ![c].pc = "do", ![c].url = st.url]
            /\ UNCHANGED speaker
  /\ OutsideStream

\* Mutant: the upstream is requested without the context of the speaker's request.
NeverCancelled(c) == FALSE

\* r.Context().Done(): the speaker has hung up.
Cancelled(c) == ~conns[c].listener

\* The upstream answers, or fails within the timeout. A playlist that is none ends it too.
StreamDo(c) ==
  /\ conns[c].pc = "do"
  /\ LET u    == conns[c].url
         open == up[u] /\ ~Cancelled(c) /\ (u.m3u8 => Relayed(u))
     IN  \/ ~open /\ End(c)
         \/ /\ open
            /\ conns' = [conns EXCEPT ![c].pc = "copy"]
            /\ speaker' = IF conns[c].listener /\ Relayed(u)
                          THEN [speaker EXCEPT !.pc = "playing", !.hears = u] ELSE speaker
  /\ OutsideStream

\* The relay ends when the request is cancelled, or when a write finds the speaker gone,
\* which takes audio to write: an upstream that stalls keeps it waiting ...
StreamEnds(c) ==
  /\ conns[c].pc = "copy"
  /\ Cancelled(c) \/ (~conns[c].listener /\ up[conns[c].url])
  /\ End(c)
  /\ OutsideStream

\* ... unless it closes the connection.
UpstreamBreaks(c) ==
  /\ conns[c].pc = "copy"
  /\ ~up[conns[c].url]
  /\ End(c)
  /\ OutsideStream

-----------------------------------------------------------------------------
(* SIGTERM. Shutdown accepts no more requests and waits for those running. *)

Terminate ==
  /\ serving = "up"
  /\ serving' = "draining"
  /\ UNCHANGED <<catalogue, bridgeURL, requests, speaker, conns, upstreams>>

Exit ==
  /\ serving = "draining"
  /\ \A c \in Conns : conns[c] = Closed
  /\ adding.pc = "idle" /\ playing.pc = "idle"
  /\ serving' = "exited"
  /\ UNCHANGED <<catalogue, bridgeURL, requests, speaker, conns, upstreams>>

-----------------------------------------------------------------------------
Handler(c)   == StreamLookup(c) \/ StreamDo(c) \/ StreamEnds(c)
SpeakerStep  == SpeakerProbes \/ SpeakerFetches
ProfileStep  == \E p \in Profiles : LoadProfile(p) \/ SetActiveProfile(p) \/ SaveProfile(p)
Users        == ProbeStation \/ DeleteStation \/ ProfileStep \/ Play \/ StopSpeaker

Next ==
  \/ Users \/ AddStation \/ GiveSpeaker
  \/ SpeakerStep \/ SpeakerLoses
  \/ \E c \in Conns : Handler(c) \/ UpstreamBreaks(c)
  \/ Change \/ Terminate \/ Exit

Spec == Init /\ [][Next]_vars

\* Goroutines are scheduled and their HTTP calls have timeouts; the speaker goes on once
\* told to. Users, upstreams and signals do what they like.
FairSpec ==
  /\ Spec
  /\ WF_vars(AddStation) /\ WF_vars(GiveSpeaker)
  /\ WF_vars(SpeakerStep) /\ WF_vars(Exit)
  /\ \A c \in Conns : WF_vars(Handler(c))

-----------------------------------------------------------------------------
(* Properties.                                                             *)

\* Every variable has its type. The handler that has the speaker for a listener is the one
\* the speaker waits for.
TypeOK ==
  /\ library \in Library /\ profiles \in [Profiles -> Library]
  /\ active \in Profiles \cup {NoProfile} /\ edits \in 0 .. MaxEdits
  /\ bridgeURL \in BOOLEAN /\ serving \in {"up", "draining", "exited"}
  /\ adding.pc \in {"idle", "probed"} /\ adding.url \in URLs \cup {NoURL}
  /\ playing.pc \in {"idle", "give"} /\ playing.station \in Saved \cup {NoURL}
  /\ speaker.pc \in {"stopped", "set", "ready", "waiting", "playing", "failed"}
  /\ \A c \in Conns : /\ conns[c].pc \in {"closed", "lookup", "do", "copy"}
                      /\ conns[c].listener <=> speaker.conn = c
  /\ head \in [URLs -> BOOLEAN] /\ up \in [URLs -> BOOLEAN]
  /\ changes \in 0 .. MaxChanges /\ plays \in 0 .. MaxPlays /\ fickle \subseteq URLs
  /\ asked \in Saved \cup {NoURL} /\ replaced \in BOOLEAN /\ named \subseteq URLs

\* README: the speaker has "no TLS support at all", "can't parse HLS playlists" and
\* aborts on a HEAD error. Where the bridge knows its own address the speaker is never
\* sent to an https:// address or a playlist itself, wherever the station comes from, nor to
\* an upstream that refused HEAD when AddStation asked, through whatever profiles the
\* station has come since, as long as this upstream answers as it did. A station that
\* nobody has probed is sent as it stands in the file.
SpeakerCanFetch ==
  bridgeURL /\ speaker.uri.via = "direct" =>
    /\ ~speaker.uri.url.tls /\ ~speaker.uri.url.m3u8
    /\ asked.probed /\ speaker.uri.url \notin fickle => head[speaker.uri.url]

\* The speaker plays the station it was last told to play, also through the bridge, whose
\* /stream/{id} is looked up again long after, whatever is added or played besides. When
\* the station is deleted meanwhile, or a profile puts another one under its id, it is one
\* that the id has led to since the speaker was told: never one from before.
HearsWhatWasAsked ==
  speaker.pc = "playing" =>
    /\ ~replaced => speaker.hears = asked.url
    /\ speaker.hears \in named

AskedFor(u) == asked \in Saved /\ asked.url = u

\* A station the speaker was told to play is heard, through the proxy if need be, when
\* its upstream is up and stays as it was: unless the speaker is stopped or told
\* something else, the station deleted, its id put to another use by a profile, or the
\* bridge terminated. A station that is sent as it is accepts HEAD.
PlaysInTheEnd ==
  \A u \in {v \in URLs : Relayed(v)} :
    /\ speaker.pc = "set" /\ AskedFor(u) /\ ~replaced /\ bridgeURL /\ serving = "up"
    /\ changes = MaxChanges /\ up[u] /\ u \notin fickle
    /\ speaker.uri.via = "direct" => head[u]
    ~> speaker.hears = u \/ ~AskedFor(u) \/ replaced \/ serving # "up"

\* When the speaker hangs up, the bridge lets go of the upstream, which would else be
\* fetched for nobody: even one that has stalled.
UpstreamReleased ==
  \A c \in Conns : (conns[c] # Closed /\ ~conns[c].listener) ~> conns[c] = Closed

\* After SIGTERM the process ends, unless the speaker goes on listening: Shutdown waits
\* for its stream without a limit.
ShutdownEnds == serving = "draining" ~> (serving = "exited" \/ speaker.conn # NoURL)
=============================================================================
