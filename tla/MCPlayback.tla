----------------------------- MODULE MCPlayback -----------------------------
(***************************************************************************)
(* A small instance of Playback.                                           *)
(***************************************************************************)
EXTENDS Playback

Http  == [tls |-> FALSE, m3u8 |-> FALSE, audio |-> "plain", key |-> 1]
Https == [tls |-> TRUE,  m3u8 |-> FALSE, audio |-> "plain", key |-> 2]
Hls   == [tls |-> FALSE, m3u8 |-> TRUE,  audio |-> "hls",   key |-> 3]
MCURLs == {Http, Https, Hls}

Alone(u) == [i \in IDs |-> [url |-> u, needsProxy |-> FALSE, probed |-> FALSE]]

\* Two profiles that have different stations under one id.
MCProfiles == [p \in {"day", "night"} |-> IF p = "day" THEN Alone(Hls) ELSE Alone(Http)]

\* A library that is one of the profiles, and an empty one that is none of them.
MCFiles == {[library |-> Alone(Hls), profiles |-> MCProfiles, active |-> "day"],
            [library |-> [i \in IDs |-> NoURL], profiles |-> MCProfiles, active |-> NoProfile]}

\* Http may refuse HEAD.
MCHeads == {[u \in MCURLs |-> TRUE], [u \in MCURLs |-> u # Http]}
=============================================================================
