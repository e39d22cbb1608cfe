----------------------------- MODULE AudioFeed -----------------------------
(***************************************************************************)
(* What hls.Stream promises the speaker: no audio segment is played twice, *)
(* and, where the station's playlists never go back, segments are played   *)
(* in the order they were published. Segments may be left out, and the     *)
(* feed may end at any moment, after which nothing is played.              *)
(***************************************************************************)
EXTENDS Naturals, Sequences

VARIABLES played,    \* the segments played so far
          ordered,   \* the playlists never go back
          over       \* the feed has ended

Segments(s) == {s[i] : i \in DOMAIN s}

Init == played = <<>> /\ ordered \in BOOLEAN /\ over = FALSE

\* A segment that is cut off in the middle may end the feed.
Play ==
  /\ ~over
  /\ \E n \in Segments(played') :
       /\ played' = Append(played, n)
       /\ n \notin Segments(played)
       /\ ordered => \A m \in Segments(played) : m < n
  /\ over' \in BOOLEAN
  /\ UNCHANGED ordered

End == ~over /\ over' = TRUE /\ UNCHANGED <<played, ordered>>

Next == Play \/ End

Spec == Init /\ [][Next]_<<played, ordered, over>>
=============================================================================
