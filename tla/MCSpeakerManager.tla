-------------------------- MODULE MCSpeakerManager --------------------------
(***************************************************************************)
(* Small instances of SpeakerManager.                                      *)
(***************************************************************************)
EXTENDS SpeakerManager, TLC

CONSTANTS a, b, jazz

OneSpeaker  == {a}
TwoSpeakers == {a, b}
OneStation  == {jazz}

\* Button 1 plays a station, button 2 is not assigned.
Buttons == 1 :> jazz @@ 2 :> None
OneButton == 1 :> jazz
=============================================================================
