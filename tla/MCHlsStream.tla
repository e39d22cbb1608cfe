---------------------------- MODULE MCHlsStream ----------------------------
(***************************************************************************)
(* Small instances of HlsStream. The code's capacity of 64 becomes 4.      *)
(***************************************************************************)
EXTENDS HlsStream

\* Playlists no longer than the capacity, less twice what they may go back by: the
\* hypothesis of StreamImplementsFeed.
Proper == [window : {1, 3, 4}, lag : {0}, raw : BOOLEAN]
            \cup [window : {2}, lag : {1}, raw : {FALSE}]
=============================================================================
