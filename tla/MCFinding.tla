----------------------------- MODULE MCFinding -----------------------------
(***************************************************************************)
(* A small instance of Finding.                                            *)
(***************************************************************************)
EXTENDS Finding

CONSTANTS link1, link2, stream1, stream2, ip1, ip2

Audio(link, stream) == [audio |-> TRUE, link |-> link, stream |-> stream]
Folder == [audio |-> FALSE, link |-> link1, stream |-> Nothing]

\* A folder between two stations; an item without a link, one whose link names no
\* stream, then one whose link does.
MCBodies == {<<Audio(link1, stream1), Folder, Audio(link2, stream2)>>,
             <<Audio(Nothing, stream1), Audio(link1, Nothing), Audio(link2, stream2)>>}

\* A speaker that is renamed while it announces itself, another, one without IPv4.
MCAnnouncements == {[name |-> "A", ip |-> ip1], [name |-> "B", ip |-> ip1],
                    [name |-> "C", ip |-> ip2], [name |-> "D", ip |-> Nothing]}
=============================================================================
