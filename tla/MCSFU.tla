------------------------------- MODULE MCSFU -------------------------------
(***************************************************************************)
(* Small instances of the SFU for TLC.                                     *)
(***************************************************************************)
EXTENDS SFUProperties

CONSTANTS c1, c2

\* Every connection is of a client of its own.
OneEach == [c \in Conn |-> c]

\* All connections are of one client, which connects again.
SameClient == [c \in Conn |-> c1]

\* Choices of the remote tracks that may arrive.
AudioOfFirst == {<<c1, Audio, 0>>}
VideoOfFirst == {<<c1, 1, q>> : q \in Quality}
AudioOfBoth  == {<<c1, Audio, 0>>, <<c2, Audio, 0>>}
BothOfFirst  == {<<c1, Audio, 0>>, <<c1, 1, 0>>}
NoTracks     == {}

\* Decisions of c2 about the video of c1: no track, another quality than the
\* first, and one that the tile does not have.
SecondAboutFirst == {<<c2, <<c1, 1>>, q>> : q \in {-1, 1, NumQualities}}
NoDecisions      == {}

\* Decision of c1 for no video of a client that may not be there.
FirstAboutSecond == {<<c1, <<c2, 1>>, -1>>}

\* Bound: of the tracks, decisions and failures that an instance allows, at
\* most three happen, in every combination and order.
Happened ==
  Cardinality({r \in Incoming : ~At(OnTrack(r), "idle")})
    + (MaxDecisions - decisionsLeft) + (MaxFailures - failuresLeft)

ThreeHappen == Happened <= 3
=============================================================================
