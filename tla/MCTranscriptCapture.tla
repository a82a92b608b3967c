------------------------ MODULE MCTranscriptCapture ------------------------
(* Instances of TranscriptCapture: the first two lines belong to one turn,    *)
(* the third opens another.                                                   *)
EXTENDS TranscriptCapture, TLC

CONSTANTS p1, p2

OnePass == {p1}
TwoPasses == {p1, p2}
TwoTurns == [l \in Lines |-> IF l < 3 THEN "user" ELSE "assistant"]
=============================================================================
