---------------------------- MODULE MCSessionEnd ----------------------------
(* Instances of SessionEnd: an anchor that may be opened on two sessions, one  *)
(* with raw chunks (the canonical pipeline) and one without (the fallback);   *)
(* or one session beside a direct-llm brainstorm.                             *)
EXTENDS SessionEnd

CONSTANTS b1, d1, s1, s2

OneAnchor == {b1}
OneDirect == {d1}
NoDirect == {}
OneSession == {s1}
TwoSessions == {s1, s2}
FirstIndexed == {s1}
NoneIndexed == {}
=============================================================================
