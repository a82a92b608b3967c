--------------------------- MODULE MCWorkerEvents ---------------------------
(* Instances of WorkerEvents: one project or two, two Lex sessions.           *)
EXTENDS WorkerEvents

CONSTANTS a1, a2, s1, s2

OneAnchor == {a1}
TwoAnchors == {a1, a2}
OneSession == {s1}
TwoSessions == {s1, s2}
NoPlain == {}
Denials == {"permission_denied"}
=============================================================================
