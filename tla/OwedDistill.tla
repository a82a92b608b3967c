---------------------------- MODULE OwedDistill ----------------------------
(* What lex/distill-pending.ts promises of a brainstorm's end-of-session      *)
(* distillation, without any of the ways it is asked for or carried out: it   *)
(* is owed from the moment it is queued until it succeeds; a failure or a     *)
(* daemon death loses the work in progress and never the debt.                *)
CONSTANT Brainstorms

VARIABLES
    owed,   \* durable: brainstorms a marker file names
    work    \* volatile: the flight of a brainstorm, settled or not

vars == <<owed, work>>

Outcomes == {"ok", "failed"}

Init ==
    /\ owed = {}
    /\ work = [b \in Brainstorms |-> "none"]

Queue(b) ==
    /\ work[b] = "none"
    /\ owed' = owed \cup {b}
    /\ work' = [work EXCEPT ![b] = "waiting"]

\* A run settles for every brainstorm that shared it.
Finish(B, outcome) ==
    /\ \A b \in B : work[b] = "waiting"
    /\ work' = [b \in Brainstorms |-> IF b \in B THEN outcome ELSE work[b]]
    /\ UNCHANGED owed

Close(b) ==
    /\ work[b] \in Outcomes
    /\ owed' = IF work[b] = "ok" THEN owed \ {b} ELSE owed
    /\ work' = [work EXCEPT ![b] = "none"]

DaemonDeath ==
    /\ work' = [b \in Brainstorms |-> "none"]
    /\ UNCHANGED owed

Next ==
    \/ \E b \in Brainstorms : Queue(b) \/ Close(b)
    \/ \E B \in SUBSET Brainstorms : \E o \in Outcomes : Finish(B, o)
    \/ DaemonDeath

Spec == Init /\ [][Next]_vars
=============================================================================
