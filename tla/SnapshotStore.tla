--------------------------- MODULE SnapshotStore ---------------------------
(* What a collection of vectors promises its callers, and all it promises:    *)
(* records keyed by id, kept in memory, of which a process death leaves       *)
(* exactly those that the last completed save wrote down.  Nothing added      *)
(* since survives, nothing deleted since stays deleted.  A store that died    *)
(* in the middle of rewriting edited records promises nothing any more.       *)
CONSTANT Records    \* [id, version of the content]

VARIABLES
    live,       \* the records in memory
    saved,      \* those of the last save
    damaged

vars == <<live, saved, damaged>>

Init ==
    /\ live = {}
    /\ saved = {}
    /\ damaged = FALSE

Put(r) ==
    /\ live' = {x \in live : x.id # r.id} \cup {r}
    /\ saved' = saved
    /\ damaged' = damaged

Drop(gone) ==
    /\ live' = live \ gone
    /\ saved' = saved
    /\ damaged' = damaged

Save ==
    /\ saved' = live
    /\ live' = live
    /\ damaged' = damaged

Crash ==
    /\ live' = saved
    /\ saved' = saved
    /\ damaged' = damaged

Damage ==
    /\ damaged' = TRUE
    /\ live' \in SUBSET Records
    /\ saved' \in SUBSET Records

Next ==
    \/ ~damaged /\ \E r \in Records : Put(r)
    \/ ~damaged /\ \E gone \in SUBSET Records : Drop(gone)
    \/ ~damaged /\ (Save \/ Crash)
    \/ Damage

Spec == Init /\ [][Next]_vars
=============================================================================
