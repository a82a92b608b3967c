---------------------------- MODULE BridgeInbox ----------------------------
(* The bridge's prompt delivery: the daemon appends lines to one inbox file   *)
(* per session (dashboard/sessions.ts) and the VS Code extension of a window  *)
(* pastes them into a terminal (09-bridge/src/extension.ts).  Every 750 ms a  *)
(* tick reads each file from the window's cursor and hangs one delivery per   *)
(* line on the file's promise chain; the cursor advances when a delivery is   *)
(* answered, is saved to disk half a second later, and dies with the window.  *)
(*                                                                            *)
(* A line is its number in the file, a cursor the number of lines before it.  *)
(* Malformed and blank lines, which the daemon never writes, and truncated    *)
(* files are left out; so are sessions of other windows.                      *)
EXTENDS Naturals, Sequences

CONSTANTS
    Inboxes,    \* <sessionId>.in files this window handles
    None,       \* no entry for a file; no offsets file
    MaxLines,   \* bound: [Inboxes -> Nat], lines appended to an inbox
    MaxChain,   \* bound: deliveries hung on one chain
    MaxStops    \* bound: times the window is closed or the bridge disabled

ASSUME BoundsAssumption ==
    MaxLines \in [Inboxes -> Nat] /\ MaxChain \in Nat /\ MaxStops \in Nat
ASSUME NoneAssumption == None \notin Nat /\ None \notin [Inboxes -> Nat \cup {None}]

VARIABLES
    lines,      \* the inbox file, as its number of lines
    old,        \* how many of them are more than 90 s old
    bridge,     \* closed (no extension host), disabled or watching
    cursor,     \* lastOffsets
    chain,      \* fileChain: what hangs on the file's tail promise
    halted,     \* fileChain: a retry is outstanding
    timer,      \* offsetsSaveTimer
    saved,      \* the offsets file
    stops,
    answered,   \* history: lines some handler answered, or a first run skipped
    pasted,     \* history: lines that reached a terminal
    flood       \* history: how many lines were old when the window opened

diskVars == <<lines, old, saved>>
historyVars == <<answered, pasted, flood>>
vars == <<diskVars, bridge, cursor, chain, halted, timer, stops, historyVars>>

Cursors == [Inboxes -> Nat \cup {None}]
Deliveries == [line : Nat, kind : {"deliver", "stale"}]

InFile(cursors) == \A f \in Inboxes : cursors[f] # None => cursors[f] <= lines[f]

TypeOK ==
    /\ lines \in [Inboxes -> Nat]
    /\ old \in [Inboxes -> Nat]
    /\ bridge \in {"closed", "disabled", "watching"}
    /\ cursor \in Cursors
    /\ InFile(cursor)
    /\ chain \in [Inboxes -> Seq(Deliveries)]
    /\ \A f \in Inboxes : \A p \in 1..Len(chain[f]) : chain[f][p].line <= lines[f]
    /\ halted \in [Inboxes -> BOOLEAN]
    /\ timer \in BOOLEAN
    /\ saved \in Cursors \cup {None}
    /\ saved # None => InFile(saved)
    /\ stops \in Nat
    /\ answered \in [Inboxes -> SUBSET Nat]
    /\ pasted \in [Inboxes -> SUBSET Nat]
    /\ flood \in [Inboxes -> Nat]

NoEntries == [f \in Inboxes |-> None]

Init ==
    /\ lines = [f \in Inboxes |-> 0]
    /\ old = [f \in Inboxes |-> 0]
    /\ bridge = "closed"
    /\ cursor = NoEntries
    /\ chain = [f \in Inboxes |-> <<>>]
    /\ halted = [f \in Inboxes |-> FALSE]
    /\ timer = FALSE
    /\ saved = None
    /\ stops = 0
    /\ answered = [f \in Inboxes |-> {}]
    /\ pasted = [f \in Inboxes |-> {}]
    /\ flood = [f \in Inboxes |-> 0]

-----------------------------------------------------------------------------
\* lastOffsets.get(file) ?? 0
From(cursors, f) == IF cursors[f] = None THEN 0 ELSE cursors[f]

\* A chained promise without an await settles before any timer fires.
NothingDue == \A f \in Inboxes : chain[f] # <<>> => Head(chain[f]).kind = "deliver"

\* writeBridgePrompt, with some window's heartbeat fresh.
WritePrompt(f) ==
    /\ lines[f] < MaxLines[f]
    /\ lines' = [lines EXCEPT ![f] = @ + 1]
    /\ UNCHANGED <<old, saved, bridge, cursor, chain, halted, timer, stops, historyVars>>

\* Ninety seconds pass for the next line.
Age(f) ==
    /\ old[f] < lines[f]
    /\ old' = [old EXCEPT ![f] = @ + 1]
    /\ UNCHANGED <<lines, saved, bridge, cursor, chain, halted, timer, stops, historyVars>>

\* Mutant: the 90 s gate is gone.
Unread_NoStaleGate(f) ==
    [i \in 1..(lines[f] - From(cursor, f)) |->
        [line |-> From(cursor, f) + i, kind |-> "deliver"]]

\* Mutant: the empty token after the last newline counts as a line.
Unread_TrailingToken(f) ==
    [i \in 1..(lines[f] - From(cursor, f) + 1) |->
        [line |-> From(cursor, f) + i,
         kind |-> IF From(cursor, f) + i <= old[f] THEN "stale" ELSE "deliver"]]

\* What processFile chains: every complete line after the cursor.
Unread(f) ==
    [i \in 1..(lines[f] - From(cursor, f)) |->
        [line |-> From(cursor, f) + i,
         kind |-> IF From(cursor, f) + i <= old[f] THEN "stale" ELSE "deliver"]]

\* Mutant: the cursor advances as the lines are read (before Bug 3c was fixed).
Tick_CommitsOnRead ==
    /\ bridge = "watching"
    /\ NothingDue
    /\ chain' = [f \in Inboxes |-> IF halted[f] THEN chain[f] ELSE chain[f] \o Unread(f)]
    /\ \A f \in Inboxes : Len(chain'[f]) <= MaxChain
    /\ cursor' = [f \in Inboxes |-> IF lines[f] = 0 THEN cursor[f] ELSE lines[f]]
    /\ UNCHANGED <<diskVars, bridge, halted, timer, stops, historyVars>>

\* tick() and processFile: deliveries of an earlier tick may still be chained.
Tick ==
    /\ bridge = "watching"
    /\ NothingDue
    /\ chain' = [f \in Inboxes |-> IF halted[f] THEN chain[f] ELSE chain[f] \o Unread(f)]
    /\ \A f \in Inboxes : Len(chain'[f]) <= MaxChain
    /\ UNCHANGED <<diskVars, bridge, cursor, halted, timer, stops, historyVars>>

\* Mutant: the line is answered but the cursor stays.
Commit_ForgetsCursor(f, line) ==
    /\ chain' = [chain EXCEPT ![f] = Tail(@)]
    /\ answered' = [answered EXCEPT ![f] = @ \cup {line}]
    /\ halted' = [halted EXCEPT ![f] = FALSE]
    /\ UNCHANGED <<cursor, timer>>

\* A line is over and done with: whatever it follows, the cursor goes past it.
Commit(f, line) ==
    /\ chain' = [chain EXCEPT ![f] = Tail(@)]
    /\ answered' = [answered EXCEPT ![f] = @ \cup {line}]
    /\ cursor' = [cursor EXCEPT ![f] = line]
    /\ halted' = [halted EXCEPT ![f] = FALSE]
    /\ timer' = TRUE

\* Mutant: no chain; a later line's terminal lookup may return first.
Deliver_AnyOrder(f) ==
    /\ bridge # "closed"
    /\ \E i \in 1..Len(chain[f]) :
         LET line == chain[f][i].line
         IN /\ chain[f][i].kind = "deliver"
            /\ chain' = [chain EXCEPT ![f] = SubSeq(@, 1, i - 1) \o SubSeq(@, i + 1, Len(@))]
            /\ answered' = [answered EXCEPT ![f] = @ \cup {line}]
            /\ pasted' = [pasted EXCEPT ![f] = @ \cup {line}]
            /\ cursor' = [cursor EXCEPT ![f] = line]
            /\ timer' = TRUE
    /\ UNCHANGED <<diskVars, bridge, halted, stops, flood>>

\* handleMessage answered: delivered, dropped (sendText threw, no text), or
\* retry (no terminal, or the lookup of one failed).
Deliver(f) ==
    /\ bridge # "closed"
    /\ chain[f] # <<>>
    /\ Head(chain[f]).kind = "deliver"
    /\ LET line == Head(chain[f]).line
       IN \/ /\ Commit(f, line)
             /\ \/ pasted' = [pasted EXCEPT ![f] = @ \cup {line}]
                \/ UNCHANGED pasted
          \/ /\ chain' = [chain EXCEPT ![f] = Tail(@)]
             /\ answered' = [answered EXCEPT ![f] = @ \cup {line}]
             /\ halted' = [halted EXCEPT ![f] = TRUE]
             /\ UNCHANGED <<cursor, timer, pasted>>
    /\ UNCHANGED <<diskVars, bridge, stops, flood>>

SkipStale(f) ==
    /\ bridge # "closed"
    /\ chain[f] # <<>>
    /\ Head(chain[f]).kind = "stale"
    /\ Commit(f, Head(chain[f]).line)
    /\ UNCHANGED <<diskVars, bridge, stops, pasted, flood>>

SaveOffsets ==
    /\ timer /\ NothingDue
    /\ timer' = FALSE
    /\ saved' = cursor
    /\ UNCHANGED <<lines, old, bridge, cursor, chain, halted, stops, historyVars>>

\* The window closes or reloads: nothing is flushed.
CloseWindow ==
    /\ bridge # "closed"
    /\ NothingDue
    /\ stops < MaxStops
    /\ stops' = stops + 1
    /\ bridge' = "closed"
    /\ cursor' = NoEntries
    /\ chain' = [f \in Inboxes |-> <<>>]
    /\ halted' = [f \in Inboxes |-> FALSE]
    /\ timer' = FALSE
    /\ UNCHANGED <<diskVars, historyVars>>

\* The bridge is switched off in the settings; its chains live on.
StopWatching ==
    /\ bridge = "watching"
    /\ NothingDue
    /\ stops < MaxStops
    /\ stops' = stops + 1
    /\ bridge' = "disabled"
    /\ UNCHANGED <<diskVars, cursor, chain, halted, timer, historyVars>>

\* startWatching: the offsets file replaces what memory holds; if that is
\* nothing, this counts as the first run and the files' contents as backlog.
StartWatching ==
    /\ bridge # "watching"
    /\ NothingDue
    /\ bridge' = "watching"
    /\ LET loaded == IF saved = None THEN cursor ELSE saved
       IN \/ /\ loaded # NoEntries
             /\ cursor' = loaded
             /\ UNCHANGED <<timer, answered>>
          \/ /\ loaded = NoEntries
             /\ cursor' = [f \in Inboxes |-> IF lines[f] = 0 THEN None ELSE lines[f]]
             /\ timer' = TRUE
             /\ answered' = [f \in Inboxes |-> answered[f] \cup 1..lines[f]]
    /\ flood' = IF bridge = "closed" THEN old ELSE flood
    /\ UNCHANGED <<diskVars, chain, halted, stops, pasted>>

Next ==
    \/ \E f \in Inboxes : WritePrompt(f) \/ Age(f) \/ Deliver(f) \/ SkipStale(f)
    \/ Tick \/ SaveOffsets
    \/ CloseWindow \/ StopWatching \/ StartWatching

\* The interval and the save timer fire, a terminal lookup settles, time passes.
\* Nobody has to append, to open or to close.
Fairness ==
    /\ WF_vars(Tick)
    /\ WF_vars(SaveOffsets)
    /\ \A f \in Inboxes : WF_vars(Deliver(f)) /\ WF_vars(SkipStale(f)) /\ WF_vars(Age(f))

Spec == Init /\ [][Next]_vars /\ Fairness

-----------------------------------------------------------------------------
Covered(cursors) == \A f \in Inboxes : 1..From(cursors, f) \subseteq answered[f]

\* Neither the cursor in memory nor the one a reload comes back to is past a line
\* that nothing ever answered: a slow lookup, a stale line between two fresh ones
\* or a crash of the window never drops a prompt unseen.
NothingPassedUnseen == Covered(cursor) /\ (saved # None => Covered(saved))

\* A line reaches a terminal only after every earlier line has had its answer,
\* through slow lookups, overtaking ticks and reloads.
PastedInOrder ==
    [][\A f \in Inboxes : \A i \in pasted'[f] \ pasted[f] :
          1..(i - 1) \subseteq answered[f]]_vars

\* What had gone stale before the window opened is never pasted by it.
NoFloodOnOpen ==
    [][\A f \in Inboxes : \A i \in pasted'[f] \ pasted[f] : i > flood[f]]_vars

\* While the bridge watches and no retry halts a file, its whole inbox is
\* consumed, although re-reading ticks may set its cursor back on the way.
InboxConsumed ==
    \A f \in Inboxes :
        <>[](bridge = "watching" /\ ~halted[f]) => <>[](From(cursor, f) = lines[f])

\* extension.ts: a halt lasts until the message ages out or another tick succeeds.
HaltLifts == \A f \in Inboxes : halted[f] ~> ~halted[f]
=============================================================================
