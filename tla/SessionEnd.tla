----------------------------- MODULE SessionEnd -----------------------------
(* How a Lex brainstorm ends: the PTY host, the voice socket, the dashboard,  *)
(* the compaction supervisor, the cold-start gate and the reapers all funnel  *)
(* into one pipeline through a persisted queue (lex/distill-pending.ts) and a *)
(* per-session lock (lex/session-end-lock.ts).                                *)
(*                                                                            *)
(* An anchor is a durable brainstorm reopened on a fresh Claude Code session  *)
(* each time; a session has one PTY and one transcript, so one name stands    *)
(* for all three.  A direct-llm brainstorm has neither, and the lock key of   *)
(* its runs is the brainstorm itself.  An action is what Node runs between    *)
(* two awaits.                                                                *)
EXTENDS Naturals, Sequences, SequencesExt

CONSTANTS
    Anchors,        \* cc-pty brainstorms
    Direct,         \* direct-llm brainstorms
    Sessions,       \* the Claude Code sessions that may be spawned
    Indexed,        \* sessions that own raw chunks: the canonical pipeline
    None,
    Ways,           \* the ways of ending the environment uses
    MaxCrashes      \* bound: daemon deaths

AllWays == {"exit", "button", "voice", "compact", "flush", "crash"}
Brainstorms == Anchors \cup Direct
Keys == Sessions \cup Direct

ASSUME DistinctNames ==
    /\ Anchors \cap Direct = {} /\ Sessions \cap Direct = {}
    /\ None \notin Keys
ASSUME BoundAssumption == MaxCrashes \in Nat
ASSUME SubsetsAssumption == Indexed \subseteq Sessions /\ Ways \subseteq AllWays

VARIABLES
    status,     \* brainstorm_sessions.status, or "absent": no row
    cur,        \* the session the row is bound to (claude_session_id, pty_id)
    lexPty,     \* lex_session.current_pty_id; None when the anchor is dormant
    refs,       \* lex_transcript_ref rows of an anchor, oldest first
    chunked,    \* keys for which the ingestor stored brainstorm_chunks
    summary,    \* rows whose last_summary is not NULL
    marker,     \* distill-pending/<id>.json: the session it names, or None
    pty,        \* the PTY host's handle; "lost" with the daemon that held it
    flight,     \* distill-pending's inFlight entry
    todo,       \* continuations of a settled flight, run before anything else
    run,        \* session-end-lock's LOCKS entry and the pipeline under it
    cold,       \* the SessionStart hook's call to the cold-start gate
    voice,      \* the voice socket: sessionEndFired and compactedAt
    bindKey,    \* the session that socket was last bound to
    crashes,
    asked       \* history: live sessions whose end was asked for

diskVars == <<status, cur, lexPty, refs, chunked, summary, marker>>
voiceVars == <<voice, bindKey>>
memVars == <<pty, flight, todo, run, cold, voiceVars>>
vars == <<diskVars, memVars, crashes, asked>>

Continuations == {"pty", "voice", "compact"}
\* "ended" and "compacted" are latched; only the second will not compact again.
VoiceStates == {"none", "open", "ended", "compacted"}
Stages == {"idle", "drain", "distill", "flat", "scoped", "tail"}
Idle == [pc |-> "idle", bs |-> None, terminal |-> FALSE]

Flights == [key : Keys, st : {"waiting", "ok", "failed"}, then : SUBSET Continuations]

ASSUME NoneIsNoFlight == None \notin Flights

TypeOK ==
    /\ status \in [Brainstorms -> {"absent", "active", "ended"}]
    /\ cur \in [Brainstorms -> Sessions \cup {None}]
    /\ lexPty \in [Brainstorms -> Sessions \cup {None}]
    /\ refs \in [Brainstorms -> Seq(Sessions)]
    /\ chunked \subseteq Keys
    /\ summary \subseteq Brainstorms
    /\ marker \in [Brainstorms -> Keys \cup {None}]
    /\ pty \in [Sessions -> {"none", "live", "dying", "killed", "gone", "lost"}]
    /\ flight \in [Brainstorms -> Flights \cup {None}]
    /\ todo \in [Brainstorms -> SUBSET Continuations]
    /\ run \in [Keys -> [pc : Stages, bs : Brainstorms \cup {None},
                         terminal : BOOLEAN]]
    /\ cold \in [Sessions -> {"none", "due", "waiting", "done"}]
    /\ voice \in [Brainstorms -> VoiceStates]
    /\ bindKey \in [Brainstorms -> Sessions \cup {None}]
    /\ crashes \in Nat
    /\ asked \subseteq Sessions

Init ==
    /\ status = [b \in Brainstorms |-> "absent"]
    /\ cur = [b \in Brainstorms |-> None]
    /\ lexPty = [b \in Brainstorms |-> None]
    /\ refs = [b \in Brainstorms |-> <<>>]
    /\ chunked = {}
    /\ summary = {}
    /\ marker = [b \in Brainstorms |-> None]
    /\ pty = [s \in Sessions |-> "none"]
    /\ flight = [b \in Brainstorms |-> None]
    /\ todo = [b \in Brainstorms |-> {}]
    /\ run = [k \in Keys |-> Idle]
    /\ cold = [s \in Sessions |-> "none"]
    /\ voice = [b \in Brainstorms |-> "none"]
    /\ bindKey = [b \in Brainstorms |-> None]
    /\ crashes = 0
    /\ asked = {}

-----------------------------------------------------------------------------
SessionsOf(b) == ToSet(refs[b])
KeysOf(b) == IF b \in Direct THEN {b} ELSE SessionsOf(b)
Key(b) == IF b \in Direct THEN b ELSE cur[b]
HasChunks(b) == KeysOf(b) \cap chunked # {}

\* getLivePtyIds: registered and not marked exited.
LivePtys == {s \in Sessions : pty[s] \in {"live", "dying"}}

\* Promise continuations are microtasks: no other callback runs before them.
Quiet == \A b \in Brainstorms : todo[b] = {}

\* Fallback runs flip the row before their first await, canonical runs after it.
FlipsAtOnce(k, terminal) == terminal /\ k \notin Indexed

Flipped(b) == [status EXCEPT ![b] = IF @ = "active" THEN "ended" ELSE @]

\* runOrderedPipeline up to its first await, under the lock k.
StartRun(k, b, terminal) ==
    /\ run' = [run EXCEPT ![k] =
                [pc |-> IF k \in Indexed THEN "drain"
                        ELSE IF status[b] = "absent" \/ ~HasChunks(b) THEN "tail"
                        ELSE "distill",
                 bs |-> b, terminal |-> terminal]]
    /\ status' = IF FlipsAtOnce(k, terminal) THEN Flipped(b) ELSE status

\* withSessionEndLock: a second caller joins whatever run holds the key.
LockedRun(k, b, terminal) ==
    IF run[k].pc = "idle" THEN StartRun(k, b, terminal)
    ELSE UNCHANGED <<run, status>>

\* Mutant: the marker is written only by a caller that starts the run itself.
Enqueue_NoMarkerOnJoin(b, k, then) ==
    \/ /\ flight[b] # None
       /\ flight' = [flight EXCEPT ![b].then = @ \cup then]
       /\ UNCHANGED <<marker, run, status>>
    \/ /\ flight[b] = None
       /\ marker' = IF run[k].pc = "idle" THEN [marker EXCEPT ![b] = k] ELSE marker
       /\ flight' = [flight EXCEPT ![b] = [key |-> k, st |-> "waiting", then |-> then]]
       /\ LockedRun(k, b, TRUE)

\* queueSessionEndPipeline: join the brainstorm's flight, or write the marker
\* and start one.  then is what the caller hangs on the returned promise.
Enqueue(b, k, then) ==
    \/ /\ flight[b] # None
       /\ flight' = [flight EXCEPT ![b].then = @ \cup then]
       /\ UNCHANGED <<marker, run, status>>
    \/ /\ flight[b] = None
       /\ marker' = [marker EXCEPT ![b] = k]
       /\ flight' = [flight EXCEPT ![b] = [key |-> k, st |-> "waiting", then |-> then]]
       /\ LockedRun(k, b, TRUE)

NoEnqueue == UNCHANGED <<marker, flight, run, status>>

-----------------------------------------------------------------------------
\* spawnLexSession on a new anchor (insert) or an existing one (rebind): a fresh
\* session and transcript ref, the row active and bound to it, the anchor live.
Spawn(b, s) ==
    /\ pty[s] = "none"
    /\ cold' = [cold EXCEPT ![s] = "due"]
    /\ refs' = [refs EXCEPT ![b] = Append(@, s)]
    /\ lexPty' = [lexPty EXCEPT ![b] = s]
    /\ cur' = [cur EXCEPT ![b] = s]
    /\ status' = [status EXCEPT ![b] = "active"]
    /\ summary' = IF status[b] = "absent" THEN summary \ {b} ELSE summary

\* POST /lex/anchors and /lex/anchors/:id/open: bind when the PTY is live.
Open(b, s) ==
    /\ Quiet
    /\ lexPty[b] \notin LivePtys
    /\ Spawn(b, s)
    /\ pty' = [pty EXCEPT ![s] = "live"]
    /\ UNCHANGED <<chunked, marker, flight, todo, run, voiceVars, crashes, asked>>

CreateDirect(d) ==
    /\ Quiet
    /\ status[d] = "absent"
    /\ status' = [status EXCEPT ![d] = "active"]
    /\ UNCHANGED <<cur, lexPty, refs, chunked, summary, marker,
                   memVars, crashes, asked>>

\* The ingestor walks active rows only.
Turn(b) ==
    /\ Quiet
    /\ status[b] = "active"
    /\ b \in Direct \/ cur[b] \in LivePtys
    /\ chunked' = chunked \cup {Key(b)}
    /\ UNCHANGED <<status, cur, lexPty, refs, summary, marker, memVars, crashes, asked>>

-----------------------------------------------------------------------------
\* The ways of ending.

\* Mutant: a dead PTY ends the row on the spot (the kill path before SM-27).
OnExit_EndsUndistilled(b, s) ==
    /\ Quiet
    /\ s \in SessionsOf(b)
    /\ pty[s] \in {"dying", "killed"} \/ (pty[s] = "live" /\ "exit" \in Ways)
    /\ pty' = [pty EXCEPT ![s] = "gone"]
    /\ status' = Flipped(b)
    /\ lexPty' = [lexPty EXCEPT ![b] = None]
    /\ asked' = asked \ {s}
    /\ UNCHANGED <<cur, refs, chunked, summary, marker, flight, run, todo, cold, voiceVars, crashes>>

\* The PTY host's onExit.  The row is found through the handle's brainstorm id
\* and ended through its present binding, which may be a later session.
OnExit(b, s) ==
    /\ Quiet
    /\ s \in SessionsOf(b)
    /\ pty[s] \in {"dying", "killed"} \/ (pty[s] = "live" /\ "exit" \in Ways)
    /\ pty' = [pty EXCEPT ![s] = "gone"]
    /\ IF status[b] = "active" THEN Enqueue(b, cur[b], {"pty"}) ELSE NoEnqueue
    /\ lexPty' = [lexPty EXCEPT ![b] = None]
    /\ asked' = asked \ {s}
    /\ UNCHANGED <<cur, refs, chunked, summary, todo, cold, voiceVars, crashes>>

\* ptyKill marks the handle exited; it ends the row bound to that PTY, if any.
MarkKilled(s) == pty' = [pty EXCEPT ![s] = IF @ \in {"live", "dying"} THEN "killed" ELSE @]
KillEnds(b, s) == s \in LivePtys /\ cur[b] = s /\ status[b] = "active"

\* The spoken end's teardown: kill the anchor's PTY and flip it dormant.
KillLexPty(b) ==
    /\ LET s == lexPty[b]
       IN IF s = None THEN UNCHANGED <<pty, asked>> /\ NoEnqueue
          ELSE /\ MarkKilled(s)
               /\ asked' = asked \ {s}
               /\ IF KillEnds(b, s) THEN Enqueue(b, s, {"pty"}) ELSE NoEnqueue
    /\ lexPty' = [lexPty EXCEPT ![b] = None]

\* The compaction restart: reopen the anchor, then kill the old PTY directly, so
\* that its handle stays registered until onExit.  A failed spawn changes nothing.
Restart(b, latch) ==
    \/ /\ voice' = latch
       /\ UNCHANGED <<status, cur, lexPty, refs, summary, pty, cold, bindKey, asked>>
    \/ \E s \in Sessions :
       /\ Spawn(b, s)
       /\ pty' = [k \in Sessions |-> IF k = s THEN "live"
                                     ELSE IF k = bindKey[b] /\ pty[k] = "live" THEN "dying"
                                     ELSE pty[k]]
       /\ IF latch[b] = "compacted"
            THEN /\ voice' = [latch EXCEPT ![b] = "open"]
                 /\ bindKey' = [bindKey EXCEPT ![b] = s]
            ELSE voice' = latch /\ UNCHANGED bindKey
       /\ asked' = asked \ {bindKey[b]}

\* onExit stamps ended_ms on the session's ref; a crash leaves it open for good.
IsFirstOpenRef(b, s) ==
    \E i \in DOMAIN refs[b] :
        /\ refs[b][i] = s /\ pty[s] # "gone"
        /\ \A j \in 1..(i - 1) : pty[refs[b][j]] = "gone"

\* POST /lex/anchors/:id/end: queue on the first open transcript ref, kill the
\* PTY (which joins the flight just queued), flip the anchor dormant.
DashboardEnd(b) ==
    /\ Quiet
    /\ "button" \in Ways
    /\ refs[b] # <<>>
    /\ LET s == lexPty[b]
           ends == s # None /\ KillEnds(b, s)
           flips(k) == flight[b] = None /\ run[k].pc = "idle" /\ FlipsAtOnce(k, TRUE)
       IN /\ \/ \E k \in Sessions :
                  /\ IsFirstOpenRef(b, k)
                  /\ Enqueue(b, k, IF ends /\ ~flips(k) THEN {"pty"} ELSE {})
             \/ /\ \A k \in Sessions : ~IsFirstOpenRef(b, k)
                /\ IF ends THEN Enqueue(b, s, {"pty"}) ELSE NoEnqueue
          /\ IF s # None THEN MarkKilled(s) ELSE UNCHANGED pty
    /\ lexPty' = [lexPty EXCEPT ![b] = None]
    /\ asked' = (asked \cup {cur[b]}) \cap LivePtys'
    /\ UNCHANGED <<cur, refs, chunked, summary, todo, cold, voiceVars, crashes>>

\* hello with a brainstorm_id: an ended row is refused.  A direct-llm socket has
\* no PTY.
Connect(b) ==
    /\ Quiet
    /\ {"voice", "compact", "flush"} \cap Ways # {}
    /\ voice[b] = "none"
    /\ status[b] = "active"
    /\ voice' = [voice EXCEPT ![b] = "open"]
    /\ bindKey' = [bindKey EXCEPT ![b] = cur[b]]
    /\ UNCHANGED <<diskVars, pty, flight, todo, run, cold, crashes, asked>>

\* The spoken end: fireSessionEndPipeline queues the run for ThenKill to follow,
\* or returns at once when this socket has fired already.
VoiceEnd(b) ==
    /\ Quiet
    /\ "voice" \in Ways
    /\ status[b] # "absent"
    /\ \/ /\ voice[b] = "open"
          /\ voice' = [voice EXCEPT ![b] = "ended"]
          /\ Enqueue(b, Key(b), {"voice"})
          /\ asked' = asked \cup ({cur[b]} \cap LivePtys)
          /\ UNCHANGED <<lexPty, pty>>
       \/ voice[b] \in {"ended", "compacted"} /\ KillLexPty(b) /\ UNCHANGED voice
    /\ UNCHANGED <<cur, refs, chunked, summary, todo, cold, bindKey, crashes>>

\* maybeCompactOnTurnEnd: the same pipeline, then ThenRestart; a socket latched
\* by a spoken end restarts at once.  A reconnected socket's second compaction of
\* one flight is left out.
CompactionDue(b) ==
    /\ Quiet
    /\ "compact" \in Ways
    /\ bindKey[b] = cur[b] /\ cur[b] \in LivePtys
    /\ flight[b] # None => "compact" \notin flight[b].then
    /\ LET latch == [voice EXCEPT ![b] = "compacted"]
       IN \/ /\ voice[b] = "open"
             /\ voice' = latch
             /\ Enqueue(b, cur[b], {"compact"})
             /\ asked' = asked \cup {cur[b]}
             /\ UNCHANGED <<cur, lexPty, refs, summary, pty, cold, bindKey>>
          \/ /\ voice[b] = "ended"
             /\ Restart(b, latch)
             /\ UNCHANGED <<marker, flight, run>>
    /\ UNCHANGED <<chunked, todo, crashes>>

\* The socket closes: unless it has fired, it flushes, without a marker and
\* without ending the row.
Flush(b) ==
    /\ Quiet
    /\ "flush" \in Ways
    /\ voice[b] # "none"
    /\ voice' = [voice EXCEPT ![b] = "none"]
    /\ IF voice[b] = "open" /\ status[b] # "absent" THEN LockedRun(Key(b), b, FALSE)
       ELSE UNCHANGED <<run, status>>
    /\ UNCHANGED <<cur, lexPty, refs, chunked, summary, marker, pty,
                   flight, todo, cold, bindKey, crashes, asked>>

-----------------------------------------------------------------------------
\* The pipeline under its lock, one action per await.

Advance(k, pc) == run' = [run EXCEPT ![k].pc = pc]

\* Steps 2-4: the GPU drain returned, the row is flipped, the ingest forced.
RunDrained(k) ==
    /\ Quiet
    /\ run[k].pc = "drain"
    /\ Advance(k, "distill")
    /\ status' = IF run[k].terminal THEN Flipped(run[k].bs) ELSE status
    /\ UNCHANGED <<cur, lexPty, refs, chunked, summary, marker, pty,
                   flight, todo, cold, voiceVars, crashes, asked>>

\* After distillBrainstorm the next generator reads its chunks.
Scoped(k) == k \in Sessions \cap chunked

RunDistilled(k) ==
    /\ Quiet
    /\ run[k].pc = "distill"
    /\ \/ k \notin Indexed /\ Advance(k, "flat")
       \/ k \in Indexed /\ Scoped(k) /\ Advance(k, "scoped")
       \/ k \in Indexed /\ ~Scoped(k) /\ Advance(k, "tail")
    /\ UNCHANGED <<diskVars, pty, flight, todo, cold, voiceVars, crashes, asked>>

\* The anchor-flat generator of the fallback path; an empty or failed answer
\* leaves last_summary in place.
RunFlat(k) ==
    /\ Quiet
    /\ run[k].pc = "flat"
    /\ \/ UNCHANGED summary
       \/ summary' = summary \cup {run[k].bs}
    /\ IF Scoped(k) THEN Advance(k, "scoped") ELSE Advance(k, "tail")
    /\ UNCHANGED <<status, cur, lexPty, refs, chunked, marker, pty, flight, todo, cold,
                   voiceVars, crashes, asked>>

\* Step 7a: the session's own summary, then the aggregate over the anchor's.
RunScoped(k) ==
    /\ Quiet
    /\ run[k].pc = "scoped"
    /\ \/ UNCHANGED summary
       \/ summary' = summary \cup {run[k].bs}
    /\ Advance(k, "tail")
    /\ UNCHANGED <<status, cur, lexPty, refs, chunked, marker, pty, flight, todo, cold,
                   voiceVars, crashes, asked>>

WaitsFor(b, k) == flight[b] # None /\ flight[b].st = "waiting" /\ flight[b].key = k

\* Mutant: only a terminal run tells the flights that joined it.
Release_TerminalOnly(k, outcome) ==
    /\ run' = [run EXCEPT ![k] = Idle]
    /\ flight' = [b \in Brainstorms |->
                    IF WaitsFor(b, k) /\ run[k].terminal
                      THEN [flight[b] EXCEPT !.st = outcome] ELSE flight[b]]

\* The lock is released and every flight that ran or joined it hears of it.
Release(k, outcome) ==
    /\ run' = [run EXCEPT ![k] = Idle]
    /\ flight' = [b \in Brainstorms |->
                    IF WaitsFor(b, k) THEN [flight[b] EXCEPT !.st = outcome] ELSE flight[b]]

RunDone(k) ==
    /\ Quiet
    /\ run[k].pc = "tail"
    /\ Release(k, "ok")
    /\ UNCHANGED <<diskVars, pty, todo, cold, voiceVars, crashes, asked>>

\* Mutant: the lock is released but its waiters never see the rejection.
RunThrew_Swallowed(k) ==
    /\ Quiet
    /\ run[k].pc \in {"drain", "distill"}
    /\ run' = [run EXCEPT ![k] = Idle]
    /\ UNCHANGED <<diskVars, pty, flight, todo, cold, voiceVars, crashes, asked>>

\* A store read outside the steps' own try blocks throws.
RunThrew(k) ==
    /\ Quiet
    /\ run[k].pc \in {"drain", "distill"}
    /\ Release(k, "failed")
    /\ UNCHANGED <<diskVars, pty, todo, cold, voiceVars, crashes, asked>>

-----------------------------------------------------------------------------
\* Mutant: the marker is cleared in the finally block, on failure too.
Settle_AlwaysClears(b) ==
    /\ Quiet
    /\ flight[b] # None
    /\ flight[b].st # "waiting"
    /\ marker' = [marker EXCEPT ![b] = None]
    /\ todo' = [todo EXCEPT ![b] = flight[b].then]
    /\ flight' = [flight EXCEPT ![b] = None]
    /\ cold' = [s \in Sessions |->
                  IF s \in SessionsOf(b) /\ cold[s] = "waiting" THEN "done" ELSE cold[s]]
    /\ UNCHANGED <<status, cur, lexPty, refs, chunked, summary, pty,
                   run, voiceVars, crashes, asked>>

\* Mutant: a cold start waiting on the flight is not resumed by it.
Settle_ForgetsColdStarts(b) ==
    /\ Quiet
    /\ flight[b] # None
    /\ flight[b].st # "waiting"
    /\ marker' = IF flight[b].st = "ok" THEN [marker EXCEPT ![b] = None] ELSE marker
    /\ todo' = [todo EXCEPT ![b] = flight[b].then]
    /\ flight' = [flight EXCEPT ![b] = None]
    /\ UNCHANGED <<status, cur, lexPty, refs, chunked, summary, pty,
                   run, cold, voiceVars, crashes, asked>>

\* distill-pending's own continuation: the marker goes on success only, then
\* the cold starts waiting and the callers' continuations resume.
Settle(b) ==
    /\ Quiet
    /\ flight[b] # None
    /\ flight[b].st # "waiting"
    /\ marker' = IF flight[b].st = "ok" THEN [marker EXCEPT ![b] = None] ELSE marker
    /\ todo' = [todo EXCEPT ![b] = flight[b].then]
    /\ flight' = [flight EXCEPT ![b] = None]
    /\ cold' = [s \in Sessions |->
                  IF s \in SessionsOf(b) /\ cold[s] = "waiting" THEN "done" ELSE cold[s]]
    /\ UNCHANGED <<status, cur, lexPty, refs, chunked, summary, pty,
                   run, voiceVars, crashes, asked>>

\* The PTY host's finally: endBrainstorm writes status and a NULL last_summary.
ThenEndBrainstorm(b) ==
    /\ "pty" \in todo[b]
    /\ todo' = [todo EXCEPT ![b] = @ \ {"pty"}]
    /\ status' = [status EXCEPT ![b] = IF @ = "absent" THEN @ ELSE "ended"]
    /\ summary' = summary \ {b}
    /\ UNCHANGED <<cur, lexPty, refs, chunked, marker, pty, flight,
                   run, cold, voiceVars, crashes, asked>>

ThenKill(b) ==
    /\ "voice" \in todo[b]
    /\ todo' = [todo EXCEPT ![b] = @ \ {"voice"}]
    /\ KillLexPty(b)
    /\ UNCHANGED <<cur, refs, chunked, summary, cold, voiceVars, crashes>>

\* Promise hops put the restart after the flight's other continuations.
ThenRestart(b) ==
    /\ todo[b] = {"compact"}
    /\ todo' = [todo EXCEPT ![b] = {}]
    /\ Restart(b, voice)
    /\ UNCHANGED <<chunked, marker, flight, run, crashes>>

-----------------------------------------------------------------------------
\* Mutant: an owed marker makes the cold start wait for somebody else's run.
ColdStart_ForcesNothing(b, s) ==
    /\ Quiet
    /\ s \in SessionsOf(b)
    /\ cold[s] = "due"
    /\ pty[s] = "live"
    /\ cold' = [cold EXCEPT ![s] =
                  IF cur[b] = s /\ marker[b] # None THEN "waiting" ELSE "done"]
    /\ UNCHANGED <<diskVars, pty, flight, run, todo, voiceVars, crashes, asked>>

\* awaitPendingDistill for the session's own anchor.
ColdStart(b, s) ==
    /\ Quiet
    /\ s \in SessionsOf(b)
    /\ cold[s] = "due"
    /\ pty[s] = "live"
    /\ \/ /\ cur[b] = s /\ flight[b] # None
          /\ cold' = [cold EXCEPT ![s] = "waiting"] /\ NoEnqueue
       \/ /\ cur[b] = s /\ flight[b] = None /\ marker[b] # None
          /\ cold' = [cold EXCEPT ![s] = "waiting"] /\ Enqueue(b, marker[b], {})
       \/ /\ cur[b] # s \/ (flight[b] = None /\ marker[b] = None)
          /\ cold' = [cold EXCEPT ![s] = "done"] /\ NoEnqueue
    /\ UNCHANGED <<cur, lexPty, refs, chunked, summary, pty, todo,
                   voiceVars, crashes, asked>>

\* DISTILL_AWAIT_CAP_MS: the preload goes on, the run goes on too.
ColdStartTimeout(s) ==
    /\ Quiet
    /\ cold[s] = "waiting"
    /\ cold' = [cold EXCEPT ![s] = "done"]
    /\ UNCHANGED <<diskVars, pty, flight, todo, run, voiceVars, crashes, asked>>

\* Mutant: the sweep without its lex_session mirror.
Reap_RowsOnly ==
    /\ Quiet
    /\ status' = [b \in Brainstorms |->
                    IF status[b] = "active" /\ cur[b] \notin LivePtys
                      THEN "ended" ELSE status[b]]
    /\ UNCHANGED <<cur, lexPty, refs, chunked, summary, marker, memVars, crashes, asked>>

\* reapOrphansAgainstLivePtys, every 30 s: rows and anchors without a live PTY.
Reap ==
    /\ Quiet
    /\ status' = [b \in Brainstorms |->
                    IF status[b] = "active" /\ cur[b] \notin LivePtys
                      THEN "ended" ELSE status[b]]
    /\ lexPty' = [b \in Brainstorms |->
                    IF lexPty[b] \in LivePtys THEN lexPty[b] ELSE None]
    /\ UNCHANGED <<cur, refs, chunked, summary, marker, memVars,
                   crashes, asked>>

\* The daemon dies with its PTYs and restarts; reapAllActive ends the active
\* rows, or deletes those without substance (audio and distilled_at, which may
\* keep an empty row, are not modelled).
CrashRestart ==
    /\ "crash" \in Ways
    /\ crashes < MaxCrashes
    /\ crashes' = crashes + 1
    /\ pty' = [s \in Sessions |-> IF pty[s] \in {"none", "gone"} THEN pty[s] ELSE "lost"]
    /\ flight' = [b \in Brainstorms |-> None]
    /\ todo' = [b \in Brainstorms |-> {}]
    /\ run' = [k \in Keys |-> Idle]
    /\ cold' = [s \in Sessions |-> IF cold[s] = "none" THEN "none" ELSE "done"]
    /\ voice' = [b \in Brainstorms |-> "none"]
    /\ bindKey' = [b \in Brainstorms |-> None]
    /\ asked' = {}
    /\ \E kept \in SUBSET {b \in Brainstorms : status[b] # "absent"} :
         /\ \A b \in Brainstorms :
              /\ status[b] # "absent" /\ HasChunks(b) => b \in kept
              /\ status[b] = "ended" /\ cur[b] # None => b \in kept
         /\ status' = [b \in Brainstorms |-> IF b \in kept THEN "ended" ELSE "absent"]
         /\ summary' = summary \cap kept
         /\ cur' = [b \in Brainstorms |-> IF b \in kept THEN cur[b] ELSE None]
    /\ UNCHANGED <<lexPty, refs, chunked, marker>>

RunStep(k) ==
    \/ RunDrained(k) \/ RunDistilled(k) \/ RunFlat(k) \/ RunScoped(k)
    \/ RunDone(k) \/ RunThrew(k)

Continue(b) == ThenEndBrainstorm(b) \/ ThenKill(b) \/ ThenRestart(b)

Next ==
    \/ \E b \in Anchors, s \in Sessions : Open(b, s) \/ OnExit(b, s) \/ ColdStart(b, s)
    \/ \E d \in Direct : CreateDirect(d)
    \/ \E b \in Anchors : DashboardEnd(b) \/ CompactionDue(b)
    \/ \E b \in Brainstorms : Turn(b) \/ Connect(b) \/ VoiceEnd(b) \/ Flush(b)
    \/ \E k \in Keys : RunStep(k)
    \/ \E b \in Brainstorms : Settle(b) \/ Continue(b)
    \/ \E s \in Sessions : ColdStartTimeout(s)
    \/ Reap
    \/ CrashRestart

\* A pipeline's awaits all settle (the GPU drain of an idle queue, generators
\* capped at 180 s), promises resolve, and the reaper's interval keeps firing.
\* Nobody has to open, speak, end or crash, and the cap on a cold start is not
\* needed for progress.
Fairness ==
    /\ \A k \in Keys : WF_vars(RunStep(k))
    /\ \A b \in Brainstorms : WF_vars(Settle(b)) /\ WF_vars(Continue(b))
    /\ WF_vars(Reap)

Spec == Init /\ [][Next]_vars /\ Fairness

-----------------------------------------------------------------------------
\* A distillation in flight is on disk under the session it runs for, so a
\* daemon death at any await leaves a record for the next cold start.
OwedIsOnDisk ==
    \A b \in Brainstorms : flight[b] # None => marker[b] = flight[b].key

\* No flight waits on a lock nobody holds, whichever run of the key (a flush
\* included) it joined: there is always a run left that will wake it.
NoStrandedFlight ==
    \A b \in Brainstorms :
        flight[b] # None /\ flight[b].st = "waiting" => run[flight[b].key].pc # "idle"

\* A cold start only ever waits while a flight of its anchor will answer it.
NoStrandedColdStart ==
    \A s \in Sessions : cold[s] = "waiting" =>
        \E b \in Anchors : s \in SessionsOf(b) /\ flight[b] # None

\* SM-27: the death of the PTY an active row is bound to, by exit or by kill,
\* leaves its distillation owed on disk in the same step.
PtyDeathOwesDistill ==
    [][\A b \in Anchors :
          status[b] = "active" /\ cur[b] \in LivePtys /\ cur[b] \notin LivePtys'
            => marker'[b] # None \/ crashes' # crashes]_vars

\* The queue, the lock, the pipeline and every caller together keep the promise
\* of the pending-distillation tracker.
Owed == INSTANCE OwedDistill WITH
    owed <- {b \in Brainstorms : marker[b] # None},
    work <- [b \in Brainstorms |-> IF flight[b] = None THEN "none" ELSE flight[b].st]
KeepsOwedPromise == Owed!Spec

\* Every flight lands: nothing queued waits forever.
FlightsLand == \A b \in Brainstorms : flight[b] # None ~> flight[b] = None

\* A cold start is answered even if its cap never fires.
ColdStartsAnswered == \A s \in Sessions : cold[s] = "waiting" ~> cold[s] = "done"

\* A row left active and an anchor left live over a dead PTY, whatever skipped
\* the exit handler, do not last.
NoLastingGhost ==
    \A b \in Anchors :
        /\ (status[b] = "active" /\ cur[b] \notin LivePtys)
             ~> (status[b] # "active" \/ cur[b] \in LivePtys)
        /\ (lexPty[b] # None /\ lexPty[b] \notin LivePtys)
             ~> (lexPty[b] = None \/ lexPty[b] \in LivePtys)

-----------------------------------------------------------------------------
\* Statements of the code's comments that its behaviour does not bear out; each
\* is the one property of a run that exhibits a counterexample.

\* brainstorm-store.ts: the summary belongs to the distillation pipeline, which
\* never replaces it by nothing.
SummaryNeverErased ==
    [][\A b \in Brainstorms :
          b \in summary /\ status'[b] # "absent" => b \in summary']_vars

\* lex-voice-ws.ts: a session that lives and whose end nobody asked for keeps
\* its row active and its anchor live-bound.
LiveSessionStaysOpen ==
    \A b \in Anchors : \A s \in Sessions :
        cur[b] = s /\ pty[s] = "live" /\ s \notin asked
            => status[b] = "active" /\ lexPty[b] = s

\* routes.ts and pty-host.ts: ending a live session leaves the distillation of
\* that session, not of an earlier one, owed.
EndOwesItsOwnSession ==
    [][\A b \in Anchors : \A s \in Sessions :
          cur[b] = s /\ pty[s] = "live" /\ s \notin asked
              /\ (s \in asked' \/ pty'[s] # "live")
            => marker'[b] = s \/ crashes' # crashes]_vars

\* routes.ts: the End button (and the spoken end, which must equal it) leaves the
\* anchor dormant until somebody opens it: no continuation of an earlier request
\* wakes it.
EndedAnchorStaysDormant ==
    [][\A b \in Anchors :
          lexPty[b] = None /\ lexPty'[b] # None => todo[b] = {}]_vars

\* distill-pending.ts: a marker survives a failed run, for the next cold start to
\* retry; one that is cleared for a row with chunks has left it a summary.
OwedUntilSummarised ==
    [][\A b \in Brainstorms :
          marker[b] # None /\ marker'[b] = None /\ HasChunks(b) => b \in summary]_vars

\* session-end-lock.ts: callers that share a run wanted the same thing, so a
\* terminal end that succeeded has ended the row.
TerminalEndEndsRow ==
    [][\A b \in Brainstorms :
          marker[b] # None /\ marker'[b] = None => status[b] # "active"]_vars
=============================================================================
