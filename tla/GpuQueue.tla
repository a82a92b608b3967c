------------------------------ MODULE GpuQueue ------------------------------
(* The four-lane job queue in front of the GPU (gpu/queue.ts) with the VRAM   *)
(* monitor that gates its two background lanes (gpu/vram-monitor.ts).         *)
(*                                                                            *)
(* One Node process: an action is what runs between two yields of the event   *)
(* loop.  What makes it hard is that pump() is re-entered from three places   *)
(* (submit, a job's finally block through a microtask, a back-off timer) and  *)
(* that nothing else ever starts a job: a lost wake-up is a queue that stops. *)
(* The stat counters are reporting only and are left out.                     *)
EXTENDS Naturals, Sequences, SequencesExt, FiniteSets

CONSTANTS
    Jobs,       \* every job a caller may submit, each at most once
    Sessions,   \* the session ids a drain may be asked for
    NoSession,  \* a job submitted without a sessionId
    NoJob,      \* queue.ts: running === null
    LaneOf,     \* [Jobs -> Lanes]
    SessionOf   \* [Jobs -> Sessions \cup {NoSession}]

Lanes == 0..3

\* Mutant: the gate's lane test is off by one and takes the voice STT lane in.
Gated_OffByOne == {1, 2, 3}

Gated == {2, 3}

ASSUME LaneOfAssumption == LaneOf \in [Jobs -> Lanes]
ASSUME SessionOfAssumption == SessionOf \in [Jobs -> Sessions \cup {NoSession}]
ASSUME NoJobAssumption == NoJob \notin Jobs
ASSUME NoSessionAssumption == NoSession \notin Sessions

VARIABLES
    lanes,      \* [Lanes -> Seq(Jobs)]: what waits
    running,    \* the job whose fn is awaited, or NoJob
    pumps,      \* microtasks scheduled to call pump()
    timers,     \* back-off timers armed to call pump()
    submitted,  \* jobs ever handed to submit()
    inflight,   \* inflightBySession: the tags not yet cleared
    draining,   \* sessions with a drainSessionId() loop between two polls
    sample,     \* the monitor's latest reading
    failOpen    \* nvidia-smi failed once: never gate again

queueVars == <<lanes, running, timers>>
monitorVars == <<sample, failOpen>>
vars == <<lanes, running, pumps, timers, submitted, inflight, draining,
          sample, failOpen>>

Samples == {"none", "enough", "short"}

TypeOK ==
    /\ lanes \in [Lanes -> Seq(Jobs)]
    /\ running \in Jobs \cup {NoJob}
    /\ pumps \in Nat
    /\ timers \in Nat
    /\ submitted \subseteq Jobs
    /\ inflight \in [Sessions -> SUBSET Jobs]
    /\ draining \subseteq Sessions
    /\ sample \in Samples
    /\ failOpen \in BOOLEAN

Init ==
    /\ lanes = [l \in Lanes |-> <<>>]
    /\ running = NoJob
    /\ pumps = 0
    /\ timers = 0
    /\ submitted = {}
    /\ inflight = [s \in Sessions |-> {}]
    /\ draining = {}
    /\ sample = "none"
    /\ failOpen = FALSE

-----------------------------------------------------------------------------
VramOk == failOpen \/ sample # "short"

NonEmpty(ln) == {l \in Lanes : ln[l] # <<>>}

\* Mutant: any waiting lane is as good as the first.
IsNextLane_AnyLane(ln, l) == l \in NonEmpty(ln)

IsNextLane(ln, l) == l \in NonEmpty(ln) /\ \A m \in NonEmpty(ln) : l <= m

\* Mutant: a deferred job goes to the tail of its lane (push for unshift).
Pump_DeferToTail(ln, tm) ==
    \/ /\ running # NoJob \/ NonEmpty(ln) = {}
       /\ lanes' = ln /\ timers' = tm /\ UNCHANGED running
    \/ \E l \in Lanes :
       /\ running = NoJob
       /\ IsNextLane(ln, l)
       /\ \/ /\ l \in Gated /\ ~VramOk
             /\ lanes' = [ln EXCEPT ![l] = Append(Tail(@), Head(@))]
             /\ timers' = tm + 1 /\ UNCHANGED running
          \/ /\ l \notin Gated \/ VramOk
             /\ running' = Head(ln[l])
             /\ lanes' = [ln EXCEPT ![l] = Tail(@)]
             /\ timers' = tm

\* Mutant: a deferral that arms no back-off timer.
Pump_NoBackoff(ln, tm) ==
    \/ /\ running # NoJob \/ NonEmpty(ln) = {}
       /\ lanes' = ln /\ timers' = tm /\ UNCHANGED running
    \/ \E l \in Lanes :
       /\ running = NoJob
       /\ IsNextLane(ln, l)
       /\ timers' = tm
       /\ \/ l \in Gated /\ ~VramOk /\ lanes' = ln /\ UNCHANGED running
          \/ /\ l \notin Gated \/ VramOk
             /\ running' = Head(ln[l])
             /\ lanes' = [ln EXCEPT ![l] = Tail(@)]

\* One call of pump() on lanes ln, with tm back-off timers armed.
Pump(ln, tm) ==
    \/ /\ running # NoJob \/ NonEmpty(ln) = {}
       /\ lanes' = ln /\ timers' = tm /\ UNCHANGED running
    \/ \E l \in Lanes :
       /\ running = NoJob
       /\ IsNextLane(ln, l)
       /\ \/ /\ l \in Gated /\ ~VramOk           \* unshift and back off
             /\ lanes' = ln /\ timers' = tm + 1 /\ UNCHANGED running
          \/ /\ l \notin Gated \/ VramOk
             /\ running' = Head(ln[l])
             /\ lanes' = [ln EXCEPT ![l] = Tail(@)]
             /\ timers' = tm

Enqueued(j) == [lanes EXCEPT ![LaneOf[j]] = Append(@, j)]

\* Mutant: submit starts a fresh set instead of adding to the session's set.
AddInflight_FreshSet(j) ==
    inflight' = [s \in Sessions |-> IF s = SessionOf[j] THEN {j} ELSE inflight[s]]

AddInflight(j) ==
    inflight' = [s \in Sessions |->
                   IF s = SessionOf[j] THEN inflight[s] \cup {j} ELSE inflight[s]]

\* Mutant: the tag survives the job (an early return in clearInflight).
ClearInflight_KeepsTag(j) == UNCHANGED inflight

ClearInflight(j) == inflight' = [s \in Sessions |-> inflight[s] \ {j}]

Submit(j) ==
    /\ j \notin submitted
    /\ submitted' = submitted \cup {j}
    /\ AddInflight(j)
    /\ Pump(Enqueued(j), timers)
    /\ UNCHANGED <<pumps, draining, monitorVars>>

\* Mutant: the finally block schedules no pump.
Settle_NoPump ==
    /\ running # NoJob
    /\ ClearInflight(running)
    /\ running' = NoJob
    /\ UNCHANGED <<lanes, timers, pumps, submitted, draining, monitorVars>>

\* The awaited fn resolved or rejected; the finally block.
Settle ==
    /\ running # NoJob
    /\ ClearInflight(running)
    /\ running' = NoJob
    /\ pumps' = pumps + 1
    /\ UNCHANGED <<lanes, timers, submitted, draining, monitorVars>>

MicrotaskPump ==
    /\ pumps > 0
    /\ pumps' = pumps - 1
    /\ Pump(lanes, timers)
    /\ UNCHANGED <<submitted, inflight, draining, monitorVars>>

\* Mutant: setInterval for setTimeout; the timer that fired stays armed.
BackoffPump_Interval ==
    /\ timers > 0
    /\ Pump(lanes, timers)
    /\ UNCHANGED <<pumps, submitted, inflight, draining, monitorVars>>

BackoffPump ==
    /\ timers > 0
    /\ Pump(lanes, timers - 1)
    /\ UNCHANGED <<pumps, submitted, inflight, draining, monitorVars>>

\* drainSessionId(s) looks once and returns, or sleeps 25 ms and looks again.
DrainBegin(s) ==
    /\ s \notin draining
    /\ inflight[s] # {}
    /\ draining' = draining \cup {s}
    /\ UNCHANGED <<queueVars, pumps, submitted, inflight, monitorVars>>

DrainReturn(s) ==
    /\ s \in draining
    /\ inflight[s] = {}
    /\ draining' = draining \ {s}
    /\ UNCHANGED <<queueVars, pumps, submitted, inflight, monitorVars>>

\* The monitor's tick(): a reading, or the failure that stops the polling.
MonitorTick ==
    /\ ~failOpen
    /\ \/ sample' \in {"enough", "short"} /\ UNCHANGED failOpen
       \/ failOpen' = TRUE /\ UNCHANGED sample
    /\ UNCHANGED <<queueVars, pumps, submitted, inflight, draining>>

Next ==
    \/ \E j \in Jobs : Submit(j)
    \/ Settle
    \/ MicrotaskPump
    \/ BackoffPump
    \/ \E s \in Sessions : DrainBegin(s) \/ DrainReturn(s)
    \/ MonitorTick

\* The event loop runs every microtask and timer it was given; a job's fn is
\* assumed to settle.  Nobody is obliged to submit, to drain, or to free VRAM.
Fairness ==
    /\ WF_vars(Settle)
    /\ WF_vars(MicrotaskPump)
    /\ WF_vars(BackoffPump)
    /\ \A s \in Sessions : WF_vars(DrainReturn(s))

Spec == Init /\ [][Next]_vars /\ Fairness

-----------------------------------------------------------------------------
Queued == UNION {ToSet(lanes[l]) : l \in Lanes}
Pending == Queued \cup ({running} \ {NoJob})

Busy == IF running = NoJob THEN 0 ELSE 1

Ahead(j, k) ==
    \E l \in Lanes : \E a, b \in 1..Len(lanes[l]) :
        a < b /\ lanes[l][a] = j /\ lanes[l][b] = k

\* While a job waits and none runs, some microtask or back-off timer is still
\* going to call pump(): queue.ts has no other way to start it.
WakeupPending ==
    running = NoJob /\ NonEmpty(lanes) # {} => pumps + timers > 0

\* Each submit leaves at most one wake-up behind, and a deferred pump re-arms
\* only itself: back-off timers do not multiply beyond the jobs submitted.
WakeupsBounded ==
    pumps + timers + Busy <= Cardinality(submitted)

\* The set a drain polls is exactly the session's jobs that still wait or run,
\* whatever order they were submitted, deferred and settled in.
InflightExact ==
    \A s \in Sessions : inflight[s] = {j \in Pending : SessionOf[j] = s}

\* At the instant a job starts, nothing waits in a lane of higher priority,
\* whichever of the three callers of pump() started it.
StartsInPriorityOrder ==
    [][\A j \in Jobs :
          running # j /\ running' = j =>
              \A k \in Queued' : LaneOf[j] <= LaneOf[k]]_vars

\* Deferral for VRAM puts a job back at the head: within a lane no job ever
\* overtakes one submitted before it.
NoOvertaking ==
    [][\A j, k \in Jobs :
          Ahead(j, k) => (j \in Queued' => k \in Queued' /\ Ahead(j, k)')]_vars

\* Lanes 0 and 1 (voice) are served whatever the VRAM monitor reports, even
\* while deferred background jobs keep the back-off timers busy.
VoiceLanesServed ==
    \A j \in Jobs : LaneOf[j] \in {0, 1} =>
        (j \in submitted ~> j \notin Pending)

\* Once VRAM stays available every background job is served too.
BackgroundServed ==
    <>[]VramOk => \A j \in Jobs : j \in submitted ~> j \notin Pending

\* A drain of a session returns once its jobs have settled.
DrainReturns ==
    <>[]VramOk => \A s \in Sessions : s \in draining ~> s \notin draining
=============================================================================
