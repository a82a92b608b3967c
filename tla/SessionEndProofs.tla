-------------------------- MODULE SessionEndProofs --------------------------
(* Theorems of SessionEnd, for any number of brainstorms, sessions and daemon *)
(* deaths.  Only six kinds of step touch the marker, the flights or the lock; *)
(* StepKinds says so once, and the safety proofs go by kind.  SessionKinds     *)
(* does the same for PTYs and bindings, ColdKinds for cold starts.            *)
EXTENDS SessionEnd, TLAPS

Runs == [pc : Stages, bs : Brainstorms \cup {None}, terminal : BOOLEAN]
Statuses == {"absent", "active", "ended"}

\* What TypeOK needs to be inductive: a row that exists is bound, and a run in
\* progress names a brainstorm.
BoundWhenPresent ==
    \A b \in Anchors : status[b] # "absent" => cur[b] \in Sessions
RunsNamed == \A k \in Keys : run[k].pc # "idle" => run[k].bs \in Brainstorms

Typed == TypeOK /\ BoundWhenPresent /\ RunsNamed

\* The part of Typed that the queue and the lock write.
QueueTyped ==
    /\ status \in [Brainstorms -> Statuses]
    /\ marker \in [Brainstorms -> Keys \cup {None}]
    /\ flight \in [Brainstorms -> Flights \cup {None}]
    /\ run \in [Keys -> Runs]
    /\ RunsNamed

\* A step that neither creates nor deletes a row.
SameRows == \A b \in Brainstorms : status'[b] = "absent" <=> status[b] = "absent"

-----------------------------------------------------------------------------
\* Flipping a row to ended creates and deletes none (brainstorm-store.ts).
LEMMA FlippedTypes ==
    ASSUME QueueTyped, NEW b, status' = Flipped(b)
    PROVE  status' \in [Brainstorms -> Statuses] /\ SameRows
BY DEF QueueTyped, Flipped, SameRows, Statuses

\* A run started under a free lock is typed and names its brainstorm
\* (session-end-pipeline.ts runOrderedPipeline).
LEMMA LockedRunTypes ==
    ASSUME QueueTyped, NEW k \in Keys, NEW b \in Brainstorms,
           NEW t \in BOOLEAN, LockedRun(k, b, t)
    PROVE  /\ status' \in [Brainstorms -> Statuses] /\ SameRows
           /\ run' \in [Keys -> Runs] /\ RunsNamed'
<1>1. CASE run[k].pc = "idle"
  <2>1. status' \in [Brainstorms -> Statuses] /\ SameRows
    BY <1>1, FlippedTypes DEF LockedRun, StartRun, QueueTyped, SameRows
  <2>2. PICK p \in {"drain", "tail", "distill"} :
            run' = [run EXCEPT ![k] = [pc |-> p, bs |-> b, terminal |-> t]]
    BY <1>1 DEF LockedRun, StartRun
  <2>3. [pc |-> p, bs |-> b, terminal |-> t] \in Runs
    BY DEF Runs, Stages
  <2> QED  BY <2>1, <2>2, <2>3 DEF QueueTyped, RunsNamed
<1>2. CASE run[k].pc # "idle"
  BY <1>2 DEF LockedRun, QueueTyped, RunsNamed, SameRows
<1> QED  BY <1>1, <1>2

\* Queueing keeps the queue typed, whether the caller starts the run, joins
\* one under the lock or joins a flight (distill-pending.ts).
LEMMA EnqueueTypes ==
    ASSUME QueueTyped, NEW k \in Keys, NEW b \in Brainstorms,
           NEW t \in SUBSET Continuations, Enqueue(b, k, t)
    PROVE  QueueTyped' /\ SameRows
<1>1. CASE flight[b] # None /\ UNCHANGED <<marker, run, status>>
           /\ flight' = [flight EXCEPT ![b].then = @ \cup t]
  <2>1. flight[b] \in Flights
    BY <1>1 DEF QueueTyped
  <2>2. [flight[b] EXCEPT !.then = @ \cup t] \in Flights
    BY <2>1 DEF Flights
  <2>3. flight' = [flight EXCEPT ![b] = [flight[b] EXCEPT !.then = @ \cup t]]
    BY <1>1 DEF QueueTyped
  <2>4. flight' \in [Brainstorms -> Flights \cup {None}]
    BY <2>2, <2>3 DEF QueueTyped
  <2> QED  BY <1>1, <2>4 DEF QueueTyped, RunsNamed, SameRows
<1>2. CASE /\ marker' = [marker EXCEPT ![b] = k]
           /\ flight' = [flight EXCEPT ![b] = [key |-> k, st |-> "waiting", then |-> t]]
           /\ LockedRun(k, b, TRUE)
  <2>1. [key |-> k, st |-> "waiting", then |-> t] \in Flights
    BY DEF Flights
  <2>2. flight' \in [Brainstorms -> Flights \cup {None}]
    BY <1>2, <2>1 DEF QueueTyped
  <2>3. marker' \in [Brainstorms -> Keys \cup {None}]
    BY <1>2 DEF QueueTyped
  <2> QED  BY <1>2, <2>2, <2>3, LockedRunTypes DEF QueueTyped
<1> QED  BY <1>1, <1>2 DEF Enqueue

\* A step that queues nothing leaves the queue as it is.
LEMMA NoEnqueueTypes ==
    ASSUME QueueTyped, NoEnqueue
    PROVE  QueueTyped' /\ SameRows
BY DEF QueueTyped, NoEnqueue, RunsNamed, SameRows

\* A run that reaches its next await keeps its brainstorm.
LEMMA AdvanceTypes ==
    ASSUME QueueTyped, NEW k \in Keys, run[k].pc # "idle",
           NEW pc \in Stages, Advance(k, pc)
    PROVE  run' \in [Keys -> Runs] /\ RunsNamed'
<1>1. [run[k] EXCEPT !.pc = pc] \in Runs
  BY DEF QueueTyped, Runs
<1>2. run' = [run EXCEPT ![k] = [run[k] EXCEPT !.pc = pc]]
  BY DEF Advance, QueueTyped
<1>3. [run[k] EXCEPT !.pc = pc].bs = run[k].bs
  BY DEF QueueTyped, Runs
<1> QED  BY <1>1, <1>2, <1>3 DEF QueueTyped, RunsNamed

\* Releasing the lock idles it and settles typed flights (session-end-lock.ts).
LEMMA ReleaseTypes ==
    ASSUME QueueTyped, NEW k \in Keys, NEW o \in {"ok", "failed"}, Release(k, o)
    PROVE  /\ run' \in [Keys -> Runs] /\ RunsNamed'
           /\ flight' \in [Brainstorms -> Flights \cup {None}]
<1>1. Idle \in Runs /\ Idle.pc = "idle"
  BY DEF Idle, Runs, Stages
<1>2. run' \in [Keys -> Runs] /\ RunsNamed'
  BY <1>1 DEF Release, QueueTyped, RunsNamed
<1>3. ASSUME NEW b \in Brainstorms, WaitsFor(b, k)
      PROVE  [flight[b] EXCEPT !.st = o] \in Flights
  BY <1>3 DEF QueueTyped, Flights, WaitsFor
<1> QED  BY <1>2, <1>3 DEF Release, QueueTyped

-----------------------------------------------------------------------------
\* Spawning binds the row to a session and keeps the anchor's state typed
\* (spawn-lex-session.ts).
LEMMA SpawnTypes ==
    ASSUME Typed, NEW b \in Brainstorms, NEW s \in Sessions, Spawn(b, s)
    PROVE  /\ cold' \in [Sessions -> {"none", "due", "waiting", "done"}]
           /\ refs' \in [Brainstorms -> Seq(Sessions)]
           /\ lexPty' \in [Brainstorms -> Sessions \cup {None}]
           /\ cur' \in [Brainstorms -> Sessions \cup {None}]
           /\ status' \in [Brainstorms -> Statuses]
           /\ summary' \subseteq Brainstorms
           /\ BoundWhenPresent'
<1>1. b \in Brainstorms /\ refs[b] \in Seq(Sessions)
  BY DEF Typed, TypeOK, Brainstorms
<1>2. Append(refs[b], s) \in Seq(Sessions)
  BY <1>1
<1>3. refs' \in [Brainstorms -> Seq(Sessions)]
  BY <1>2 DEF Spawn, Typed, TypeOK
<1>4. /\ cold' \in [Sessions -> {"none", "due", "waiting", "done"}]
      /\ lexPty' \in [Brainstorms -> Sessions \cup {None}]
      /\ cur' \in [Brainstorms -> Sessions \cup {None}]
      /\ status' \in [Brainstorms -> Statuses]
      /\ summary' \subseteq Brainstorms
  BY DEF Spawn, Typed, TypeOK, Statuses
<1>5. BoundWhenPresent'
  BY <1>1 DEF Spawn, Typed, TypeOK, BoundWhenPresent, Brainstorms
<1> QED  BY <1>3, <1>4, <1>5

\* MarkKilled keeps the PTY table typed (pty-host.ts ptyKill).
LEMMA MarkKilledTypes ==
    ASSUME TypeOK, NEW s, MarkKilled(s)
    PROVE  pty' \in [Sessions -> {"none", "live", "dying", "killed", "gone", "lost"}]
BY DEF TypeOK, MarkKilled

\* A step that keeps rows and bindings keeps every row bound.
LEMMA StaysBound ==
    ASSUME BoundWhenPresent, SameRows, cur' = cur
    PROVE  BoundWhenPresent'
BY DEF BoundWhenPresent, SameRows, Brainstorms

\* The queue's part of Typed, and back.
LEMMA TypedHasQueue ==
    ASSUME Typed
    PROVE  QueueTyped /\ BoundWhenPresent /\ TypeOK
BY DEF Typed, TypeOK, QueueTyped, Runs, Statuses

\* A present row has a lock key: itself, or the session it is bound to.
LEMMA KeyTypes ==
    ASSUME Typed, NEW b \in Brainstorms, status[b] # "absent"
    PROVE  Key(b) \in Keys
BY DEF Typed, BoundWhenPresent, Key, Keys, Brainstorms

\* Putting a successor's type together from the queue's part and the rest.
LEMMA TypedFromParts ==
    ASSUME QueueTyped', BoundWhenPresent',
           cur' \in [Brainstorms -> Sessions \cup {None}],
           lexPty' \in [Brainstorms -> Sessions \cup {None}],
           refs' \in [Brainstorms -> Seq(Sessions)],
           chunked' \subseteq Keys,
           summary' \subseteq Brainstorms,
           pty' \in [Sessions -> {"none", "live", "dying", "killed", "gone", "lost"}],
           todo' \in [Brainstorms -> SUBSET Continuations],
           cold' \in [Sessions -> {"none", "due", "waiting", "done"}],
           voice' \in [Brainstorms -> VoiceStates],
           bindKey' \in [Brainstorms -> Sessions \cup {None}],
           crashes' \in Nat,
           asked' \subseteq Sessions
    PROVE  Typed'
BY DEF Typed, TypeOK, QueueTyped, Runs, Statuses

\* The spoken end's teardown keeps the types (lex-voice-ws.ts, case end_session).
LEMMA KillTypes ==
    ASSUME Typed, NEW b \in Brainstorms, KillLexPty(b)
    PROVE  /\ QueueTyped' /\ SameRows
           /\ lexPty' \in [Brainstorms -> Sessions \cup {None}]
           /\ pty' \in [Sessions -> {"none", "live", "dying", "killed", "gone", "lost"}]
           /\ asked' \subseteq Sessions
<1>0. QueueTyped /\ TypeOK
  BY TypedHasQueue
<1>1. QueueTyped' /\ SameRows
  <2>1. CASE NoEnqueue
    BY <1>0, <2>1, NoEnqueueTypes
  <2>2. CASE lexPty[b] # None /\ Enqueue(b, lexPty[b], {"pty"})
    <3>1. lexPty[b] \in Keys /\ {"pty"} \in SUBSET Continuations
      BY <1>0, <2>2 DEF TypeOK, Continuations, Keys
    <3> QED  BY <1>0, <2>2, <3>1, EnqueueTypes
  <2> QED  BY <2>1, <2>2 DEF KillLexPty
<1>2. pty' \in [Sessions -> {"none", "live", "dying", "killed", "gone", "lost"}]
  BY <1>0, MarkKilledTypes DEF KillLexPty, TypeOK
<1>3. asked' \subseteq Sessions /\ lexPty' \in [Brainstorms -> Sessions \cup {None}]
  BY <1>0 DEF KillLexPty, TypeOK
<1> QED  BY <1>1, <1>2, <1>3

\* A compaction restart keeps the types, whether its spawn succeeds or not
\* (lex-voice-ws.ts spawnRestart).
LEMMA RestartTypes ==
    ASSUME Typed, NEW b \in Brainstorms, NEW latch \in [Brainstorms -> VoiceStates],
           Restart(b, latch), UNCHANGED <<marker, flight, run>>
    PROVE  /\ QueueTyped' /\ BoundWhenPresent'
           /\ cur' \in [Brainstorms -> Sessions \cup {None}]
           /\ lexPty' \in [Brainstorms -> Sessions \cup {None}]
           /\ refs' \in [Brainstorms -> Seq(Sessions)]
           /\ summary' \subseteq Brainstorms
           /\ pty' \in [Sessions -> {"none", "live", "dying", "killed", "gone", "lost"}]
           /\ cold' \in [Sessions -> {"none", "due", "waiting", "done"}]
           /\ voice' \in [Brainstorms -> VoiceStates]
           /\ bindKey' \in [Brainstorms -> Sessions \cup {None}]
           /\ asked' \subseteq Sessions
<1>0. QueueTyped /\ BoundWhenPresent /\ TypeOK
  BY TypedHasQueue
<1>1. CASE /\ voice' = latch
           /\ UNCHANGED <<status, cur, lexPty, refs, summary, pty, cold, bindKey, asked>>
  <2>1. QueueTyped' /\ SameRows
    BY <1>0, <1>1 DEF QueueTyped, RunsNamed, SameRows
  <2>2. BoundWhenPresent'
    BY <1>0, <1>1, <2>1, StaysBound
  <2> QED  BY <1>0, <1>1, <2>1, <2>2 DEF TypeOK
<1>2. CASE \E s \in Sessions :
             /\ Spawn(b, s)
             /\ pty' = [k \in Sessions |-> IF k = s THEN "live"
                                ELSE IF k = bindKey[b] /\ pty[k] = "live" THEN "dying"
                                ELSE pty[k]]
             /\ IF latch[b] = "compacted"
                  THEN /\ voice' = [latch EXCEPT ![b] = "open"]
                       /\ bindKey' = [bindKey EXCEPT ![b] = s]
                  ELSE voice' = latch /\ UNCHANGED bindKey
             /\ asked' = asked \ {bindKey[b]}
  <2>1. PICK s \in Sessions :
          /\ Spawn(b, s)
          /\ pty' = [k \in Sessions |-> IF k = s THEN "live"
                             ELSE IF k = bindKey[b] /\ pty[k] = "live" THEN "dying"
                             ELSE pty[k]]
          /\ \/ /\ voice' = [latch EXCEPT ![b] = "open"]
                /\ bindKey' = [bindKey EXCEPT ![b] = s]
             \/ voice' = latch /\ UNCHANGED bindKey
          /\ asked' = asked \ {bindKey[b]}
    BY <1>2
  <2>2. QueueTyped'
    BY <1>0, <2>1, SpawnTypes DEF QueueTyped, RunsNamed
  <2>3. /\ pty' \in [Sessions -> {"none", "live", "dying", "killed", "gone", "lost"}]
        /\ asked' \subseteq Sessions
    BY <1>0, <2>1 DEF TypeOK
  <2>4. voice' \in [Brainstorms -> VoiceStates]
    BY <2>1 DEF VoiceStates
  <2>5. bindKey \in [Brainstorms -> Sessions \cup {None}]
    BY <1>0 DEF TypeOK
  <2>6. bindKey' \in [Brainstorms -> Sessions \cup {None}]
    <3>1. bindKey' = [bindKey EXCEPT ![b] = s] \/ bindKey' = bindKey
      BY <2>1
    <3> QED  BY <2>5, <3>1
  <2> QED  BY <2>1, <2>2, <2>3, <2>4, <2>6, SpawnTypes
<1> QED  BY <1>1, <1>2 DEF Restart

\* Every step keeps the types: one case per action.
LEMMA TypedStep == Typed /\ [Next]_vars => Typed'
<1> SUFFICES ASSUME Typed, [Next]_vars PROVE Typed'
  OBVIOUS
<1>0. QueueTyped /\ BoundWhenPresent /\ TypeOK
  BY TypedHasQueue
<1>a. Anchors \subseteq Brainstorms /\ Direct \subseteq Brainstorms
      /\ Sessions \subseteq Keys
  BY DEF Brainstorms, Keys
<1>b. Flights \subseteq [key : Keys, st : {"waiting", "ok", "failed"},
                         then : SUBSET Continuations]
  BY DEF Flights
<1>1. ASSUME NEW b \in Anchors, NEW s \in Sessions, Open(b, s) PROVE Typed'
  <2>1. Spawn(b, s) /\ pty' = [pty EXCEPT ![s] = "live"]
        /\ UNCHANGED <<chunked, marker, flight, todo, run, voiceVars, crashes, asked>>
    BY <1>1 DEF Open
  <2>2. QueueTyped'
    BY <1>0, <1>a, <2>1, SpawnTypes DEF QueueTyped, RunsNamed
  <2> QED  BY <1>0, <1>a, <2>1, <2>2, SpawnTypes, TypedFromParts DEF TypeOK, voiceVars
<1>2. ASSUME NEW b \in Anchors, NEW s \in Sessions, OnExit(b, s) PROVE Typed'
  <2>1. QueueTyped' /\ SameRows
    <3>1. CASE status[b] = "active"
      <4>1. cur[b] \in Keys /\ {"pty"} \in SUBSET Continuations
        BY <1>0, <1>a, <3>1 DEF BoundWhenPresent, Continuations
      <4> QED  BY <1>0, <1>2, <1>a, <3>1, <4>1, EnqueueTypes DEF OnExit
    <3>2. CASE status[b] # "active"
      BY <1>0, <1>2, <3>2, NoEnqueueTypes DEF OnExit
    <3> QED  BY <3>1, <3>2
  <2>2. BoundWhenPresent'
    BY <1>0, <1>2, <2>1, StaysBound DEF OnExit
  <2> QED  BY <1>0, <1>2, <2>1, <2>2, TypedFromParts DEF OnExit, TypeOK, voiceVars
<1>3. ASSUME NEW b \in Anchors, NEW s \in Sessions, ColdStart(b, s) PROVE Typed'
  <2>1. QueueTyped' /\ SameRows
    <3>1. CASE marker[b] # None /\ Enqueue(b, marker[b], {})
      <4>1. marker[b] \in Keys
        BY <1>0, <1>a, <3>1 DEF QueueTyped
      <4> QED  BY <1>0, <1>a, <3>1, <4>1, EnqueueTypes
    <3>2. CASE NoEnqueue
      BY <1>0, <3>2, NoEnqueueTypes
    <3> QED  BY <1>3, <3>1, <3>2 DEF ColdStart
  <2>2. BoundWhenPresent'
    BY <1>0, <1>3, <2>1, StaysBound DEF ColdStart
  <2>3. cold' \in [Sessions -> {"none", "due", "waiting", "done"}]
    BY <1>0, <1>3 DEF ColdStart, TypeOK
  <2> QED  BY <1>0, <1>3, <2>1, <2>2, <2>3, TypedFromParts DEF ColdStart, TypeOK, voiceVars
<1>4. ASSUME NEW d \in Direct, CreateDirect(d) PROVE Typed'
  <2>1. QueueTyped'
    BY <1>0, <1>4 DEF CreateDirect, QueueTyped, RunsNamed, Statuses, memVars
  <2>2. BoundWhenPresent'
    BY <1>0, <1>4, DistinctNames DEF CreateDirect, BoundWhenPresent, TypeOK, Brainstorms
  <2> QED  BY <1>0, <1>4, <2>1, <2>2, TypedFromParts DEF CreateDirect, TypeOK, voiceVars, memVars
<1>5. ASSUME NEW b \in Anchors, DashboardEnd(b) PROVE Typed'
  <2>1. QueueTyped' /\ SameRows
    <3>1. ASSUME NEW k \in Sessions, NEW t \in SUBSET Continuations, Enqueue(b, k, t)
          PROVE  QueueTyped' /\ SameRows
      BY <1>0, <1>a, <3>1, EnqueueTypes
    <3>2. lexPty[b] \in Sessions \cup {None} /\ {"pty"} \in SUBSET Continuations
      BY <1>0, <1>a DEF TypeOK, Continuations
    <3>3. CASE NoEnqueue
      BY <1>0, <3>3, NoEnqueueTypes
    <3> QED  BY <1>5, <3>1, <3>2, <3>3 DEF DashboardEnd
  <2>2. BoundWhenPresent'
    BY <1>0, <1>5, <2>1, StaysBound DEF DashboardEnd
  <2>3. pty' \in [Sessions -> {"none", "live", "dying", "killed", "gone", "lost"}]
    BY <1>0, <1>5, MarkKilledTypes DEF DashboardEnd, TypeOK
  <2>4. asked' \subseteq Sessions
    BY <1>5 DEF DashboardEnd, LivePtys
  <2> QED  BY <1>0, <1>5, <2>1, <2>2, <2>3, <2>4, TypedFromParts
           DEF DashboardEnd, TypeOK, voiceVars
<1>6. ASSUME NEW b \in Anchors, CompactionDue(b) PROVE Typed'
  <2>1. b \in Brainstorms /\ cur[b] \in Sessions /\ {"compact"} \in SUBSET Continuations
    BY <1>6, <1>a DEF CompactionDue, LivePtys, Continuations
  <2> DEFINE latch == [voice EXCEPT ![b] = "compacted"]
  <2>2. latch \in [Brainstorms -> VoiceStates]
    BY <1>0 DEF TypeOK, VoiceStates
  <2>3. UNCHANGED <<chunked, todo, crashes>>
    BY <1>6 DEF CompactionDue
  <2>4. CASE /\ voice' = latch
             /\ Enqueue(b, cur[b], {"compact"})
             /\ asked' = asked \cup {cur[b]}
             /\ UNCHANGED <<cur, lexPty, refs, summary, pty, cold, bindKey>>
    <3>1. QueueTyped' /\ SameRows
      BY <1>0, <1>a, <2>1, <2>4, EnqueueTypes
    <3>2. BoundWhenPresent'
      BY <1>0, <2>4, <3>1, StaysBound
    <3> QED  BY <1>0, <2>1, <2>2, <2>3, <2>4, <3>1, <3>2, TypedFromParts DEF TypeOK
  <2>5. CASE Restart(b, latch) /\ UNCHANGED <<marker, flight, run>>
    <3> HIDE DEF latch
    <3>1. /\ QueueTyped' /\ BoundWhenPresent'
          /\ cur' \in [Brainstorms -> Sessions \cup {None}]
          /\ lexPty' \in [Brainstorms -> Sessions \cup {None}]
          /\ refs' \in [Brainstorms -> Seq(Sessions)]
          /\ summary' \subseteq Brainstorms
          /\ pty' \in [Sessions -> {"none", "live", "dying", "killed", "gone", "lost"}]
          /\ cold' \in [Sessions -> {"none", "due", "waiting", "done"}]
          /\ voice' \in [Brainstorms -> VoiceStates]
          /\ bindKey' \in [Brainstorms -> Sessions \cup {None}]
          /\ asked' \subseteq Sessions
      BY <2>1, <2>2, <2>5, RestartTypes
    <3> QED  BY <1>0, <2>3, <3>1, TypedFromParts DEF TypeOK
  <2> QED  BY <1>6, <2>4, <2>5 DEF CompactionDue
<1>7. ASSUME NEW b \in Brainstorms, Turn(b) PROVE Typed'
  <2>1. Key(b) \in Keys
    BY <1>7, KeyTypes DEF Turn
  <2>2. QueueTyped' /\ SameRows
    BY <1>0, <1>7 DEF Turn, QueueTyped, RunsNamed, SameRows, memVars
  <2>3. BoundWhenPresent'
    BY <1>0, <1>7, <2>2, StaysBound DEF Turn
  <2> QED  BY <1>0, <1>7, <2>1, <2>2, <2>3, TypedFromParts DEF Turn, TypeOK, voiceVars, memVars
<1>8. ASSUME NEW b \in Brainstorms, VoiceEnd(b) PROVE Typed'
  <2>1. Key(b) \in Keys /\ {"voice"} \in SUBSET Continuations
    BY <1>8, KeyTypes DEF VoiceEnd, Continuations
  <2>2. UNCHANGED <<cur, refs, chunked, summary, todo, cold, bindKey, crashes>>
    BY <1>8 DEF VoiceEnd
  <2>3. CASE /\ voice' = [voice EXCEPT ![b] = "ended"]
             /\ Enqueue(b, Key(b), {"voice"})
             /\ asked' = asked \cup ({cur[b]} \cap LivePtys)
             /\ UNCHANGED <<lexPty, pty>>
    <3>1. QueueTyped' /\ SameRows
      BY <1>0, <2>1, <2>3, EnqueueTypes
    <3>2. BoundWhenPresent'
      BY <1>0, <2>2, <3>1, StaysBound
    <3>3. asked' \subseteq Sessions /\ voice' \in [Brainstorms -> VoiceStates]
      BY <1>0, <2>3 DEF LivePtys, TypeOK, VoiceStates
    <3> QED  BY <1>0, <2>2, <2>3, <3>1, <3>2, <3>3, TypedFromParts DEF TypeOK
  <2>4. CASE KillLexPty(b) /\ UNCHANGED voice
    <3>1. /\ QueueTyped' /\ SameRows
          /\ lexPty' \in [Brainstorms -> Sessions \cup {None}]
          /\ pty' \in [Sessions -> {"none", "live", "dying", "killed", "gone", "lost"}]
          /\ asked' \subseteq Sessions
      BY <2>4, KillTypes
    <3>2. BoundWhenPresent'
      BY <1>0, <2>2, <3>1, StaysBound
    <3> QED  BY <1>0, <2>2, <2>4, <3>1, <3>2, TypedFromParts DEF TypeOK
  <2> QED  BY <1>8, <2>3, <2>4 DEF VoiceEnd
<1>9. ASSUME NEW b \in Brainstorms, Flush(b) PROVE Typed'
  <2>1. QueueTyped' /\ SameRows
    <3>1. UNCHANGED <<marker, flight>>
      BY <1>9 DEF Flush
    <3>2. CASE status[b] # "absent" /\ LockedRun(Key(b), b, FALSE)
      <4>1. Key(b) \in Keys
        BY <3>2, KeyTypes
      <4> QED  BY <1>0, <3>1, <3>2, <4>1, LockedRunTypes DEF QueueTyped
    <3>3. CASE UNCHANGED <<run, status>>
      BY <1>0, <3>1, <3>3 DEF QueueTyped, RunsNamed, SameRows
    <3> QED  BY <1>9, <3>2, <3>3 DEF Flush
  <2>2. BoundWhenPresent'
    BY <1>0, <1>9, <2>1, StaysBound DEF Flush
  <2>3. voice' \in [Brainstorms -> VoiceStates]
    BY <1>0, <1>9 DEF Flush, TypeOK, VoiceStates
  <2> QED  BY <1>0, <1>9, <2>1, <2>2, <2>3, TypedFromParts DEF Flush, TypeOK
<1>10. ASSUME NEW k \in Keys, RunStep(k) PROVE Typed'
  <2>1. run[k].pc # "idle"
    BY <1>10 DEF RunStep, RunDrained, RunDistilled, RunFlat, RunScoped, RunDone, RunThrew
  <2>2. run[k].bs \in Brainstorms
    BY <1>0, <2>1 DEF QueueTyped, RunsNamed
  <2>3. \A p \in {"distill", "flat", "scoped", "tail"} :
          Advance(k, p) => run' \in [Keys -> Runs] /\ RunsNamed'
    BY <1>0, <2>1, AdvanceTypes DEF Stages
  <2>4. \A o \in {"ok", "failed"} :
          Release(k, o) => /\ run' \in [Keys -> Runs] /\ RunsNamed'
                           /\ flight' \in [Brainstorms -> Flights \cup {None}]
    BY <1>0, ReleaseTypes
  <2>5. QueueTyped' /\ SameRows
    <3>1. CASE RunDrained(k)
      <4>1. status' \in [Brainstorms -> Statuses] /\ SameRows
        BY <1>0, <3>1, FlippedTypes DEF RunDrained, QueueTyped, SameRows
      <4> QED  BY <1>0, <2>3, <3>1, <4>1 DEF RunDrained, QueueTyped
    <3>2. CASE RunDistilled(k)
      BY <1>0, <2>3, <3>2 DEF RunDistilled, QueueTyped, SameRows, diskVars
    <3>3. CASE RunFlat(k)
      BY <1>0, <2>3, <3>3 DEF RunFlat, QueueTyped, SameRows
    <3>4. CASE RunScoped(k)
      BY <1>0, <2>3, <3>4 DEF RunScoped, QueueTyped, SameRows
    <3>5. CASE RunDone(k)
      BY <1>0, <2>4, <3>5 DEF RunDone, QueueTyped, SameRows, diskVars
    <3>6. CASE RunThrew(k)
      BY <1>0, <2>4, <3>6 DEF RunThrew, QueueTyped, SameRows, diskVars
    <3> QED  BY <1>10, <3>1, <3>2, <3>3, <3>4, <3>5, <3>6 DEF RunStep
  <2>6. /\ UNCHANGED <<cur, lexPty, refs, chunked, pty, todo, cold, voiceVars, crashes, asked>>
        /\ summary' \subseteq Brainstorms
    BY <1>0, <1>10, <2>2 DEF RunStep, RunDrained, RunDistilled, RunFlat, RunScoped,
       RunDone, RunThrew, diskVars, TypeOK
  <2>7. BoundWhenPresent'
    BY <1>0, <2>5, <2>6, StaysBound
  <2> QED  BY <1>0, <2>5, <2>6, <2>7, TypedFromParts DEF TypeOK, voiceVars
<1>11. ASSUME NEW b \in Brainstorms, Settle(b) PROVE Typed'
  <2>1. flight[b] \in Flights /\ flight[b].then \in SUBSET Continuations
    BY <1>0, <1>b, <1>11 DEF Settle, QueueTyped, Flights
  <2>2. QueueTyped' /\ SameRows
    BY <1>0, <1>11 DEF Settle, QueueTyped, RunsNamed, SameRows
  <2>3. BoundWhenPresent'
    BY <1>0, <1>11, <2>2, StaysBound DEF Settle
  <2>4. todo' \in [Brainstorms -> SUBSET Continuations]
        /\ cold' \in [Sessions -> {"none", "due", "waiting", "done"}]
    BY <1>0, <1>11, <2>1 DEF Settle, TypeOK
  <2> QED  BY <1>0, <1>11, <2>2, <2>3, <2>4, TypedFromParts DEF Settle, TypeOK, voiceVars
<1>12. ASSUME NEW b \in Brainstorms, ThenEndBrainstorm(b) PROVE Typed'
  <2>1. QueueTyped' /\ SameRows
    BY <1>0, <1>12 DEF ThenEndBrainstorm, QueueTyped, RunsNamed, SameRows, Statuses
  <2>2. BoundWhenPresent'
    BY <1>0, <1>12, <2>1, StaysBound DEF ThenEndBrainstorm
  <2>3. todo' \in [Brainstorms -> SUBSET Continuations]
    BY <1>0, <1>12 DEF ThenEndBrainstorm, TypeOK
  <2> QED  BY <1>0, <1>12, <2>1, <2>2, <2>3, TypedFromParts DEF ThenEndBrainstorm, TypeOK, voiceVars
<1>13. ASSUME NEW b \in Brainstorms, ThenKill(b) PROVE Typed'
  <2>1. KillLexPty(b)
        /\ UNCHANGED <<cur, refs, chunked, summary, cold, voiceVars, crashes>>
        /\ todo' \in [Brainstorms -> SUBSET Continuations]
    BY <1>0, <1>13 DEF ThenKill, TypeOK
  <2>2. /\ QueueTyped' /\ SameRows
        /\ lexPty' \in [Brainstorms -> Sessions \cup {None}]
        /\ pty' \in [Sessions -> {"none", "live", "dying", "killed", "gone", "lost"}]
        /\ asked' \subseteq Sessions
    BY <2>1, KillTypes
  <2>3. BoundWhenPresent'
    BY <1>0, <2>1, <2>2, StaysBound
  <2> QED  BY <1>0, <2>1, <2>2, <2>3, TypedFromParts DEF TypeOK, voiceVars
<1>14. ASSUME NEW b \in Brainstorms, ThenRestart(b) PROVE Typed'
  <2>1. Restart(b, voice) /\ UNCHANGED <<chunked, marker, flight, run, crashes>>
        /\ todo' \in [Brainstorms -> SUBSET Continuations]
    BY <1>0, <1>14 DEF ThenRestart, TypeOK
  <2>2. voice \in [Brainstorms -> VoiceStates]
    BY <1>0 DEF TypeOK
  <2>3. /\ QueueTyped' /\ BoundWhenPresent'
        /\ cur' \in [Brainstorms -> Sessions \cup {None}]
        /\ lexPty' \in [Brainstorms -> Sessions \cup {None}]
        /\ refs' \in [Brainstorms -> Seq(Sessions)]
        /\ summary' \subseteq Brainstorms
        /\ pty' \in [Sessions -> {"none", "live", "dying", "killed", "gone", "lost"}]
        /\ cold' \in [Sessions -> {"none", "due", "waiting", "done"}]
        /\ voice' \in [Brainstorms -> VoiceStates]
        /\ bindKey' \in [Brainstorms -> Sessions \cup {None}]
        /\ asked' \subseteq Sessions
    BY <2>1, <2>2, RestartTypes
  <2> QED  BY <1>0, <2>1, <2>3, TypedFromParts DEF TypeOK
<1>15. ASSUME NEW s \in Sessions, ColdStartTimeout(s) PROVE Typed'
  <2>1. QueueTyped' /\ SameRows
    BY <1>0, <1>15 DEF ColdStartTimeout, QueueTyped, RunsNamed, SameRows, diskVars
  <2>2. BoundWhenPresent'
    BY <1>0, <1>15, <2>1, StaysBound DEF ColdStartTimeout, diskVars
  <2> QED  BY <1>0, <1>15, <2>1, <2>2, TypedFromParts
           DEF ColdStartTimeout, TypeOK, voiceVars, diskVars
<1>16. CASE Reap
  <2>1. QueueTyped' /\ SameRows
    BY <1>0, <1>16 DEF Reap, QueueTyped, RunsNamed, SameRows, Statuses, memVars
  <2>2. BoundWhenPresent'
    BY <1>0, <1>16, <2>1, StaysBound DEF Reap
  <2>3. lexPty' \in [Brainstorms -> Sessions \cup {None}]
    BY <1>0, <1>16 DEF Reap, TypeOK
  <2> QED  BY <1>0, <1>16, <2>1, <2>2, <2>3, TypedFromParts DEF Reap, TypeOK, voiceVars, memVars
<1>17. CASE CrashRestart
  <2>1. PICK kept \in SUBSET {b \in Brainstorms : status[b] # "absent"} :
          /\ status' = [b \in Brainstorms |-> IF b \in kept THEN "ended" ELSE "absent"]
          /\ summary' = summary \cap kept
          /\ cur' = [b \in Brainstorms |-> IF b \in kept THEN cur[b] ELSE None]
    BY <1>17 DEF CrashRestart
  <2>2. Idle \in Runs /\ Idle.pc = "idle"
    BY DEF Idle, Runs, Stages
  <2>3. QueueTyped'
    BY <1>0, <1>17, <2>1, <2>2 DEF CrashRestart, QueueTyped, RunsNamed, Statuses
  <2>4. BoundWhenPresent'
    BY <1>0, <1>a, <2>1 DEF BoundWhenPresent
  <2>5. cur' \in [Brainstorms -> Sessions \cup {None}] /\ summary' \subseteq Brainstorms
    BY <1>0, <2>1 DEF TypeOK
  <2>6. /\ pty' \in [Sessions -> {"none", "live", "dying", "killed", "gone", "lost"}]
        /\ todo' \in [Brainstorms -> SUBSET Continuations]
        /\ cold' \in [Sessions -> {"none", "due", "waiting", "done"}]
        /\ voice' \in [Brainstorms -> VoiceStates]
        /\ bindKey' \in [Brainstorms -> Sessions \cup {None}]
        /\ crashes' \in Nat /\ asked' \subseteq Sessions
        /\ UNCHANGED <<lexPty, refs, chunked>>
    BY <1>0, <1>17 DEF CrashRestart, TypeOK, VoiceStates
  <2> QED  BY <1>0, <2>3, <2>4, <2>5, <2>6, TypedFromParts DEF TypeOK, voiceVars
<1>18. ASSUME NEW b \in Brainstorms, Connect(b) PROVE Typed'
  <2>1. QueueTyped' /\ SameRows
    BY <1>0, <1>18 DEF Connect, QueueTyped, RunsNamed, SameRows, diskVars
  <2>2. BoundWhenPresent'
    BY <1>0, <1>18, <2>1, StaysBound DEF Connect, diskVars
  <2>3. /\ voice' \in [Brainstorms -> VoiceStates]
        /\ bindKey' \in [Brainstorms -> Sessions \cup {None}]
    BY <1>0, <1>18 DEF Connect, TypeOK, VoiceStates
  <2> QED  BY <1>0, <1>18, <2>1, <2>2, <2>3, TypedFromParts DEF Connect, TypeOK, diskVars
<1>19. CASE UNCHANGED vars
  <2>1. QueueTyped' /\ SameRows
    BY <1>0, <1>19 DEF vars, diskVars, memVars, QueueTyped, RunsNamed, SameRows
  <2>2. BoundWhenPresent'
    BY <1>0, <1>19, <2>1, StaysBound DEF vars, diskVars
  <2> QED  BY <1>0, <1>19, <2>1, <2>2, TypedFromParts DEF vars, diskVars, memVars, TypeOK, voiceVars
<1> QED  BY <1>1, <1>2, <1>3, <1>4, <1>5, <1>6, <1>7, <1>8, <1>9, <1>10, <1>11,
            <1>12, <1>13, <1>14, <1>15, <1>16, <1>17, <1>18, <1>19 DEF Next, Continue

\* Typed is an invariant.
LEMMA TypedAlways == Spec => []Typed
<1>1. Init => Typed
  <2> SUFFICES ASSUME Init PROVE Typed
    OBVIOUS
  <2>1. TypeOK
    <3>1. Idle \in [pc : Stages, bs : Brainstorms \cup {None}, terminal : BOOLEAN]
      BY DEF Idle, Stages
    <3>2. refs \in [Brainstorms -> Seq(Sessions)]
      BY DEF Init
    <3> QED  BY <3>1, <3>2 DEF Init, TypeOK, VoiceStates
  <2>2. BoundWhenPresent /\ RunsNamed
    BY DEF Init, BoundWhenPresent, RunsNamed, Idle, Brainstorms
  <2> QED  BY <2>1, <2>2 DEF Typed
<1> QED  BY <1>1, TypedStep, PTL DEF Spec

\* The state of the session-end machinery keeps its types.
THEOREM TypeCorrect == Spec => []TypeOK
<1>1. Typed => TypeOK
  BY DEF Typed
<1> QED  BY <1>1, TypedAlways, PTL

-----------------------------------------------------------------------------
\* The kinds of step, by what they do to the marker, the flights and the lock.
Queues == \E b \in Brainstorms, k \in Keys, t \in SUBSET Continuations : Enqueue(b, k, t)
Locks ==
    /\ UNCHANGED <<marker, flight>>
    /\ \/ \E b \in Brainstorms, k \in Keys, t \in BOOLEAN : LockedRun(k, b, t)
       \/ \E k \in Keys, p \in Stages \ {"idle"} : Advance(k, p)
Releases ==
    UNCHANGED marker /\ \E k \in Keys, o \in {"ok", "failed"} : Release(k, o)
Settles == \E b \in Brainstorms : Settle(b)
LeavesAlone == UNCHANGED <<marker, flight, run>>

\* Whatever the handlers do besides, to the queue a step does one of six things.
LEMMA StepKinds ==
    Typed /\ [Next]_vars =>
        Queues \/ Locks \/ Releases \/ Settles \/ CrashRestart \/ LeavesAlone
<1> SUFFICES ASSUME Typed, [Next]_vars
             PROVE  Queues \/ Locks \/ Releases \/ Settles \/ CrashRestart \/ LeavesAlone
  OBVIOUS
<1>0. QueueTyped /\ BoundWhenPresent /\ TypeOK
  BY TypedHasQueue
<1>a. Anchors \subseteq Brainstorms /\ Direct \subseteq Brainstorms
      /\ Sessions \subseteq Keys
  BY DEF Brainstorms, Keys
<1>b. /\ {} \in SUBSET Continuations /\ {"pty"} \in SUBSET Continuations
      /\ {"voice"} \in SUBSET Continuations /\ {"compact"} \in SUBSET Continuations
  BY DEF Continuations
<1>c. ASSUME NEW b \in Anchors, NEW s \in Sessions, OnExit(b, s)
      PROVE  Queues \/ LeavesAlone
  <2>1. CASE status[b] = "active"
    <3>1. cur[b] \in Keys
      BY <1>0, <1>a, <2>1 DEF BoundWhenPresent
    <3> QED  BY <1>a, <1>b, <1>c, <2>1, <3>1 DEF OnExit, Queues
  <2>2. CASE status[b] # "active"
    BY <1>c, <2>2 DEF OnExit, NoEnqueue, LeavesAlone
  <2> QED  BY <2>1, <2>2
<1>d. ASSUME NEW b \in Anchors, NEW s \in Sessions, ColdStart(b, s)
      PROVE  Queues \/ LeavesAlone
  <2>1. CASE marker[b] # None /\ Enqueue(b, marker[b], {})
    <3>1. marker[b] \in Keys
      BY <1>0, <1>a, <2>1 DEF QueueTyped
    <3> QED  BY <1>a, <1>b, <2>1, <3>1 DEF Queues
  <2>2. CASE NoEnqueue
    BY <2>2 DEF NoEnqueue, LeavesAlone
  <2> QED  BY <1>d, <2>1, <2>2 DEF ColdStart
<1>e. ASSUME NEW b \in Anchors, DashboardEnd(b) PROVE Queues \/ LeavesAlone
  <2>1. ASSUME NEW k \in Sessions, NEW t \in SUBSET Continuations, Enqueue(b, k, t)
        PROVE  Queues
    BY <1>a, <2>1 DEF Queues
  <2>2. lexPty[b] \in Sessions \cup {None}
    BY <1>0, <1>a DEF TypeOK
  <2>3. CASE NoEnqueue
    BY <2>3 DEF NoEnqueue, LeavesAlone
  <2> QED  BY <1>b, <1>e, <2>1, <2>2, <2>3 DEF DashboardEnd
<1>f. ASSUME NEW b \in Anchors, CompactionDue(b) PROVE Queues \/ LeavesAlone
  <2>1. cur[b] \in Keys
    BY <1>a, <1>f DEF CompactionDue, LivePtys
  <2>2. Enqueue(b, cur[b], {"compact"}) \/ UNCHANGED <<marker, flight, run>>
    BY <1>f DEF CompactionDue
  <2> QED  BY <1>a, <1>b, <2>1, <2>2 DEF Queues, LeavesAlone
<1>j. ASSUME NEW b \in Brainstorms, KillLexPty(b) PROVE Queues \/ LeavesAlone
  <2>1. CASE NoEnqueue
    BY <2>1 DEF NoEnqueue, LeavesAlone
  <2>2. CASE lexPty[b] # None /\ Enqueue(b, lexPty[b], {"pty"})
    <3>1. lexPty[b] \in Keys
      BY <1>0, <1>a, <2>2 DEF TypeOK
    <3> QED  BY <1>b, <2>2, <3>1 DEF Queues
  <2> QED  BY <1>j, <2>1, <2>2 DEF KillLexPty
<1>g. ASSUME NEW b \in Brainstorms, VoiceEnd(b) PROVE Queues \/ LeavesAlone
  <2>1. Key(b) \in Keys
    BY <1>g, KeyTypes DEF VoiceEnd
  <2>2. Enqueue(b, Key(b), {"voice"}) \/ KillLexPty(b)
    BY <1>g DEF VoiceEnd
  <2> QED  BY <1>b, <1>j, <2>1, <2>2 DEF Queues
<1>h. ASSUME NEW b \in Brainstorms, Flush(b) PROVE Locks \/ LeavesAlone
  <2>1. /\ UNCHANGED <<marker, flight>>
        /\ (status[b] # "absent" /\ LockedRun(Key(b), b, FALSE)) \/ UNCHANGED run
    BY <1>h DEF Flush
  <2>2. status[b] # "absent" => Key(b) \in Keys
    BY KeyTypes
  <2> QED  BY <2>1, <2>2 DEF Locks, LeavesAlone
<1>i. ASSUME NEW k \in Keys, RunStep(k) PROVE Locks \/ Releases
  BY <1>i DEF RunStep, RunDrained, RunDistilled, RunFlat, RunScoped, RunDone,
     RunThrew, Locks, Releases, Stages, diskVars
<1>k. ASSUME NEW b \in Brainstorms, ThenEndBrainstorm(b) \/ ThenRestart(b) \/ Turn(b)
                                      \/ Connect(b)
      PROVE  LeavesAlone
  BY <1>k DEF ThenEndBrainstorm, ThenRestart, Turn, Connect, LeavesAlone, diskVars, memVars
<1>l. ASSUME NEW b \in Anchors, NEW s \in Sessions, Open(b, s) PROVE LeavesAlone
  BY <1>l DEF Open, LeavesAlone
<1>m. ASSUME NEW d \in Direct, CreateDirect(d) PROVE LeavesAlone
  BY <1>m DEF CreateDirect, LeavesAlone, memVars
<1>n. ASSUME NEW s \in Sessions, ColdStartTimeout(s) PROVE LeavesAlone
  BY <1>n DEF ColdStartTimeout, LeavesAlone, diskVars
<1>o. Reap \/ UNCHANGED vars => LeavesAlone
  BY DEF Reap, vars, diskVars, memVars, LeavesAlone
<1> QED  BY <1>c, <1>d, <1>e, <1>f, <1>g, <1>h, <1>i, <1>j, <1>k, <1>l, <1>m, <1>n,
            <1>o DEF Next, Continue, ThenKill, Settles

-----------------------------------------------------------------------------
\* What Enqueue does to the flights when it starts one: the marker, the flight
\* and a held lock come into being in one step.
LEMMA EnqueueEffect ==
    ASSUME QueueTyped, NEW b \in Brainstorms, NEW k \in Keys,
           NEW t \in SUBSET Continuations, Enqueue(b, k, t)
    PROVE  \/ /\ flight[b] # None /\ UNCHANGED <<marker, run>>
              /\ flight' = [flight EXCEPT ![b] = [flight[b] EXCEPT !.then = @ \cup t]]
           \/ /\ flight[b] = None
              /\ marker' = [marker EXCEPT ![b] = k]
              /\ flight' = [flight EXCEPT ![b] =
                              [key |-> k, st |-> "waiting", then |-> t]]
              /\ run'[k].pc # "idle"
              /\ \A l \in Keys : run[l].pc # "idle" => run'[l].pc # "idle"
<1>1. CASE flight[b] # None
  BY <1>1 DEF Enqueue, QueueTyped
<1>2. CASE flight[b] = None
  <2>1. LockedRun(k, b, TRUE)
    BY <1>2 DEF Enqueue
  <2>2. /\ run'[k].pc # "idle"
        /\ \A l \in Keys : run[l].pc # "idle" => run'[l].pc # "idle"
    <3>1. CASE run[k].pc = "idle"
      <4>1. PICK q \in {"drain", "tail", "distill"} :
              run' = [run EXCEPT ![k] = [pc |-> q, bs |-> b, terminal |-> TRUE]]
        BY <2>1, <3>1 DEF LockedRun, StartRun
      <4> QED  BY <4>1 DEF QueueTyped
    <3>2. CASE run[k].pc # "idle"
      BY <2>1, <3>2 DEF LockedRun
    <3> QED  BY <3>1, <3>2
  <2> QED  BY <1>2, <2>2 DEF Enqueue
<1> QED  BY <1>1, <1>2

\* A durable record exists for every distillation in flight, under the session
\* it runs for, at every await: what lets a restart pick it up again.
THEOREM OwedOnDisk == Spec => []OwedIsOnDisk
<1>1. Init => OwedIsOnDisk
  BY DEF Init, OwedIsOnDisk
<1>2. Typed /\ OwedIsOnDisk /\ [Next]_vars => OwedIsOnDisk'
  <2> SUFFICES ASSUME Typed, OwedIsOnDisk, [Next]_vars PROVE OwedIsOnDisk'
    OBVIOUS
  <2>0. QueueTyped
    BY TypedHasQueue
  <2>1. CASE Queues
    <3>1. PICK b \in Brainstorms, k \in Keys, t \in SUBSET Continuations :
            Enqueue(b, k, t)
      BY <2>1 DEF Queues
    <3>2. CASE flight[b] # None
      <4>1. /\ UNCHANGED marker
            /\ flight' = [flight EXCEPT ![b] = [flight[b] EXCEPT !.then = @ \cup t]]
        BY <2>0, <3>1, <3>2, EnqueueEffect
      <4>2. [flight[b] EXCEPT !.then = @ \cup t].key = flight[b].key
        BY <2>0, <3>2 DEF QueueTyped, Flights
      <4> QED  BY <2>0, <3>2, <4>1, <4>2 DEF OwedIsOnDisk, QueueTyped
    <3>3. CASE flight[b] = None
      BY <2>0, <3>1, <3>3, EnqueueEffect DEF OwedIsOnDisk, QueueTyped
    <3> QED  BY <3>2, <3>3
  <2>2. CASE Locks
    BY <2>2 DEF Locks, OwedIsOnDisk
  <2>3. CASE Releases
    <3>1. PICK k \in Keys, o \in {"ok", "failed"} : Release(k, o) /\ UNCHANGED marker
      BY <2>3 DEF Releases
    <3>2. ASSUME NEW b \in Brainstorms, flight'[b] # None
          PROVE  flight[b] # None /\ flight'[b].key = flight[b].key
      BY <2>0, <3>1, <3>2 DEF Release, WaitsFor, QueueTyped, Flights
    <3> QED  BY <3>1, <3>2 DEF OwedIsOnDisk
  <2>4. CASE Settles
    BY <2>0, <2>4 DEF Settles, Settle, OwedIsOnDisk, QueueTyped
  <2>5. CASE CrashRestart
    BY <2>5 DEF CrashRestart, OwedIsOnDisk
  <2>6. CASE LeavesAlone
    BY <2>6 DEF LeavesAlone, OwedIsOnDisk
  <2> QED  BY StepKinds, <2>1, <2>2, <2>3, <2>4, <2>5, <2>6
<1> QED  BY <1>1, <1>2, TypedAlways, PTL DEF Spec

\* No lost wake-up in the lock: while a flight waits, a run holds its key,
\* whether the flight started that run or joined it.
THEOREM NoFlightStranded == Spec => []NoStrandedFlight
<1>1. Init => NoStrandedFlight
  BY DEF Init, NoStrandedFlight
<1>2. Typed /\ NoStrandedFlight /\ [Next]_vars => NoStrandedFlight'
  <2> SUFFICES ASSUME Typed, NoStrandedFlight, [Next]_vars PROVE NoStrandedFlight'
    OBVIOUS
  <2>0. QueueTyped
    BY TypedHasQueue
  <2>1. CASE Queues
    <3>1. PICK b \in Brainstorms, k \in Keys, t \in SUBSET Continuations :
            Enqueue(b, k, t)
      BY <2>1 DEF Queues
    <3>2. CASE flight[b] # None
      <4>1. /\ UNCHANGED run
            /\ flight' = [flight EXCEPT ![b] = [flight[b] EXCEPT !.then = @ \cup t]]
        BY <2>0, <3>1, <3>2, EnqueueEffect
      <4>2. /\ [flight[b] EXCEPT !.then = @ \cup t].key = flight[b].key
            /\ [flight[b] EXCEPT !.then = @ \cup t].st = flight[b].st
        BY <2>0, <3>2 DEF QueueTyped, Flights
      <4> QED  BY <2>0, <3>2, <4>1, <4>2 DEF NoStrandedFlight, QueueTyped
    <3>3. CASE flight[b] = None
      <4>1. /\ flight' = [flight EXCEPT ![b] = [key |-> k, st |-> "waiting", then |-> t]]
            /\ run'[k].pc # "idle"
            /\ \A l \in Keys : run[l].pc # "idle" => run'[l].pc # "idle"
        BY <2>0, <3>1, <3>3, EnqueueEffect
      <4>2. ASSUME NEW c \in Brainstorms, flight'[c] # None, flight'[c].st = "waiting"
            PROVE  run'[flight'[c].key].pc # "idle"
        <5>1. CASE c = b
          BY <2>0, <4>1, <5>1 DEF QueueTyped
        <5>2. CASE c # b
          <6>1. flight'[c] = flight[c] /\ flight[c].key \in Keys
            BY <2>0, <4>1, <4>2, <5>2 DEF QueueTyped, Flights
          <6> QED  BY <4>1, <4>2, <6>1 DEF NoStrandedFlight
        <5> QED  BY <5>1, <5>2
      <4> QED  BY <4>2 DEF NoStrandedFlight
    <3> QED  BY <3>2, <3>3
  <2>2. CASE Locks
    <3>1. \A l \in Keys : run[l].pc # "idle" => run'[l].pc # "idle"
      <4>1. ASSUME NEW b \in Brainstorms, NEW k \in Keys, NEW t \in BOOLEAN,
                   LockedRun(k, b, t)
            PROVE  \A l \in Keys : run[l].pc # "idle" => run'[l].pc # "idle"
        BY <2>0, <4>1 DEF LockedRun, StartRun, QueueTyped
      <4>2. ASSUME NEW k \in Keys, NEW q \in Stages \ {"idle"}, Advance(k, q)
            PROVE  \A l \in Keys : run[l].pc # "idle" => run'[l].pc # "idle"
        BY <2>0, <4>2 DEF Advance, QueueTyped, Runs
      <4> QED  BY <2>2, <4>1, <4>2 DEF Locks
    <3>2. ASSUME NEW c \in Brainstorms, flight[c] # None PROVE flight[c].key \in Keys
      BY <2>0, <3>2 DEF QueueTyped, Flights
    <3> QED  BY <2>2, <3>1, <3>2 DEF Locks, NoStrandedFlight
  <2>3. CASE Releases
    <3>1. PICK k \in Keys, o \in {"ok", "failed"} : Release(k, o)
      BY <2>3 DEF Releases
    <3>2. ASSUME NEW c \in Brainstorms, flight'[c] # None, flight'[c].st = "waiting"
          PROVE  run'[flight'[c].key].pc # "idle"
      <4>1. ~WaitsFor(c, k)
        BY <2>0, <3>1, <3>2 DEF Release, WaitsFor, QueueTyped, Flights
      <4>2. flight'[c] = flight[c]
        BY <3>1, <4>1 DEF Release
      <4>3. flight[c].key \in Keys /\ flight[c].key # k
        BY <2>0, <3>2, <4>1, <4>2 DEF WaitsFor, QueueTyped, Flights
      <4> QED  BY <2>0, <3>1, <3>2, <4>2, <4>3 DEF Release, NoStrandedFlight, QueueTyped
    <3> QED  BY <3>2 DEF NoStrandedFlight
  <2>4. CASE Settles
    BY <2>0, <2>4 DEF Settles, Settle, NoStrandedFlight, QueueTyped
  <2>5. CASE CrashRestart
    BY <2>5 DEF CrashRestart, NoStrandedFlight
  <2>6. CASE LeavesAlone
    BY <2>6 DEF LeavesAlone, NoStrandedFlight
  <2> QED  BY StepKinds, <2>1, <2>2, <2>3, <2>4, <2>5, <2>6
<1> QED  BY <1>1, <1>2, TypedAlways, PTL DEF Spec

-----------------------------------------------------------------------------
\* The abstract state: who is owed, and what came of the work.
OwedNow == {b \in Brainstorms : marker[b] # None}
WorkNow == [b \in Brainstorms |-> IF flight[b] = None THEN "none" ELSE flight[b].st]

\* Queueing is the abstract Queue, or nothing when a flight is joined.
LEMMA QueueRefines ==
    ASSUME QueueTyped, Queues
    PROVE  (\E b \in Brainstorms : Owed!Queue(b)) \/ UNCHANGED <<OwedNow, WorkNow>>
<1>1. PICK b \in Brainstorms, k \in Keys, t \in SUBSET Continuations : Enqueue(b, k, t)
  BY DEF Queues
<1>2. CASE flight[b] # None
  <2>1. /\ UNCHANGED marker
        /\ flight' = [flight EXCEPT ![b] = [flight[b] EXCEPT !.then = @ \cup t]]
    BY <1>1, <1>2, EnqueueEffect
  <2>2. /\ [flight[b] EXCEPT !.then = @ \cup t].st = flight[b].st
        /\ [flight[b] EXCEPT !.then = @ \cup t] \in Flights
    BY <1>2 DEF QueueTyped, Flights
  <2>3. WorkNow' = WorkNow
    BY <1>2, <2>1, <2>2, NoneIsNoFlight DEF WorkNow, QueueTyped
  <2> QED  BY <2>1, <2>3 DEF OwedNow
<1>3. CASE flight[b] = None
  <2>1. /\ marker' = [marker EXCEPT ![b] = k]
        /\ flight' = [flight EXCEPT ![b] = [key |-> k, st |-> "waiting", then |-> t]]
    BY <1>1, <1>3, EnqueueEffect
  <2>2. [key |-> k, st |-> "waiting", then |-> t] \in Flights
    BY DEF Flights
  <2>3. WorkNow[b] = "none" /\ WorkNow' = [WorkNow EXCEPT ![b] = "waiting"]
    BY <1>3, <2>1, <2>2, NoneIsNoFlight DEF WorkNow, QueueTyped
  <2>4. OwedNow' = OwedNow \cup {b}
    BY <2>1, DistinctNames DEF OwedNow, QueueTyped
  <2> QED  BY <2>3, <2>4 DEF Owed!Queue, OwedNow, WorkNow
<1> QED  BY <1>2, <1>3

\* Releasing the lock is the abstract Finish of every brainstorm that waited.
LEMMA ReleaseRefines ==
    ASSUME QueueTyped, Releases
    PROVE  \E B \in SUBSET Brainstorms : \E o \in Owed!Outcomes : Owed!Finish(B, o)
<1>1. PICK k \in Keys, o \in {"ok", "failed"} : Release(k, o) /\ UNCHANGED marker
  BY DEF Releases
<1> DEFINE B == {b \in Brainstorms : WaitsFor(b, k)}
<1>2. \A b \in B : WorkNow[b] = "waiting"
  BY DEF WorkNow, WaitsFor
<1>3. WorkNow' = [b \in Brainstorms |-> IF b \in B THEN o ELSE WorkNow[b]]
  <2>1. ASSUME NEW b \in Brainstorms
        PROVE  WorkNow'[b] = IF b \in B THEN o ELSE WorkNow[b]
    <3>1. CASE b \in B
      <4>1. /\ [flight[b] EXCEPT !.st = o] \in Flights
            /\ [flight[b] EXCEPT !.st = o].st = o
        BY <3>1 DEF QueueTyped, Flights, WaitsFor
      <4>2. flight'[b] = [flight[b] EXCEPT !.st = o]
        BY <1>1, <3>1 DEF Release
      <4>3. WorkNow'[b] = o
        BY <4>1, <4>2, NoneIsNoFlight DEF WorkNow
      <4> QED  BY <3>1, <4>3
    <3>2. CASE b \notin B
      BY <1>1, <3>2 DEF Release, WorkNow
    <3> QED  BY <3>1, <3>2
  <2>2. WorkNow' = [b \in Brainstorms |-> WorkNow'[b]]
    BY DEF WorkNow
  <2> HIDE DEF B
  <2> QED  BY <2>1, <2>2
<1>4. OwedNow' = OwedNow
  BY <1>1 DEF OwedNow
<1>5. Owed!Finish(B, o)
  BY <1>2, <1>3, <1>4 DEF Owed!Finish, OwedNow, WorkNow
<1> QED  BY <1>5 DEF Owed!Outcomes

\* Settling closes the abstract work, and clears the debt on success only.
LEMMA SettleRefines ==
    ASSUME QueueTyped, NEW b \in Brainstorms, Settle(b)
    PROVE  Owed!Close(b)
<1>1. flight[b] # None /\ flight[b] \in Flights /\ flight[b].st # "waiting"
  BY DEF Settle, QueueTyped
<1>2. WorkNow[b] = flight[b].st /\ flight[b].st \in {"ok", "failed"}
  BY <1>1 DEF WorkNow, Flights
<1>3. WorkNow' = [WorkNow EXCEPT ![b] = "none"]
  BY DEF Settle, WorkNow, QueueTyped
<1>4. OwedNow' = IF WorkNow[b] = "ok" THEN OwedNow \ {b} ELSE OwedNow
  BY <1>2 DEF Settle, OwedNow, QueueTyped
<1> QED  BY <1>2, <1>3, <1>4 DEF Owed!Close, Owed!Outcomes, OwedNow, WorkNow

\* Every way of ending, the lock and the pipeline together keep the promise of
\* the pending-distillation tracker: each of their steps is one of its steps or
\* changes nothing it can see.
THEOREM KeepsPromise == Spec => KeepsOwedPromise
<1>1. Init => Owed!Init
  BY DEF Init, Owed!Init
<1>2. Typed /\ [Next]_vars => [Owed!Next]_Owed!vars
  <2> SUFFICES ASSUME Typed, [Next]_vars
               PROVE  Owed!Next \/ UNCHANGED <<OwedNow, WorkNow>>
    BY DEF Owed!vars, OwedNow, WorkNow
  <2>0. QueueTyped
    BY TypedHasQueue
  <2>1. CASE Queues
    BY <2>0, <2>1, QueueRefines DEF Owed!Next
  <2>2. CASE Locks
    BY <2>2 DEF Locks, OwedNow, WorkNow
  <2>3. CASE Releases
    BY <2>0, <2>3, ReleaseRefines DEF Owed!Next
  <2>4. CASE Settles
    BY <2>0, <2>4, SettleRefines DEF Settles, Owed!Next
  <2>5. CASE CrashRestart
    <3>1. Owed!DaemonDeath
      BY <2>5 DEF CrashRestart, Owed!DaemonDeath
    <3> QED  BY <3>1 DEF Owed!Next
  <2>6. CASE LeavesAlone
    BY <2>6 DEF LeavesAlone, OwedNow, WorkNow
  <2> QED  BY StepKinds, <2>1, <2>2, <2>3, <2>4, <2>5, <2>6
<1> QED  BY <1>1, <1>2, TypedAlways, PTL DEF Spec, KeepsOwedPromise, Owed!Spec

-----------------------------------------------------------------------------
\* The kinds of step, by what they do to PTYs, bindings and transcript refs.
Spawns ==
    \E b \in Brainstorms, s \in Sessions :
        /\ Spawn(b, s)
        /\ pty'[s] = "live"
        /\ \A k \in Sessions : k # s =>
              pty'[k] = pty[k] \/ (pty[k] = "live" /\ pty'[k] = "dying")
Exits == \E b \in Anchors, s \in Sessions : OnExit(b, s)
Buttons == \E b \in Anchors : DashboardEnd(b)
Kills == \E b \in Brainstorms : KillLexPty(b) /\ UNCHANGED <<cur, refs, cold>>
KeepsPtys ==
    /\ UNCHANGED <<cur, refs, pty>>
    /\ \A b \in Brainstorms : lexPty'[b] \in {lexPty[b], None}

\* A restart that succeeds spawns; one that fails changes no binding
\* (lex-voice-ws.ts spawnRestart).
LEMMA RestartKinds ==
    ASSUME Typed, NEW b \in Brainstorms, NEW latch, Restart(b, latch)
    PROVE  Spawns \/ KeepsPtys
<1>1. CASE UNCHANGED <<cur, lexPty, refs, pty>>
  BY <1>1 DEF KeepsPtys
<1>2. ASSUME NEW s \in Sessions, Spawn(b, s),
             pty' = [k \in Sessions |-> IF k = s THEN "live"
                                ELSE IF k = bindKey[b] /\ pty[k] = "live" THEN "dying"
                                ELSE pty[k]]
      PROVE  Spawns
  BY <1>2 DEF Spawns
<1> QED  BY <1>1, <1>2 DEF Restart

\* To PTYs, bindings and refs a step does one of six things.
LEMMA SessionKinds ==
    Typed /\ [Next]_vars =>
        Spawns \/ Exits \/ Buttons \/ Kills \/ CrashRestart \/ KeepsPtys
<1> SUFFICES ASSUME Typed, [Next]_vars
             PROVE  Spawns \/ Exits \/ Buttons \/ Kills \/ CrashRestart \/ KeepsPtys
  OBVIOUS
<1>0. TypeOK /\ Anchors \subseteq Brainstorms
  BY TypedHasQueue DEF Brainstorms
<1>1. ASSUME NEW b \in Anchors, NEW s \in Sessions, Open(b, s) PROVE Spawns
  <2>1. pty' = [pty EXCEPT ![s] = "live"] /\ Spawn(b, s) /\ b \in Brainstorms
    BY <1>0, <1>1 DEF Open
  <2>2. pty'[s] = "live" /\ \A k \in Sessions : k # s => pty'[k] = pty[k]
    BY <1>0, <2>1 DEF TypeOK
  <2> QED  BY <2>1, <2>2 DEF Spawns
<1>2. ASSUME NEW b \in Anchors, CompactionDue(b) PROVE Spawns \/ KeepsPtys
  <2>1. CASE UNCHANGED <<cur, lexPty, refs, pty>>
    BY <2>1 DEF KeepsPtys
  <2> QED  BY <1>0, <1>2, <2>1, RestartKinds DEF CompactionDue
<1>3. ASSUME NEW b \in Brainstorms, VoiceEnd(b) PROVE Kills \/ KeepsPtys
  <2>1. CASE KillLexPty(b)
    BY <1>3, <2>1 DEF VoiceEnd, Kills
  <2>2. CASE UNCHANGED <<lexPty, pty>>
    BY <1>3, <2>2 DEF VoiceEnd, KeepsPtys
  <2> QED  BY <1>3, <2>1, <2>2 DEF VoiceEnd
<1>4. ASSUME NEW b \in Brainstorms, Continue(b) PROVE Spawns \/ Kills \/ KeepsPtys
  <2>1. CASE ThenKill(b)
    BY <2>1 DEF ThenKill, Kills
  <2>2. CASE ThenRestart(b)
    BY <2>2, RestartKinds DEF ThenRestart
  <2>3. CASE ThenEndBrainstorm(b)
    BY <2>3 DEF ThenEndBrainstorm, KeepsPtys
  <2> QED  BY <1>4, <2>1, <2>2, <2>3 DEF Continue
<1>5. CASE Reap
  <2>1. \A b \in Brainstorms : lexPty'[b] \in {lexPty[b], None}
    BY <1>5 DEF Reap
  <2> QED  BY <1>5, <2>1 DEF Reap, KeepsPtys, memVars
<1>6. ASSUME NEW b \in Brainstorms, Turn(b) \/ Connect(b) \/ Flush(b) \/ Settle(b)
      PROVE  KeepsPtys
  BY <1>6 DEF Turn, Connect, Flush, Settle, KeepsPtys, diskVars, memVars
<1>7. ASSUME NEW k \in Keys, RunStep(k) PROVE KeepsPtys
  BY <1>7 DEF RunStep, RunDrained, RunDistilled, RunFlat, RunScoped, RunDone, RunThrew,
     KeepsPtys, diskVars
<1>8. ASSUME NEW b \in Anchors, NEW s \in Sessions, ColdStart(b, s) PROVE KeepsPtys
  BY <1>8 DEF ColdStart, KeepsPtys
<1>9. ASSUME NEW d \in Direct, CreateDirect(d) PROVE KeepsPtys
  BY <1>9 DEF CreateDirect, KeepsPtys, memVars
<1>10. ASSUME NEW s \in Sessions, ColdStartTimeout(s) PROVE KeepsPtys
  BY <1>10 DEF ColdStartTimeout, KeepsPtys, diskVars
<1>11. CASE UNCHANGED vars
  BY <1>11 DEF vars, diskVars, memVars, KeepsPtys
<1> QED  BY <1>1, <1>2, <1>3, <1>4, <1>5, <1>6, <1>7, <1>8, <1>9, <1>10, <1>11
         DEF Next, Exits, Buttons

\* The refs of an anchor after one more session.
LEMMA RefsAfter ==
    ASSUME NEW q \in Seq(Sessions), NEW s \in Sessions
    PROVE  ToSet(Append(q, s)) = ToSet(q) \cup {s}
<1>1. /\ Append(q, s) \in Seq(Sessions) /\ Len(q) \in Nat
      /\ Len(Append(q, s)) = Len(q) + 1
      /\ Append(q, s)[Len(q) + 1] = s
      /\ \A i \in 1..Len(q) : Append(q, s)[i] = q[i]
      /\ DOMAIN q = 1..Len(q) /\ DOMAIN Append(q, s) = 1..Len(Append(q, s))
  OBVIOUS
<1>2. 1..(Len(q) + 1) = 1..Len(q) \cup {Len(q) + 1}
  BY <1>1
<1>3. ASSUME NEW x
      PROVE  x \in ToSet(Append(q, s)) <=> x \in ToSet(q) \/ x = s
  <2>1. x \in ToSet(Append(q, s)) <=> \E i \in 1..(Len(q) + 1) : Append(q, s)[i] = x
    BY <1>1 DEF ToSet
  <2>2. x \in ToSet(q) <=> \E i \in 1..Len(q) : q[i] = x
    BY <1>1 DEF ToSet
  <2> QED  BY <1>1, <1>2, <2>1, <2>2
<1> QED  BY <1>3

\* Spawning adds the new session to its anchor's and leaves the others'.
LEMMA SpawnRefs ==
    ASSUME Typed, NEW b \in Brainstorms, NEW s \in Sessions, Spawn(b, s)
    PROVE  /\ SessionsOf(b)' = SessionsOf(b) \cup {s}
           /\ \A c \in Brainstorms : c # b => SessionsOf(c)' = SessionsOf(c)
<1>1. refs \in [Brainstorms -> Seq(Sessions)]
  BY TypedHasQueue DEF TypeOK
<1>2. refs' = [refs EXCEPT ![b] = Append(@, s)]
  BY DEF Spawn
<1>3. refs'[b] = Append(refs[b], s) /\ \A c \in Brainstorms : c # b => refs'[c] = refs[c]
  BY <1>1, <1>2
<1> QED  BY <1>1, <1>3, RefsAfter DEF SessionsOf

-----------------------------------------------------------------------------
\* A cold start waits only for a flight: what a step does to both.
ColdStarts == \E b \in Anchors, s \in Sessions : ColdStart(b, s)
NobodyNewWaits == \A s \in Sessions : cold'[s] = "waiting" => cold[s] = "waiting"

\* Only a cold start of its own makes a session wait, and it finds a flight.
LEMMA ColdKinds ==
    Typed /\ [Next]_vars => ColdStarts \/ NobodyNewWaits
<1> SUFFICES ASSUME Typed, [Next]_vars PROVE ColdStarts \/ NobodyNewWaits
  OBVIOUS
<1>0. cold \in [Sessions -> {"none", "due", "waiting", "done"}] /\ Anchors \subseteq Brainstorms
  BY TypedHasQueue DEF TypeOK, Brainstorms
<1>1. ASSUME NEW b \in Brainstorms, NEW s \in Sessions, Spawn(b, s) PROVE NobodyNewWaits
  BY <1>0, <1>1 DEF Spawn, NobodyNewWaits
<1>2. ASSUME NEW b \in Brainstorms, NEW latch, Restart(b, latch) PROVE NobodyNewWaits
  BY <1>1, <1>2 DEF Restart, NobodyNewWaits
<1>3. UNCHANGED cold => NobodyNewWaits
  BY DEF NobodyNewWaits
<1>4. ASSUME NEW b \in Anchors, CompactionDue(b) PROVE NobodyNewWaits
  BY <1>0, <1>2, <1>3, <1>4 DEF CompactionDue
<1>5. ASSUME NEW b \in Brainstorms, Continue(b) PROVE NobodyNewWaits
  BY <1>2, <1>3, <1>5 DEF Continue, ThenKill, ThenRestart, ThenEndBrainstorm
<1>6. ASSUME NEW b \in Brainstorms, Settle(b) PROVE NobodyNewWaits
  BY <1>6 DEF Settle, NobodyNewWaits
<1>7. CASE CrashRestart
  BY <1>7 DEF CrashRestart, NobodyNewWaits
<1>8. ASSUME NEW s \in Sessions, ColdStartTimeout(s) PROVE NobodyNewWaits
  BY <1>0, <1>8 DEF ColdStartTimeout, NobodyNewWaits
<1>9. ASSUME NEW b \in Anchors, NEW s \in Sessions, Open(b, s) \/ OnExit(b, s)
      PROVE  NobodyNewWaits
  BY <1>0, <1>1, <1>3, <1>9 DEF Open, OnExit
<1>10. ASSUME NEW b \in Brainstorms,
              Turn(b) \/ Connect(b) \/ VoiceEnd(b) \/ Flush(b) \/ DashboardEnd(b)
       PROVE  UNCHANGED cold
  BY <1>10 DEF Turn, Connect, VoiceEnd, Flush, DashboardEnd, memVars
<1>11. ASSUME NEW k \in Keys, RunStep(k) PROVE UNCHANGED cold
  BY <1>11 DEF RunStep, RunDrained, RunDistilled, RunFlat, RunScoped, RunDone, RunThrew
<1>12. (\E d \in Direct : CreateDirect(d)) \/ Reap \/ UNCHANGED vars => UNCHANGED cold
  BY DEF CreateDirect, Reap, vars, memVars
<1> QED  BY <1>0, <1>3, <1>4, <1>5, <1>6, <1>7, <1>8, <1>9, <1>10, <1>11, <1>12
         DEF Next, ColdStarts

\* Nothing but its own settling, or the daemon's death, takes a flight away.
LEMMA FlightsStay ==
    ASSUME Typed, [Next]_vars, NEW b \in Brainstorms, ~Settle(b), ~CrashRestart,
           flight[b] # None
    PROVE  flight'[b] # None
<1>0. QueueTyped
  BY TypedHasQueue
<1>1. flight[b] \in Flights
  BY <1>0 DEF QueueTyped
<1>2. CASE Queues
  <2>1. PICK c \in Brainstorms, k \in Keys, t \in SUBSET Continuations : Enqueue(c, k, t)
    BY <1>2 DEF Queues
  <2>2. CASE c = b
    <3>1. [flight[b] EXCEPT !.then = @ \cup t] \in Flights
      BY <1>1 DEF Flights
    <3>2. flight' = [flight EXCEPT ![b] = [flight[b] EXCEPT !.then = @ \cup t]]
      BY <1>0, <2>1, <2>2, EnqueueEffect
    <3> QED  BY <1>0, <3>1, <3>2, NoneIsNoFlight DEF QueueTyped
  <2>3. CASE c # b
    BY <1>0, <2>1, <2>3, EnqueueEffect DEF QueueTyped
  <2> QED  BY <2>2, <2>3
<1>3. CASE Releases
  <2>1. PICK k \in Keys, o \in {"ok", "failed"} : Release(k, o)
    BY <1>3 DEF Releases
  <2>2. [flight[b] EXCEPT !.st = o] \in Flights
    BY <1>1 DEF Flights
  <2> QED  BY <2>1, <2>2, NoneIsNoFlight DEF Release
<1>4. CASE Settles
  BY <1>0, <1>4 DEF Settles, Settle, QueueTyped
<1>5. CASE UNCHANGED flight
  BY <1>5
<1> QED  BY <1>2, <1>3, <1>4, <1>5, StepKinds DEF Locks, LeavesAlone

\* The refs of a brainstorm only grow.
LEMMA RefsGrow ==
    ASSUME Typed, [Next]_vars, NEW b \in Brainstorms
    PROVE  SessionsOf(b) \subseteq SessionsOf(b)'
<1>1. CASE Spawns
  BY <1>1, SpawnRefs DEF Spawns
<1>2. CASE UNCHANGED refs
  BY <1>2 DEF SessionsOf
<1> QED  BY <1>1, <1>2, SessionKinds
         DEF Exits, OnExit, Buttons, DashboardEnd, Kills, CrashRestart, KeepsPtys

\* No cold start waits for nothing: while one waits, a flight of its anchor is
\* there to answer it, whichever session started that flight and whatever
\* restarts, reopenings and retries come between (distill-pending.ts
\* awaitPendingDistill).
THEOREM NoColdStartStranded == Spec => []NoStrandedColdStart
<1>1. Init => NoStrandedColdStart
  BY DEF Init, NoStrandedColdStart
<1>2. Typed /\ NoStrandedColdStart /\ [Next]_vars => NoStrandedColdStart'
  <2> SUFFICES ASSUME Typed, NoStrandedColdStart, [Next]_vars,
                      NEW s \in Sessions, cold'[s] = "waiting"
               PROVE  \E b \in Anchors : s \in SessionsOf(b)' /\ flight'[b] # None
    BY DEF NoStrandedColdStart
  <2>0. QueueTyped /\ TypeOK /\ Anchors \subseteq Brainstorms
    BY TypedHasQueue DEF Brainstorms
  <2>1. CASE cold[s] = "waiting"
    <3>1. PICK b \in Anchors : s \in SessionsOf(b) /\ flight[b] # None
      BY <2>1 DEF NoStrandedColdStart
    <3>2. ~Settle(b) /\ ~CrashRestart
      BY <2>1, <3>1 DEF Settle, CrashRestart
    <3> QED  BY <2>0, <3>1, <3>2, FlightsStay, RefsGrow
  <2>2. CASE cold[s] # "waiting"
    <3>1. PICK b \in Anchors, t \in Sessions : ColdStart(b, t)
      BY <2>2, ColdKinds DEF ColdStarts, NobodyNewWaits
    <3>2. t = s /\ s \in SessionsOf(b) /\ UNCHANGED refs
      BY <2>0, <2>2, <3>1 DEF ColdStart, TypeOK
    <3>3. SessionsOf(b)' = SessionsOf(b)
      BY <3>2 DEF SessionsOf
    <3>4. flight'[b] # None
      <4>1. CASE flight[b] # None /\ NoEnqueue
        BY <4>1 DEF NoEnqueue
      <4>2. CASE marker[b] # None /\ flight[b] = None /\ Enqueue(b, marker[b], {})
        <5>1. marker[b] \in Keys /\ {} \in SUBSET Continuations
          BY <2>0, <4>2 DEF QueueTyped
        <5>2. [key |-> marker[b], st |-> "waiting", then |-> {}] \in Flights
          BY <5>1 DEF Flights
        <5>3. flight' = [flight EXCEPT ![b] = [key |-> marker[b], st |-> "waiting",
                                              then |-> {}]]
          BY <4>2 DEF Enqueue
        <5>4. flight'[b] = [key |-> marker[b], st |-> "waiting", then |-> {}]
          BY <2>0, <5>3 DEF QueueTyped
        <5> QED  BY <5>2, <5>4, NoneIsNoFlight
      <4>3. CASE cold' = [cold EXCEPT ![t] = "done"]
        BY <2>0, <3>2, <4>3 DEF TypeOK
      <4> QED  BY <3>1, <4>1, <4>2, <4>3 DEF ColdStart
    <3> QED  BY <3>2, <3>3, <3>4
  <2> QED  BY <2>1, <2>2
<1> QED  BY <1>1, <1>2, TypedAlways, PTL DEF Spec

-----------------------------------------------------------------------------
\* A session belongs to one brainstorm, is bound only to it, and has a PTY: what
\* lets the host find, from the PTY that died, the row that is owed.
Owned ==
    /\ \A b \in Brainstorms : /\ cur[b] \in SessionsOf(b) \cup {None}
                              /\ lexPty[b] \in SessionsOf(b) \cup {None}
                              /\ \A s \in SessionsOf(b) : pty[s] # "none"
    /\ \A b, c \in Brainstorms : b # c => SessionsOf(b) \cap SessionsOf(c) = {}

\* Steps that leave the refs alone keep the owners, if they bind no row anew and
\* take back no PTY.
LEMMA OwnedKept ==
    ASSUME Owned, UNCHANGED refs,
           \A b \in Brainstorms : cur'[b] \in {cur[b], None} /\ lexPty'[b] \in {lexPty[b], None},
           \A s \in Sessions : pty[s] # "none" => pty'[s] # "none",
           \A b \in Brainstorms : SessionsOf(b) \subseteq Sessions
    PROVE  Owned'
<1>1. \A b \in Brainstorms : SessionsOf(b)' = SessionsOf(b)
  BY DEF SessionsOf
<1> QED  BY <1>1 DEF Owned

\* An anchor's refs are sessions.
LEMMA RefsAreSessions ==
    ASSUME TypeOK, NEW b \in Brainstorms
    PROVE  SessionsOf(b) \subseteq Sessions
<1>1. refs[b] \in Seq(Sessions)
  BY DEF TypeOK
<1>2. \A i \in DOMAIN refs[b] : refs[b][i] \in Sessions
  BY <1>1
<1> QED  BY <1>2 DEF SessionsOf, ToSet

\* Marking a PTY killed neither makes nor unmakes one.
LEMMA MarkKilledKeeps ==
    ASSUME TypeOK, NEW s, MarkKilled(s)
    PROVE  \A k \in Sessions : /\ pty[k] # "none" => pty'[k] # "none"
                               /\ k # s => pty'[k] = pty[k]
BY DEF MarkKilled, TypeOK

\* Every step keeps the owners.
LEMMA OwnedStep == Typed /\ Owned /\ [Next]_vars => Owned'
<1> SUFFICES ASSUME Typed, Owned, [Next]_vars PROVE Owned'
  OBVIOUS
<1>0. TypeOK /\ (\A b \in Brainstorms : SessionsOf(b) \subseteq Sessions)
      /\ Anchors \subseteq Brainstorms
  BY TypedHasQueue, RefsAreSessions DEF Brainstorms
<1>1. CASE Spawns
  <2>1. PICK b \in Brainstorms, s \in Sessions :
          /\ Spawn(b, s) /\ pty'[s] = "live"
          /\ \A k \in Sessions : k # s =>
                pty'[k] = pty[k] \/ (pty[k] = "live" /\ pty'[k] = "dying")
    BY <1>1 DEF Spawns
  <2>2. /\ SessionsOf(b)' = SessionsOf(b) \cup {s}
        /\ \A c \in Brainstorms : c # b => SessionsOf(c)' = SessionsOf(c)
    BY <2>1, SpawnRefs
  <2>3. /\ cur'[b] = s /\ lexPty'[b] = s
        /\ \A c \in Brainstorms : c # b => cur'[c] = cur[c] /\ lexPty'[c] = lexPty[c]
        /\ pty[s] = "none"
    BY <1>0, <2>1 DEF Spawn, TypeOK
  <2>4. \A c \in Brainstorms : s \notin SessionsOf(c)
    BY <2>3 DEF Owned
  <2>5. \A k \in Sessions : pty[k] # "none" => pty'[k] # "none"
    BY <2>1
  <2>6. ASSUME NEW c \in Brainstorms
        PROVE  /\ cur'[c] \in SessionsOf(c)' \cup {None}
               /\ lexPty'[c] \in SessionsOf(c)' \cup {None}
               /\ \A k \in SessionsOf(c)' : pty'[k] # "none"
    <3>1. CASE c = b
      BY <1>0, <2>1, <2>2, <2>3, <2>5, <3>1 DEF Owned
    <3>2. CASE c # b
      BY <1>0, <2>2, <2>3, <2>5, <3>2 DEF Owned
    <3> QED  BY <3>1, <3>2
  <2>7. ASSUME NEW c \in Brainstorms, NEW d \in Brainstorms, c # d
        PROVE  SessionsOf(c)' \cap SessionsOf(d)' = {}
    <3>1. SessionsOf(c) \cap SessionsOf(d) = {}
      BY <2>7 DEF Owned
    <3>2. SessionsOf(c)' \subseteq SessionsOf(c) \cup {s} /\ SessionsOf(d)' \subseteq SessionsOf(d) \cup {s}
      BY <2>2
    <3>3. c # b => s \notin SessionsOf(c)'
      BY <2>2, <2>4
    <3>4. d # b => s \notin SessionsOf(d)'
      BY <2>2, <2>4
    <3> QED  BY <2>7, <3>1, <3>2, <3>3, <3>4
  <2> QED  BY <2>6, <2>7 DEF Owned
<1>2. CASE Exits
  <2>1. PICK b \in Anchors, s \in Sessions : OnExit(b, s)
    BY <1>2 DEF Exits
  <2>2. \A k \in Sessions : pty[k] # "none" => pty'[k] # "none"
    BY <1>0, <2>1 DEF OnExit, TypeOK
  <2>3. \A c \in Brainstorms : cur'[c] \in {cur[c], None} /\ lexPty'[c] \in {lexPty[c], None}
    BY <1>0, <2>1 DEF OnExit, TypeOK
  <2> QED  BY <1>0, <2>1, <2>2, <2>3, OwnedKept DEF OnExit
<1>3. CASE Buttons
  <2>1. PICK b \in Anchors : DashboardEnd(b)
    BY <1>3 DEF Buttons
  <2>2. \A k \in Sessions : pty[k] # "none" => pty'[k] # "none"
    BY <1>0, <2>1, MarkKilledKeeps DEF DashboardEnd
  <2>3. \A c \in Brainstorms : cur'[c] \in {cur[c], None} /\ lexPty'[c] \in {lexPty[c], None}
    BY <1>0, <2>1 DEF DashboardEnd, TypeOK
  <2> QED  BY <1>0, <2>1, <2>2, <2>3, OwnedKept DEF DashboardEnd
<1>4. CASE Kills
  <2>1. PICK b \in Brainstorms : KillLexPty(b) /\ UNCHANGED <<cur, refs, cold>>
    BY <1>4 DEF Kills
  <2>2. \A k \in Sessions : pty[k] # "none" => pty'[k] # "none"
    BY <1>0, <2>1, MarkKilledKeeps DEF KillLexPty
  <2>3. \A c \in Brainstorms : cur'[c] \in {cur[c], None} /\ lexPty'[c] \in {lexPty[c], None}
    BY <1>0, <2>1 DEF KillLexPty, TypeOK
  <2> QED  BY <1>0, <2>1, <2>2, <2>3, OwnedKept
<1>5. CASE CrashRestart
  <2>1. \A k \in Sessions : pty[k] # "none" => pty'[k] # "none"
    BY <1>5 DEF CrashRestart
  <2>2. \A c \in Brainstorms : cur'[c] \in {cur[c], None} /\ lexPty'[c] \in {lexPty[c], None}
    BY <1>5 DEF CrashRestart
  <2> QED  BY <1>0, <1>5, <2>1, <2>2, OwnedKept DEF CrashRestart
<1>6. CASE KeepsPtys
  BY <1>0, <1>6, OwnedKept DEF KeepsPtys
<1> QED  BY <1>1, <1>2, <1>3, <1>4, <1>5, <1>6, SessionKinds

\* Queueing leaves the brainstorm owed on disk, whether it starts a flight or
\* joins one.
LEMMA EnqueueOwes ==
    ASSUME QueueTyped, OwedIsOnDisk, NEW b \in Brainstorms, NEW k \in Keys,
           NEW t, Enqueue(b, k, t)
    PROVE  marker'[b] # None
<1>1. CASE flight[b] # None
  <2>1. marker' = marker /\ marker[b] = flight[b].key
    BY <1>1 DEF Enqueue, OwedIsOnDisk
  <2>2. flight[b].key \in Keys
    BY <1>1 DEF QueueTyped, Flights
  <2> QED  BY <2>1, <2>2, DistinctNames
<1>2. CASE flight[b] = None
  BY <1>2, DistinctNames DEF Enqueue, QueueTyped
<1> QED  BY <1>1, <1>2

\* No two brainstorms share a session, by their refs or by what their rows are
\* bound to, through reopenings, compaction restarts, ends and daemon deaths.
LEMMA OwnedAlways == Spec => []Owned
<1>1. Init => Owned
  <2> SUFFICES ASSUME Init PROVE Owned
    OBVIOUS
  <2>1. \A b \in Brainstorms : SessionsOf(b) = {}
    <3>1. \A b \in Brainstorms : refs[b] = <<>> /\ DOMAIN refs[b] = {}
      BY DEF Init
    <3> QED  BY <3>1 DEF SessionsOf, ToSet
  <2> QED  BY <2>1 DEF Init, Owned
<1> QED  BY <1>1, OwnedStep, TypedAlways, PTL DEF Spec

\* SM-27: whatever way the PTY an active row is bound to dies, by its own exit,
\* the End button or the spoken end's kill, the row's distillation is owed on disk
\* in that same step (pty-host.ts onExit, ptyKill; distill-pending.ts).
THEOREM DeathOwesDistill == Spec => PtyDeathOwesDistill
<1> DEFINE Owes == \A b \in Anchors :
                      status[b] = "active" /\ cur[b] \in LivePtys /\ cur[b] \notin LivePtys'
                        => marker'[b] # None \/ crashes' # crashes
<1>1. Typed /\ Owned /\ OwedIsOnDisk /\ [Next]_vars => [Owes]_vars
  <2> SUFFICES ASSUME Typed, Owned, OwedIsOnDisk, [Next]_vars,
                      NEW b \in Anchors, status[b] = "active",
                      cur[b] \in LivePtys, cur[b] \notin LivePtys'
               PROVE  marker'[b] # None \/ crashes' # crashes
    BY DEF Owes
  <2>0. /\ QueueTyped /\ TypeOK /\ b \in Brainstorms /\ Anchors \subseteq Brainstorms
        /\ cur[b] \in Sessions /\ pty[cur[b]] \in {"live", "dying"}
        /\ pty'[cur[b]] \notin {"live", "dying"} /\ Sessions \subseteq Keys
    BY TypedHasQueue DEF Brainstorms, LivePtys, Keys
  <2>1. cur[b] \in SessionsOf(b)
    BY <2>0, DistinctNames DEF Owned, Keys
  <2>2. ASSUME NEW c \in Brainstorms, cur[b] \in SessionsOf(c) PROVE c = b
    BY <2>0, <2>1, <2>2 DEF Owned
  <2>3. ASSUME NEW c \in Brainstorms, lexPty[c] = cur[b] PROVE c = b
    BY <2>0, <2>2, <2>3, DistinctNames DEF Owned, Keys
  <2>4. CASE Spawns
    <3>1. PICK s \in Sessions :
            /\ pty'[s] = "live"
            /\ \A k \in Sessions : k # s =>
                  pty'[k] = pty[k] \/ (pty[k] = "live" /\ pty'[k] = "dying")
      BY <2>4 DEF Spawns
    <3> QED  BY <2>0, <3>1
  <2>5. CASE Exits
    <3>1. PICK c \in Anchors, s \in Sessions : OnExit(c, s)
      BY <2>5 DEF Exits
    <3>2. s = cur[b]
      BY <2>0, <3>1 DEF OnExit, TypeOK
    <3>3. c = b
      BY <2>0, <2>2, <3>1, <3>2 DEF OnExit
    <3>4. Enqueue(b, cur[b], {"pty"})
      BY <3>1, <3>3 DEF OnExit
    <3> QED  BY <2>0, <3>4, EnqueueOwes
  <2>6. CASE Buttons
    <3>1. PICK c \in Anchors : DashboardEnd(c)
      BY <2>6 DEF Buttons
    <3>2. lexPty[c] = cur[b]
      BY <2>0, <3>1, MarkKilledKeeps DEF DashboardEnd
    <3>3. c = b
      BY <2>0, <2>3, <3>2
    <3>4. KillEnds(b, lexPty[b]) /\ lexPty[b] # None
      BY <2>0, <3>2, <3>3, DistinctNames DEF KillEnds, LivePtys, Keys
    <3>5. \E k \in Sessions, t \in SUBSET {"pty"} : Enqueue(b, k, t)
      <4>1. CASE \E k \in Sessions : \E t \in {{"pty"}, {}} : Enqueue(b, k, t)
        BY <4>1
      <4>2. CASE Enqueue(b, lexPty[b], {"pty"})
        BY <2>0, <3>2, <3>3, <4>2
      <4> QED  BY <3>1, <3>3, <3>4, <4>1, <4>2 DEF DashboardEnd
    <3> QED  BY <2>0, <3>5, EnqueueOwes
  <2>7. CASE Kills
    <3>1. PICK c \in Brainstorms : KillLexPty(c)
      BY <2>7 DEF Kills
    <3>2. lexPty[c] = cur[b]
      BY <2>0, <3>1, MarkKilledKeeps DEF KillLexPty
    <3>3. c = b
      BY <2>0, <2>3, <3>2
    <3>4. KillEnds(b, lexPty[b]) /\ lexPty[b] # None
      BY <2>0, <3>2, <3>3, DistinctNames DEF KillEnds, LivePtys, Keys
    <3>5. Enqueue(b, lexPty[b], {"pty"})
      BY <3>1, <3>3, <3>4 DEF KillLexPty
    <3> QED  BY <2>0, <3>2, <3>3, <3>5, EnqueueOwes
  <2>8. CASE CrashRestart
    BY <2>0, <2>8 DEF CrashRestart, TypeOK
  <2>9. CASE KeepsPtys
    BY <2>0, <2>9 DEF KeepsPtys
  <2> QED  BY <2>4, <2>5, <2>6, <2>7, <2>8, <2>9, SessionKinds
<1> QED  BY <1>1, OwnedAlways, TypedAlways, OwedOnDisk, PTL
         DEF Spec, PtyDeathOwesDistill
=============================================================================
