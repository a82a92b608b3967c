--------------------------- MODULE GpuQueueProofs ---------------------------
(* Theorems of GpuQueue, for every set of jobs, lanes and sessions.  pump()   *)
(* is the only operation that starts or defers a job, so each invariant rests *)
(* on one lemma about Pump and each caller then adds its own wake-up.  Order   *)
(* and the drain's tags rest on each job standing in one place (QueueInv).    *)
EXTENDS GpuQueue, FiniteSetTheorems, TLAPS

-----------------------------------------------------------------------------
\* pump() leaves lanes of jobs, a job or nothing running, and a count of
\* timers, whatever lanes and timers its caller hands it (queue.ts pump).
LEMMA PumpTypes ==
    ASSUME NEW ln \in [Lanes -> Seq(Jobs)], NEW tm \in Nat,
           running \in Jobs \cup {NoJob}, Pump(ln, tm)
    PROVE  /\ lanes' \in [Lanes -> Seq(Jobs)]
           /\ running' \in Jobs \cup {NoJob}
           /\ timers' \in Nat
<1>1. CASE /\ running # NoJob \/ NonEmpty(ln) = {}
           /\ lanes' = ln /\ timers' = tm /\ UNCHANGED running
  BY <1>1
<1>2. ASSUME NEW l \in Lanes, running = NoJob, IsNextLane(ln, l),
             l \in Gated, ~VramOk,
             lanes' = ln, timers' = tm + 1, UNCHANGED running
      PROVE  /\ lanes' \in [Lanes -> Seq(Jobs)]
             /\ running' \in Jobs \cup {NoJob}
             /\ timers' \in Nat
  BY <1>2
<1>3. ASSUME NEW l \in Lanes, running = NoJob, IsNextLane(ln, l),
             l \notin Gated \/ VramOk,
             running' = Head(ln[l]), lanes' = [ln EXCEPT ![l] = Tail(@)],
             timers' = tm
      PROVE  /\ lanes' \in [Lanes -> Seq(Jobs)]
             /\ running' \in Jobs \cup {NoJob}
             /\ timers' \in Nat
  <2>1. ln[l] \in Seq(Jobs) /\ ln[l] # <<>>
    BY <1>3 DEF IsNextLane, NonEmpty
  <2>2. Head(ln[l]) \in Jobs /\ Tail(ln[l]) \in Seq(Jobs)
    BY <2>1
  <2> QED  BY <1>3, <2>2
<1> QED  BY <1>1, <1>2, <1>3 DEF Pump

\* After pump() either a job runs, or nothing waits, or it has armed one more
\* back-off timer (queue.ts pump: the only three ways out).
LEMMA PumpOutcome ==
    ASSUME NEW ln \in [Lanes -> Seq(Jobs)], NEW tm \in Nat,
           running \in Jobs \cup {NoJob}, Pump(ln, tm)
    PROVE  \/ running' # NoJob /\ timers' = tm
                 /\ (running' = running \/ running = NoJob)
           \/ running' = NoJob /\ timers' = tm /\ NonEmpty(lanes') = {}
                 /\ running = NoJob /\ lanes' = ln
           \/ running' = NoJob /\ timers' = tm + 1 /\ running = NoJob
<1>1. CASE /\ running # NoJob \/ NonEmpty(ln) = {}
           /\ lanes' = ln /\ timers' = tm /\ UNCHANGED running
  BY <1>1
<1>2. ASSUME NEW l \in Lanes, running = NoJob,
             lanes' = ln, timers' = tm + 1, UNCHANGED running
      PROVE  running' = NoJob /\ timers' = tm + 1 /\ running = NoJob
  BY <1>2
<1>3. ASSUME NEW l \in Lanes, running = NoJob, IsNextLane(ln, l),
             running' = Head(ln[l]), timers' = tm
      PROVE  running' # NoJob /\ timers' = tm /\ running = NoJob
  <2>1. ln[l] \in Seq(Jobs) /\ ln[l] # <<>>
    BY <1>3 DEF IsNextLane, NonEmpty
  <2>2. Head(ln[l]) \in Jobs
    BY <2>1
  <2> QED  BY <1>3, <2>2, NoJobAssumption
<1> QED  BY <1>1, <1>2, <1>3 DEF Pump

\* One call of pump() arms one timer at most, and only if no job runs after it
\* (queue.ts pump).
LEMMA PumpCost ==
    ASSUME NEW ln \in [Lanes -> Seq(Jobs)], NEW tm \in Nat,
           running \in Jobs \cup {NoJob}, Pump(ln, tm)
    PROVE  /\ timers' \in Nat /\ Busy \in {0, 1} /\ Busy' \in {0, 1}
           /\ timers' = tm \/ (timers' = tm + 1 /\ Busy' = 0)
<1>1. timers' \in Nat
  BY PumpTypes
<1>2. Busy \in {0, 1} /\ Busy' \in {0, 1}
  BY DEF Busy
<1>3. timers' = tm \/ (timers' = tm + 1 /\ running' = NoJob)
  BY PumpOutcome
<1> QED  BY <1>1, <1>2, <1>3 DEF Busy

\* The arithmetic of a pump that costs what PumpCost says: p microtasks, t
\* timers and a job running or not (a) become p, u and b.
LEMMA OneMore ==
    ASSUME NEW p \in Int, NEW t \in Int, NEW u \in Int, NEW n \in Int,
           NEW a \in {0, 1}, NEW b \in {0, 1},
           p + t + a <= n, u = t \/ (u = t + 1 /\ b = 0)
    PROVE  p + u + b <= n + 1
<1>1. a \in Int /\ b \in Int /\ 0 <= a /\ b <= 1
  OBVIOUS
<1> QED  BY <1>1

\* submit() appends the job to its lane and changes no other.
LEMMA EnqueuedTypes ==
    ASSUME lanes \in [Lanes -> Seq(Jobs)], NEW j \in Jobs
    PROVE  /\ Enqueued(j) \in [Lanes -> Seq(Jobs)]
           /\ NonEmpty(Enqueued(j)) # {}
<1>1. LaneOf[j] \in Lanes
  BY LaneOfAssumption
<1>2. Append(lanes[LaneOf[j]], j) \in Seq(Jobs) /\ Append(lanes[LaneOf[j]], j) # <<>>
  BY <1>1
<1> QED  BY <1>1, <1>2 DEF Enqueued, NonEmpty

-----------------------------------------------------------------------------
\* The state of the queue keeps its types.
THEOREM TypeCorrect == Spec => []TypeOK
<1>1. Init => TypeOK
  <2> SUFFICES ASSUME Init PROVE TypeOK
    OBVIOUS
  <2>1. lanes \in [Lanes -> Seq(Jobs)]
    BY DEF Init
  <2>2. inflight \in [Sessions -> SUBSET Jobs]
    BY DEF Init
  <2> QED  BY <2>1, <2>2 DEF Init, TypeOK, Samples
<1>2. TypeOK /\ [Next]_vars => TypeOK'
  <2> SUFFICES ASSUME TypeOK, [Next]_vars PROVE TypeOK'
    OBVIOUS
  <2>1. ASSUME NEW j \in Jobs, Submit(j) PROVE TypeOK'
    <3>1. Enqueued(j) \in [Lanes -> Seq(Jobs)]
      BY EnqueuedTypes DEF TypeOK
    <3>2. /\ lanes' \in [Lanes -> Seq(Jobs)]
          /\ running' \in Jobs \cup {NoJob}
          /\ timers' \in Nat
      BY <2>1, <3>1, PumpTypes DEF TypeOK, Submit
    <3>3. inflight' \in [Sessions -> SUBSET Jobs]
      BY <2>1 DEF TypeOK, Submit, AddInflight
    <3> QED  BY <2>1, <3>2, <3>3 DEF TypeOK, Submit, monitorVars
  <2>2. CASE Settle
    BY <2>2 DEF TypeOK, Settle, ClearInflight, monitorVars
  <2>3. CASE MicrotaskPump
    <3>1. /\ lanes' \in [Lanes -> Seq(Jobs)]
          /\ running' \in Jobs \cup {NoJob}
          /\ timers' \in Nat
      BY <2>3, PumpTypes DEF TypeOK, MicrotaskPump
    <3> QED  BY <2>3, <3>1 DEF TypeOK, MicrotaskPump, monitorVars
  <2>4. CASE BackoffPump
    <3>1. timers - 1 \in Nat
      BY <2>4 DEF TypeOK, BackoffPump
    <3>2. /\ lanes' \in [Lanes -> Seq(Jobs)]
          /\ running' \in Jobs \cup {NoJob}
          /\ timers' \in Nat
      BY <2>4, <3>1, PumpTypes DEF TypeOK, BackoffPump
    <3> QED  BY <2>4, <3>2 DEF TypeOK, BackoffPump, monitorVars
  <2>5. ASSUME NEW s \in Sessions, DrainBegin(s) \/ DrainReturn(s) PROVE TypeOK'
    BY <2>5 DEF TypeOK, DrainBegin, DrainReturn, queueVars, monitorVars
  <2>6. CASE MonitorTick
    BY <2>6 DEF TypeOK, MonitorTick, queueVars, Samples
  <2>7. CASE UNCHANGED vars
    BY <2>7 DEF TypeOK, vars
  <2> QED  BY <2>1, <2>2, <2>3, <2>4, <2>5, <2>6, <2>7 DEF Next
<1> QED  BY <1>1, <1>2, PTL DEF Spec

\* No lost wake-up: the queue never holds a job with nothing running and
\* nothing scheduled to call pump().
THEOREM NoLostWakeup == Spec => []WakeupPending
<1>1. Init => WakeupPending
  BY DEF Init, WakeupPending, NonEmpty
<1>2. TypeOK /\ WakeupPending /\ [Next]_vars => WakeupPending'
  <2> SUFFICES ASSUME TypeOK, WakeupPending, [Next]_vars PROVE WakeupPending'
    OBVIOUS
  <2> USE DEF TypeOK, WakeupPending
  <2>1. ASSUME NEW j \in Jobs, Submit(j) PROVE WakeupPending'
    <3>1. Enqueued(j) \in [Lanes -> Seq(Jobs)] /\ NonEmpty(Enqueued(j)) # {}
      BY EnqueuedTypes
    <3>2. running' # NoJob \/ timers' = timers + 1
      BY <2>1, <3>1, PumpOutcome DEF Submit
    <3> QED  BY <2>1, <3>2 DEF Submit
  <2>2. CASE Settle
    BY <2>2 DEF Settle
  <2>3. CASE MicrotaskPump
    <3>1. running' # NoJob \/ timers' = timers + 1 \/ NonEmpty(lanes') = {}
      BY <2>3, PumpOutcome DEF MicrotaskPump
    <3> QED  BY <2>3, <3>1 DEF MicrotaskPump, NonEmpty
  <2>4. CASE BackoffPump
    <3>1. timers - 1 \in Nat
      BY <2>4 DEF BackoffPump
    <3>2. running' # NoJob \/ timers' = timers \/ NonEmpty(lanes') = {}
      BY <2>4, <3>1, PumpOutcome DEF BackoffPump
    <3> QED  BY <2>4, <3>2 DEF BackoffPump, NonEmpty
  <2>5. ASSUME NEW s \in Sessions, DrainBegin(s) \/ DrainReturn(s)
        PROVE  WakeupPending'
    BY <2>5 DEF DrainBegin, DrainReturn, queueVars, NonEmpty
  <2>6. CASE MonitorTick
    BY <2>6 DEF MonitorTick, queueVars, NonEmpty
  <2>7. CASE UNCHANGED vars
    BY <2>7 DEF vars, NonEmpty
  <2> QED  BY <2>1, <2>2, <2>3, <2>4, <2>5, <2>6, <2>7 DEF Next
<1> QED  BY <1>1, <1>2, TypeCorrect, PTL DEF Spec

-----------------------------------------------------------------------------
\* A microtask is armed while a job waits in a lane that VRAM does not gate.
VoiceArmed ==
    running = NoJob =>
        \A l \in Lanes \ Gated : lanes[l] # <<>> => pumps > 0

\* After pump() a job runs, or nothing is left in the lanes that are not gated:
\* these come before the gated ones, so a deferral finds them empty.
LEMMA PumpServesVoice ==
    ASSUME NEW ln \in [Lanes -> Seq(Jobs)], NEW tm \in Nat,
           running \in Jobs \cup {NoJob}, Pump(ln, tm)
    PROVE  \/ running' # NoJob
           \/ running' = NoJob /\ \A l \in Lanes \ Gated : lanes'[l] = <<>>
<1>1. CASE running # NoJob \/ NonEmpty(ln) = {}
  <2>1. (lanes' = ln /\ running' = running) \/ running' # NoJob
    BY <1>1, PumpOutcome DEF Pump, IsNextLane
  <2> QED  BY <1>1, <2>1 DEF NonEmpty
<1>2. ASSUME NEW m \in Lanes, IsNextLane(ln, m), m \in Gated, lanes' = ln,
             running' = NoJob
      PROVE  \A l \in Lanes \ Gated : lanes'[l] = <<>>
  <2>1. \A l \in Lanes \ Gated : l < m
    BY <1>2 DEF Lanes, Gated
  <2>2. \A l \in NonEmpty(ln) : m <= l
    BY <1>2 DEF IsNextLane
  <2>3. SUFFICES ASSUME NEW l \in Lanes \ Gated, ln[l] # <<>> PROVE FALSE
    BY <1>2
  <2>4. m <= l /\ l < m
    BY <2>1, <2>2, <2>3 DEF NonEmpty
  <2> QED  BY <2>4 DEF Lanes
<1>3. ASSUME NEW m \in Lanes, IsNextLane(ln, m), running' = Head(ln[m])
      PROVE  running' # NoJob
  <2>1. ln[m] \in Seq(Jobs) /\ ln[m] # <<>>
    BY <1>3 DEF IsNextLane, NonEmpty
  <2> QED  BY <1>3, <2>1, NoJobAssumption
<1> QED  BY <1>1, <1>2, <1>3 DEF Pump

\* A voice job never waits for the 500 ms back-off timer: while nothing runs, a
\* microtask is armed for it, whatever background jobs VRAM defers meanwhile.
\* It is what NoLostWakeup alone does not say, and the safety part of
\* VoiceLanesServed (queue.ts pump, BACKOFF_MS).
THEOREM VoiceNeverBacksOff == Spec => []VoiceArmed
<1>1. Init => VoiceArmed
  BY DEF Init, VoiceArmed
<1>2. TypeOK /\ VoiceArmed /\ [Next]_vars => VoiceArmed'
  <2> SUFFICES ASSUME TypeOK, VoiceArmed, [Next]_vars PROVE VoiceArmed'
    OBVIOUS
  <2>0. ASSUME NEW ln \in [Lanes -> Seq(Jobs)], NEW tm \in Nat, Pump(ln, tm)
        PROVE  VoiceArmed'
    BY <2>0, PumpServesVoice DEF VoiceArmed, TypeOK
  <2>1. ASSUME NEW j \in Jobs, Submit(j) PROVE VoiceArmed'
    BY <2>0, <2>1, EnqueuedTypes DEF Submit, TypeOK
  <2>2. CASE Settle
    BY <2>2 DEF Settle, TypeOK, VoiceArmed
  <2>3. CASE MicrotaskPump
    BY <2>0, <2>3 DEF MicrotaskPump, TypeOK
  <2>4. CASE BackoffPump
    <3>1. timers - 1 \in Nat
      BY <2>4 DEF BackoffPump, TypeOK
    <3> QED  BY <2>0, <2>4, <3>1 DEF BackoffPump, TypeOK
  <2>5. CASE UNCHANGED <<queueVars, pumps>>
    BY <2>5 DEF queueVars, VoiceArmed
  <2> QED  BY <2>1, <2>2, <2>3, <2>4, <2>5
           DEF Next, DrainBegin, DrainReturn, MonitorTick, vars, queueVars
<1> QED  BY <1>1, <1>2, TypeCorrect, PTL DEF Spec

-----------------------------------------------------------------------------
\* WakeupsBounded speaks of a cardinality, so its inductive form adds that
\* only finitely many jobs were ever submitted.
WakeupsInv == IsFiniteSet(submitted) /\ WakeupsBounded

\* Wake-ups do not multiply: at any time there are no more of them, the running
\* job counted, than jobs were submitted, however often pump() backs off.
THEOREM WakeupsStayBounded == Spec => []WakeupsBounded
<1>1. Init => WakeupsInv
  BY FS_EmptySet DEF Init, WakeupsInv, WakeupsBounded, Busy
<1>2. TypeOK /\ WakeupsInv /\ [Next]_vars => WakeupsInv'
  <2> SUFFICES ASSUME TypeOK, WakeupsInv, [Next]_vars PROVE WakeupsInv'
    OBVIOUS
  <2>0. /\ Cardinality(submitted) \in Nat
        /\ pumps + timers + Busy <= Cardinality(submitted)
        /\ pumps \in Nat /\ timers \in Nat
    BY FS_CardinalityType DEF WakeupsInv, WakeupsBounded, TypeOK
  <2>1. ASSUME NEW j \in Jobs, Submit(j) PROVE WakeupsInv'
    <3>1. IsFiniteSet(submitted') /\ Cardinality(submitted') = Cardinality(submitted) + 1
      BY <2>1, FS_AddElement DEF Submit, WakeupsInv
    <3>2. Enqueued(j) \in [Lanes -> Seq(Jobs)]
      BY EnqueuedTypes DEF TypeOK
    <3>3. /\ timers' \in Nat /\ Busy \in {0, 1} /\ Busy' \in {0, 1}
          /\ timers' = timers \/ (timers' = timers + 1 /\ Busy' = 0)
      BY <2>1, <3>2, PumpCost DEF Submit, TypeOK
    <3>4. pumps' = pumps
      BY <2>1 DEF Submit
    <3>5. pumps' + timers' + Busy' <= Cardinality(submitted')
      BY <2>0, <3>1, <3>3, <3>4, OneMore
    <3>6. WakeupsBounded'
      BY <3>5 DEF WakeupsBounded
    <3> QED  BY <3>1, <3>6 DEF WakeupsInv
  <2>2. CASE Settle
    <3>1. Busy = 1 /\ Busy' = 0 /\ pumps' = pumps + 1 /\ timers' = timers
      BY <2>2 DEF Settle, Busy
    <3>2. pumps' + timers' + Busy' <= Cardinality(submitted)
      BY <2>0, <3>1
    <3> QED  BY <2>2, <3>2 DEF Settle, WakeupsInv, WakeupsBounded
  <2>3. CASE MicrotaskPump
    <3>1. /\ timers' \in Nat /\ Busy \in {0, 1} /\ Busy' \in {0, 1}
          /\ timers' = timers \/ (timers' = timers + 1 /\ Busy' = 0)
      BY <2>3, PumpCost DEF MicrotaskPump, TypeOK
    <3>2. pumps > 0 /\ pumps' = pumps - 1 /\ submitted' = submitted
      BY <2>3 DEF MicrotaskPump
    <3>3. pumps' \in Int /\ pumps' + timers + Busy <= Cardinality(submitted) - 1
      BY <2>0, <3>1, <3>2
    <3>4. pumps' + timers' + Busy' <= (Cardinality(submitted) - 1) + 1
      BY <2>0, <3>1, <3>3, OneMore
    <3> QED  BY <2>0, <3>2, <3>4 DEF WakeupsInv, WakeupsBounded
  <2>4. CASE BackoffPump
    <3>1. timers - 1 \in Nat
      BY <2>4 DEF BackoffPump, TypeOK
    <3>2. /\ timers' \in Nat /\ Busy \in {0, 1} /\ Busy' \in {0, 1}
          /\ timers' = timers - 1 \/ (timers' = (timers - 1) + 1 /\ Busy' = 0)
      BY <2>4, <3>1, PumpCost DEF BackoffPump, TypeOK
    <3>3. pumps' = pumps /\ submitted' = submitted
      BY <2>4 DEF BackoffPump
    <3>4. pumps + (timers - 1) + Busy <= Cardinality(submitted) - 1
      BY <2>0, <3>2
    <3>5. pumps + timers' + Busy' <= (Cardinality(submitted) - 1) + 1
      BY <2>0, <3>1, <3>2, <3>4, OneMore
    <3> QED  BY <2>0, <3>3, <3>5 DEF WakeupsInv, WakeupsBounded
  <2>5. ASSUME NEW s \in Sessions, DrainBegin(s) \/ DrainReturn(s)
        PROVE  WakeupsInv'
    BY <2>5 DEF DrainBegin, DrainReturn, queueVars, WakeupsInv, WakeupsBounded, Busy
  <2>6. CASE MonitorTick
    BY <2>6 DEF MonitorTick, queueVars, WakeupsInv, WakeupsBounded, Busy
  <2>7. CASE UNCHANGED vars
    BY <2>7 DEF vars, queueVars, WakeupsInv, WakeupsBounded, Busy
  <2> QED  BY <2>1, <2>2, <2>3, <2>4, <2>5, <2>6, <2>7 DEF Next
<1>3. WakeupsInv => WakeupsBounded
  BY DEF WakeupsInv
<1> QED  BY <1>1, <1>2, <1>3, TypeCorrect, PTL DEF Spec

-----------------------------------------------------------------------------
\* What no property states and the rest of the theorems need: a job waits in
\* its own lane, once, and the running job does not wait.
QueuedIn(ln) == UNION {ToSet(ln[l]) : l \in Lanes}
Placed(ln) == \A l \in Lanes : \A a \in 1..Len(ln[l]) : LaneOf[ln[l][a]] = l
Once(ln) ==
    \A l \in Lanes : \A a, b \in 1..Len(ln[l]) : ln[l][a] = ln[l][b] => a = b

\* The lanes ln without the head of lane l.
Taken(ln, l, out) ==
    /\ ln[l] # <<>> /\ out[l] = Tail(ln[l])
    /\ \A m \in Lanes : m # l => out[m] = ln[m]

\* A job waits exactly if it stands somewhere in some lane.
LEMMA InQueue ==
    ASSUME NEW ln \in [Lanes -> Seq(Jobs)], NEW x
    PROVE  x \in QueuedIn(ln) <=> \E l \in Lanes : \E a \in 1..Len(ln[l]) : x = ln[l][a]
<1>1. \A l \in Lanes : DOMAIN ln[l] = 1..Len(ln[l])
  OBVIOUS
<1> QED  BY <1>1 DEF QueuedIn, ToSet

\* Taking the head of the first lane moves that job from the waiting ones to the
\* running place, and disturbs neither order nor uniqueness (queue.ts pump).
LEMMA TakeHead ==
    ASSUME NEW ln \in [Lanes -> Seq(Jobs)], NEW l \in Lanes,
           NEW out \in [Lanes -> Seq(Jobs)], Taken(ln, l, out),
           Placed(ln), Once(ln)
    PROVE  /\ Head(ln[l]) \in Jobs
           /\ Placed(out) /\ Once(out)
           /\ Head(ln[l]) \notin QueuedIn(out)
           /\ QueuedIn(out) \cup {Head(ln[l])} = QueuedIn(ln)
           /\ LaneOf[Head(ln[l])] = l
           /\ Len(out[l]) = Len(ln[l]) - 1
           /\ \A a \in 1..Len(out[l]) : out[l][a] = ln[l][a + 1]
<1>1. /\ ln[l] \in Seq(Jobs) /\ Len(ln[l]) \in Nat /\ Len(ln[l]) > 0
      /\ Head(ln[l]) = ln[l][1] /\ Head(ln[l]) \in Jobs /\ 1 \in 1..Len(ln[l])
      /\ Tail(ln[l]) \in Seq(Jobs) /\ Len(Tail(ln[l])) = Len(ln[l]) - 1
      /\ \A a \in 1..Len(Tail(ln[l])) : Tail(ln[l])[a] = ln[l][a + 1]
  BY DEF Taken
<1>2. /\ out \in [Lanes -> Seq(Jobs)] /\ out[l] = Tail(ln[l])
      /\ \A m \in Lanes : m # l => out[m] = ln[m]
  BY DEF Taken
<1>9. \A a \in 1..Len(out[l]) :
          /\ a \in Nat \ {0} /\ a + 1 \in 1..Len(ln[l]) /\ out[l][a] = ln[l][a + 1]
  BY <1>1, <1>2
<1>3. LaneOf[Head(ln[l])] = l
  BY <1>1 DEF Placed
<1>4. Placed(out)
  <2> SUFFICES ASSUME NEW m \in Lanes, NEW a \in 1..Len(out[m])
               PROVE  LaneOf[out[m][a]] = m
    BY DEF Placed
  <2>1. CASE m = l
    <3>1. a + 1 \in 1..Len(ln[l]) /\ out[m][a] = ln[l][a + 1]
      BY <1>9, <2>1
    <3> QED  BY <3>1, <2>1 DEF Placed
  <2>2. CASE m # l
    BY <1>2, <2>2 DEF Placed
  <2> QED  BY <2>1, <2>2
<1>5. Once(out)
  <2> SUFFICES ASSUME NEW m \in Lanes, NEW a \in 1..Len(out[m]), NEW b \in 1..Len(out[m]),
                      out[m][a] = out[m][b]
               PROVE  a = b
    BY DEF Once
  <2>1. CASE m = l
    <3>1. /\ a + 1 \in 1..Len(ln[l]) /\ out[m][a] = ln[l][a + 1]
          /\ b + 1 \in 1..Len(ln[l]) /\ out[m][b] = ln[l][b + 1]
      BY <1>9, <2>1
    <3>2. a + 1 = b + 1
      BY <3>1 DEF Once
    <3> QED  BY <3>2
  <2>2. CASE m # l
    BY <1>2, <2>2 DEF Once
  <2> QED  BY <2>1, <2>2
<1>0. /\ \A x : x \in QueuedIn(ln) <=> \E m \in Lanes : \E a \in 1..Len(ln[m]) : x = ln[m][a]
      /\ \A x : x \in QueuedIn(out) <=> \E m \in Lanes : \E a \in 1..Len(out[m]) : x = out[m][a]
  <2>1. out \in [Lanes -> Seq(Jobs)]
    BY <1>2
  <2> QED  BY <2>1, InQueue
<1>6. Head(ln[l]) \notin QueuedIn(out)
  <2> SUFFICES ASSUME NEW m \in Lanes, NEW a \in 1..Len(out[m]), Head(ln[l]) = out[m][a]
               PROVE  FALSE
    BY <1>0
  <2>1. m = l
    BY <1>3, <1>4 DEF Placed
  <2>2. a + 1 \in 1..Len(ln[l]) /\ ln[l][a + 1] = ln[l][1] /\ a + 1 # 1
    <3>1. a \in 1..Len(out[l]) /\ Head(ln[l]) = out[l][a]
      BY <2>1
    <3> QED  BY <1>1, <1>9, <3>1
  <2> QED  BY <1>1, <2>2 DEF Once
<1>7. QueuedIn(out) \cup {Head(ln[l])} = QueuedIn(ln)
  <2>1. ASSUME NEW x \in QueuedIn(out) PROVE x \in QueuedIn(ln)
    <3>1. PICK m \in Lanes : \E a \in 1..Len(out[m]) : x = out[m][a]
      BY <1>0
    <3>2. PICK a \in 1..Len(out[m]) : x = out[m][a]
      BY <3>1
    <3>3. CASE m = l
      <4>1. a + 1 \in 1..Len(ln[l]) /\ x = ln[l][a + 1]
        BY <1>9, <3>2, <3>3
      <4> QED  BY <4>1, <1>0
    <3>4. CASE m # l
      BY <1>2, <3>2, <3>4, <1>0
    <3> QED  BY <3>3, <3>4
  <2>2. Head(ln[l]) \in QueuedIn(ln)
    BY <1>1, <1>0
  <2>3. ASSUME NEW x \in QueuedIn(ln), x # Head(ln[l]) PROVE x \in QueuedIn(out)
    <3>1. PICK m \in Lanes : \E a \in 1..Len(ln[m]) : x = ln[m][a]
      BY <1>0
    <3>2. PICK a \in 1..Len(ln[m]) : x = ln[m][a]
      BY <3>1
    <3>3. CASE m = l
      <4>1. a # 1
        BY <1>1, <2>3, <3>2, <3>3
      <4>2. a - 1 \in 1..Len(out[l]) /\ out[l][a - 1] = ln[l][(a - 1) + 1] /\ (a - 1) + 1 = a
        BY <1>1, <1>2, <3>3, <4>1
      <4>3. x = out[l][a - 1]
        BY <3>2, <3>3, <4>2
      <4> QED  BY <4>2, <4>3, <1>0
    <3>4. CASE m # l
      BY <1>2, <3>2, <3>4, <1>0
    <3> QED  BY <3>3, <3>4
  <2> QED  BY <2>1, <2>2, <2>3
<1> QED  BY <1>1, <1>2, <1>3, <1>4, <1>5, <1>6, <1>7

\* Appending a job that neither waits nor runs keeps the lanes tidy and adds that
\* job to the waiting ones (queue.ts submit).
LEMMA EnqueueOne ==
    ASSUME lanes \in [Lanes -> Seq(Jobs)], NEW j \in Jobs,
           Placed(lanes), Once(lanes), j \notin QueuedIn(lanes)
    PROVE  /\ Enqueued(j) \in [Lanes -> Seq(Jobs)]
           /\ Placed(Enqueued(j)) /\ Once(Enqueued(j))
           /\ QueuedIn(Enqueued(j)) = QueuedIn(lanes) \cup {j}
           /\ \A m \in Lanes : /\ Len(lanes[m]) <= Len(Enqueued(j)[m])
                               /\ \A a \in 1..Len(lanes[m]) : Enqueued(j)[m][a] = lanes[m][a]
<1> DEFINE out == Enqueued(j)
           l == LaneOf[j]
<1>1. l \in Lanes /\ lanes[l] \in Seq(Jobs) /\ Len(lanes[l]) \in Nat
  BY LaneOfAssumption
<1>2. /\ out \in [Lanes -> Seq(Jobs)]
      /\ \A m \in Lanes : m # l => out[m] = lanes[m]
      /\ out[l] = Append(lanes[l], j)
  BY <1>1 DEF Enqueued
<1>3. /\ Len(out[l]) = Len(lanes[l]) + 1 /\ out[l][Len(lanes[l]) + 1] = j
      /\ \A a \in 1..Len(lanes[l]) : out[l][a] = lanes[l][a]
      /\ Len(lanes[l]) + 1 \in 1..Len(out[l])
      /\ \A a \in 1..Len(out[l]) : a = Len(lanes[l]) + 1 \/ a \in 1..Len(lanes[l])
  BY <1>1, <1>2
<1> HIDE DEF out, l
<1>4. \A a \in 1..Len(lanes[l]) : lanes[l][a] # j
  BY <1>1, InQueue
<1>5. Placed(out)
  <2> SUFFICES ASSUME NEW m \in Lanes, NEW a \in 1..Len(out[m])
               PROVE  LaneOf[out[m][a]] = m
    BY DEF Placed
  <2>1. CASE m # l
    BY <1>2, <2>1 DEF Placed
  <2>2. CASE m = l /\ a \in 1..Len(lanes[l])
    BY <1>1, <1>3, <2>2 DEF Placed
  <2>3. CASE m = l /\ a = Len(lanes[l]) + 1
    BY <1>3, <2>3 DEF l
  <2> QED  BY <1>3, <2>1, <2>2, <2>3
<1>6. Once(out)
  <2> SUFFICES ASSUME NEW m \in Lanes, NEW a \in 1..Len(out[m]), NEW b \in 1..Len(out[m]),
                      out[m][a] = out[m][b]
               PROVE  a = b
    BY DEF Once
  <2>1. CASE m # l
    BY <1>2, <2>1 DEF Once
  <2>2. CASE m = l
    BY <1>1, <1>3, <1>4, <2>2 DEF Once
  <2> QED  BY <2>1, <2>2
<1>8. \A m \in Lanes : /\ Len(lanes[m]) <= Len(out[m])
                       /\ \A a \in 1..Len(lanes[m]) : /\ out[m][a] = lanes[m][a]
                                                       /\ a \in 1..Len(out[m])
  <2> SUFFICES ASSUME NEW m \in Lanes
               PROVE  /\ Len(lanes[m]) <= Len(out[m])
                      /\ \A a \in 1..Len(lanes[m]) : /\ out[m][a] = lanes[m][a]
                                                      /\ a \in 1..Len(out[m])
    OBVIOUS
  <2>0. lanes[m] \in Seq(Jobs) /\ Len(lanes[m]) \in Nat
    OBVIOUS
  <2>1. CASE m # l
    BY <1>2, <2>0, <2>1
  <2>2. CASE m = l
    BY <1>1, <1>3, <2>2
  <2> QED  BY <2>1, <2>2
<1>7. ASSUME NEW x PROVE x \in QueuedIn(out) <=> x \in QueuedIn(lanes) \/ x = j
  <2>1. x \in QueuedIn(out) <=> \E m \in Lanes : \E a \in 1..Len(out[m]) : x = out[m][a]
    BY <1>2, InQueue
  <2>2. x \in QueuedIn(lanes) <=> \E m \in Lanes : \E a \in 1..Len(lanes[m]) : x = lanes[m][a]
    BY InQueue
  <2>3. ASSUME NEW m \in Lanes, NEW a \in 1..Len(out[m]), x = out[m][a]
        PROVE  x = j \/ \E b \in 1..Len(lanes[m]) : x = lanes[m][b]
    BY <1>2, <1>3, <2>3
  <2>4. ASSUME NEW m \in Lanes, NEW a \in 1..Len(lanes[m]), x = lanes[m][a]
        PROVE  \E b \in 1..Len(out[m]) : x = out[m][b]
    BY <1>8, <2>4
  <2>5. x = j => x \in QueuedIn(out)
    BY <1>1, <1>3, <2>1
  <2> QED  BY <2>1, <2>2, <2>3, <2>4, <2>5
<1> QED  BY <1>2, <1>5, <1>6, <1>7, <1>8 DEF out

\* pump() starts the head of the first lane that has a job, or moves nothing: the
\* jobs that wait or run stay the same, each in its own place (queue.ts pump).
LEMMA PumpMoves ==
    ASSUME NEW ln \in [Lanes -> Seq(Jobs)], NEW tm \in Nat,
           running \in Jobs \cup {NoJob}, running \notin QueuedIn(ln),
           Placed(ln), Once(ln), Pump(ln, tm)
    PROVE  /\ Placed(lanes') /\ Once(lanes') /\ running' \notin QueuedIn(lanes')
           /\ QueuedIn(lanes') \cup ({running'} \ {NoJob})
                = QueuedIn(ln) \cup ({running} \ {NoJob})
           /\ \/ lanes' = ln /\ running' = running
              \/ \E l \in Lanes : /\ running = NoJob /\ IsNextLane(ln, l)
                                  /\ running' = Head(ln[l])
                                  /\ lanes' \in [Lanes -> Seq(Jobs)]
                                  /\ Taken(ln, l, lanes')
<1>1. CASE lanes' = ln /\ running' = running
  BY <1>1
<1>2. ASSUME NEW l \in Lanes, running = NoJob, IsNextLane(ln, l),
             running' = Head(ln[l]), lanes' = [ln EXCEPT ![l] = Tail(@)]
      PROVE  /\ Placed(lanes') /\ Once(lanes') /\ running' \notin QueuedIn(lanes')
             /\ QueuedIn(lanes') \cup ({running'} \ {NoJob})
                  = QueuedIn(ln) \cup ({running} \ {NoJob})
             /\ lanes' \in [Lanes -> Seq(Jobs)] /\ Taken(ln, l, lanes')
  <2>1. ln[l] \in Seq(Jobs) /\ ln[l] # <<>>
    BY <1>2 DEF IsNextLane, NonEmpty
  <2>2. Tail(ln[l]) \in Seq(Jobs)
    BY <2>1
  <2>3. lanes' \in [Lanes -> Seq(Jobs)] /\ Taken(ln, l, lanes')
    BY <1>2, <2>1, <2>2 DEF Taken
  <2>4. /\ Head(ln[l]) \in Jobs /\ Placed(lanes') /\ Once(lanes')
        /\ Head(ln[l]) \notin QueuedIn(lanes')
        /\ QueuedIn(lanes') \cup {Head(ln[l])} = QueuedIn(ln)
    BY <2>1, <2>3, TakeHead
  <2>5. {running'} \ {NoJob} = {Head(ln[l])} /\ {running} \ {NoJob} = {}
    BY <1>2, <2>4, NoJobAssumption
  <2>6. QueuedIn(lanes') \cup ({running'} \ {NoJob})
          = QueuedIn(ln) \cup ({running} \ {NoJob})
    BY <2>4, <2>5
  <2> QED  BY <1>2, <2>1, <2>3, <2>4, <2>6
<1> QED  BY <1>1, <1>2 DEF Pump

-----------------------------------------------------------------------------
\* InflightExact alone is not inductive: that the tag of a settled job can go
\* rests on the job standing nowhere else, and that the tags of a session are no
\* more than its jobs rests on a job being submitted once.
QueueInv ==
    /\ Placed(lanes) /\ Once(lanes)
    /\ running \notin QueuedIn(lanes)
    /\ Pending \subseteq submitted
    /\ InflightExact

\* A call of pump() on the queue as it stands disturbs none of this.
LEMMA PumpKeepsQueueInv ==
    ASSUME TypeOK, QueueInv, NEW tm \in Nat, Pump(lanes, tm),
           UNCHANGED <<submitted, inflight>>
    PROVE  QueueInv'
<1>1. /\ Placed(lanes') /\ Once(lanes') /\ running' \notin QueuedIn(lanes')
      /\ QueuedIn(lanes') \cup ({running'} \ {NoJob})
           = QueuedIn(lanes) \cup ({running} \ {NoJob})
  BY PumpMoves DEF TypeOK, QueueInv
<1>2. Pending' = Pending
  BY <1>1 DEF Pending, Queued, QueuedIn
<1> QED  BY <1>1, <1>2 DEF QueueInv, InflightExact

\* What the queue is made of never changes behind its back: QueueInv is an
\* invariant.
LEMMA QueueInvHolds == Spec => []QueueInv
<1>1. Init => QueueInv
  <2> SUFFICES ASSUME Init PROVE QueueInv
    OBVIOUS
  <2>1. /\ lanes \in [Lanes -> Seq(Jobs)]
        /\ \A l \in Lanes : lanes[l] = <<>> /\ Len(lanes[l]) = 0
    BY DEF Init
  <2>2. QueuedIn(lanes) = {}
    <3>1. \A x : x \in QueuedIn(lanes)
                  <=> \E l \in Lanes : \E a \in 1..Len(lanes[l]) : x = lanes[l][a]
      BY <2>1, InQueue
    <3>2. \A l \in Lanes : 1..Len(lanes[l]) = {}
      BY <2>1
    <3> QED  BY <3>1, <3>2
  <2>3. Placed(lanes) /\ Once(lanes)
    BY <2>1 DEF Placed, Once
  <2>4. Pending = {}
    BY <2>2 DEF Init, Pending, Queued, QueuedIn
  <2> QED  BY <2>2, <2>3, <2>4 DEF Init, QueueInv, InflightExact
<1>2. TypeOK /\ QueueInv /\ [Next]_vars => QueueInv'
  <2> SUFFICES ASSUME TypeOK, QueueInv, [Next]_vars PROVE QueueInv'
    OBVIOUS
  <2>0. /\ lanes \in [Lanes -> Seq(Jobs)] /\ running \in Jobs \cup {NoJob}
        /\ Queued = QueuedIn(lanes) /\ Queued' = QueuedIn(lanes')
        /\ inflight \in [Sessions -> SUBSET Jobs] /\ submitted \subseteq Jobs
    BY DEF TypeOK, Queued, QueuedIn
  <2>1. ASSUME NEW j \in Jobs, Submit(j) PROVE QueueInv'
    <3> DEFINE ln == Enqueued(j)
    <3>1. j \notin submitted /\ submitted' = submitted \cup {j}
          /\ AddInflight(j) /\ Pump(ln, timers) /\ timers \in Nat
      BY <2>1 DEF Submit, TypeOK
    <3>2. j \notin QueuedIn(lanes) /\ j # running
      BY <2>0, <3>1, NoJobAssumption DEF QueueInv, Pending
    <3>3. /\ ln \in [Lanes -> Seq(Jobs)] /\ Placed(ln) /\ Once(ln)
          /\ QueuedIn(ln) = QueuedIn(lanes) \cup {j}
      BY <2>0, <3>2, EnqueueOne DEF QueueInv
    <3> HIDE DEF ln
    <3>4. running \notin QueuedIn(ln)
      BY <3>2, <3>3 DEF QueueInv
    <3>5. /\ Placed(lanes') /\ Once(lanes') /\ running' \notin QueuedIn(lanes')
          /\ QueuedIn(lanes') \cup ({running'} \ {NoJob})
               = QueuedIn(ln) \cup ({running} \ {NoJob})
      BY <2>0, <3>1, <3>3, <3>4, PumpMoves
    <3>6. Pending' = Pending \cup {j}
      BY <2>0, <3>3, <3>5 DEF Pending
    <3>7. ASSUME NEW s \in Sessions
          PROVE  inflight'[s] = {k \in Pending' : SessionOf[k] = s}
      <4>1. inflight[s] = {k \in Pending : SessionOf[k] = s}
        BY DEF QueueInv, InflightExact
      <4>2. inflight'[s] = IF s = SessionOf[j] THEN inflight[s] \cup {j} ELSE inflight[s]
        BY <3>1 DEF AddInflight
      <4> QED  BY <3>6, <4>1, <4>2
    <3> QED  BY <3>1, <3>5, <3>6, <3>7 DEF QueueInv, InflightExact
  <2>2. CASE Settle
    <3>1. /\ running # NoJob /\ running' = NoJob /\ lanes' = lanes
          /\ submitted' = submitted
          /\ inflight' = [s \in Sessions |-> inflight[s] \ {running}]
      BY <2>2 DEF Settle, ClearInflight
    <3>2. NoJob \notin QueuedIn(lanes)
      <4>1. \A l \in Lanes : \A a \in 1..Len(lanes[l]) : lanes[l][a] \in Jobs
        BY <2>0
      <4> QED  BY <2>0, <4>1, InQueue, NoJobAssumption
    <3>3. Pending' = Pending \ {running}
      BY <2>0, <3>1 DEF Pending, QueueInv
    <3>4. ASSUME NEW s \in Sessions
          PROVE  inflight'[s] = {k \in Pending' : SessionOf[k] = s}
      <4>1. inflight[s] = {k \in Pending : SessionOf[k] = s}
        BY DEF QueueInv, InflightExact
      <4> QED  BY <3>1, <3>3, <4>1
    <3> QED  BY <3>1, <3>2, <3>3, <3>4 DEF QueueInv, InflightExact
  <2>3. CASE MicrotaskPump
    BY <2>3, PumpKeepsQueueInv DEF MicrotaskPump, TypeOK
  <2>4. CASE BackoffPump
    <3>1. timers - 1 \in Nat
      BY <2>4 DEF BackoffPump, TypeOK
    <3> QED  BY <2>4, <3>1, PumpKeepsQueueInv DEF BackoffPump
  <2>5. CASE UNCHANGED <<lanes, running, submitted, inflight>>
    <3>1. Pending' = Pending
      BY <2>5 DEF Pending, Queued
    <3> QED  BY <2>5, <3>1 DEF QueueInv, InflightExact
  <2> QED  BY <2>1, <2>2, <2>3, <2>4, <2>5
           DEF Next, DrainBegin, DrainReturn, MonitorTick, vars, queueVars, monitorVars
<1> QED  BY <1>1, <1>2, TypeCorrect, PTL DEF Spec

\* A drain polls exactly what it should: the tags of a session are its jobs that
\* wait or run (queue.ts inflightBySession, drainSessionId).
THEOREM InflightStaysExact == Spec => []InflightExact
<1>1. QueueInv => InflightExact
  BY DEF QueueInv
<1> QED  BY <1>1, QueueInvHolds, PTL

-----------------------------------------------------------------------------
\* At the instant a job starts nothing waits in a lane of higher priority,
\* whichever of submit, the finally block's microtask and the back-off timer
\* called pump() (queue.ts pump).
THEOREM StartsAreInPriorityOrder == Spec => StartsInPriorityOrder
<1>1. ASSUME NEW ln \in [Lanes -> Seq(Jobs)], NEW tm \in Nat, Pump(ln, tm),
             running \in Jobs \cup {NoJob}, running \notin QueuedIn(ln),
             Placed(ln), Once(ln), NEW j \in Jobs, running # j, running' = j,
             NEW k \in Queued'
      PROVE  LaneOf[j] <= LaneOf[k]
  <2>1. PICK l \in Lanes : /\ IsNextLane(ln, l) /\ running' = Head(ln[l])
                           /\ lanes' \in [Lanes -> Seq(Jobs)] /\ Taken(ln, l, lanes')
    BY <1>1, PumpMoves
  <2>2. LaneOf[j] = l /\ QueuedIn(lanes') \subseteq QueuedIn(ln)
    <3>1. /\ LaneOf[Head(ln[l])] = l
          /\ QueuedIn(lanes') \cup {Head(ln[l])} = QueuedIn(ln)
      BY <1>1, <2>1, TakeHead
    <3> QED  BY <1>1, <2>1, <3>1
  <2>3. k \in QueuedIn(ln)
    BY <2>2 DEF Queued, QueuedIn
  <2>4. PICK m \in Lanes : \E a \in 1..Len(ln[m]) : k = ln[m][a]
    BY <2>3, InQueue
  <2>5. LaneOf[k] = m /\ m \in NonEmpty(ln)
    <3>1. PICK a \in 1..Len(ln[m]) : k = ln[m][a]
      BY <2>4
    <3>2. ln[m] # <<>>
      BY <3>1
    <3> QED  BY <1>1, <3>1, <3>2 DEF Placed, NonEmpty
  <2> QED  BY <2>1, <2>2, <2>5 DEF IsNextLane
<1>2. TypeOK /\ QueueInv /\ [Next]_vars =>
          [\A j \in Jobs : running # j /\ running' = j =>
               \A k \in Queued' : LaneOf[j] <= LaneOf[k]]_vars
  <2> SUFFICES ASSUME TypeOK, QueueInv, Next, NEW j \in Jobs, running # j, running' = j,
                      NEW k \in Queued'
               PROVE  LaneOf[j] <= LaneOf[k]
    OBVIOUS
  <2>0. /\ lanes \in [Lanes -> Seq(Jobs)] /\ running \in Jobs \cup {NoJob}
        /\ timers \in Nat /\ Placed(lanes) /\ Once(lanes) /\ running \notin QueuedIn(lanes)
    BY DEF TypeOK, QueueInv
  <2>1. ASSUME NEW i \in Jobs, Submit(i) PROVE LaneOf[j] <= LaneOf[k]
    <3>1. i \notin QueuedIn(lanes) /\ i # running
      BY <2>0, <2>1, NoJobAssumption DEF Submit, QueueInv, Pending, Queued, QueuedIn
    <3>2. /\ Enqueued(i) \in [Lanes -> Seq(Jobs)]
          /\ Placed(Enqueued(i)) /\ Once(Enqueued(i))
          /\ QueuedIn(Enqueued(i)) = QueuedIn(lanes) \cup {i}
      BY <2>0, <3>1, EnqueueOne
    <3>3. running \notin QueuedIn(Enqueued(i)) /\ Pump(Enqueued(i), timers)
      BY <2>0, <2>1, <3>1, <3>2 DEF Submit
    <3> QED  BY <1>1, <2>0, <3>2, <3>3
  <2>2. CASE MicrotaskPump
    BY <1>1, <2>0, <2>2 DEF MicrotaskPump
  <2>3. CASE BackoffPump
    <3>1. timers - 1 \in Nat /\ Pump(lanes, timers - 1)
      BY <2>0, <2>3 DEF BackoffPump
    <3> QED  BY <1>1, <2>0, <3>1
  <2>4. CASE Settle
    BY <2>4, NoJobAssumption DEF Settle
  <2> QED  BY <2>1, <2>2, <2>3, <2>4
           DEF Next, DrainBegin, DrainReturn, MonitorTick, queueVars
<1> QED  BY <1>2, TypeCorrect, QueueInvHolds, PTL DEF Spec, StartsInPriorityOrder

-----------------------------------------------------------------------------
AheadIn(ln, j, k) ==
    \E l \in Lanes : \E a, b \in 1..Len(ln[l]) : a < b /\ ln[l][a] = j /\ ln[l][b] = k

\* pump() puts a deferred job back where it was and takes only heads: a job that
\* still waits is still ahead of those it was ahead of (queue.ts pump).
LEMMA PumpKeepsOrder ==
    ASSUME NEW ln \in [Lanes -> Seq(Jobs)], NEW tm \in Nat, Pump(ln, tm),
           running \in Jobs \cup {NoJob}, running \notin QueuedIn(ln),
           Placed(ln), Once(ln), NEW j, NEW k, AheadIn(ln, j, k),
           j \in QueuedIn(lanes')
    PROVE  AheadIn(lanes', j, k) /\ k \in QueuedIn(lanes')
<1>1. AheadIn(lanes', j, k) /\ lanes' \in [Lanes -> Seq(Jobs)]
  <2>1. CASE lanes' = ln
    BY <2>1
  <2>2. ASSUME NEW l \in Lanes, Taken(ln, l, lanes'), lanes' \in [Lanes -> Seq(Jobs)]
        PROVE  AheadIn(lanes', j, k)
    <3>1. /\ Head(ln[l]) \notin QueuedIn(lanes') /\ Len(lanes'[l]) = Len(ln[l]) - 1
          /\ \A c \in 1..Len(lanes'[l]) : lanes'[l][c] = ln[l][c + 1]
      BY <2>2, TakeHead
    <3>2. /\ Head(ln[l]) = ln[l][1] /\ Len(ln[l]) \in Nat
      BY <2>2 DEF Taken
    <3>3. PICK m \in Lanes : \E a, b \in 1..Len(ln[m]) : a < b /\ ln[m][a] = j /\ ln[m][b] = k
      BY DEF AheadIn
    <3>4. PICK a \in 1..Len(ln[m]), b \in 1..Len(ln[m]) :
               a < b /\ ln[m][a] = j /\ ln[m][b] = k
      BY <3>3
    <3>5. CASE m # l
      BY <2>2, <3>4, <3>5 DEF Taken, AheadIn
    <3>6. CASE m = l
      <4>1. a # 1
        BY <3>1, <3>2, <3>4, <3>6
      <4>2. a - 1 \in 1..Len(lanes'[l]) /\ b - 1 \in 1..Len(lanes'[l]) /\ a - 1 < b - 1
            /\ (a - 1) + 1 = a /\ (b - 1) + 1 = b
        BY <3>1, <3>2, <3>4, <3>6, <4>1
      <4>3. lanes'[l][a - 1] = j /\ lanes'[l][b - 1] = k
        BY <3>1, <3>4, <3>6, <4>2
      <4> QED  BY <4>2, <4>3 DEF AheadIn
    <3> QED  BY <3>5, <3>6
  <2> QED  BY <2>1, <2>2, PumpMoves
<1>2. k \in QueuedIn(lanes')
  <2>1. PICK m \in Lanes : \E b \in 1..Len(lanes'[m]) : lanes'[m][b] = k
    BY <1>1 DEF AheadIn
  <2> QED  BY <1>1, <2>1, InQueue
<1> QED  BY <1>1, <1>2

\* Deferral for VRAM loses nobody's place: within a lane no job ever overtakes
\* one submitted before it (queue.ts pump, submit).
THEOREM NoJobOvertakes == Spec => NoOvertaking
<1>1. TypeOK /\ QueueInv /\ [Next]_vars =>
          [\A j, k \in Jobs : Ahead(j, k) =>
               (j \in Queued' => k \in Queued' /\ Ahead(j, k)')]_vars
  <2> SUFFICES ASSUME TypeOK, QueueInv, Next, NEW j \in Jobs, NEW k \in Jobs,
                      Ahead(j, k), j \in Queued'
               PROVE  k \in Queued' /\ Ahead(j, k)'
    OBVIOUS
  <2>0. /\ lanes \in [Lanes -> Seq(Jobs)] /\ running \in Jobs \cup {NoJob}
        /\ timers \in Nat /\ Placed(lanes) /\ Once(lanes) /\ running \notin QueuedIn(lanes)
    BY DEF TypeOK, QueueInv
  <2>a. /\ AheadIn(lanes, j, k) /\ (Ahead(j, k)' <=> AheadIn(lanes', j, k))
        /\ Queued' = QueuedIn(lanes')
    BY DEF Ahead, AheadIn, Queued, QueuedIn
  <2>1. ASSUME NEW i \in Jobs, Submit(i) PROVE k \in Queued' /\ Ahead(j, k)'
    <3>1. i \notin QueuedIn(lanes) /\ i # running
      BY <2>0, <2>1, NoJobAssumption DEF Submit, QueueInv, Pending, Queued, QueuedIn
    <3>2. /\ Enqueued(i) \in [Lanes -> Seq(Jobs)]
          /\ Placed(Enqueued(i)) /\ Once(Enqueued(i))
          /\ QueuedIn(Enqueued(i)) = QueuedIn(lanes) \cup {i}
      BY <2>0, <3>1, EnqueueOne
    <3>3. running \notin QueuedIn(Enqueued(i)) /\ Pump(Enqueued(i), timers)
      BY <2>0, <2>1, <3>1, <3>2 DEF Submit
    <3>4. AheadIn(Enqueued(i), j, k)
      <4>1. PICK m \in Lanes : \E a, b \in 1..Len(lanes[m]) :
                                  a < b /\ lanes[m][a] = j /\ lanes[m][b] = k
        BY <2>a DEF AheadIn
      <4>2. PICK a \in 1..Len(lanes[m]), b \in 1..Len(lanes[m]) :
                     a < b /\ lanes[m][a] = j /\ lanes[m][b] = k
        BY <4>1
      <4>3. /\ Len(lanes[m]) <= Len(Enqueued(i)[m])
            /\ \A c \in 1..Len(lanes[m]) : Enqueued(i)[m][c] = lanes[m][c]
        BY <2>0, <3>1, EnqueueOne
      <4>4. Len(lanes[m]) \in Nat /\ Len(Enqueued(i)[m]) \in Nat
        BY <2>0, <3>2
      <4>5. /\ a \in 1..Len(Enqueued(i)[m]) /\ b \in 1..Len(Enqueued(i)[m])
            /\ Enqueued(i)[m][a] = j /\ Enqueued(i)[m][b] = k
        BY <4>2, <4>3, <4>4
      <4> QED  BY <4>2, <4>5 DEF AheadIn
    <3> QED  BY <2>0, <2>a, <3>2, <3>3, <3>4, PumpKeepsOrder
  <2>2. CASE MicrotaskPump
    BY <2>0, <2>a, <2>2, PumpKeepsOrder DEF MicrotaskPump
  <2>3. CASE BackoffPump
    <3>1. timers - 1 \in Nat /\ Pump(lanes, timers - 1)
      BY <2>0, <2>3 DEF BackoffPump
    <3> QED  BY <2>0, <2>a, <3>1, PumpKeepsOrder
  <2>4. CASE lanes' = lanes
    <3>1. PICK m \in Lanes : \E b \in 1..Len(lanes[m]) : lanes[m][b] = k
      BY <2>a DEF AheadIn
    <3>2. k \in QueuedIn(lanes)
      BY <2>0, <3>1, InQueue
    <3> QED  BY <2>a, <2>4, <3>2
  <2> QED  BY <2>1, <2>2, <2>3, <2>4
           DEF Next, Settle, DrainBegin, DrainReturn, MonitorTick, queueVars
<1> QED  BY <1>1, TypeCorrect, QueueInvHolds, PTL DEF Spec, NoOvertaking
=============================================================================
