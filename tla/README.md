# DevNeural: models, checks and proofs

TLA+ modules of the parts of DevNeural whose correctness depends on the order in
which things happen, the TLC configurations that check them on small instances,
and theorems about them that TLAPS checks for every value of the constants.
Paths are relative to `src/`; `07-daemon/src/` is written `D/`, and
`09-bridge/src/` is written `B/`.

`PROJECT.json` holds the machine-readable side: the components, the runs with
their properties, one deliberate bug (a *mutant*) per property, the source lines
each definition models, the findings, the hazards and the theorems.

To check: `tlc -config MCGpuQueue.cfg MCGpuQueue`, and `tlapm GpuQueueProofs.tla`.

## 1. The system

DevNeural is a personal second brain: one Node.js daemon (`07-daemon`), a VS Code
extension that types prompts into terminals (`09-bridge`), a dashboard
(`08-dashboard`) and small capture hooks. The daemon hosts Claude Code sessions
in pseudo-terminals (PTYs), speaks with the user over a voice socket, stores
transcripts as chunks and vectors, and distils a conversation ("brainstorm") into
summaries when it ends.

The daemon is a single thread, so nothing is preempted between two `await`s. All
that is hard comes from what may happen *at* an `await`, in a timer or a
continuation, from the files that several processes share, and from the daemon
or a window dying.

### Inventory

| Component (source) | State | Operations | What is hard | What makes it correct |
|---|---|---|---|---|
| GPU queue and VRAM monitor (`D/gpu/queue.ts`, `vram-monitor.ts`) | four lanes, the running job, in-flight tags by session, the latest sample | `submit`, `pump`, settle, back-off, `drainSessionId`, monitor tick | `pump` is re-entered from three places and nothing else starts a job; deferral while VRAM is short | no lost wake-up, no growth of timers, priority, order in a lane, voice lanes never gated, drains return |
| Pending distillations and the lock (`D/lex/distill-pending.ts`, `session-end-lock.ts`) | a marker file per brainstorm, the in-flight map, the lock map | queue, join, settle, cold-start gate with its cap | second callers, failures, death at any await | a debt is on disk before the work starts and leaves only on success; everyone who waits is woken |
| Session-end pipeline (`D/lex/session-end-pipeline.ts`) | the brainstorm row, its summaries | drain, flip, ingest, distil, summarise | two paths (canonical, fallback) with different await points; generators that fail | the summary is produced once and kept; failures are retried |
| Brainstorm store and reapers (`D/lex/brainstorm-store.ts`) | `brainstorm_sessions` rows | create, bind, end, continuous and boot reaper | ends that race with reapers | no lasting ghost, no living row reaped |
| Anchors (`D/lex/spawn-lex-session.ts`, `lex-session-store.ts`, `lex-transcript-ref.ts`) | `lex_session.current_pty_id`, transcript refs | open, rebind, mark dormant | an anchor outlives its sessions: late events of an old one meet the row of the new one | row, anchor and PTY agree |
| PTY host (`D/dashboard/pty-host.ts`) | handles by session | spawn, `ptyKill`, `onExit` | kill and exit both end the session | every death of the bound PTY leaves its distillation owed |
| Compaction supervisor (`D/lex/compaction-supervisor.ts`) | latches of the voice socket | end-and-restart of a session | a restart decided before a long await | a session ended meanwhile stays ended |
| Voice socket (`D/voice/lex-voice-ws.ts`) | the bound session, the session-end latch | hello, spoken end, flush on close | shares the lock with every other end | a spoken end equals the End button |
| Bridge inbox (`D/dashboard/sessions.ts`, `B/extension.ts`) | append-only `.in` files, cursors, a promise chain per file, the offsets file | append, tick, deliver, skip stale, save, open and close | ticks overtake slow deliveries; debounced cursors die with the window | nothing dropped unseen, order kept, no stale flood, all consumed |
| Worker event router and kill switch (`D/dashboard/worker-event-*.ts`, `D/lex/expectation-supervisor.ts`) | an hour of accepted events and the last of each type per project; a watched claim; caches of HEAD and of the supervising session | read a tail, derive events, gate, resolve, deliver, trip; drift at the same gate | sliding windows pruned only now and then, two users of one gate, stale caches | the ration holds in every window, events reach the project's own supervisor, a claim is told once |
| Vector store (`D/store/vector-store.ts`, `periodic-flush.ts`) | parallel arrays of vectors and metadata; a file of each | add, delete, flush, load | the metadata file is appended to between flushes, two renames per flush, death anywhere | each vector stands beside its own metadata, one record per id, a death brings back the last flush |
| Document index and watch (`D/lex/project-doc-index.ts`, `project-doc-watcher.ts`) | a watch and its debounce timers per project | settle, re-index, remove, index on request, start and stop | deletes, awaits the embedder, adds, while other settles and requests do the same | a settled document is indexed as it is |
| Transcript watcher (`D/capture/transcript-watcher.ts`) | an offset per file and its file | change event, catch-up scan, one pass over the new bytes | reads at an offset, awaits, stores the offset; passes overlap; half-written lines; torn offset file | each whole line is recorded, in order, and ends up in a chunk |
| Speak controller and mouth (`D/voice/lex-voice-speak-controller.ts`, `voice-mouth.ts`) | a queue and a stream per connection, one holder for all | speak, drain, defer, stream ends or fails, kill | a promise chain re-entered by timers, streams, barges and teardown | one stream at a time, in order, nothing chained across a barge, the mouth is always given back |
| Reply delivery (`D/voice/lex-voice-ws.ts`, `voice-top-layer.ts`, `D/lex/voice-brain-session.ts`) | replies under way, one line of asks to the voice brain | ask, record, end, fall back, deliver again | minutes-long asks of several connections in one line, cut streams, redelivery | never an older reply after a newer one |
| Crash-recovery sweep (`D/lex/crash-recovery.ts`) | none of its own | sweep after boot | runs after the boot reaper | a crashed session is found |
| Grooming, idle watcher (`D/lex/grooming*.ts`, `idle-watcher.ts`) | day caps | end by policy | awaits, then ends the row itself | as the other ends |
| Distillation scheduler, smart compact, lifecycle, wiki, curation, capture, dashboard | see `PROJECT.json` | | | |

### How they interact

Every way a brainstorm can end goes through `queueSessionEndPipeline`, which
writes the marker, takes the per-session lock and runs the pipeline, whose first
await drains the GPU queue for the session. Callers: the PTY host on exit and on
kill, the End button (`D/dashboard/routes.ts`), the spoken end and the compaction
supervisor (voice socket). Two paths bypass it: a closing socket flushes under
the lock alone, without a marker and without ending the row, and the SessionStart
hook calls the cold-start gate, which forces or awaits what a marker owes. The
reapers change rows and anchors directly. Prompts travel from the daemon to
terminals through the bridge inbox files.

The raw_chunks collection of the vector store has several writers that know
nothing of each other: the transcript watcher adds a chunk per turn, the document
index deletes and adds, the periodic tick and the routes flush. What they rely on
is stated once, in `SnapshotStore`, and each of the two writers is modelled
against it.

A reply of the brain reaches the user's ear through three queues: the line of
asks of the voice brain (one PTY for all connections), the speak queue of the
connection, and the single mouth.

What a worker session writes is also read by the event listener. It passes what it
finds through a gate, which it shares with the expectation supervisor, to the Lex
session that supervises the project.

## 2. Modules

| Module | Models | Proofs | Instance |
|---|---|---|---|
| `GpuQueue` | the queue and the monitor, whole | `GpuQueueProofs` | `MCGpuQueue` |
| `SessionEnd` | pipeline, tracker, lock, PTY host, anchors, voice socket, compaction, reapers, daemon death, composed | `SessionEndProofs` | `MCSessionEnd` |
| `OwedDistill` | the abstract promise of the tracker, which `SessionEnd` implements | (in `SessionEndProofs`) | (through `SessionEnd`) |
| `BridgeInbox` | the daemon's writer and the extension's reader | `BridgeInboxProofs` | `MCBridgeInbox` |
| `SnapshotStore` | what a collection of vectors promises: a death brings back the last save | (in `DocIndexProofs` and `TranscriptCaptureProofs`) | (through `DocIndex`) |
| `VectorStore` | one collection, its files, deaths and reloads | (in `DocIndexProofs`) | (through `DocIndex`) |
| `DocIndex` | a document, its watch, its indexers and other writers, over `VectorStore` | `DocIndexProofs` | `MCDocIndex` |
| `TranscriptCapture` | the transcript watcher on one file, over `SnapshotStore` | `TranscriptCaptureProofs` | `MCTranscriptCapture` |
| `SpeakQueue` | the speak controllers, the mouth, barge, floor, inject, teardown | `SpeakQueueProofs` | (through `ReplyDelivery`) |
| `ReplyDelivery` | speakViaBrain, the line of asks, fallback and redelivery, over `SpeakQueue` | `ReplyDeliveryProofs` | `MCReplyDelivery` |
| `WorkerEvents` | the worker-event listener, the claim watch, gate, router, kill switch, the supervisor's drift events | `WorkerEventsProofs` | `MCWorkerEvents` |

Operators named `X_Something` are mutants of `X`; nothing uses them.

### GpuQueue

An action is what runs between two yields of the event loop. `Submit`, a
microtask (`MicrotaskPump`, scheduled by a job's `finally` block in `Settle`) and
a timer (`BackoffPump`) each call `Pump(lanes, timers)`, which returns, starts
the head of the first non-empty lane, or puts it back and arms a 500 ms timer
when lane 2 or 3 is gated. `pumps` and `timers` count what is armed. VRAM is
free or short as `MonitorTick` pleases, until nvidia-smi fails and gating stops
for good. A job's `fn` is opaque; it settles. The statistics are left out.

### SessionEnd

One name stands for a Claude Code session, its PTY and its transcript. `status`,
`cur`, `lexPty`, `refs`, `chunked`, `summary` and `marker` are on disk and outlive
the daemon; `pty`, `flight`, `todo`, `run`, `cold` and the socket's `voice` and
`bindKey` die with it (`CrashRestart`, which includes the boot reaper).

* `Enqueue` is `queueSessionEndPipeline`: join the brainstorm's flight or write
  the marker and call `LockedRun`, which is `withSessionEndLock`.
* `run[k]` is the lock entry and the pipeline under it: `RunDrained`,
  `RunDistilled`, `RunFlat`, `RunScoped` and `RunDone` are the pieces between its
  awaits, `RunThrew` a rejection. Sessions in `Indexed` own raw chunks and take
  the canonical path; the others take the fallback, which flips the row *before*
  its first await.
* `Release` tells every flight on that key; `Settle` is the tracker's own
  continuation; `todo` holds the callers' continuations (`ThenEndBrainstorm`,
  `ThenKill`, `ThenRestart`), which as microtasks run before any other callback:
  every other action has the guard `Quiet`.
* `OnExit`, `DashboardEnd`, `VoiceEnd`, `CompactionDue`, `Flush` are the ways of
  ending; `ColdStart` is the gate; `Reap` the 30 s reaper.

`asked` is a history variable of two properties. Left out, and listed in
`PROJECT.json`: the archive, delete and redistill endpoints, the grooming day
cap, the flush of a worker's detach, the crash-recovery sweep, voice sockets bound
to a session rather than a brainstorm, a marker write that itself fails or tears,
titles, audio and thread documents, the staleness of per-reference summaries, and
the `distilled_at` and `audio_path` columns (whether the boot reaper keeps a row
that has nothing else is therefore nondeterministic).

### BridgeInbox

A line is its number in its file and a cursor the number of lines before it, so
byte offsets and line boundaries are the same thing. `Tick` is `tick()` with
`processFile` for each inbox: it chains a delivery for every line after
`lastOffsets`, whether or not an earlier tick's deliveries of those lines are
still chained. `Deliver` is the settling of `handleMessage` with what
`enqueueDelivery` does next: `delivered` and `dropped` commit, `retry` halts.
`SkipStale` is the no-op that a line older than 90 s gets at read time; it has no
await, so `NothingDue` makes it settle before any timer fires. `SaveOffsets` is
the 500 ms debounce, `CloseWindow` a close or reload (nothing is flushed),
`StopWatching` the bridge being switched off with its chains alive, and
`StartWatching` the loading of the offsets file and the first-run rule. The
daemon's heartbeat test is a prompt that is not written.

Left out: blank, malformed and half-written lines (the daemon appends whole JSON
lines in one call), truncation (it never truncates), a changed `dataRoot`, two
windows on one file, workspace injects, presence, focus files and the mirror.

### VectorStore and SnapshotStore

A record `[id, ver]` stands for one `add()`: `vectors[i] = r` says that place `i`
holds the vector of `r`, `entries[i] = r` that it holds its id and metadata, so a
misalignment is `vectors # entries`. `Add` appends a line to the metadata file at
once, while the vector file changes only in `Flush`; `Load` pairs by place and
truncates the longer side. Deaths: `DieAndLoad` at rest, `DieInAppend` inside
`appendFileSync` (the last line has no end and the next append is glued to it:
`partial`), `DieInFlush` between the renames. `edited` is a history variable: an
update, a deletion or a glued line happened since the last flush, which an
appended line cannot express. `torn` says a death hit a flush with edits to write;
from then on the store promises nothing (`SnapshotStore!Damage`).

`SnapshotStore` is what remains of all this for a caller: records by id, and a
death that brings back exactly the last save. So the appended metadata lines
save nothing: what was added since the last flush is truncated away again,
although `vector-store.ts:228` ("for durability between flushes") and
`periodic-flush.ts:8-10` say otherwise. Left out: search, the header (nobody
reads its count back), the first flush of an empty collection, a dimension that
does not match, and the SQL mirror.

### DocIndex

One document has bodies; a body has chunks, each with the id of its first line
(as `docChunkId`). `pending` is an event or its debounce timer. `Settle` is
`settle()` up to its first await (delete, read, chunk); `Embedded` the embedder's
answer; `AddChunk` one synchronous `add()` (`EventLoopFree`: the loop does not
yield between two of them); `FinishJob` the flush. `IndexRoute` is
`/lex/index-docs` on the same document, which deletes nothing. `WatchRoute` is start and
stop of `/lex/watch-docs`: both cancel a pending timer. `AddForeign` stands for the
transcript watcher. `muddled` is a history variable: a job ran beside another,
failed or died, or an edit went unwatched, since a settle ran alone. Left out:
several documents and stores, search, how a body is cut, a second watch left
behind by two concurrent starts.

### TranscriptCapture

A line is a number, takes `LineBytes` bytes and parses if it is read from its
first one. A pass is `processFile`: `StartPass` (a change event or the catch-up
scan) awaits the stat, `OpenTail` fixes where it reads from, `ScanFirst` and
`Resume` run the loop to its next await, which is the embedding of a finished
turn: by then the line that *begins* the next turn has been recorded too. Behind
the last line the offset moves. `EndOffset` is `startOffset + consumed`, with the byte
too many of section 6. `Restart` is a death and the boot's scan; `DieInSave` one inside
`writeFileSync`, which leaves an offset file that does not parse. A chunk's id
is its last line and its content where it began, so of two overlapping passes
the one that started later replaces the chunk by a shorter one. The histories
`cut`, `overlap`, `unindexed`, `replaced` name the exceptions the properties allow.
Left out: lines without text, the 8000-character cap (one more await), several
files, the scan's age limit, observations and phases. An event is one flag:
chokidar's `awaitWriteFinish` joins writes that follow each other closely.

### SpeakQueue and ReplyDelivery

JavaScript runs a promise chain to its end before it takes the next event: a
drain loop that has control is in state `next`, and every other action waits
(`Quiet`). `Defer` is the null grant with its 25 ms wait; a retry that finds the
mouth still held changes nothing, so `Retry` is a step when the mouth is free or a
barge has emptied the queue. `StreamEnd` and `StreamError` are the two ways a pcm
stream settles, in each state the context may be in: `active`, `cancelled`
(`killActive`), `detached` (teardown cancels without the flag). `Kill` is
`killActive`, under `Barge` (vad-onset, asr words, barge-in), `PttDown`
(utterance-start) and `HoldUp`. `Inject` carries the partial chain to the PTY.

`ReplyDelivery` adds the replies of `speakViaBrain`, each with the phase of its
delivery, and `asks`, the line of asks of the one voice brain with its head in
flight. `Record` is one record streamed by it; `AskEnds` the outcome (delivered,
cut, miss) with what the caller does next; `Redeliver` and `StopWaiting` end the
wait for a warm brain. Segments are numbered per connection in the order they
were pushed; `said`, `starts`, `told` and `epoch` are histories. The haiku tier is on:
with it off `acquireMouth` always grants and there is no single mouth. A record of
several sentences is several `Record` steps. Left out: the barge stash and the
PTY's Ctrl+C, client playback, delivery records for replay, directive lines,
audio. A closed connection goes on draining its queue onto the closed socket,
and holds the mouth while it does, as the code does.

### WorkerEvents

Time is a counter that starts at 1; 0 stands for what the code holds as undefined
or null. `ProcessChange` is the listener's handler, whole: the mode check, `ReadHead`
(the 5 s cache, git failing), the watch on a claim (`Seeded`, `Shipped`, `Overdue`,
`Watch`), the detector's own gap, then for the events in their order the gate
(`Admitted`, `Record`), `Resolved` and `Deliver`, and `ApplyKillSwitch`. The gate is asked
once per event; as the events of one tail have different types and one time, what
is accepted of them is a set `got`, and `Admitted` says which sets the sequence of
calls can leave. `ExpectationDrift` is the other user of the gate. The window holds a stamp
`[type, at]` where the code holds a number, which counts the same because no two
events of one type are accepted at one time. The world is `Tick`, `WriteClaim`,
`ScrollOut` (the tail is the last 2 KB), `GitCommit`, `BindSupervisor`, `SetMode`.
`accepted`, `reported`, `cleared` and `sent` are histories of one run of the daemon, as
the gate and the caches are; `heldAt` is a history of the world.

Left out: what the regular expressions match (`permission_denied`, `test_failure`,
`commit` and `idle` are inputs, `idle` with its ten minutes), snippets, notifications and
their cooldowns, several session files of one project, a claim line without a
timestamp, a HEAD that goes back to an earlier commit, a database that fails while
a target is resolved, and the mode `off`, which the listener treats as `polling`.

## 3. Runs

| Run | Instance and bounds | Shows |
|---|---|---|
| `gpu_queue` | five jobs: one in each of lanes 0, 1 and 3, two in lane 2; two sessions and one job without | all eight properties below |
| `session_end` | one anchor, two sessions, one with raw chunks; exit, button, voice, compaction, one daemon death | cold starts, SM-27, liveness |
| `session_end_direct` | one session of an anchor beside a direct-llm brainstorm; exit, voice, flush, one death | the durable debt, no stranded flight, refinement of `OwedDistill` |
| `bridge_inbox` | two inboxes of two lines and one, at most three deliveries on a chain, two closings or switch-offs | order, coverage, staleness, consumption |
| `transcript_capture` | three lines of two bytes and two turns, two passes at once, one death | nothing skipped, order, once, indexed, everything read |
| `doc_index` | one document with three bodies (absent, two chunks, one chunk), two jobs at once, two edits, one foreign add, one failed embedding, two deaths | lockstep, freshness, refinement of `SnapshotStore` |
| `reply_delivery` | two connections, one of them with replies; two replies, three segments, one barge or floor hold, one fault | one mouth, order, boundaries, draining |
| `worker_events` | one project, one Lex session, one plain event type beside shipments and drift; a clock of five, an hour of four, ten minutes of three, a gap of two, cap two, kill limit three; one claim, one commit, one restart | ration, once per HEAD, kill switch hidden, right supervisor |
| `summary_erased`, `live_session_ended`, `bridge_halts`, `transcript_line_lost` | the least instance that shows each, or the passing run's | a counterexample to what a comment or document says (section 6) |

**Why the bounds are enough.** *GPU queue:* the code distinguishes jobs by lane,
session and place in a lane; two jobs in one gated lane show deferral against
order, and every lane is present, so every pair of priorities is. Each job is
submitted at most once (`submitted`), which is what bounds the run. *Session
end:* `MaxCrashes = 1` and two sessions give an earlier and a later incarnation of
an anchor, which is what every stale reference in this code needs; one run
leaves `flush` out and the other `button` and `compact`, because all six ways on
two sessions exceed what can be explored, and the interplay of the missing pair
is stated as `TerminalEndEndsRow` (section 6). *Bridge:* two lines show order and gaps;
three chained deliveries let one tick overtake a batch and leave a duplicate
behind; two stops give switch-off followed by reload, or two reloads in a row.
Files share only the offsets file, its timer and the tick, which two inboxes show.
*Transcript:* two bytes per line make a line that is half there; two lines of one
turn and one of the next give a turn cut by a pass and a turn boundary; two
passes overlap in every way two can, and a third adds no new pair. *Documents:* the
chunks of the bodies share one line and differ in another, so an update, an
addition and a removal all occur; two jobs give every overlap of settle and
request; two deaths give a reload of a reloaded store. *Voice:* the second
connection is what the mouth is contended with; two replies show order, three
segments a queue behind a stream; one barge and one fault fall at every point.
*Worker events:* the spans keep the order of the real ones (gap < ten minutes <
hour, cap < kill limit; the detector's gap, the claim's grace and the HEAD cache are
one unit, the target cache two), and the clock runs past an hour, so that the
window slides; one claim suffices because a newer one only replaces the watch, and
one commit is what clears it. Two projects share nothing but the Lex sessions they
compete for, which the theorems cover for every number of both.

Deadlock is checked except where the system may have nothing left to do: in
`gpu_queue` (every job has settled and nvidia-smi is gone), `transcript_capture`
(all lines written and read), `doc_index` and `reply_delivery` (no more edits,
replies or faults within the bounds) and the violation runs of these.

### Properties

*GPU queue.* `WakeupPending`: while a job waits and none runs, a microtask or
timer is armed. `WakeupsBounded`: armed wake-ups never exceed the jobs submitted.
`InflightExact`: what a drain polls is the session's jobs that wait or run.
`StartsInPriorityOrder`, `NoOvertaking`: action properties about starts and
deferrals. `VoiceLanesServed` holds without any assumption on VRAM;
`BackgroundServed` and `DrainReturns` assume it is available from some time on.

*Session end.* `OwedIsOnDisk`, `NoStrandedFlight`, `NoStrandedColdStart`;
`PtyDeathOwesDistill` (the repository's SM-27: every death of the bound PTY of an
active row leaves the distillation owed in the same step); `KeepsOwedPromise`
(refinement); `FlightsLand`, `ColdStartsAnswered`, `NoLastingGhost` (liveness).

*Bridge.* `NothingPassedUnseen`: neither the cursor in memory nor the one on disk
is past a line that never got an answer. `PastedInOrder`: a line reaches a
terminal only after every earlier one was answered. `NoFloodOnOpen`: a window
never pastes what was stale when it opened. `InboxConsumed`: an inbox that stays
watched and unhalted is consumed, although re-reading ticks move its cursor back.

*Transcript.* `OnlyCutLinesSkipped`: the offset never passes a whole line that was
neither recorded nor read from its middle, however passes finish and the daemon
dies. `RecordedInOrder`: a line is recorded for the first time only after all
before it. `OnceUnlessOverlap`: twice only if passes overlapped or a death cut one
short. `IndexedUnlessLost`: a line behind the offset is in a chunk, but for the
named losses. `EveryLineRead` (liveness): a pass that sets the offset back loses no
later line.

*Documents.* `Lockstep` and `OneRecordPerId`: through updates, deletions, glued lines,
truncations and deaths, unless a flush with edits was torn. `FreshWhenSettled`:
when a settle ran alone and nothing is under way, memory and files hold the
document's present chunks and no others. `KeepsSnapshotPromise` (refinement).

*Voice.* `OneMouth`: at most one stream, and the mouth is held exactly while it
plays. `SpokenInOrder`: what was played and what is queued keep the order in which
it was said, none twice, none lost but by a failure or a barge. `BargeIsABoundary`:
nothing said before a barge is queued after it, and the first segment after it
opens a new run of audio; under the floor nothing plays. `CutToldOnce`: what was cut
reaches the brain once, and nothing else does. `RepliesInOrder`: no older reply
after a newer one. `QueuesDrain` (liveness): the mouth comes round to every queue.

*Worker events.* `Rationed`: no span of an hour, wherever it starts, holds more
accepted events than the cap, and two of one type are the gap apart, whoever asks
the gate. `CapHidesKillSwitch`: with the cap no higher than the kill switch's limit the
switch never trips. `DeliveredToSupervisor`: an event goes to a session that supervises
the project now or did less than a minute ago. `ReportedOncePerHead`: a claim is told at
most once for one HEAD.

*Type invariants.* Each module has one. Each is a theorem. No run repeats it but that of `BridgeInbox`,
because there it says something the code could get wrong: no cursor ever stands
behind the end of its file.

### Fairness

Weak fairness on what the runtime owes: microtasks, promise continuations, armed
timers and intervals (`MicrotaskPump`, `BackoffPump`, `Settle`, `Continue`, `Reap`,
`Tick`, `SaveOffsets`), and on the settling of awaited work: a GPU job's `fn`, the
pipeline's awaits (its generators are capped at 180 s) and a terminal lookup. In
the bridge time passes too (`Age`). In the transcript watcher chokidar delivers what
changed and the awaits of a pass settle; in the speech path the drain loop runs, the
25 ms timer fires and a piper process comes to its end (`StreamEnd`). That
`Retry` gets its turn although another connection may take the mouth each time
holds because a queue is finite: weak fairness of a retry that is possible only
while the mouth is free is enough when nobody says more for ever, which the
bound on segments stands for. `WorkerEvents` has safety properties only and no fairness. No user or environment action is fair: nobody
has to submit, open, speak, end, write, append, edit, reply, barge, close, crash or free VRAM. The cap of a
cold start is not fair either, so `ColdStartsAnswered` does not lean on it.

## 4. Proofs

All theorems hold for every value of the constants under the named assumptions of
each module: distinct names, bounds that are naturals, and a `None` that is none of
the values it stands beside.

| Theorem | Argument |
|---|---|
| `GpuQueueProofs!TypeCorrect` | one lemma, `PumpTypes`, for the three callers of `Pump` |
| `NoLostWakeup` (`WakeupPending`) | inductive with the types; `PumpOutcome`: after `pump()` a job runs, or nothing waits, or one more timer is armed, and `Settle` arms the microtask |
| `VoiceNeverBacksOff` | inductive with the types; `PumpServesVoice`: after `pump()` a job runs or the lanes that are not gated are empty, because they come first. With nothing running, a voice job has a *microtask* armed, which `WakeupPending` does not say: the safety part of `VoiceLanesServed` |
| `WakeupsStayBounded` | `WakeupsInv` adds that `submitted` is finite, without which its cardinality says nothing; `PumpCost`: a call of `pump()` turns at most one wake-up into one timer or one running job |
| `InflightStaysExact` (`InflightExact`) | `QueueInv`: a job waits in its own lane, once, the running one waits nowhere, and what is pending was submitted; without it the tag dropped by `finally` could be one of a job that still waits. `PumpMoves`: a call of `pump()` changes nothing or takes one head |
| `StartsAreInPriorityOrder` (`StartsInPriorityOrder`), `NoJobOvertakes` (`NoOvertaking`) | `QueueInv` again: lanes tell priorities only because each job is in its own; `PumpKeepsOrder`: a head that is deferred goes back to the front, so who was ahead stays ahead |
| `SessionEndProofs!TypeCorrect` | `Typed` adds `BoundWhenPresent` (an anchor's row that exists is bound to a session, so the key of its run exists) and `RunsNamed` (a busy lock names its brainstorm) |
| `OwedOnDisk` | `StepKinds`: each of some thirty actions touches marker, flight and lock only by queueing, locking, releasing, settling, or a crash; five cases then suffice |
| `NoFlightStranded` | the same five cases; a release frees a key only together with every flight that waits on it |
| `NoColdStartStranded` (`NoStrandedColdStart`) | `ColdKinds`: only a cold start makes its session wait, on a flight; `FlightsStay`: nothing but its settling, which answers every cold start of its anchor, or a death takes a flight away; `RefsGrow`: a session does not lose its anchor meanwhile |
| `DeathOwesDistill` (`PtyDeathOwesDistill`) | `Owned`: a session has one brainstorm, is bound only to it and has a PTY, so the row `ptyKill` and `onExit` find from the dead PTY is the row that is owed; `SessionKinds`: a PTY dies by an exit, a button or a kill, and each queues the distillation of its owner; `OwedIsOnDisk` where a flight was already under way |
| `KeepsPromise` (`KeepsOwedPromise`) | the mapping sends markers to debts and flights to work; `QueueRefines`, `ReleaseRefines` (one release finishes *all* the flights on its key), `SettleRefines`, and `OwedIsOnDisk` as the invariant |
| `BridgeInboxProofs!TypeCorrect` | lines only grow, so cursors and chained deliveries stay inside their files |
| `NothingLostUnseen` (`NothingPassedUnseen`) | not inductive alone: `ChainInOrder` says that each line before a chained one has been answered or is chained ahead of it; a tick re-establishes it because it reads from a covered cursor |
| `PastesInOrder` (`PastedInOrder`) | the same invariant: what is ahead of the head of a chain is nothing, so all before it was answered |
| `NothingStaleIsPasted` (`NoFloodOnOpen`) | `FreshChains`: what a window has chained for a terminal is younger than what was stale when it opened, and a closed window has no chains; the age gate is asked when a line is read, the paste comes later |
| `StuckUntilClosed` | every step keeps a file halted with nothing on its chain, and pastes nothing of it, but the closing of the window: a tick skips it, and only a chained delivery lifts a halt. This is finding 3 for every instance |
| `DocIndexProofs!StoreKeepsPromise`, `StoreSafe` (of one collection by itself) | `StoreInv`: memory is in lockstep with one record per id; the metadata file begins with the metadata of the vector file, so that truncation at a reload restores exactly the last flush; it is the image of memory while nothing was `edited`, so that a flush cut between its renames does no harm then; and a clean collection is the one in the vector file |
| `DocLockstep` (`Lockstep`), `DocOneRecordPerId` (`OneRecordPerId`), `DocKeepsPromise` (`KeepsSnapshotPromise`) | every action of the document index does to the store one of its own actions or nothing, so `StoreInv` carries over |
| `DocTypeHolds`, `FreshHolds` (`FreshWhenSettled`) | `Freshness` says what the collection lacks while a settle that runs alone is under way: exactly its `todo`, all of one body; `Exclusive` that unmuddled jobs do not overlap; a request that runs alone after a settle rewrites what is there |
| `TranscriptCaptureProofs!SkipsOnlyCutLines` (`OnlyCutLinesSkipped`) | `CaptureInv`: what each pass under way has read is recorded (`ReadRecorded`), and so is all before the offset it *began* from, which may be further on than the present one (`BehindRecorded`), so the pass may finish after another has set the offset back. `LoopHead` says what holds wherever the loop goes on, for the two steps that enter it; the byte too many of section 6 enters through `EndOffsetFacts` and moves the offset into the next line, which is what `cut` is for |
| `RecordsLinesInOrder` (`RecordedInOrder`) | the same invariant: a pass records from where it stands, and all before that it or an earlier one has recorded |
| `RecordsOnce` (`OnceUnlessOverlap`) | `Alone`: without an overlap one pass reads, and it reads from the offset; `NotAhead`: nothing in front of it has been recorded |
| `IndexesWhatItPasses` (`IndexedUnlessLost`) | `BehindKept`, of the lines before the turn in progress; `ChunksBehind`: without an overlap a new chunk replaces none. A turn put away ends where the next begins (`TurnHasEnd`), for any way of cutting lines into turns |
| `ChunksHoldRecordedTurns`, `CaptureKeepsPromise` | `ChunksRecorded`: a chunk holds lines of one turn, recorded all; the steps of the watcher put chunks or flush, and a death restores what was flushed |
| `ReplyDeliveryProofs!VoiceOneMouth` (`OneMouth`) | `MouthInv`, preserved by each speech step and every operator's action |
| `VoiceRepliesInOrder` (`RepliesInOrder`) | `AsksInv`: the asks of one connection stand in the line in the order they were started, and a reply that waits to be delivered again is older than none that is asked for (so appending it keeps the order: `Latest`); `Behind`: nothing said is ahead of a reply still to be answered; `Attributed`: what was said came from a reply of its own connection |
| `SpeakQueueProofs!VoiceTyped` (`ReplyDelivery!TypeOK`) | from `VoiceInv` and `SegmentInv`, with `NobodyForgotten`: a reply that is due an answer stands in the line, where `AsksInv` says it stands once |
| `VoiceSpokenInOrder` (`SpokenInOrder`) | `SegmentInv`, of each connection by itself, for every step touches one: started and queued segments rise (`InLine`), and the queue holds segments of the present epoch that wait, and all of them (`Waits`) |
| `VoiceBargeIsABoundary` (`BargeIsABoundary`) | the same: while the chain is not broken something of the present epoch was said (`Breaks`), which is what the first segment after a barge lacks |
| `VoiceCutToldOnce` (`CutToldOnce`) | the same: the stream in flight is of the segment started last, which has the fate `playing` and is the text in delivery until a barge cuts it (`Plays`), so `killActive` reports a segment that was not cut before and never ended |
| `WorkerEventsProofs!EventsRationed` (`Rationed`) | `Remembered`: an accepted event younger than an hour is in the window, however often the window was pruned, and `lastFire` is no earlier than any of its type; `AcceptedFit`: what one handler has accepted fits under the cap together with the rolling window, which holds every event of the span |
| `KillSwitchHidden` (`CapHidesKillSwitch`) | the recent events are among the rolling ones, so what the kill switch would refuse the cap has refused before; needs that the window is finite |
| `ToItsSupervisor` (`DeliveredToSupervisor`) | `TargetsHeld`: a cached session supervised the project when it was resolved |
| `ClaimsReportedOnce` (`ReportedOncePerHead`) | `ReportInv`: HEAD as it is read only grows, through cache and failures; while a claim is watched and not told, every earlier report of it was for a lower HEAD, and when none is watched every report was for a lower HEAD than the next read can give |

Where a proof needs induction it is done on sets: `LeastElement` (a nonempty set of
naturals has a least element) follows from the library's well-founded order on
finite subsets, and gives the end of a turn its existence.

**Only model-checked.** The liveness properties `VoiceLanesServed`,
`BackgroundServed`, `DrainReturns`, `FlightsLand`, `ColdStartsAnswered`,
`NoLastingGhost`, `InboxConsumed`, `EveryLineRead` and `QueuesDrain`: the prover does
not reason about fairness and ENABLED. Every other property of a passing run is
stated by a theorem.

## 5. Mutants

Each property of a passing run is violated by a small bug in a mapped definition:
a pump that is not scheduled, a deferred job put at the tail, a marker cleared on
failure, a lock that tells only terminal runs, a reaper without its mirror, a
cursor that advances on reading, an inbox without a chain, and so on.
`PROJECT.json` lists them.

## 6. Findings

Each is a statement of the repository that the code does not bear out, with a run
whose counterexample shows it; `PROJECT.json` quotes the lines.

1. `summary_erased`: the PTY host's `finally` calls `endBrainstorm` without a
   summary after the pipeline stored one, and replaces it by NULL.
2. `live_session_ended`: after a compaction restart, the old PTY's late exit ends
   the row and the anchor of the new session.
3. `bridge_halts`: a retried line halts its file, and the early return on `halted`
   keeps later ticks from retrying it or letting it age out.
4. `transcript_line_lost`: a tail that ends with a newline leaves an empty token that
   is counted as one more byte; the next line is read without its first byte and
   never recorded. It does not show when the writer is seen in the middle of a
   line, nor when the next pass comes after a torn or missing offset file.

More disagreements are stated as properties but have no run of their own. Each is
violated under the constants given here, which replace those of the named cfg:

* `AlwaysInLockstep` (an invariant; `MCDocIndex.cfg` with `MaxDeaths = 1` and no symmetry): a
  death between the renames of a flush that had an update or a deletion to write
  pairs vectors with the metadata of other records (`D/store/vector-store.ts:254`;
  239-242: "so the sidecar stays in lockstep with the binary blob").
* `ClearedStaysCleared` (`MCWorkerEvents.cfg`, alone under PROPERTIES): a claim that a commit cleared is still
  in the tail, so the next read watches it again from the new HEAD and, being past
  its grace, tells it at once as a shipment without a commit
  (`D/dashboard/worker-event-detect.ts:320`; 307-308: "a commit landed for it, no false
  shipment"; the test at `07-daemon/tests/worker-event-detect.test.ts:302` empties the tail
  before it looks).
* `EndOwesItsOwnSession` (`MCLiveSessionEnded.cfg` with `Ways = {"button", "crash"}`,
  `MaxCrashes = 1`): after a daemon death left a transcript ref open, the End
  button queues the distillation of that older session (`D/dashboard/routes.ts:2062`;
  2047-2050: "on the active transcript").
* `TerminalEndEndsRow` (`Sessions <- OneSession`, `Ways = {"voice", "flush"}`): a terminal
  end that joins the flush of a closing socket succeeds without ending the row
  (`D/lex/session-end-lock.ts:25`; 29-31: "the same pipeline function with the same
  input shape").
* `EndedAnchorStaysDormant` (`Ways = {"button", "compact"}`): an anchor ended while a
  compaction awaits its distillation is reopened by the compaction
  (`D/voice/lex-voice-ws.ts:2859`).
* `OwedUntilSummarised` (`Sessions <- OneSession`, `Indexed <- NoneIndexed`,
  `Ways = {"exit"}`): generator failures are caught inside the pipeline, which reports
  success, and the marker that would have forced a retry is cleared
  (`D/lex/session-end-pipeline.ts:831`; `D/lex/distill-pending.ts:57-58`).
* `BargeNeverResumes` (an invariant, with the constants of `MCReplyDelivery.cfg`): a
  barge kills what plays and what is queued, but not the ask in flight nor a
  redelivery, so later records of the very reply it cut are spoken
  (`D/voice/lex-voice-speak-controller.ts:266`, `D/voice/lex-voice-ws.ts:3022`;
  `lex-voice-ws.ts:3434`: "a barge never resumes. Drop the stash and STAY stopped").

What `CapHidesKillSwitch` proves is itself a disagreement: `docs/spec/EVENT-DRIVEN-SUPERVISION.md:97`
has a kill switch that flips a project to polling at more than 20 events in ten
minutes; with a cap of 12 an hour asked before it, it cannot.

Behaviours that no property asserts against yet: an overdue claim is marked as told
though the detector's gap or the gate drops it, an accepted event that finds no
session uses up the cap of events "forwarded to Lex", a restart forgets both; lines chained behind a retried
one pass it, an overtaking tick pastes a line twice, an empty offsets map counts
as a first run although an offsets file exists (bridge); two passes that overlap
record a line twice, which `transcript-watcher.ts:655-657` calls harmless and 620-623
does not.

## 7. Plan

Done: `GpuQueue`, `OwedDistill`, `SessionEnd`, `BridgeInbox`, `SnapshotStore`,
`VectorStore`, `DocIndex`, `TranscriptCapture`, `SpeakQueue`, `ReplyDelivery`, `WorkerEvents`,
and the proofs of section 4. Next, in order of what is at stake:

1. `SessionEnd` extended: the grooming day cap, archive and delete, a worker's
   detach flush, torn markers, and a composition with the crash-recovery sweep.
2. The boot race on pid file and spawn lock (`D/lifecycle/pid.ts`, `spawn.ts`).
3. `ReplyDelivery` with the voice brain's warm-up and liveness strikes, and the
   held and queued utterances of the socket.
4. Smart compact, on top of `BridgeInbox`.
5. `SessionEnd` composed with `GpuQueue`: the pipeline's drain as the queue's.

## 8. Not modelled, and why

Language-model sessions (judge, investigator, the verdicts of the expectation
supervisor) are request and response around output that is outside the program; of the voice brain only
the line of asks is modelled. Speech recognition, synthesis and audio buffering
are process I/O. The wiki
ingest, lint and curation are sequential transformations of files and rows. The
capture hooks and the dashboard keep no state of their own. Most lines of the
repository are vendored speech code (`08-dashboard/public/vad`), request parsing
in `routes.ts`, and prompts. SQL and the file
system are taken to do what their calls say, one call at a time.
