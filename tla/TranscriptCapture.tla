------------------------- MODULE TranscriptCapture -------------------------
(* The live transcript watcher (capture/transcript-watcher.ts) on one session *)
(* file of Claude Code, writing to the daemon's transcripts.jsonl and to the  *)
(* raw_chunks collection, whose promise is SnapshotStore.  A pass reads the   *)
(* bytes from the file's offset to its end, records each whole line, merges   *)
(* the lines of one turn into one chunk and awaits its embedding; the offset  *)
(* moves when the pass is over.  Passes overlap: chokidar's events and the    *)
(* catch-up scan of the boot start them without looking at each other.        *)
(*                                                                            *)
(* A line is its number and takes LineBytes bytes, the last of them the       *)
(* newline; it parses if it is read from its first byte.  A chunk of the      *)
(* lines i..j has the id of line j (file, last uuid, last byte) and content i.*)
(* Lines without text, the 8000-character cap, other files, files too old for *)
(* the catch-up scan and the time chokidar takes to be ready are left out.    *)
EXTENDS Naturals

CONSTANTS
    Passes,     \* bound: calls of processFile under way at a time
    LineBytes,
    MaxLines,   \* bound: lines ever written
    Turn,       \* the (session, role) of a line
    MaxCrashes  \* bound: deaths of the daemon

Lines == 1..MaxLines

ASSUME SizesAssumption ==
    /\ LineBytes \in Nat \ {0, 1}
    /\ MaxLines \in Nat /\ MaxCrashes \in Nat
    /\ DOMAIN Turn = Lines

VARIABLES
    size,       \* of the session file
    offset,     \* offsets[file], in memory and in transcript-offsets.json
    event,      \* a change, or the catch-up scan, is about to start a pass
    pass,
    captured,   \* how often transcripts.jsonl has a line, counted up to two
    chunks,     \* raw_chunks in memory
    savedChunks,
    crashes,
    cut,        \* history: lines whose first byte the reading pass never saw
    overlap,    \* history: two passes read at once, or a death cut one short
    unindexed,  \* history: lines whose chunk was not embedded, or died unsaved
    replaced    \* history: lines whose chunk gave way to a shorter one of its id

fileVars == <<size, offset, captured>>
historyVars == <<cut, overlap, unindexed, replaced>>
vars == <<fileVars, event, pass, chunks, savedChunks, crashes, historyVars>>

Chunks == [id : Lines, ver : Lines]
Store == INSTANCE SnapshotStore
             WITH Records <- Chunks, live <- chunks, saved <- savedChunks, damaged <- FALSE

Idle == [at |-> "idle", size |-> 0, start |-> 0, from |-> 0, next |-> 0]

TypeOK ==
    /\ size \in 0..(MaxLines * LineBytes)
    /\ offset \in 0..(MaxLines * LineBytes + 1)
    /\ event \in BOOLEAN
    /\ pass \in [Passes -> [at : {"idle", "stat", "open", "embed"},
                            size : 0..size, start : 0..size,
                            from : 0..MaxLines, next : 0..(MaxLines + 1)]]
    /\ captured \in [Lines -> 0..2]
    /\ chunks \in SUBSET Chunks
    /\ savedChunks \in SUBSET Chunks
    /\ crashes \in 0..MaxCrashes
    /\ cut \in SUBSET Lines
    /\ overlap \in BOOLEAN
    /\ unindexed \in SUBSET Lines
    /\ replaced \in SUBSET Lines

Init ==
    /\ size = 0
    /\ offset = 0
    /\ event = FALSE
    /\ pass = [p \in Passes |-> Idle]
    /\ captured = [l \in Lines |-> 0]
    /\ chunks = {}
    /\ savedChunks = {}
    /\ crashes = 0
    /\ cut = {}
    /\ overlap = FALSE
    /\ unindexed = {}
    /\ replaced = {}

-----------------------------------------------------------------------------
\* Whole lines in the first n bytes, and the first line that begins at byte n.
Whole(n) == n \div LineBytes
FirstFrom(n) == (n + LineBytes - 1) \div LineBytes + 1

LastLine(p) == Whole(pass[p].size)

\* The last line of the turn that line i belongs to, among those the pass read.
TurnEnd(p, i) ==
    CHOOSE j \in i..LastLine(p) :
        /\ \A k \in i..j : Turn[k] = Turn[i]
        /\ j < LastLine(p) => Turn[j + 1] # Turn[i]

\* Mutant: the offset passes the partial line at the end of what was read.
EndOffset_PastPartial(start, end) == end + 1

\* start + consumed.  When the bytes end with a newline, the empty token that
\* split() leaves behind it is counted as one more byte.
EndOffset(start, end) ==
    IF end % LineBytes = 0 THEN end + 1
    ELSE IF Whole(end) * LineBytes > start THEN Whole(end) * LineBytes
    ELSE start

\* The line whose head lies before the first byte read, once its end is read.
CutBy(start, end) ==
    {l \in Lines : (l - 1) * LineBytes < start /\ start < l * LineBytes /\ l * LineBytes <= end}

LinesOf(recs) == UNION {r.ver..r.id : r \in recs}

-----------------------------------------------------------------------------
\* Claude Code writes to its session file: whole lines, or a part of one.
Write ==
    /\ size < MaxLines * LineBytes
    /\ \E n \in 1..LineBytes :
         /\ size + n <= MaxLines * LineBytes
         /\ size' = size + n
    /\ event' = TRUE
    /\ UNCHANGED <<offset, captured, pass, chunks, savedChunks, crashes, historyVars>>

\* Mutant: an event is dropped while a pass is under way.
StartPass_OneAtATime(p) ==
    /\ event
    /\ pass[p].at = "idle"
    /\ event' = FALSE
    /\ pass' = IF \E q \in Passes : pass[q].at # "idle" THEN pass
               ELSE [pass EXCEPT ![p] = [Idle EXCEPT !.at = "stat", !.size = size]]
    /\ UNCHANGED <<fileVars, chunks, savedChunks, crashes, historyVars>>

\* onChange or the catch-up scan calls processFile, which awaits fsp.stat.
StartPass(p) ==
    /\ event
    /\ pass[p].at = "idle"
    /\ event' = FALSE
    /\ pass' = [pass EXCEPT ![p] = [Idle EXCEPT !.at = "stat", !.size = size]]
    /\ UNCHANGED <<fileVars, chunks, savedChunks, crashes, historyVars>>

Reading(q) == pass[q].at \in {"open", "embed"}

\* Mutant: the pass starts at the beginning of the file.
OpenTail_FromZero(p) ==
    /\ pass[p].at = "stat"
    /\ pass' = [pass EXCEPT ![p] = [@ EXCEPT !.at = "open", !.start = 0]]
    /\ overlap' = (overlap \/ \E q \in Passes : Reading(q))
    /\ UNCHANGED <<fileVars, event, chunks, savedChunks, crashes, cut, unindexed, replaced>>

\* readTail after its stat: nothing new, or open and read from the offset.
OpenTail(p) ==
    /\ pass[p].at = "stat"
    /\ IF pass[p].size <= offset
       THEN pass' = [pass EXCEPT ![p] = Idle] /\ UNCHANGED overlap
       ELSE /\ pass' = [pass EXCEPT ![p] = [@ EXCEPT !.at = "open", !.start = offset]]
            /\ overlap' = (overlap \/ \E q \in Passes : Reading(q))
    /\ UNCHANGED <<fileVars, event, chunks, savedChunks, crashes, cut, unindexed, replaced>>

\* Mutant: the line that begins the next turn is recorded after the embedding,
\* which skips it.
Scan_SkipsBoundary(p, from, next) ==
    LET end == TurnEnd(p, from)
    IN IF from > LastLine(p)
       THEN /\ offset' = EndOffset(pass[p].start, pass[p].size)
            /\ pass' = [pass EXCEPT ![p] = Idle]
            /\ cut' = cut \cup CutBy(pass[p].start, pass[p].size)
            /\ UNCHANGED captured
       ELSE /\ captured' = [l \in Lines |-> IF l \in next..end /\ captured[l] < 2
                                            THEN captured[l] + 1 ELSE captured[l]]
            /\ pass' = [pass EXCEPT ![p] = [@ EXCEPT !.at = "embed", !.from = from,
                                                     !.next = end + 2]]
            /\ UNCHANGED <<offset, cut>>

\* Mutant: the offset moves before the chunks are embedded.
Scan_OffsetFirst(p, from, next) ==
    LET end == TurnEnd(p, from)
        upTo == IF end < LastLine(p) THEN end + 1 ELSE end
    IN /\ offset' = EndOffset(pass[p].start, pass[p].size)
       /\ cut' = cut \cup CutBy(pass[p].start, pass[p].size)
       /\ IF from > LastLine(p)
          THEN pass' = [pass EXCEPT ![p] = Idle] /\ UNCHANGED captured
          ELSE /\ captured' = [l \in Lines |-> IF l \in next..upTo /\ captured[l] < 2
                                               THEN captured[l] + 1 ELSE captured[l]]
               /\ pass' = [pass EXCEPT ![p] = [@ EXCEPT !.at = "embed", !.from = from,
                                                        !.next = upTo + 1]]

\* The loop over the lines up to its next await: a turn, and the line that shows
\* it is over, are recorded before the turn's chunk is embedded.  Behind the last
\* line the offset moves and is saved.
Scan(p, from, next) ==
    LET end == TurnEnd(p, from)
        upTo == IF end < LastLine(p) THEN end + 1 ELSE end
    IN IF from > LastLine(p)
       THEN /\ offset' = EndOffset(pass[p].start, pass[p].size)
            /\ pass' = [pass EXCEPT ![p] = Idle]
            /\ cut' = cut \cup CutBy(pass[p].start, pass[p].size)
            /\ UNCHANGED captured
       ELSE /\ captured' = [l \in Lines |-> IF l \in next..upTo /\ captured[l] < 2
                                            THEN captured[l] + 1 ELSE captured[l]]
            /\ pass' = [pass EXCEPT ![p] = [@ EXCEPT !.at = "embed", !.from = from,
                                                     !.next = upTo + 1]]
            /\ UNCHANGED <<offset, cut>>

ScanFirst(p) ==
    /\ pass[p].at = "open"
    /\ Scan(p, FirstFrom(pass[p].start), FirstFrom(pass[p].start))
    /\ UNCHANGED <<size, event, chunks, savedChunks, crashes, overlap, unindexed, replaced>>

\* flushTurnBuf: the chunk is added, or its embedding failed and it is dropped.
Resume(p) ==
    /\ pass[p].at = "embed"
    /\ LET end == TurnEnd(p, pass[p].from)
       IN /\ \/ /\ Store!Put([id |-> end, ver |-> pass[p].from])
                /\ replaced' = (replaced \cup LinesOf(chunks)) \ LinesOf(chunks')
                /\ UNCHANGED unindexed
             \/ /\ unindexed' = unindexed \cup pass[p].from..end
                /\ UNCHANGED <<chunks, savedChunks, replaced>>
          /\ Scan(p, end + 1, pass[p].next)
    /\ UNCHANGED <<size, event, crashes, overlap>>

\* periodicFlushTick, and every other flush of the collection.
Flush ==
    /\ chunks # savedChunks
    /\ Store!Save
    /\ UNCHANGED <<fileVars, event, pass, crashes, historyVars>>

\* The daemon dies and boots: the catch-up scan looks for files longer than
\* their offset.
Restart(offsetFound) ==
    /\ crashes < MaxCrashes
    /\ crashes' = crashes + 1
    /\ offset' = offsetFound
    /\ event' = (size > offsetFound)
    /\ pass' = [p \in Passes |-> Idle]
    /\ Store!Crash
    /\ overlap' = (overlap \/ \E p \in Passes : pass[p].at = "embed")
    /\ unindexed' = unindexed \cup (LinesOf(chunks) \ LinesOf(savedChunks))
    /\ UNCHANGED <<size, captured, cut, replaced>>

DieAndBoot == Restart(offset)

\* Death inside saveOffsets' writeFileSync: a file that does not parse, {}.
DieInSave ==
    /\ \E p \in Passes : pass[p].at = "embed" /\ TurnEnd(p, pass[p].from) = LastLine(p)
    /\ Restart(0)

Next ==
    \/ Write \/ Flush \/ DieAndBoot \/ DieInSave
    \/ \E p \in Passes : StartPass(p) \/ OpenTail(p) \/ ScanFirst(p) \/ Resume(p)

\* chokidar delivers what changed, and what a pass awaits settles.
Fairness ==
    /\ WF_vars(\E p \in Passes : StartPass(p))
    /\ \A p \in Passes : WF_vars(OpenTail(p)) /\ WF_vars(ScanFirst(p)) /\ WF_vars(Resume(p))

Spec == Init /\ [][Next]_vars /\ Fairness

-----------------------------------------------------------------------------
Recorded(l) == captured[l] > 0 \/ l \in cut

\* The offset never passes a whole line that is neither in transcripts.jsonl nor
\* one that a pass began to read in its middle, in whatever order overlapping
\* passes finish and the daemon dies.
OnlyCutLinesSkipped == \A l \in 1..Whole(offset) : Recorded(l)

\* The lines cut by the passes that are reading.
BeingCut == UNION {CutBy(pass[p].start, pass[p].size) : p \in {q \in Passes : Reading(q)}}

\* transcripts.jsonl gets a line for the first time only after every earlier
\* line has been recorded or cut.
RecordedInOrder ==
    [][\A l \in Lines : captured[l] = 0 /\ captured'[l] > 0 =>
          \A k \in 1..(l - 1) : captured'[k] > 0 \/ k \in cut \cup BeingCut]_vars

\* A line is recorded twice only if two passes overlapped or a death cut one
\* short: processing a file again one after the other is harmless.
OnceUnlessOverlap == ~overlap => \A l \in Lines : captured[l] < 2

\* A line behind the offset is in a chunk of the collection, unless it was cut,
\* its embedding failed, a death took the chunk before a flush, or an overlapping
\* pass, which began in the middle of the turn, replaced the chunk by its own.
IndexedUnlessLost ==
    \A l \in 1..Whole(offset) :
        \/ l \in cut \cup unindexed \cup LinesOf(chunks)
        \/ overlap /\ l \in replaced

\* Every line written gets recorded or cut: overlapping passes may set the
\* offset back, but none of them loses the event of a later line.
EveryLineRead == \A l \in Lines : size >= l * LineBytes ~> Recorded(l)

\* transcript-watcher.ts: advance the offset only past complete lines, and these
\* are all processed.
EveryPassedLineRecorded == \A l \in 1..Whole(offset) : captured[l] > 0
=============================================================================
