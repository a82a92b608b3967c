------------------------------ MODULE DocIndex ------------------------------
(* One markdown document of a project in the raw_chunks collection: the watch *)
(* of its directory (lex/project-doc-watcher.ts), the indexers it and         *)
(* /lex/index-docs call (lex/project-doc-index.ts), and the collection itself *)
(* with its deaths and reloads (VectorStore), which the transcript watcher    *)
(* writes to as well.                                                         *)
(*                                                                            *)
(* A body of the document has chunks, each with the id of its first line; a   *)
(* record's version is the body its text was read from.  What awaits is the   *)
(* embedding: a job holds the chunks of the body it read and adds them when   *)
(* their vectors arrive, one synchronous add after the other.                 *)
EXTENDS VectorStore

CONSTANTS
    Bodies,     \* versions of the document, Absent among them
    Absent,
    ChunksOf,   \* the lines at which the chunks of a body begin
    Foreign,    \* ids of records of other writers
    Jobs,       \* bound: settles and index requests under way at a time
    MaxEdits, MaxForeign, MaxFailures, MaxDeaths    \* bounds

ASSUME DocAssumption ==
    /\ Bodies = Versions /\ Absent \in Bodies
    /\ ChunksOf \in [Bodies -> SUBSET (Ids \ Foreign)]
    /\ ChunksOf[Absent] = {}
    /\ Ids \subseteq Nat /\ Foreign \subseteq Ids
    /\ MaxEdits \in Nat /\ MaxForeign \in Nat /\ MaxFailures \in Nat /\ MaxDeaths \in Nat

VARIABLES
    body,       \* what is on disk now
    watching,   \* docWatchers has a coordinator for the project
    pending,    \* a change event, or its debounce timer
    job,
    edits, foreigns, failures, deaths,
    muddled     \* history: since a settle that ran alone, one more job ran
                \* beside another, failed or died, or a change went unwatched

docVars == <<body, watching, pending, job, muddled>>
countVars == <<edits, foreigns, failures, deaths>>
vars == <<storeVars, docVars, countVars>>

NoJob == [at |-> "none", kind |-> "settle", ver |-> Absent, todo |-> {}]

DocType ==
    /\ StoreType
    /\ body \in Bodies
    /\ watching \in BOOLEAN
    /\ pending \in BOOLEAN
    /\ job \in [Jobs -> [at : {"none", "embed", "add"}, kind : {"settle", "index"},
                         ver : Bodies, todo : SUBSET Ids]]
    /\ edits \in 0..MaxEdits
    /\ foreigns \in 0..MaxForeign
    /\ failures \in 0..MaxFailures
    /\ deaths \in 0..MaxDeaths
    /\ muddled \in BOOLEAN

Init ==
    /\ StoreInit
    /\ body = Absent
    /\ watching = FALSE
    /\ pending = FALSE
    /\ job = [j \in Jobs |-> NoJob]
    /\ edits = 0
    /\ foreigns = 0
    /\ failures = 0
    /\ deaths = 0
    /\ muddled = FALSE

-----------------------------------------------------------------------------
DocRecords == {r \in Records : r.id \notin Foreign}
Running(j) == job[j].at # "none"
Alone(j) == \A k \in Jobs \ {j} : ~Running(k)

\* A job that is adding goes on without giving way to the event loop.
EventLoopFree == \A j \in Jobs : job[j].at # "add"

\* Someone writes or deletes the document.
Edit ==
    /\ edits < MaxEdits
    /\ \E b \in Bodies \ {body} : body' = b
    /\ edits' = edits + 1
    /\ pending' = (pending \/ watching)
    /\ muddled' = (muddled \/ ~watching)
    /\ UNCHANGED <<storeVars, watching, job, foreigns, failures, deaths>>

\* POST /lex/watch-docs start and stop: the prior coordinator is closed, and its
\* timers with it.
WatchRoute ==
    /\ EventLoopFree
    /\ watching' \in BOOLEAN
    /\ watching' \/ watching
    /\ pending' = FALSE
    /\ muddled' = (muddled \/ pending)
    /\ UNCHANGED <<storeVars, body, job, countVars>>

\* removeDocFile: the records of the document go, if there are any.
RemoveDocFile ==
    \/ DeleteWhere(DocRecords)
    \/ /\ \A i \in 1..Len(entries) : entries[i] \notin DocRecords
       /\ UNCHANGED storeVars

\* Mutant: the re-indexer adds without removing.
Settle_KeepsOldChunks(j) ==
    /\ EventLoopFree
    /\ pending
    /\ pending' = FALSE
    /\ ~Running(j)
    /\ job' = [job EXCEPT ![j] = [at |-> IF ChunksOf[body] = {} THEN "add" ELSE "embed",
                                  kind |-> "settle", ver |-> body, todo |-> ChunksOf[body]]]
    /\ muddled' = ~Alone(j)
    /\ UNCHANGED <<storeVars, body, watching, countVars>>

\* The debounce timer fires: settle() removes the document's records, reads the
\* file and awaits the embedding of its chunks.
Settle(j) ==
    /\ EventLoopFree
    /\ pending
    /\ pending' = FALSE
    /\ ~Running(j)
    /\ RemoveDocFile
    /\ job' = [job EXCEPT ![j] = [at |-> IF ChunksOf[body] = {} THEN "add" ELSE "embed",
                                  kind |-> "settle", ver |-> body, todo |-> ChunksOf[body]]]
    /\ muddled' = ~Alone(j)
    /\ UNCHANGED <<body, watching, countVars>>

\* POST /lex/index-docs: collects the corpus; what the document no longer has
\* stays in the collection.
IndexRoute(j) ==
    /\ EventLoopFree
    /\ ~Running(j)
    /\ job' = [job EXCEPT ![j] = [at |-> IF ChunksOf[body] = {} THEN "add" ELSE "embed",
                                  kind |-> "index", ver |-> body, todo |-> ChunksOf[body]]]
    /\ muddled' = (muddled \/ ~Alone(j))
    /\ UNCHANGED <<storeVars, body, watching, pending, countVars>>

\* embedMany resolves, or it rejects: the job is over, and nothing is flushed.
Embedded(j) ==
    /\ EventLoopFree
    /\ job[j].at = "embed"
    /\ \/ /\ job' = [job EXCEPT ![j].at = "add"]
          /\ UNCHANGED <<muddled, failures>>
       \/ /\ failures < MaxFailures
          /\ failures' = failures + 1
          /\ job' = [job EXCEPT ![j] = NoJob]
          /\ muddled' = TRUE
    /\ UNCHANGED <<storeVars, body, watching, pending, edits, foreigns, deaths>>

\* embedAndAddChunks: the next chunk in the order of the lines.  Which one is
\* the last of its batch is left open; behind it the next batch is embedded.
AddChunk(j) ==
    /\ job[j].at = "add"
    /\ \E i \in job[j].todo :
         /\ \A k \in job[j].todo : i <= k
         /\ Add([id |-> i, ver |-> job[j].ver])
         /\ \E next \in {"add", "embed"} :
              /\ next = "embed" => job[j].todo # {i}
              /\ job' = [job EXCEPT ![j].todo = @ \ {i}, ![j].at = next]
    /\ UNCHANGED <<body, watching, pending, muddled, countVars>>

\* The job flushes the collection, which does nothing if it is clean.
FinishJob(j) ==
    /\ job[j].at = "add" /\ job[j].todo = {}
    /\ job' = [job EXCEPT ![j] = NoJob]
    /\ Flush \/ (~dirty /\ UNCHANGED storeVars)
    /\ UNCHANGED <<body, watching, pending, muddled, countVars>>

\* The transcript watcher adds a chunk of its own, or rewrites one.
AddForeign ==
    /\ EventLoopFree
    /\ foreigns < MaxForeign
    /\ foreigns' = foreigns + 1
    /\ \E r \in Records \ DocRecords : r.ver # Absent /\ Add(r)
    /\ UNCHANGED <<docVars, edits, failures, deaths>>

\* periodicFlushTick, and the flush of the shutdown.
PeriodicFlush ==
    /\ EventLoopFree
    /\ Flush
    /\ UNCHANGED <<docVars, countVars>>

\* The daemon dies and boots.  No watch is restored and nothing is re-indexed.
Die ==
    /\ deaths < MaxDeaths
    /\ deaths' = deaths + 1
    /\ DieAndLoad \/ DieInAppend \/ DieInFlush
    /\ watching' = FALSE
    /\ pending' = FALSE
    /\ job' = [j \in Jobs |-> NoJob]
    /\ muddled' = (muddled \/ pending \/ \E j \in Jobs : Running(j))
    /\ UNCHANGED <<body, edits, foreigns, failures>>

Next ==
    \/ Edit \/ WatchRoute \/ AddForeign \/ PeriodicFlush \/ Die
    \/ \E j \in Jobs : Settle(j) \/ IndexRoute(j) \/ Embedded(j) \/ AddChunk(j) \/ FinishJob(j)

Spec == Init /\ [][Next]_vars

-----------------------------------------------------------------------------
\* The chunks of the document as it is now.
Fresh == {[id |-> i, ver |-> body] : i \in ChunksOf[body]}

\* When a settle has run alone and nothing is under way, the collection has the
\* document's present chunks and no others, in memory and in the files a death
\* would go back to, whatever the other writers and the requests in between did.
FreshWhenSettled ==
    ~muddled /\ ~pending /\ ~torn /\ (\A j \in Jobs : ~Running(j)) =>
        /\ Elements(entries) \cap DocRecords = Fresh
        /\ Elements(vecFile) \cap DocRecords = Fresh
=============================================================================
