---------------------------- MODULE VectorStore ----------------------------
(* One collection of store/vector-store.ts: parallel arrays in memory, and on *)
(* disk a file of packed vectors (.vec) beside a file of metadata lines       *)
(* (.meta.jsonl).  add() appends a metadata line at once; flush() rewrites    *)
(* both files, one atomic rename after the other; load() pairs the i-th       *)
(* vector with the i-th line and truncates the longer side.                   *)
(*                                                                            *)
(* A record stands for what one add() wrote: vectors[i] = r says that place i *)
(* holds the vector of r, entries[i] = r that it holds the id and metadata of *)
(* r.  The header, whose count nobody reads back, is left out, as is the      *)
(* first flush of an empty collection, which creates an empty file.           *)
EXTENDS Naturals, Sequences

CONSTANTS
    Ids,        \* record ids
    Versions    \* contents a record of an id may have

Records == [id : Ids, ver : Versions]

VARIABLES
    vectors,    \* this.vectors
    entries,    \* this.ids and this.metadata
    dirty,
    vecFile,    \* <name>.vec
    metaFile,   \* <name>.meta.jsonl: the lines that parse
    partial,    \* its last line has no end: the next append is glued to it
    edited,     \* history: since the last flush or load something happened
                \* that an appended metadata line does not express
    torn        \* history: a death between the renames while edited

memVars == <<vectors, entries, dirty>>
fileVars == <<vecFile, metaFile, partial>>
storeVars == <<memVars, fileVars, edited, torn>>

StoreType ==
    /\ vectors \in Seq(Records)
    /\ entries \in Seq(Records)
    /\ Len(vectors) = Len(entries)
    /\ dirty \in BOOLEAN
    /\ vecFile \in Seq(Records)
    /\ metaFile \in Seq(Records)
    /\ partial \in BOOLEAN
    /\ edited \in BOOLEAN
    /\ torn \in BOOLEAN

StoreInit ==
    /\ vectors = <<>>
    /\ entries = <<>>
    /\ dirty = FALSE
    /\ vecFile = <<>>
    /\ metaFile = <<>>
    /\ partial = FALSE
    /\ edited = FALSE
    /\ torn = FALSE

-----------------------------------------------------------------------------
\* idToIndex: the last place of an id, as load() and deleteWhere() rebuild it.
Places(id) == {i \in 1..Len(entries) : entries[i].id = id}
IndexOf(id) == CHOOSE i \in Places(id) : \A j \in Places(id) : j <= i

\* Mutant: an update writes the metadata and forgets the vector.
Add_KeepsOldVector(r) ==
    /\ IF Places(r.id) = {}
       THEN vectors' = Append(vectors, r) /\ entries' = Append(entries, r)
       ELSE entries' = [entries EXCEPT ![IndexOf(r.id)] = r] /\ UNCHANGED vectors
    /\ dirty' = TRUE
    /\ metaFile' = IF partial THEN metaFile ELSE Append(metaFile, r)
    /\ partial' = FALSE
    /\ edited' = (edited \/ partial \/ Places(r.id) # {})
    /\ UNCHANGED <<vecFile, torn>>

\* Mutant: the id is never looked up.
Add_AlwaysPushes(r) ==
    /\ vectors' = Append(vectors, r)
    /\ entries' = Append(entries, r)
    /\ dirty' = TRUE
    /\ metaFile' = IF partial THEN metaFile ELSE Append(metaFile, r)
    /\ partial' = FALSE
    /\ edited' = (edited \/ partial)
    /\ UNCHANGED <<vecFile, torn>>

\* An update in place, or a push; either way a metadata line is appended.
Add(r) ==
    /\ IF Places(r.id) = {}
       THEN vectors' = Append(vectors, r) /\ entries' = Append(entries, r)
       ELSE LET i == IndexOf(r.id)
            IN vectors' = [vectors EXCEPT ![i] = r] /\ entries' = [entries EXCEPT ![i] = r]
    /\ dirty' = TRUE
    /\ metaFile' = IF partial THEN metaFile ELSE Append(metaFile, r)
    /\ partial' = FALSE
    /\ edited' = (edited \/ partial \/ Places(r.id) # {})
    /\ UNCHANGED <<vecFile, torn>>

\* deleteWhere: what is left keeps its order, in memory alone.
DeleteWhere(gone) ==
    LET kept == {i \in 1..Len(entries) : entries[i] \notin gone}
    IN /\ kept # 1..Len(entries)
       /\ \E n \in 0..Len(entries) : \E place \in [1..n -> kept] :
            /\ \A i, j \in 1..n : i < j => place[i] < place[j]
            /\ \A k \in kept : \E i \in 1..n : place[i] = k
            /\ vectors' = [i \in 1..n |-> vectors[place[i]]]
            /\ entries' = [i \in 1..n |-> entries[place[i]]]
       /\ dirty' = TRUE
       /\ edited' = TRUE
       /\ UNCHANGED <<fileVars, torn>>

Flush ==
    /\ dirty
    /\ vecFile' = vectors
    /\ metaFile' = entries
    /\ partial' = FALSE
    /\ dirty' = FALSE
    /\ edited' = FALSE
    /\ UNCHANGED <<vectors, entries, torn>>

\* Mutant: the shorter side is not what decides.
Load_KeepsMetadata(vec, meta, unended) ==
    /\ vectors' = vec
    /\ entries' = meta
    /\ dirty' = (Len(vec) # Len(meta))
    /\ vecFile' = vec
    /\ metaFile' = meta
    /\ partial' = unended
    /\ edited' = FALSE

\* load() on these files: pair, truncate the longer side, rewrite the metadata
\* file if there was one.
Load(vec, meta, unended) ==
    LET n == IF Len(vec) <= Len(meta) THEN Len(vec) ELSE Len(meta)
        mismatch == Len(vec) # Len(meta)
    IN /\ vectors' = SubSeq(vec, 1, n)
       /\ entries' = SubSeq(meta, 1, n)
       /\ dirty' = mismatch
       /\ vecFile' = vec
       /\ metaFile' = SubSeq(meta, 1, n)
       /\ partial' = (unended /\ ~mismatch)
       /\ edited' = FALSE

\* The process dies and the daemon opens the store again: at rest, inside
\* appendFileSync, or between flush()'s rename of .vec and that of .meta.jsonl.
DieAndLoad == Load(vecFile, metaFile, partial) /\ UNCHANGED torn

DieInAppend == Load(vecFile, metaFile, TRUE) /\ UNCHANGED torn

DieInFlush ==
    /\ dirty
    /\ Load(vectors, metaFile, partial)
    /\ torn' = (torn \/ edited)

StoreNext ==
    \/ \E r \in Records : Add(r)
    \/ \E gone \in SUBSET Records : DeleteWhere(gone)
    \/ Flush
    \/ DieAndLoad \/ DieInAppend \/ DieInFlush

StoreSpec == StoreInit /\ [][StoreNext]_storeVars

-----------------------------------------------------------------------------
\* Every vector stands beside its own metadata, through updates, deletions,
\* deaths and truncations, unless a death tore a flush that had edits to write.
Lockstep == ~torn => vectors = entries

\* An id has one record, whatever was appended for it and reloaded.
OneRecordPerId ==
    ~torn => \A i, j \in 1..Len(entries) : entries[i].id = entries[j].id => i = j

Elements(s) == {s[i] : i \in 1..Len(s)}

Snapshots == INSTANCE SnapshotStore
                 WITH live <- Elements(entries), saved <- Elements(vecFile), damaged <- torn

\* The code keeps the promise of SnapshotStore: a death brings back exactly what
\* the last flush wrote.
KeepsSnapshotPromise == Snapshots!Spec

\* vector-store.ts: the sidecar stays in lockstep with the binary blob.
AlwaysInLockstep == vectors = entries
=============================================================================
