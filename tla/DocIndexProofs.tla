--------------------------- MODULE DocIndexProofs ---------------------------
(* A collection of vectors and the document index that writes to it.  The     *)
(* first part is about VectorStore, for every set of ids and versions and     *)
(* whatever calls its owner makes: the pairing of vectors and metadata, one   *)
(* record per id, and the promise of SnapshotStore.  The second is about the  *)
(* index, for every set of chunks, jobs and bounds: its types, that all it    *)
(* does to the collection is calls of VectorStore, hence what the first part  *)
(* proves of those, and that a settle which ran alone leaves the index fresh. *)
EXTENDS DocIndex, SequenceTheorems, TLAPS

UniqueIds(s) == \A i, j \in 1..Len(s) : s[i].id = s[j].id => i = j

\* The inductive invariant.  Its last parts say what a reload relies on: the
\* metadata file continues the vector file, and is the memory's exact image as
\* long as nothing was edited; a clean collection is the one in the vector file.
StoreInv ==
    /\ StoreType
    /\ ~torn => /\ vectors = entries
                /\ UniqueIds(entries)
                /\ UniqueIds(vecFile)
                /\ Len(vecFile) <= Len(metaFile)
                /\ \A i \in 1..Len(vecFile) : metaFile[i] = vecFile[i]
                /\ ~edited => metaFile = entries
                /\ ~dirty => vecFile = entries

-----------------------------------------------------------------------------
\* What Append makes, in the terms the proofs below need.
LEMMA AppendedSeq ==
    ASSUME NEW S, NEW s \in Seq(S), NEW x \in S
    PROVE  /\ Append(s, x) \in Seq(S)
           /\ Len(Append(s, x)) = Len(s) + 1
           /\ \A i \in 1..Len(s) : Append(s, x)[i] = s[i]
           /\ Append(s, x)[Len(s) + 1] = x
  OBVIOUS

\* An update outside the sequence changes nothing.
LEMMA UpdatedSeq ==
    ASSUME NEW S, NEW s \in Seq(S), NEW x \in S, NEW k
    PROVE  /\ [s EXCEPT ![k] = x] \in Seq(S)
           /\ Len([s EXCEPT ![k] = x]) = Len(s)
<1>1. CASE k \in 1..Len(s)
  BY <1>1, ExceptSeq
<1>2. CASE k \notin 1..Len(s)
  <2>1. DOMAIN s = 1..Len(s)
    OBVIOUS
  <2>2. [s EXCEPT ![k] = x] = s
    BY <1>2, <2>1
  <2> QED
    BY <2>2
<1> QED
  BY <1>1, <1>2

\* A truncation keeps what it leaves.
LEMMA HeadSeq ==
    ASSUME NEW S, NEW s \in Seq(S), NEW n \in 0..Len(s)
    PROVE  /\ SubSeq(s, 1, n) \in Seq(S)
           /\ Len(SubSeq(s, 1, n)) = n
           /\ \A i \in 1..n : SubSeq(s, 1, n)[i] = s[i]
  OBVIOUS

\* A choice of places is a sequence of what stands there.
LEMMA PickedSeq ==
    ASSUME NEW S, NEW s \in Seq(S), NEW n \in Nat, NEW place \in [1..n -> 1..Len(s)]
    PROVE  /\ [i \in 1..n |-> s[place[i]]] \in Seq(S)
           /\ Len([i \in 1..n |-> s[place[i]]]) = n
           /\ \A i \in 1..n : [j \in 1..n |-> s[place[j]]][i] = s[place[i]]
  OBVIOUS

-----------------------------------------------------------------------------
\* An empty collection has all of it.
LEMMA StoreInvInit == StoreInit => StoreInv
<1> SUFFICES ASSUME StoreInit PROVE StoreInv
  OBVIOUS
<1>1. /\ vectors = <<>> /\ entries = <<>> /\ vecFile = <<>> /\ metaFile = <<>>
      /\ dirty = FALSE /\ partial = FALSE /\ edited = FALSE /\ torn = FALSE
  BY DEF StoreInit
<1>2. <<>> \in Seq(Records) /\ Len(<<>>) = 0
  OBVIOUS
<1>3. StoreType
  BY <1>1, <1>2 DEF StoreType
<1>4. 1..0 = {}
  OBVIOUS
<1> QED
  BY <1>1, <1>2, <1>3, <1>4 DEF StoreInv, UniqueIds

\* The only place of an id is the one IndexOf chooses.
LEMMA OnlyPlace ==
    ASSUME StoreType, UniqueIds(entries), NEW id, NEW k \in Places(id)
    PROVE  /\ IndexOf(id) = k
           /\ k \in 1..Len(entries) /\ entries[k].id = id
           /\ \A i \in 1..Len(entries) : entries[i].id = id => i = k
<1>1. \A i \in Places(id) : i = k
  BY DEF Places, UniqueIds
<1>2. k \in Int
  BY DEF Places, StoreType
<1>3. \A j \in Places(id) : j <= k
  BY <1>1, <1>2
<1>4. IndexOf(id) \in Places(id)
  BY <1>3 DEF IndexOf
<1> QED
  BY <1>1, <1>4 DEF Places

\* add appends to memory and to the metadata file.
LEMMA AddKeepsType ==
    ASSUME StoreType, NEW r \in Records, Add(r)
    PROVE  StoreType'
<1>1. metaFile' \in Seq(Records) /\ vecFile' \in Seq(Records)
  BY AppendedSeq DEF Add, StoreType
<1>0. dirty' \in BOOLEAN /\ partial' \in BOOLEAN /\ edited' \in BOOLEAN /\ torn' \in BOOLEAN
  BY Zenon DEF Add, StoreType
<1>2. CASE Places(r.id) = {}
  <2>1. vectors' = Append(vectors, r) /\ entries' = Append(entries, r)
    BY <1>2 DEF Add
  <2>2. /\ vectors' \in Seq(Records) /\ entries' \in Seq(Records)
        /\ Len(vectors') = Len(entries')
    BY <2>1, AppendedSeq DEF StoreType
  <2> QED
    BY <1>0, <1>1, <2>2 DEF StoreType
<1>3. CASE Places(r.id) # {}
  <2>1. vectors' = [vectors EXCEPT ![IndexOf(r.id)] = r]
        /\ entries' = [entries EXCEPT ![IndexOf(r.id)] = r]
    BY <1>3 DEF Add
  <2>2. vectors' \in Seq(Records) /\ Len(vectors') = Len(vectors)
    BY <2>1, UpdatedSeq DEF StoreType
  <2>3. entries' \in Seq(Records) /\ Len(entries') = Len(entries)
    BY <2>1, UpdatedSeq DEF StoreType
  <2> QED
    BY <1>0, <1>1, <2>2, <2>3 DEF StoreType
<1> QED
  BY <1>2, <1>3

\* An add in place or at the end keeps the files to what a reload needs.
LEMMA AddKeepsInv ==
    ASSUME StoreInv, NEW r \in Records, Add(r)
    PROVE  StoreInv'
<1>1. StoreType'
  BY AddKeepsType DEF StoreInv
<1> SUFFICES ASSUME ~torn'
             PROVE  /\ (vectors = entries)'
                    /\ UniqueIds(entries)'
                    /\ UniqueIds(vecFile)'
                    /\ (Len(vecFile) <= Len(metaFile))'
                    /\ (\A i \in 1..Len(vecFile) : metaFile[i] = vecFile[i])'
                    /\ ~edited' => (metaFile = entries)'
                    /\ ~dirty' => (vecFile = entries)'
  BY <1>1 DEF StoreInv
<1>2. StoreType /\ ~torn /\ dirty'
  BY DEF StoreInv, Add
<1>3. vectors = entries /\ UniqueIds(entries)
  BY <1>2 DEF StoreInv
<1>4. UniqueIds(vecFile)'
  BY <1>2 DEF StoreInv, Add, UniqueIds
<1>5. /\ (Len(vecFile) <= Len(metaFile))'
      /\ (\A i \in 1..Len(vecFile) : metaFile[i] = vecFile[i])'
  <2>1. /\ Len(vecFile) <= Len(metaFile)
        /\ \A i \in 1..Len(vecFile) : metaFile[i] = vecFile[i]
        /\ vecFile' = vecFile
    BY <1>2 DEF StoreInv, Add
  <2>2. CASE partial
    <3>1. metaFile' = metaFile
      BY <2>2 DEF Add
    <3> QED
      BY <2>1, <3>1
  <2>3. CASE ~partial
    <3>1. metaFile' = Append(metaFile, r)
      BY <2>3 DEF Add
    <3>2. Len(vecFile) \in Nat /\ Len(metaFile) \in Nat
      BY <1>2 DEF StoreType
    <3>3. /\ Len(metaFile') = Len(metaFile) + 1
          /\ \A i \in 1..Len(metaFile) : metaFile'[i] = metaFile[i]
      BY <3>1, <1>2, AppendedSeq DEF StoreType
    <3>4. \A i \in 1..Len(vecFile) : i \in 1..Len(metaFile)
      BY <2>1, <3>2
    <3> QED
      BY <2>1, <3>2, <3>3, <3>4
  <2> QED
    BY <2>2, <2>3
<1>6. CASE Places(r.id) = {}
  <2>1. vectors' = Append(vectors, r) /\ entries' = Append(entries, r)
    BY <1>6 DEF Add
  <2>2. (vectors = entries)'
    BY <1>3, <2>1
  <2>3. /\ Len(entries') = Len(entries) + 1
        /\ \A i \in 1..Len(entries) : entries'[i] = entries[i]
        /\ entries'[Len(entries) + 1] = r
    BY <1>2, <2>1, AppendedSeq DEF StoreType
  <2>4. \A i \in 1..Len(entries) : entries[i].id # r.id
    BY <1>6 DEF Places
  <2>5. Len(entries) \in Nat
    BY <1>2 DEF StoreType
  <2>6. \A i \in 1..Len(entries') : i \in 1..Len(entries) \/ i = Len(entries) + 1
    BY <2>3, <2>5
  <2>7. UniqueIds(entries)'
    <3> SUFFICES ASSUME NEW i \in 1..Len(entries'), NEW j \in 1..Len(entries'),
                        entries'[i].id = entries'[j].id
                 PROVE  i = j
      BY DEF UniqueIds
    <3> QED
      BY <1>3, <2>3, <2>4, <2>6 DEF UniqueIds
  <2>8. ~edited' => (metaFile = entries)'
    <3> SUFFICES ASSUME ~edited' PROVE (metaFile = entries)'
      OBVIOUS
    <3>1. ~edited /\ ~partial
      BY DEF Add
    <3>2. metaFile = entries
      BY <1>2, <3>1 DEF StoreInv
    <3> QED
      BY <2>1, <3>1, <3>2 DEF Add
  <2> QED
    BY <1>2, <1>4, <1>5, <2>2, <2>7, <2>8
<1>7. CASE Places(r.id) # {}
  <2>0. PICK k \in Places(r.id) : TRUE
    BY <1>7
  <2>1. vectors' = [vectors EXCEPT ![IndexOf(r.id)] = r]
        /\ entries' = [entries EXCEPT ![IndexOf(r.id)] = r]
    BY <1>7 DEF Add
  <2>2. (vectors = entries)'
    BY <1>3, <2>1
  <2>3. /\ IndexOf(r.id) = k
        /\ k \in 1..Len(entries) /\ entries[k].id = r.id
    BY <1>2, <1>3, OnlyPlace
  <2>4. /\ Len(entries') = Len(entries)
        /\ \A i \in 1..Len(entries) : entries'[i] = IF i = k THEN r ELSE entries[i]
    BY <1>2, <2>1, <2>3, ExceptSeq DEF StoreType
  <2>5. \A i \in 1..Len(entries) : entries'[i].id = entries[i].id
    BY <2>3, <2>4
  <2>6. UniqueIds(entries)'
    BY <1>3, <2>4, <2>5 DEF UniqueIds
  <2>7. edited'
    BY <1>7 DEF Add
  <2> QED
    BY <1>2, <1>4, <1>5, <2>2, <2>6, <2>7
<1> QED
  BY <1>6, <1>7

\* What DeleteWhere leaves: the kept places, in their order.
LEMMA DeleteShape ==
    ASSUME StoreType, NEW gone \in SUBSET Records, DeleteWhere(gone)
    PROVE  \E n \in Nat : \E place \in [1..n -> 1..Len(entries)] :
              /\ \A i, j \in 1..n : i < j => place[i] < place[j]
              /\ \A i \in 1..n : entries[place[i]] \notin gone
              /\ \A k \in 1..Len(entries) :
                    entries[k] \notin gone => \E i \in 1..n : place[i] = k
              /\ vectors' = [i \in 1..n |-> vectors[place[i]]]
              /\ entries' = [i \in 1..n |-> entries[place[i]]]
<1> DEFINE kept == {i \in 1..Len(entries) : entries[i] \notin gone}
<1>1. PICK n \in 0..Len(entries) : \E place \in [1..n -> kept] :
            /\ \A i, j \in 1..n : i < j => place[i] < place[j]
            /\ \A k \in kept : \E i \in 1..n : place[i] = k
            /\ vectors' = [i \in 1..n |-> vectors[place[i]]]
            /\ entries' = [i \in 1..n |-> entries[place[i]]]
  BY DEF DeleteWhere
<1>2. PICK place \in [1..n -> kept] :
            /\ \A i, j \in 1..n : i < j => place[i] < place[j]
            /\ \A k \in kept : \E i \in 1..n : place[i] = k
            /\ vectors' = [i \in 1..n |-> vectors[place[i]]]
            /\ entries' = [i \in 1..n |-> entries[place[i]]]
  BY <1>1
<1>3. n \in Nat
  BY DEF StoreType
<1>4. place \in [1..n -> 1..Len(entries)]
  BY <1>2
<1>5. \A i \in 1..n : entries[place[i]] \notin gone
  BY <1>2
<1>6. \A k \in 1..Len(entries) : entries[k] \notin gone => \E i \in 1..n : place[i] = k
  BY <1>2
<1> QED
  BY <1>2, <1>3, <1>4, <1>5, <1>6

\* deleteWhere packs vectors and metadata alike, and writes nothing.
LEMMA DeleteKeepsInv ==
    ASSUME StoreInv, NEW gone \in SUBSET Records, DeleteWhere(gone)
    PROVE  StoreInv'
<1>1. StoreType
  BY DEF StoreInv
<1>2. PICK n \in Nat : \E place \in [1..n -> 1..Len(entries)] :
            /\ \A i, j \in 1..n : i < j => place[i] < place[j]
            /\ \A i \in 1..n : entries[place[i]] \notin gone
            /\ \A k \in 1..Len(entries) :
                  entries[k] \notin gone => \E i \in 1..n : place[i] = k
            /\ vectors' = [i \in 1..n |-> vectors[place[i]]]
            /\ entries' = [i \in 1..n |-> entries[place[i]]]
  BY <1>1, DeleteShape
<1>3. PICK place \in [1..n -> 1..Len(entries)] :
            /\ \A i, j \in 1..n : i < j => place[i] < place[j]
            /\ vectors' = [i \in 1..n |-> vectors[place[i]]]
            /\ entries' = [i \in 1..n |-> entries[place[i]]]
  BY <1>2
<1>4. place \in [1..n -> 1..Len(vectors)]
  BY <1>1 DEF StoreType
<1>5. vectors' \in Seq(Records) /\ Len(vectors') = n
  BY <1>1, <1>3, <1>4, PickedSeq DEF StoreType
<1>6. /\ entries' \in Seq(Records) /\ Len(entries') = n
      /\ \A i \in 1..n : entries'[i] = entries[place[i]]
  BY <1>1, <1>3, PickedSeq DEF StoreType
<1>7. UNCHANGED <<vecFile, metaFile, partial, torn>> /\ dirty' = TRUE /\ edited' = TRUE
  BY DEF DeleteWhere, fileVars
<1>8. StoreType'
  BY <1>1, <1>5, <1>6, <1>7 DEF StoreType
<1>9. ASSUME ~torn, UniqueIds(entries)
      PROVE  UniqueIds(entries)'
  <2> SUFFICES ASSUME NEW i \in 1..Len(entries'), NEW j \in 1..Len(entries'),
                      entries'[i].id = entries'[j].id
               PROVE  i = j
    BY DEF UniqueIds
  <2>1. i \in 1..n /\ j \in 1..n
    BY <1>6
  <2>2. place[i] = place[j]
    BY <1>6, <1>9, <2>1 DEF UniqueIds
  <2>3. Len(entries) \in Nat
    BY <1>1 DEF StoreType
  <2>4. place[i] \in Int /\ place[j] \in Int
    BY <2>1, <2>3
  <2> QED
    BY <1>3, <2>1, <2>2, <2>4
<1>10. ASSUME ~torn, vectors = entries
       PROVE  (vectors = entries)'
  BY <1>3, <1>10
<1> QED
  BY <1>7, <1>8, <1>9, <1>10 DEF StoreInv, UniqueIds

\* A flush writes memory to the files.
LEMMA FlushKeepsInv == StoreInv /\ Flush => StoreInv'
<1> SUFFICES ASSUME StoreInv, Flush PROVE StoreInv'
  OBVIOUS
<1>1. StoreType'
  BY DEF StoreInv, StoreType, Flush
<1>2. ASSUME ~torn
      PROVE  /\ vectors' = entries' /\ vecFile' = entries' /\ metaFile' = entries'
             /\ UniqueIds(entries')
  BY <1>2 DEF StoreInv, Flush
<1>3. Len(entries') \in Nat
  BY <1>1 DEF StoreType
<1>4. torn' = torn
  BY DEF Flush
<1> QED
  BY <1>1, <1>2, <1>3, <1>4 DEF StoreInv

\* A reload of a vector file and a metadata file that continues it gives back
\* what the vector file holds.
LEMMA LoadOfPrefix ==
    ASSUME NEW vec \in Seq(Records), NEW meta \in Seq(Records), NEW unended \in BOOLEAN,
           Load(vec, meta, unended)
    PROVE  /\ vectors' \in Seq(Records) /\ entries' \in Seq(Records)
           /\ Len(vectors') = Len(entries')
           /\ metaFile' = entries' /\ vecFile' = vec
           /\ dirty' \in BOOLEAN /\ partial' \in BOOLEAN /\ edited' = FALSE
           /\ Len(vec) <= Len(meta) /\ (\A i \in 1..Len(vec) : meta[i] = vec[i])
                  => vectors' = vec /\ entries' = vec
<1> DEFINE n == IF Len(vec) <= Len(meta) THEN Len(vec) ELSE Len(meta)
<1>1. n \in 0..Len(vec) /\ n \in 0..Len(meta)
  OBVIOUS
<1>2. /\ vectors' = SubSeq(vec, 1, n) /\ entries' = SubSeq(meta, 1, n)
      /\ metaFile' = SubSeq(meta, 1, n) /\ vecFile' = vec /\ edited' = FALSE
      /\ dirty' \in BOOLEAN /\ partial' \in BOOLEAN
  BY Zenon DEF Load
<1> HIDE DEF n
<1>3. /\ vectors' \in Seq(Records) /\ Len(vectors') = n
      /\ \A i \in 1..n : vectors'[i] = vec[i]
  BY <1>1, <1>2, HeadSeq
<1>4. /\ entries' \in Seq(Records) /\ Len(entries') = n
      /\ \A i \in 1..n : entries'[i] = meta[i]
  BY <1>1, <1>2, HeadSeq
<1>5. ASSUME Len(vec) <= Len(meta), \A i \in 1..Len(vec) : meta[i] = vec[i]
      PROVE  vectors' = vec /\ entries' = vec
  <2>1. n = Len(vec)
    BY <1>5 DEF n
  <2>2. vectors' = vec
    BY <1>3, <2>1, SeqEqual
  <2>3. \A i \in 1..Len(vec) : entries'[i] = vec[i]
    BY <1>4, <1>5, <2>1
  <2>4. entries' = vec
    BY <1>4, <2>1, <2>3, SeqEqual
  <2> QED
    BY <2>2, <2>4
<1> QED
  BY <1>2, <1>3, <1>4, <1>5

\* A death leaves a vector file vec: the invariant holds after the reload, if it
\* was one the metadata file continues.
LEMMA LoadKeepsInv ==
    ASSUME StoreType, NEW vec \in Seq(Records), NEW unended \in BOOLEAN,
           Load(vec, metaFile, unended), torn' \in BOOLEAN,
           ~torn' => /\ UniqueIds(vec) /\ Len(vec) <= Len(metaFile)
                     /\ \A i \in 1..Len(vec) : metaFile[i] = vec[i]
    PROVE  StoreInv' /\ (~torn' => entries' = vec) /\ vecFile' = vec
<1>1. metaFile \in Seq(Records)
  BY DEF StoreType
<1>2. /\ vectors' \in Seq(Records) /\ entries' \in Seq(Records)
      /\ Len(vectors') = Len(entries')
      /\ metaFile' = entries' /\ vecFile' = vec
      /\ dirty' \in BOOLEAN /\ partial' \in BOOLEAN /\ edited' = FALSE
      /\ ~torn' => vectors' = vec /\ entries' = vec
  BY <1>1, LoadOfPrefix
<1>3. StoreType'
  BY <1>2 DEF StoreType
<1>4. Len(vec) \in Nat
  OBVIOUS
<1> QED
  BY <1>2, <1>3, <1>4 DEF StoreInv

\* A death at rest or in an append: back to the vector file.
LEMMA ReloadKeepsInv ==
    ASSUME StoreInv, DieAndLoad \/ DieInAppend
    PROVE  /\ StoreInv' /\ torn' = torn
           /\ vecFile' = vecFile /\ (~torn' => entries' = vecFile)
<1>1. /\ torn' = torn
      /\ \E unended \in BOOLEAN : Load(vecFile, metaFile, unended)
  BY DEF DieAndLoad, DieInAppend, StoreInv, StoreType
<1>2. PICK unended \in BOOLEAN : Load(vecFile, metaFile, unended)
  BY <1>1
<1>3. StoreType /\ vecFile \in Seq(Records)
  BY DEF StoreInv, StoreType
<1>4. torn' \in BOOLEAN
  BY <1>1, <1>3 DEF StoreType
<1>5. ~torn' => /\ UniqueIds(vecFile) /\ Len(vecFile) <= Len(metaFile)
                /\ \A i \in 1..Len(vecFile) : metaFile[i] = vecFile[i]
  BY <1>1 DEF StoreInv
<1> QED
  BY <1>1, <1>2, <1>3, <1>4, <1>5, LoadKeepsInv

\* A death between the renames: without edits both files are the memory's image.
LEMMA TornFlushKeepsInv ==
    ASSUME StoreInv, DieInFlush
    PROVE  /\ StoreInv'
           /\ ~torn' => ~torn /\ vectors = entries /\ entries' = entries /\ vecFile' = entries
<1>1. Load(vectors, metaFile, partial) /\ torn' = (torn \/ edited)
  BY DEF DieInFlush
<1>2. StoreType /\ vectors \in Seq(Records) /\ partial \in BOOLEAN
  BY DEF StoreInv, StoreType
<1>3. torn' \in BOOLEAN
  BY <1>1
<1>4. ~torn' => ~torn /\ vectors = entries /\ metaFile = entries /\ UniqueIds(entries)
  BY <1>1 DEF StoreInv
<1>5. Len(vectors) \in Nat
  BY <1>2
<1>6. ~torn' => /\ UniqueIds(vectors) /\ Len(vectors) <= Len(metaFile)
                /\ \A i \in 1..Len(vectors) : metaFile[i] = vectors[i]
  BY <1>4, <1>5
<1>7. StoreInv' /\ (~torn' => entries' = vectors) /\ vecFile' = vectors
  BY <1>1, <1>2, <1>3, <1>6, LoadKeepsInv
<1> QED
  BY <1>4, <1>7

\* Every step of a collection keeps the invariant.
LEMMA StoreInvStep == StoreInv /\ [StoreNext]_storeVars => StoreInv'
<1> SUFFICES ASSUME StoreInv, [StoreNext]_storeVars PROVE StoreInv'
  OBVIOUS
<1>1. ASSUME NEW r \in Records, Add(r) PROVE StoreInv'
  BY <1>1, AddKeepsInv
<1>2. ASSUME NEW gone \in SUBSET Records, DeleteWhere(gone) PROVE StoreInv'
  BY <1>2, DeleteKeepsInv
<1>3. CASE Flush
  BY <1>3, FlushKeepsInv
<1>4. CASE DieAndLoad \/ DieInAppend
  BY <1>4, ReloadKeepsInv
<1>5. CASE DieInFlush
  BY <1>5, TornFlushKeepsInv
<1>6. CASE UNCHANGED storeVars
  BY <1>6 DEF StoreInv, StoreType, UniqueIds, storeVars, memVars, fileVars
<1> QED
  BY <1>1, <1>2, <1>3, <1>4, <1>5, <1>6 DEF StoreNext

\* The inductive invariant holds of every history of a collection.
THEOREM StoreInvHolds == StoreSpec => []StoreInv
<1> QED
  BY StoreInvInit, StoreInvStep, PTL DEF StoreSpec

\* Every vector stands beside its own metadata unless a death tore a flush with
\* edits, and every id has one record.
THEOREM StoreSafe == StoreSpec => [](Lockstep /\ OneRecordPerId)
<1>1. StoreInv => Lockstep /\ OneRecordPerId
  BY DEF StoreInv, Lockstep, OneRecordPerId, UniqueIds
<1> QED
  BY <1>1, StoreInvHolds, PTL

-----------------------------------------------------------------------------
(* The refinement: each operation of the collection is one of SnapshotStore's *)
(* or no step of it.                                                          *)

\* The elements of a sequence of records are records.
LEMMA ElementsAreRecords ==
    ASSUME NEW s \in Seq(Records)
    PROVE  Elements(s) \in SUBSET Records
  BY ElementOfSeq DEF Elements

\* Once torn, anything is allowed.
LEMMA DamagedStep ==
    ASSUME StoreType', torn'
    PROVE  Snapshots!Next
<1>1. Elements(entries)' \in SUBSET Records /\ Elements(vecFile)' \in SUBSET Records
  BY ElementsAreRecords DEF StoreType
<1> QED
  BY <1>1 DEF Snapshots!Next, Snapshots!Damage

\* An add replaces the record of its id in the abstract store.
LEMMA AddIsPut ==
    ASSUME StoreInv, StoreInv', ~torn, NEW r \in Records, Add(r)
    PROVE  Snapshots!Put(r)
<1>1. StoreType /\ UniqueIds(entries)
  BY DEF StoreInv
<1>2. vecFile' = vecFile /\ torn' = torn
  BY DEF Add
<1>3. Elements(entries') = {x \in Elements(entries) : x.id # r.id} \cup {r}
  <2>1. CASE Places(r.id) = {}
    <3>1. entries' = Append(entries, r)
      BY <2>1 DEF Add
    <3>2. /\ Len(entries') = Len(entries) + 1
          /\ \A i \in 1..Len(entries) : entries'[i] = entries[i]
          /\ entries'[Len(entries) + 1] = r
      BY <1>1, <3>1, AppendedSeq DEF StoreType
    <3>3. 1..(Len(entries) + 1) = 1..Len(entries) \cup {Len(entries) + 1}
      BY <1>1 DEF StoreType
    <3>4. \A i \in 1..Len(entries) : entries[i].id # r.id
      BY <2>1 DEF Places
    <3> QED
      BY <3>2, <3>3, <3>4 DEF Elements
  <2>2. CASE Places(r.id) # {}
    <3>0. PICK k \in Places(r.id) : TRUE
      BY <2>2
    <3>1. entries' = [entries EXCEPT ![IndexOf(r.id)] = r]
      BY <2>2 DEF Add
    <3>2. /\ IndexOf(r.id) = k
          /\ k \in 1..Len(entries) /\ entries[k].id = r.id
          /\ \A i \in 1..Len(entries) : entries[i].id = r.id => i = k
      BY <1>1, OnlyPlace
    <3>3. /\ Len(entries') = Len(entries)
          /\ \A i \in 1..Len(entries) : entries'[i] = IF i = k THEN r ELSE entries[i]
      BY <1>1, <3>1, <3>2, ExceptSeq DEF StoreType
    <3> QED
      BY <3>2, <3>3 DEF Elements
  <2> QED
    BY <2>1, <2>2
<1> QED
  BY <1>2, <1>3 DEF Snapshots!Put, Elements

\* deleteWhere drops the records from the abstract store.
LEMMA DeleteIsDrop ==
    ASSUME StoreInv, NEW gone \in SUBSET Records, DeleteWhere(gone)
    PROVE  Snapshots!Drop(gone)
<1>1. StoreType
  BY DEF StoreInv
<1>2. PICK n \in Nat : \E place \in [1..n -> 1..Len(entries)] :
            /\ \A i, j \in 1..n : i < j => place[i] < place[j]
            /\ \A i \in 1..n : entries[place[i]] \notin gone
            /\ \A k \in 1..Len(entries) :
                  entries[k] \notin gone => \E i \in 1..n : place[i] = k
            /\ vectors' = [i \in 1..n |-> vectors[place[i]]]
            /\ entries' = [i \in 1..n |-> entries[place[i]]]
  BY <1>1, DeleteShape
<1>3. PICK place \in [1..n -> 1..Len(entries)] :
            /\ \A i \in 1..n : entries[place[i]] \notin gone
            /\ \A k \in 1..Len(entries) :
                  entries[k] \notin gone => \E i \in 1..n : place[i] = k
            /\ entries' = [i \in 1..n |-> entries[place[i]]]
  BY <1>2
<1>4. /\ Len(entries') = n
      /\ \A i \in 1..n : entries'[i] = entries[place[i]]
  BY <1>1, <1>3, PickedSeq DEF StoreType
<1>5. Elements(entries') = Elements(entries) \ gone
  BY <1>3, <1>4 DEF Elements
<1>6. vecFile' = vecFile /\ torn' = torn
  BY DEF DeleteWhere, fileVars
<1> QED
  BY <1>5, <1>6 DEF Snapshots!Drop, Elements

\* Every step of a collection is a step of the abstract store or none.
LEMMA StoreStepRefines ==
    ASSUME StoreInv, StoreInv', [StoreNext]_storeVars
    PROVE  [Snapshots!Next]_(Snapshots!vars)
<1>1. ASSUME torn' PROVE Snapshots!Next
  BY <1>1, DamagedStep DEF StoreInv
<1>2. ASSUME ~torn', NEW r \in Records, Add(r) PROVE Snapshots!Next
  <2>1. ~torn
    BY <1>2 DEF Add
  <2> QED
    BY <1>2, <2>1, AddIsPut DEF Snapshots!Next
<1>3. ASSUME ~torn', NEW gone \in SUBSET Records, DeleteWhere(gone) PROVE Snapshots!Next
  <2>1. ~torn
    BY <1>3 DEF DeleteWhere
  <2> QED
    BY <1>3, <2>1, DeleteIsDrop DEF Snapshots!Next
<1>4. ASSUME ~torn', Flush PROVE Snapshots!Next
  <2>1. /\ ~torn /\ torn' = torn
        /\ entries' = entries /\ vecFile' = entries
    BY <1>4 DEF Flush, StoreInv
  <2>2. Snapshots!Save
    BY <2>1 DEF Snapshots!Save, Elements
  <2> QED
    BY <2>1, <2>2 DEF Snapshots!Next
<1>5. ASSUME ~torn', DieAndLoad \/ DieInAppend PROVE Snapshots!Next
  <2>1. ~torn /\ torn' = torn /\ vecFile' = vecFile /\ entries' = vecFile
    BY <1>5, ReloadKeepsInv
  <2>2. Snapshots!Crash
    BY <2>1 DEF Snapshots!Crash, Elements
  <2> QED
    BY <2>1, <2>2 DEF Snapshots!Next
<1>6. ASSUME ~torn', DieInFlush PROVE Snapshots!Next
  <2>1. ~torn /\ entries' = entries /\ vecFile' = entries
    BY <1>6, TornFlushKeepsInv
  <2>2. torn' = torn
    BY <1>6, <2>1 DEF StoreInv, StoreType
  <2>3. Snapshots!Save
    BY <2>1, <2>2 DEF Snapshots!Save, Elements
  <2> QED
    BY <2>1, <2>3 DEF Snapshots!Next
<1>7. CASE UNCHANGED storeVars
  BY <1>7 DEF storeVars, memVars, fileVars, Snapshots!vars, Elements
<1> QED
  BY <1>1, <1>2, <1>3, <1>4, <1>5, <1>6, <1>7 DEF StoreNext

\* A collection keeps the promise of SnapshotStore: a death brings back exactly
\* the records of the last completed flush.
THEOREM StoreKeepsPromise == StoreSpec => KeepsSnapshotPromise
<1>1. StoreInit => Snapshots!Init
  <2>1. \A i \in 1..0 : FALSE
    OBVIOUS
  <2> QED
    BY <2>1 DEF StoreInit, Snapshots!Init, Elements
<1>2. StoreInv /\ StoreInv' /\ [StoreNext]_storeVars => [Snapshots!Next]_(Snapshots!vars)
  BY StoreStepRefines
<1> QED
  BY <1>1, <1>2, StoreInvHolds, PTL DEF StoreSpec, KeepsSnapshotPromise, Snapshots!Spec

-----------------------------------------------------------------------------
\* The document index.

DocPart(s) == Elements(s) \cap DocRecords
Chunks(b, lines) == {[id |-> i, ver |-> b] : i \in lines}
Settling(j) == Running(j) /\ job[j].kind = "settle"

TodoOfBody == \A j \in Jobs : job[j].todo \subseteq ChunksOf[job[j].ver]

Exclusive == ~muddled => \A j, k \in Jobs : Running(j) /\ Running(k) => j = k

\* What the collection has of the document between a settle that runs alone and
\* the next change: while the settle adds, all but what it still has to add.
Freshness ==
    ~muddled /\ ~pending /\ ~torn =>
        /\ \A j \in Jobs : Running(j) => job[j].ver = body
        /\ \A j \in Jobs : Settling(j) =>
              DocPart(entries) = Chunks(body, ChunksOf[body] \ job[j].todo)
        /\ (\A j \in Jobs : ~Settling(j)) =>
              /\ DocPart(entries) = Fresh
              /\ DocPart(vecFile) = Fresh

DocInv == DocType /\ StoreInv /\ TodoOfBody /\ Exclusive /\ Freshness

-----------------------------------------------------------------------------
\* Whatever the index does to the collection is a call of VectorStore.
LEMMA DocStepIsStoreStep ==
    ASSUME DocType, [Next]_vars
    PROVE  [StoreNext]_storeVars
<1>1. CASE Edit \/ WatchRoute
  BY <1>1 DEF Edit, WatchRoute
<1>2. CASE AddForeign
  BY <1>2 DEF AddForeign, StoreNext
<1>3. CASE PeriodicFlush
  BY <1>3 DEF PeriodicFlush, StoreNext
<1>4. CASE Die
  BY <1>4 DEF Die, StoreNext
<1>5. ASSUME NEW j \in Jobs, Settle(j) PROVE [StoreNext]_storeVars
  <2>1. DocRecords \in SUBSET Records
    BY DEF DocRecords
  <2> QED
    BY <1>5, <2>1 DEF Settle, RemoveDocFile, StoreNext
<1>6. ASSUME NEW j \in Jobs, IndexRoute(j) \/ Embedded(j) PROVE [StoreNext]_storeVars
  BY <1>6 DEF IndexRoute, Embedded
<1>7. ASSUME NEW j \in Jobs, AddChunk(j) PROVE [StoreNext]_storeVars
  <2>1. \A i \in job[j].todo : [id |-> i, ver |-> job[j].ver] \in Records
    BY DocAssumption DEF DocType, Records
  <2> QED
    BY <1>7, <2>1 DEF AddChunk, StoreNext
<1>8. ASSUME NEW j \in Jobs, FinishJob(j) PROVE [StoreNext]_storeVars
  BY <1>8 DEF FinishJob, StoreNext
<1>9. CASE UNCHANGED vars
  BY <1>9 DEF vars
<1> QED
  BY <1>1, <1>2, <1>3, <1>4, <1>5, <1>6, <1>7, <1>8, <1>9 DEF Next

\* An empty index has all of it.
LEMMA DocInit ==
    ASSUME Init PROVE DocInv
<1>1. StoreInv /\ StoreType
  BY StoreInvInit DEF Init, StoreInv
<1>2. NoJob \in [at : {"none", "embed", "add"}, kind : {"settle", "index"},
                 ver : Bodies, todo : SUBSET Ids]
  BY DocAssumption DEF NoJob
<1>0. /\ MaxEdits \in Nat /\ MaxForeign \in Nat /\ MaxFailures \in Nat /\ MaxDeaths \in Nat
      /\ Absent \in Bodies
  BY DocAssumption
<1>8. job \in [Jobs -> [at : {"none", "embed", "add"}, kind : {"settle", "index"},
                        ver : Bodies, todo : SUBSET Ids]]
  BY <1>2 DEF Init
<1>9. /\ edits \in 0..MaxEdits /\ foreigns \in 0..MaxForeign
      /\ failures \in 0..MaxFailures /\ deaths \in 0..MaxDeaths
  BY <1>0 DEF Init
<1>3. DocType
  BY <1>0, <1>1, <1>8, <1>9 DEF Init, DocType
<1>4. \A j \in Jobs : ~Running(j) /\ job[j].todo = {}
  BY DEF Init, NoJob, Running
<1>5. entries = <<>> /\ vecFile = <<>> /\ body = Absent
  BY DEF Init, StoreInit
<1>6. Elements(<<>>) = {}
  BY DEF Elements
<1>7. Fresh = {}
  BY <1>5, DocAssumption DEF Fresh
<1> QED
  BY <1>1, <1>3, <1>4, <1>5, <1>6, <1>7
     DEF DocInv, TodoOfBody, Exclusive, Freshness, DocPart, Settling

\* Each action keeps the types of the job, the document and the watch.
LEMMA DocTypeStep ==
    ASSUME DocType, StoreType', [Next]_vars
    PROVE  DocType'
<1> DEFINE JobType == [at : {"none", "embed", "add"}, kind : {"settle", "index"},
                       ver : Bodies, todo : SUBSET Ids]
<1>0. NoJob \in JobType
  BY DocAssumption DEF NoJob
<1>a. MaxEdits \in Nat /\ MaxForeign \in Nat /\ MaxFailures \in Nat /\ MaxDeaths \in Nat
  BY DocAssumption
<1>1. CASE Edit
  <2>1. edits' \in 0..MaxEdits
    BY <1>a, <1>1 DEF Edit, DocType
  <2>2. pending' \in BOOLEAN /\ muddled' \in BOOLEAN
    BY <1>1, Zenon DEF Edit, DocType
  <2> QED
    BY <1>1, <2>1, <2>2 DEF Edit, DocType
<1>2. CASE WatchRoute
  BY <1>2 DEF WatchRoute, DocType, countVars
<1>3. CASE AddForeign
  <2>1. foreigns' \in 0..MaxForeign
    BY <1>a, <1>3 DEF AddForeign, DocType
  <2> QED
    BY <1>3, <2>1 DEF AddForeign, DocType, docVars
<1>4. CASE PeriodicFlush
  BY <1>4 DEF PeriodicFlush, DocType, docVars, countVars
<1>5. CASE Die
  <2>1. job' \in [Jobs -> JobType]
    BY <1>0, <1>5 DEF Die
  <2>2. muddled' \in BOOLEAN
    BY <1>5, Zenon DEF Die, DocType
  <2>3. deaths' \in 0..MaxDeaths
    BY <1>a, <1>5 DEF Die, DocType
  <2>4. UNCHANGED <<body, edits, foreigns, failures>> /\ watching' = FALSE /\ pending' = FALSE
    BY <1>5 DEF Die
  <2> QED
    BY <2>1, <2>2, <2>3, <2>4 DEF DocType
<1>6. ASSUME NEW j \in Jobs, Settle(j) \/ IndexRoute(j) PROVE DocType'
  <2>1. ChunksOf[body] \in SUBSET Ids
    BY DocAssumption DEF DocType
  <2>2. job' \in [Jobs -> JobType]
    BY <1>6, <2>1 DEF Settle, IndexRoute, DocType
  <2>3. muddled' \in BOOLEAN
    BY <1>6, Zenon DEF Settle, IndexRoute, DocType
  <2> QED
    BY <1>6, <2>2, <2>3 DEF Settle, IndexRoute, DocType, countVars
<1>7. ASSUME NEW j \in Jobs, Embedded(j) PROVE DocType'
  <2>1. job' \in [Jobs -> JobType]
    BY <1>0, <1>7 DEF Embedded, DocType
  <2>2. muddled' \in BOOLEAN
    BY <1>7 DEF Embedded, DocType
  <2>3. failures' \in 0..MaxFailures
    BY <1>a, <1>7 DEF Embedded, DocType
  <2> QED
    BY <1>7, <2>1, <2>2, <2>3 DEF Embedded, DocType
<1>8. ASSUME NEW j \in Jobs, AddChunk(j) PROVE DocType'
  <2>0. PICK i \in job[j].todo, next \in {"add", "embed"} :
            job' = [job EXCEPT ![j].todo = @ \ {i}, ![j].at = next]
    BY <1>8 DEF AddChunk
  <2>1. job' \in [Jobs -> JobType]
    <3>1. job \in [Jobs -> JobType] /\ job[j] \in JobType
      BY DEF DocType
    <3>2. [job[j] EXCEPT !.todo = @ \ {i}, !.at = next] \in JobType
      BY <3>1
    <3>3. job' = [job EXCEPT ![j] = [job[j] EXCEPT !.todo = @ \ {i}, !.at = next]]
      BY <2>0, <3>1
    <3> QED
      BY <3>1, <3>2, <3>3
  <2> QED
    BY <1>8, <2>1 DEF AddChunk, DocType, countVars
<1>9. ASSUME NEW j \in Jobs, FinishJob(j) PROVE DocType'
  <2>1. job' \in [Jobs -> JobType]
    BY <1>0, <1>9 DEF FinishJob, DocType
  <2> QED
    BY <1>9, <2>1 DEF FinishJob, DocType, countVars
<1>10. CASE UNCHANGED vars
  BY <1>10 DEF vars, docVars, countVars, DocType
<1> QED
  BY <1>1, <1>2, <1>3, <1>4, <1>5, <1>6, <1>7, <1>8, <1>9, <1>10 DEF Next

-----------------------------------------------------------------------------
\* What the operations of the collection do to the document's records.
LEMMA DocPartOfAdd ==
    ASSUME StoreInv, StoreInv', ~torn, NEW r \in Records, Add(r)
    PROVE  /\ vecFile' = vecFile /\ torn' = torn
           /\ r.id \in Foreign => DocPart(entries') = DocPart(entries)
           /\ r.id \notin Foreign =>
                 DocPart(entries') = {x \in DocPart(entries) : x.id # r.id} \cup {r}
<1>1. Elements(entries') = {x \in Elements(entries) : x.id # r.id} \cup {r}
  BY AddIsPut DEF Snapshots!Put, Elements
<1>2. vecFile' = vecFile /\ torn' = torn
  BY DEF Add
<1> QED
  BY <1>1, <1>2 DEF DocPart, DocRecords

\* removeDocFile leaves no chunk of the document in memory, and tears nothing.
LEMMA DocPartOfRemoval ==
    ASSUME StoreInv, RemoveDocFile
    PROVE  DocPart(entries') = {} /\ torn' = torn
<1>1. CASE DeleteWhere(DocRecords)
  <2>1. DocRecords \in SUBSET Records
    BY DEF DocRecords
  <2>2. Snapshots!Drop(DocRecords)
    BY <1>1, <2>1, DeleteIsDrop
  <2>3. Elements(entries') = Elements(entries) \ DocRecords
    BY <2>2 DEF Snapshots!Drop, Elements
  <2>4. torn' = torn
    BY <1>1 DEF DeleteWhere
  <2> QED
    BY <2>3, <2>4 DEF DocPart
<1>2. CASE (\A i \in 1..Len(entries) : entries[i] \notin DocRecords) /\ UNCHANGED storeVars
  BY <1>2 DEF DocPart, Elements, storeVars, memVars
<1> QED
  BY <1>1, <1>2 DEF RemoveDocFile

\* A flush that goes through, or is not needed, puts memory on disk.
LEMMA DocPartOfFlush ==
    ASSUME StoreInv, ~torn, Flush \/ (~dirty /\ UNCHANGED storeVars)
    PROVE  entries' = entries /\ vecFile' = entries /\ torn' = torn
  BY DEF StoreInv, Flush, storeVars, memVars, fileVars

\* A death goes back to the vector file, or to a memory just written to it.
LEMMA DocPartOfDeath ==
    ASSUME StoreInv, DieAndLoad \/ DieInAppend \/ DieInFlush, ~torn'
    PROVE  /\ ~torn
           /\ \/ entries' = vecFile /\ vecFile' = vecFile
              \/ entries' = entries /\ vecFile' = entries
  BY ReloadKeepsInv, TornFlushKeepsInv

-----------------------------------------------------------------------------
\* A settle takes as its work the chunks that the document now lacks.
LEMMA SettleKeepsFresh ==
    ASSUME DocInv, NEW j \in Jobs, Settle(j)
    PROVE  TodoOfBody' /\ Exclusive' /\ Freshness'
<1> DEFINE started == [at |-> IF ChunksOf[body] = {} THEN "add" ELSE "embed",
                       kind |-> "settle", ver |-> body, todo |-> ChunksOf[body]]
<1>1. /\ job' = [job EXCEPT ![j] = started] /\ job \in [Jobs -> [at : {"none", "embed", "add"},
              kind : {"settle", "index"}, ver : Bodies, todo : SUBSET Ids]]
      /\ body' = body /\ ~Running(j) /\ muddled' = ~Alone(j)
  BY DEF Settle, DocInv, DocType
<1>2. /\ job'[j] = started
      /\ \A k \in Jobs \ {j} : job'[k] = job[k]
  BY <1>1
<1>3. TodoOfBody'
  BY <1>1, <1>2 DEF DocInv, TodoOfBody
<1>4. ASSUME ~muddled' PROVE \A k \in Jobs \ {j} : ~Running(k)'
  BY <1>1, <1>2, <1>4 DEF Alone, Running
<1>5. Exclusive'
  BY <1>4 DEF Exclusive
<1>6. DocPart(entries') = {}
  BY DocPartOfRemoval DEF DocInv, Settle
<1>7. Settling(j)' /\ job'[j].ver = body' /\ job'[j].todo = ChunksOf[body']
  BY <1>1, <1>2 DEF Settling, Running
<1>8. ASSUME ~muddled' PROVE Freshness'
  <2>1. \A k \in Jobs : Running(k)' => k = j
    BY <1>4, <1>8
  <2>2. \A k \in Jobs : Settling(k)' => k = j
    BY <2>1 DEF Settling
  <2>3. Chunks(body', ChunksOf[body'] \ job'[j].todo) = {}
    BY <1>7 DEF Chunks
  <2> QED
    BY <1>6, <1>7, <2>1, <2>2, <2>3 DEF Freshness
<1>9. ASSUME muddled' PROVE Freshness'
  BY <1>9 DEF Freshness
<1> QED
  BY <1>3, <1>5, <1>8, <1>9

\* The route, alone after a settle, has to add only what is there already.
LEMMA IndexKeepsFresh ==
    ASSUME DocInv, NEW j \in Jobs, IndexRoute(j)
    PROVE  TodoOfBody' /\ Exclusive' /\ Freshness'
<1> DEFINE started == [at |-> IF ChunksOf[body] = {} THEN "add" ELSE "embed",
                       kind |-> "index", ver |-> body, todo |-> ChunksOf[body]]
<1>1. /\ job' = [job EXCEPT ![j] = started] /\ job \in [Jobs -> [at : {"none", "embed", "add"},
              kind : {"settle", "index"}, ver : Bodies, todo : SUBSET Ids]]
      /\ body' = body /\ pending' = pending /\ ~Running(j) /\ muddled' = (muddled \/ ~Alone(j))
      /\ entries' = entries /\ vecFile' = vecFile /\ torn' = torn
  BY DEF IndexRoute, DocInv, DocType, storeVars, memVars, fileVars
<1>2. /\ job'[j] = started
      /\ \A k \in Jobs \ {j} : job'[k] = job[k]
  BY <1>1
<1>3. TodoOfBody'
  BY <1>1, <1>2 DEF DocInv, TodoOfBody
<1>4. ASSUME ~muddled'
      PROVE  ~muddled /\ (\A k \in Jobs : ~Running(k)) /\ (\A k \in Jobs \ {j} : ~Running(k)')
  BY <1>1, <1>2, <1>4 DEF Alone, Running
<1>5. Exclusive'
  BY <1>4 DEF Exclusive
<1>7. ~Settling(j)' /\ job'[j].ver = body'
  BY <1>1, <1>2 DEF Settling
<1>8. ASSUME ~muddled', ~pending', ~torn' PROVE Freshness'
  <2>1. \A k \in Jobs : Running(k)' => k = j
    BY <1>4, <1>8
  <2>2. \A k \in Jobs : ~Settling(k)'
    BY <1>7, <2>1 DEF Settling
  <2>3. DocPart(entries) = Fresh /\ DocPart(vecFile) = Fresh
    BY <1>1, <1>4, <1>8 DEF DocInv, Freshness, Settling
  <2>4. Fresh' = Fresh
    BY <1>1 DEF Fresh
  <2> QED
    BY <1>1, <1>7, <2>1, <2>2, <2>3, <2>4 DEF Freshness
<1> QED
  BY <1>3, <1>5, <1>8 DEF Freshness

\* A job that moves on with its chunks as they are, in an untouched collection.
LEMMA EmbeddedKeepsFresh ==
    ASSUME DocInv, NEW j \in Jobs, Embedded(j)
    PROVE  TodoOfBody' /\ Exclusive' /\ Freshness'
<1>0. /\ job \in [Jobs -> [at : {"none", "embed", "add"},
              kind : {"settle", "index"}, ver : Bodies, todo : SUBSET Ids]]
      /\ body' = body /\ pending' = pending
      /\ entries' = entries /\ vecFile' = vecFile /\ torn' = torn
  BY DEF Embedded, DocInv, DocType, storeVars, memVars, fileVars
<1>1. CASE job' = [job EXCEPT ![j].at = "add"] /\ muddled' = muddled
  <2>1. \A k \in Jobs : /\ job'[k].kind = job[k].kind /\ job'[k].ver = job[k].ver
                        /\ job'[k].todo = job[k].todo
                        /\ job'[k].at # "none" <=> job[k].at # "none"
    BY <1>0, <1>1 DEF Embedded
  <2>2. \A k \in Jobs : (Running(k)' <=> Running(k)) /\ (Settling(k)' <=> Settling(k))
    BY <2>1 DEF Running, Settling
  <2>3. Fresh' = Fresh
    BY <1>0 DEF Fresh
  <2> QED
    BY <1>0, <1>1, <2>1, <2>2, <2>3 DEF DocInv, TodoOfBody, Exclusive, Freshness
<1>2. CASE job' = [job EXCEPT ![j] = NoJob] /\ muddled' = TRUE
  <2>1. \A k \in Jobs : job'[k] = job[k] \/ job'[k] = NoJob
    BY <1>0, <1>2
  <2>2. TodoOfBody'
    BY <2>1 DEF DocInv, TodoOfBody, NoJob
  <2> QED
    BY <1>2, <2>2 DEF Exclusive, Freshness
<1> QED
  BY <1>1, <1>2 DEF Embedded

\* A chunk added is one chunk fewer to add.
LEMMA AddChunkKeepsFresh ==
    ASSUME DocInv, StoreInv', NEW j \in Jobs, AddChunk(j)
    PROVE  TodoOfBody' /\ Exclusive' /\ Freshness'
<1>0. /\ job \in [Jobs -> [at : {"none", "embed", "add"},
              kind : {"settle", "index"}, ver : Bodies, todo : SUBSET Ids]]
      /\ body' = body /\ pending' = pending /\ muddled' = muddled
      /\ job[j].at = "add" /\ body \in Bodies
  BY DEF AddChunk, DocInv, DocType
<1>1. PICK i \in job[j].todo, next \in {"add", "embed"} :
          /\ Add([id |-> i, ver |-> job[j].ver])
          /\ job' = [job EXCEPT ![j].todo = @ \ {i}, ![j].at = next]
  BY DEF AddChunk
<1>2. /\ \A k \in Jobs : /\ job'[k].kind = job[k].kind /\ job'[k].ver = job[k].ver
                         /\ job'[k].at # "none" <=> job[k].at # "none"
                         /\ k # j => job'[k].todo = job[k].todo
      /\ job'[j].todo = job[j].todo \ {i}
  BY <1>0, <1>1
<1>3. \A k \in Jobs : (Running(k)' <=> Running(k)) /\ (Settling(k)' <=> Settling(k))
  BY <1>2 DEF Running, Settling
<1>4. TodoOfBody'
  BY <1>2 DEF DocInv, TodoOfBody
<1>5. Exclusive'
  BY <1>0, <1>3 DEF DocInv, Exclusive
<1>6. ASSUME ~muddled, ~pending, ~torn PROVE Freshness'
  <2> DEFINE r == [id |-> i, ver |-> job[j].ver]
  <2>1. job[j].ver = body /\ Running(j) /\ \A k \in Jobs : Running(k) => k = j
    BY <1>0, <1>6 DEF DocInv, Freshness, Exclusive, Running
  <2>2. i \in ChunksOf[body] /\ i \notin Foreign /\ r \in Records /\ r.id = i /\ r.ver = body
    BY <1>0, <2>1, DocAssumption DEF DocInv, TodoOfBody, Records
  <2>3. /\ vecFile' = vecFile
        /\ DocPart(entries') = {x \in DocPart(entries) : x.id # i} \cup {r}
    BY <1>1, <1>6, <2>2, DocPartOfAdd DEF DocInv
  <2>4. Fresh' = Fresh
    BY <1>0 DEF Fresh
  <2>5. CASE Settling(j)
    <3>1. DocPart(entries) = Chunks(body, ChunksOf[body] \ job[j].todo)
      BY <1>6, <2>5 DEF DocInv, Freshness
    <3>2. DocPart(entries') = Chunks(body, ChunksOf[body] \ job'[j].todo)
      BY <1>2, <2>2, <2>3, <3>1 DEF Chunks
    <3> QED
      BY <1>0, <1>2, <1>3, <2>1, <2>5, <3>2 DEF Freshness, Settling
  <2>6. CASE ~Settling(j)
    <3>1. \A k \in Jobs : ~Settling(k)
      BY <2>1, <2>6 DEF Settling
    <3>2. DocPart(entries) = Fresh /\ DocPart(vecFile) = Fresh
      BY <1>6, <3>1 DEF DocInv, Freshness
    <3>3. DocPart(entries') = Fresh
      BY <2>2, <2>3, <3>2 DEF Fresh
    <3> QED
      BY <1>0, <1>2, <1>3, <2>1, <2>3, <2>4, <3>1, <3>2, <3>3 DEF Freshness
  <2> QED
    BY <2>5, <2>6
<1>7. torn' = torn
  BY <1>1 DEF Add
<1> QED
  BY <1>0, <1>4, <1>5, <1>6, <1>7 DEF Freshness

\* A job that ran alone to its end has nothing left to add.
LEMMA FinishKeepsFresh ==
    ASSUME DocInv, NEW j \in Jobs, FinishJob(j)
    PROVE  TodoOfBody' /\ Exclusive' /\ Freshness'
<1>0. /\ job \in [Jobs -> [at : {"none", "embed", "add"},
              kind : {"settle", "index"}, ver : Bodies, todo : SUBSET Ids]]
      /\ body' = body /\ pending' = pending /\ muddled' = muddled
      /\ job[j].at = "add" /\ job[j].todo = {}
      /\ job' = [job EXCEPT ![j] = NoJob]
      /\ Flush \/ (~dirty /\ UNCHANGED storeVars)
  BY DEF FinishJob, DocInv, DocType
<1>1. job'[j] = NoJob /\ \A k \in Jobs \ {j} : job'[k] = job[k]
  BY <1>0
<1>2. ~Running(j)' /\ \A k \in Jobs : Running(k)' => Running(k)
  BY <1>1 DEF Running, NoJob
<1>3. TodoOfBody'
  BY <1>1 DEF DocInv, TodoOfBody, NoJob
<1>4. Exclusive'
  BY <1>0, <1>2 DEF DocInv, Exclusive
<1>5. torn' = torn
  BY <1>0 DEF Flush, storeVars
<1>6. ASSUME ~muddled, ~pending, ~torn PROVE Freshness'
  <2>1. Running(j) /\ \A k \in Jobs : Running(k) => k = j
    BY <1>0, <1>6 DEF DocInv, Exclusive, Running
  <2>2. entries' = entries /\ vecFile' = entries
    BY <1>0, <1>6, DocPartOfFlush DEF DocInv
  <2>3. \A k \in Jobs : ~Running(k)'
    BY <1>2, <2>1
  <2>4. DocPart(entries) = Fresh
    <3>1. CASE Settling(j)
      BY <1>0, <1>6, <3>1 DEF DocInv, Freshness, Fresh, Chunks
    <3>2. CASE ~Settling(j)
      BY <1>6, <2>1, <3>2 DEF DocInv, Freshness, Settling
    <3> QED
      BY <3>1, <3>2
  <2>5. Fresh' = Fresh
    BY <1>0 DEF Fresh
  <2> QED
    BY <2>2, <2>3, <2>4, <2>5 DEF Freshness, Settling
<1> QED
  BY <1>0, <1>3, <1>4, <1>5, <1>6 DEF Freshness

\* The actions that leave the jobs alone.
LEMMA SameJobs ==
    ASSUME DocInv, job' = job, body' = body, pending' = pending, muddled' = muddled,
           ~torn' /\ ~muddled /\ ~pending =>
               /\ ~torn
               /\ DocPart(entries') = DocPart(entries)
               /\ DocPart(vecFile') \in {DocPart(vecFile), DocPart(entries)}
    PROVE  TodoOfBody' /\ Exclusive' /\ Freshness'
<1>1. \A k \in Jobs : (Running(k)' <=> Running(k)) /\ (Settling(k)' <=> Settling(k))
  BY DEF Running, Settling
<1>2. Fresh' = Fresh
  BY DEF Fresh
<1>3. TodoOfBody' /\ Exclusive'
  BY <1>1 DEF DocInv, TodoOfBody, Exclusive
<1>4. ASSUME ~muddled, ~pending, ~torn' PROVE Freshness'
  <2>1. ~torn /\ DocPart(entries') = DocPart(entries)
        /\ DocPart(vecFile') \in {DocPart(vecFile), DocPart(entries)}
    BY <1>4
  <2>2. \A k \in Jobs : Running(k)' => job'[k].ver = body'
    BY <1>1, <1>4, <2>1 DEF DocInv, Freshness
  <2>3. \A k \in Jobs : Settling(k)' =>
            DocPart(entries)' = Chunks(body', ChunksOf[body'] \ job'[k].todo)
    BY <1>1, <1>4, <2>1 DEF DocInv, Freshness
  <2>4. ASSUME \A k \in Jobs : ~Settling(k)'
        PROVE  DocPart(entries)' = Fresh /\ DocPart(vecFile)' = Fresh
    BY <1>1, <1>4, <2>1, <2>4 DEF DocInv, Freshness
  <2> QED
    BY <1>2, <2>2, <2>3, <2>4 DEF Freshness
<1> QED
  BY <1>3, <1>4 DEF Freshness

\* A death ends every job and brings back the last save.
LEMMA DieKeepsFresh ==
    ASSUME DocInv, Die
    PROVE  TodoOfBody' /\ Exclusive' /\ Freshness'
<1>1. /\ body' = body /\ muddled' = (muddled \/ pending \/ \E j \in Jobs : Running(j))
      /\ job' = [j \in Jobs |-> NoJob]
      /\ DieAndLoad \/ DieInAppend \/ DieInFlush
  BY DEF Die
<1>2. \A j \in Jobs : job'[j] = NoJob /\ ~Running(j)'
  BY <1>1 DEF Running, NoJob
<1>3. TodoOfBody' /\ Exclusive'
  BY <1>2 DEF TodoOfBody, Exclusive, NoJob
<1>4. ASSUME ~muddled', ~torn' PROVE Freshness'
  <2>1. ~muddled /\ ~pending /\ \A j \in Jobs : ~Settling(j)
    BY <1>1, <1>4 DEF Settling
  <2>2. /\ ~torn
        /\ \/ entries' = vecFile /\ vecFile' = vecFile
           \/ entries' = entries /\ vecFile' = entries
    BY <1>1, <1>4, DocPartOfDeath DEF DocInv
  <2>3. DocPart(entries) = Fresh /\ DocPart(vecFile) = Fresh
    BY <2>1, <2>2 DEF DocInv, Freshness
  <2>4. Fresh' = Fresh
    BY <1>1 DEF Fresh
  <2> QED
    BY <1>2, <2>2, <2>3, <2>4 DEF Freshness, Settling
<1> QED
  BY <1>3, <1>4 DEF Freshness

\* Every step of the index keeps the whole invariant.
LEMMA DocInvStep ==
    ASSUME DocInv, [Next]_vars PROVE DocInv'
<1>1. StoreInv'
  <2>1. [StoreNext]_storeVars
    BY DocStepIsStoreStep DEF DocInv
  <2> QED
    BY <2>1, StoreInvStep DEF DocInv
<1>2. DocType'
  BY <1>1, DocTypeStep DEF DocInv, StoreInv
<1>3. CASE Edit
  <2>1. /\ UNCHANGED <<storeVars, job>> /\ pending' = (pending \/ watching)
        /\ muddled' = (muddled \/ ~watching)
    BY <1>3 DEF Edit
  <2>2. TodoOfBody' /\ Exclusive'
    BY <2>1 DEF DocInv, TodoOfBody, Exclusive, Running
  <2>3. Freshness'
    BY <2>1 DEF Freshness
  <2> QED
    BY <1>1, <1>2, <2>2, <2>3 DEF DocInv
<1>4. CASE WatchRoute
  <2>1. /\ UNCHANGED <<entries, vecFile, torn, body, job>> /\ pending' = FALSE
        /\ muddled' = (muddled \/ pending)
    BY <1>4 DEF WatchRoute, storeVars, memVars, fileVars
  <2>2. \A k \in Jobs : (Running(k)' <=> Running(k)) /\ (Settling(k)' <=> Settling(k))
    BY <2>1 DEF Running, Settling
  <2>3. TodoOfBody' /\ Exclusive'
    BY <2>1, <2>2 DEF DocInv, TodoOfBody, Exclusive
  <2>4. CASE muddled'
    BY <1>1, <1>2, <2>3, <2>4 DEF DocInv, Freshness
  <2>5. CASE ~muddled'
    <3>1. pending' = pending /\ muddled' = muddled
      BY <2>1, <2>5, <1>2 DEF DocInv, DocType
    <3> QED
      BY <1>1, <1>2, <2>1, <3>1, SameJobs DEF DocInv
  <2> QED
    BY <2>4, <2>5
<1>5. CASE AddForeign
  <2>1. PICK r \in Records \ DocRecords : Add(r)
    BY <1>5 DEF AddForeign
  <2>2. r \in Records /\ r.id \in Foreign
    BY <2>1 DEF DocRecords
  <2>3. UNCHANGED <<job, body, pending, muddled>>
    BY <1>5 DEF AddForeign, docVars
  <2>4. ~torn => /\ DocPart(entries') = DocPart(entries)
                 /\ vecFile' = vecFile
    BY <1>1, <2>1, <2>2, DocPartOfAdd DEF DocInv
  <2>5. torn' = torn
    BY <2>1 DEF Add
  <2> QED
    BY <1>1, <1>2, <2>3, <2>4, <2>5, SameJobs DEF DocInv
<1>6. CASE PeriodicFlush
  <2>1. UNCHANGED <<job, body, pending, muddled>> /\ Flush
    BY <1>6 DEF PeriodicFlush, docVars
  <2>2. torn' = torn
    BY <2>1 DEF Flush
  <2>3. ~torn => entries' = entries /\ vecFile' = entries
    BY <2>1, DocPartOfFlush DEF DocInv
  <2> QED
    BY <1>1, <1>2, <2>1, <2>2, <2>3, SameJobs DEF DocInv
<1>7. CASE Die
  BY <1>1, <1>2, <1>7, DieKeepsFresh DEF DocInv
<1>8. ASSUME NEW j \in Jobs, Settle(j) PROVE DocInv'
  BY <1>1, <1>2, <1>8, SettleKeepsFresh DEF DocInv
<1>9. ASSUME NEW j \in Jobs, IndexRoute(j) PROVE DocInv'
  BY <1>1, <1>2, <1>9, IndexKeepsFresh DEF DocInv
<1>10. ASSUME NEW j \in Jobs, Embedded(j) PROVE DocInv'
  BY <1>1, <1>2, <1>10, EmbeddedKeepsFresh DEF DocInv
<1>11. ASSUME NEW j \in Jobs, AddChunk(j) PROVE DocInv'
  BY <1>1, <1>2, <1>11, AddChunkKeepsFresh DEF DocInv
<1>12. ASSUME NEW j \in Jobs, FinishJob(j) PROVE DocInv'
  BY <1>1, <1>2, <1>12, FinishKeepsFresh DEF DocInv
<1>13. CASE UNCHANGED vars
  <2>1. UNCHANGED <<job, body, pending, muddled, entries, vecFile, torn>>
    BY <1>13 DEF vars, docVars, storeVars, memVars, fileVars
  <2> QED
    BY <1>1, <1>2, <2>1, SameJobs DEF DocInv
<1> QED
  BY <1>3, <1>4, <1>5, <1>6, <1>7, <1>8, <1>9, <1>10, <1>11, <1>12, <1>13 DEF Next

\* The invariant the theorems below rest on.
LEMMA DocInvHolds == Spec => []DocInv
<1>1. Init => DocInv
  BY DocInit
<1>2. DocInv /\ [Next]_vars => DocInv'
  BY DocInvStep
<1> QED
  BY <1>1, <1>2, PTL DEF Spec

\* The state of the document index and of the collection stays well typed.
THEOREM DocTypeHolds == Spec => []DocType
<1>1. DocInv => DocType
  BY DEF DocInv
<1> QED
  BY <1>1, DocInvHolds, PTL

\* Through the index's and its neighbours' writes and any number of deaths, a
\* vector stays paired with its own metadata.
THEOREM DocLockstep == Spec => []Lockstep
<1>1. DocInv => Lockstep
  BY DEF DocInv, StoreInv, Lockstep
<1> QED
  BY <1>1, DocInvHolds, PTL

\* An id has one record: an index that adds what it already holds, twice or
\* after a reload, replaces it.
THEOREM DocOneRecordPerId == Spec => []OneRecordPerId
<1>1. DocInv => OneRecordPerId
  BY DEF DocInv, StoreInv, OneRecordPerId, UniqueIds
<1> QED
  BY <1>1, DocInvHolds, PTL

\* The collection under the index implements SnapshotStore.
THEOREM DocKeepsPromise == Spec => KeepsSnapshotPromise
<1>1. Init => StoreInit
  BY DEF Init
<1>2. DocInv /\ [Next]_vars => [StoreNext]_storeVars
  BY DocStepIsStoreStep DEF DocInv
<1>3. Spec => StoreSpec
  BY <1>1, <1>2, DocInvHolds, PTL DEF Spec, StoreSpec
<1> QED
  BY <1>3, StoreKeepsPromise, PTL

\* A settle that ran alone leaves the index fresh, in memory and in the files,
\* until the document changes or another job disturbs it.
THEOREM FreshHolds == Spec => []FreshWhenSettled
<1>1. DocInv => FreshWhenSettled
  <2> SUFFICES ASSUME DocInv, ~muddled, ~pending, ~torn, \A j \in Jobs : ~Running(j)
               PROVE  /\ Elements(entries) \cap DocRecords = Fresh
                      /\ Elements(vecFile) \cap DocRecords = Fresh
    BY DEF FreshWhenSettled
  <2> QED
    BY DEF DocInv, Freshness, DocPart, Settling
<1> QED
  BY <1>1, DocInvHolds, PTL
=============================================================================
