---------------------- MODULE TranscriptCaptureProofs -----------------------
(* The transcript watcher, for every set of passes, length of a line, number  *)
(* of lines and of turns: which lines the offset may leave behind, in which   *)
(* order and how often transcripts.jsonl gets them, that the chunks hold what *)
(* was read, and that the collection implements SnapshotStore.                *)
EXTENDS TranscriptCapture, FiniteSetTheorems, TLAPS

\* The last line of the turn of line i among lines 1..n, and the first line that
\* a pass which has read n lines has not recorded when it embeds that turn.
EndOf(n, i) ==
    CHOOSE j \in i..n :
        /\ \A k \in i..j : Turn[k] = Turn[i]
        /\ j < n => Turn[j + 1] # Turn[i]
NextOf(n, i) == IF EndOf(n, i) < n THEN EndOf(n, i) + 2 ELSE EndOf(n, i) + 1

Embedding(q) == pass[q].at = "embed"

\* What IndexedUnlessLost says of one line.
Kept(l) == l \in cut \cup unindexed \cup LinesOf(chunks) \/ (overlap /\ l \in replaced)

-----------------------------------------------------------------------------
\* A pass that reads has something to read; while it embeds a turn, the turn is
\* among the lines it read, and so is the line behind it that it has recorded.
PassSane ==
    \A q \in Passes :
        /\ Reading(q) => pass[q].start < pass[q].size
        /\ Embedding(q) => /\ FirstFrom(pass[q].start) <= pass[q].from
                           /\ pass[q].from <= LastLine(q)
                           /\ pass[q].next = NextOf(LastLine(q), pass[q].from)

\* Recorded is every line before the offset, and before the offset that a pass
\* under way began from, which may be further on than the present one.
BehindRecorded ==
    /\ OnlyCutLinesSkipped
    /\ \A q \in Passes : Reading(q) =>
          \A l \in 1..Whole(pass[q].start) : Recorded(l)

ReadRecorded ==
    \A q \in Passes : Embedding(q) =>
        \A l \in FirstFrom(pass[q].start)..(pass[q].next - 1) : captured[l] > 0

\* As long as no two passes overlapped, one pass reads, from the offset on.
Alone ==
    ~overlap => \A p, q \in Passes :
        Reading(p) => pass[p].start = offset /\ (Reading(q) => p = q)

\* So nothing in front of it has been recorded, and nothing has been twice.
NotAhead ==
    ~overlap => \A l \in Lines :
        /\ captured[l] < 2
        /\ captured[l] > 0 => \/ l < FirstFrom(offset)
                              \/ \E p \in Passes : Embedding(p) /\ l < pass[p].next

\* Nor is there a chunk of the turn it embeds, which a new one would replace.
ChunksBehind ==
    ~overlap => \A x \in chunks \cup savedChunks :
        \/ x.id < FirstFrom(offset)
        \/ \E p \in Passes : Embedding(p) /\ x.id < pass[p].from

BehindKept ==
    /\ IndexedUnlessLost
    /\ \A q \in Passes : Reading(q) => \A l \in 1..Whole(pass[q].start) : Kept(l)
    /\ \A q \in Passes : Embedding(q) =>
          \A l \in FirstFrom(pass[q].start)..(pass[q].from - 1) : Kept(l)

\* A chunk holds lines of one turn, all of them in transcripts.jsonl: nothing is
\* found in the collection that the transcript does not have.
ChunksRecorded ==
    \A x \in chunks \cup savedChunks :
        /\ x.ver <= x.id
        /\ \A k \in x.ver..x.id : captured[k] > 0 /\ Turn[k] = Turn[x.id]

CaptureInv ==
    /\ TypeOK /\ PassSane /\ BehindRecorded /\ ReadRecorded /\ Alone
    /\ NotAhead /\ ChunksBehind /\ BehindKept /\ ChunksRecorded

\* The two ways on for the loop of a pass: behind its last line, or a turn
\* further.
Finish(p) ==
    /\ offset' = EndOffset(pass[p].start, pass[p].size)
    /\ pass' = [pass EXCEPT ![p] = Idle]
    /\ cut' = cut \cup CutBy(pass[p].start, pass[p].size)
    /\ UNCHANGED captured

Advance(p, from, next) ==
    /\ captured' = [l \in Lines |->
                       IF l \in next..(NextOf(LastLine(p), from) - 1) /\ captured[l] < 2
                       THEN captured[l] + 1 ELSE captured[l]]
    /\ pass' = [pass EXCEPT ![p] = [@ EXCEPT !.at = "embed", !.from = from,
                                             !.next = NextOf(LastLine(p), from)]]
    /\ UNCHANGED <<offset, cut>>

\* A step that disturbs no pass that reads, and nothing that one has done.
Quiet ==
    /\ \A q \in Passes : Reading(q) \/ Reading(q)' => pass'[q] = pass[q]
    /\ UNCHANGED <<offset, captured, chunks, cut, overlap, unindexed, replaced>>
    /\ savedChunks' \in {savedChunks, chunks}

\* What holds where the loop is about to go on from line "from", its next line
\* to record being "next", the chunk of the turn before it put away.
KeptNow(l) == l \in cut \cup unindexed' \cup LinesOf(chunks') \/ (overlap /\ l \in replaced')

LoopHead(p, from, next) ==
    /\ Reading(p) /\ from \in Nat /\ next \in Nat
    /\ FirstFrom(pass[p].start) <= from /\ from <= next /\ next <= from + 1
    /\ next = FirstFrom(pass[p].start) \/ next <= LastLine(p) + 1
    /\ \A l \in FirstFrom(pass[p].start)..(next - 1) : captured[l] > 0
    /\ ~overlap => \A l \in Lines : captured[l] > 0 => l < next
    /\ ~overlap => \A x \in chunks' \cup savedChunks' : x.id < from
    /\ \A x \in chunks' \cup savedChunks' :
          /\ x.ver <= x.id
          /\ \A k \in x.ver..x.id : captured[k] > 0 /\ Turn[k] = Turn[x.id]
    /\ \A l : Kept(l) => KeptNow(l)
    /\ \A l \in FirstFrom(pass[p].start)..(from - 1) : KeptNow(l)
    /\ UNCHANGED <<size, overlap>>
    /\ \/ from > LastLine(p) /\ Finish(p)
       \/ from <= LastLine(p) /\ Advance(p, from, next)

-----------------------------------------------------------------------------
\* Numbers.  A nonempty set of naturals has a least element: its initial
\* segments below one of its elements are sets of a finite set.
LEMMA LeastElement ==
    ASSUME NEW S \in SUBSET Nat, S # {}
    PROVE  \E m \in S : \A k \in S : m <= k
<1>1. PICK s \in S : s \in Nat
  OBVIOUS
<1> DEFINE U == 0..s
           T == {0..k : k \in {i \in S : i <= s}}
<1>2. IsFiniteSet(U)
  BY <1>1, FS_Interval
<1>3. IsWellFoundedOn(StrictSubsetOrdering(U), SUBSET U)
  BY <1>2, FS_StrictSubsetOrderingWellFounded, FS_FiniteSubsetsOfFinite
<1>4. T \subseteq SUBSET U /\ T # {}
  BY <1>1
<1>5. PICK x \in T : \A y \in T : ~(<<y, x>> \in StrictSubsetOrdering(U))
  <2> HIDE DEF T, U
  <2> QED
    BY <1>3, <1>4, WFMin
<1>6. PICK m \in S : m <= s /\ x = 0..m
  BY <1>5
<1>7. ASSUME NEW k \in S, k < m PROVE FALSE
  <2>1. 0..k \in T
    BY <1>6, <1>7, <1>1
  <2>2. 0..k \subseteq 0..m /\ 0..k # 0..m
    BY <1>7, <1>6
  <2>3. <<0..k, 0..m>> \in StrictSubsetOrdering(U)
    BY <2>2, <1>6, <1>7, <1>1 DEF StrictSubsetOrdering
  <2> QED
    BY <2>1, <2>3, <1>5, <1>6
<1> QED
  BY <1>7, <1>6

\* A position is whole lines and a rest shorter than a line.
LEMMA DivMod ==
    ASSUME NEW n \in Nat
    PROVE  /\ Whole(n) \in Nat
           /\ n % LineBytes \in 0..(LineBytes - 1)
           /\ n = Whole(n) * LineBytes + (n % LineBytes)
<1>1. LineBytes \in Nat /\ LineBytes > 1
  BY SizesAssumption
<1> QED
  BY <1>1 DEF Whole

\* And only one number of whole lines leaves such a rest.
LEMMA WholeIs ==
    ASSUME NEW n \in Nat, NEW k \in Nat, k * LineBytes <= n, n < (k + 1) * LineBytes
    PROVE  Whole(n) = k
<1>1. LineBytes \in Nat /\ LineBytes > 1
  BY SizesAssumption
<1>2. n = k * LineBytes + (n - k * LineBytes) /\ n - k * LineBytes \in 0..(LineBytes - 1)
  BY <1>1
<1> QED
  BY <1>1, <1>2 DEF Whole

\* Bytes of lines.
LEMMA LinesBytes ==
    ASSUME NEW a \in Nat, NEW b \in Nat
    PROVE  /\ a * LineBytes \in Nat
           /\ (a + 1) * LineBytes = a * LineBytes + LineBytes
           /\ a <= b => a * LineBytes <= b * LineBytes
<1>1. LineBytes \in Nat /\ LineBytes > 1
  BY SizesAssumption
<1>2. ASSUME a <= b PROVE a * LineBytes <= b * LineBytes
  <2>1. PICK d \in Nat : b = a + d
    <3>1. b - a \in Nat /\ b = a + (b - a)
      BY <1>2
    <3> QED
      BY <3>1
  <2>2. b * LineBytes = a * LineBytes + d * LineBytes
    BY <1>1, <2>1
  <2>3. d * LineBytes \in Nat /\ a * LineBytes \in Nat
    BY <1>1
  <2> QED
    BY <2>2, <2>3
<1> QED
  BY <1>1, <1>2

\* Line l is whole within n bytes if its last byte is.
LEMMA WholeLine ==
    ASSUME NEW n \in Nat, NEW l \in Nat
    PROVE  l <= Whole(n) <=> l * LineBytes <= n
<1>1. LineBytes \in Nat /\ LineBytes > 1
  BY SizesAssumption
<1> DEFINE w == Whole(n)
           wBytes == w * LineBytes
           lBytes == l * LineBytes
           rest == n % LineBytes
<1>2. w \in Nat /\ rest \in 0..(LineBytes - 1) /\ n = wBytes + rest
  BY DivMod
<1>3. wBytes \in Nat /\ lBytes \in Nat
  BY <1>2, LinesBytes
<1>4. l <= w => lBytes <= wBytes
  BY <1>2, LinesBytes
<1>5. w + 1 <= l => wBytes + LineBytes <= lBytes
  <2>1. w + 1 \in Nat
    BY <1>2
  <2>2. (w + 1) * LineBytes = wBytes + LineBytes
    BY <1>2, LinesBytes
  <2>3. w + 1 <= l => (w + 1) * LineBytes <= lBytes
    BY <2>1, LinesBytes
  <2> QED
    BY <2>2, <2>3
<1> HIDE DEF w, wBytes, lBytes, rest
<1>6. l <= w <=> lBytes <= n
  BY <1>1, <1>2, <1>3, <1>4, <1>5
<1> QED
  BY <1>6 DEF w, lBytes

\* More bytes hold no fewer whole lines.
LEMMA WholeGrows ==
    ASSUME NEW m \in Nat, NEW n \in Nat, m <= n
    PROVE  Whole(m) \in Nat /\ Whole(m) <= Whole(n)
<1>1. Whole(m) \in Nat /\ Whole(n) \in Nat
  BY DivMod
<1>2. Whole(m) * LineBytes <= m
  BY <1>1, WholeLine
<1>3. Whole(m) * LineBytes \in Nat
  BY <1>1, LinesBytes
<1>4. Whole(m) * LineBytes <= n
  BY <1>2, <1>3
<1> QED
  BY <1>1, <1>4, WholeLine

\* The lines before FirstFrom(n) are those that begin before byte n.
LEMMA FirstLine ==
    ASSUME NEW n \in Nat
    PROVE  /\ FirstFrom(n) \in Nat /\ FirstFrom(n) >= 1
           /\ \A l \in Nat \ {0} : l < FirstFrom(n) <=> (l - 1) * LineBytes < n
<1>1. LineBytes \in Nat /\ LineBytes > 1
  BY SizesAssumption
<1> DEFINE m == n + LineBytes - 1
<1>2. m \in Nat
  BY <1>1
<1>3. FirstFrom(n) = Whole(m) + 1 /\ Whole(m) \in Nat
  BY <1>2, DivMod DEF FirstFrom, Whole
<1>4. ASSUME NEW l \in Nat \ {0}
      PROVE  l < FirstFrom(n) <=> (l - 1) * LineBytes < n
  <2>1. l <= Whole(m) <=> l * LineBytes <= m
    BY <1>2, WholeLine
  <2>2. l - 1 \in Nat /\ (l - 1) + 1 = l
    BY <1>4
  <2>3. (l - 1) * LineBytes \in Nat /\ l * LineBytes = (l - 1) * LineBytes + LineBytes
    BY <2>2, LinesBytes
  <2> DEFINE before == (l - 1) * LineBytes
             bytes == l * LineBytes
  <2> HIDE DEF before, bytes
  <2>4. before \in Nat /\ bytes = before + LineBytes
    BY <2>3 DEF before, bytes
  <2>5. bytes <= m <=> before < n
    BY <1>1, <2>4
  <2> QED
    BY <1>3, <2>1, <2>5 DEF before, bytes
<1> QED
  BY <1>3, <1>4

\* A later position has no earlier first line.
LEMMA FirstLineGrows ==
    ASSUME NEW m \in Nat, NEW n \in Nat, m <= n
    PROVE  FirstFrom(m) <= FirstFrom(n)
<1>1. LineBytes \in Nat /\ LineBytes > 1
  BY SizesAssumption
<1>2. m + LineBytes - 1 \in Nat /\ n + LineBytes - 1 \in Nat
      /\ m + LineBytes - 1 <= n + LineBytes - 1
  BY <1>1
<1>3. Whole(m + LineBytes - 1) <= Whole(n + LineBytes - 1)
  BY <1>2, WholeGrows
<1>4. Whole(m + LineBytes - 1) \in Nat /\ Whole(n + LineBytes - 1) \in Nat
  BY <1>2, DivMod
<1> QED
  BY <1>3, <1>4 DEF FirstFrom, Whole

\* A line that a reader starting at byte n does not see from its first byte is
\* whole before n, or cut by n.
LEMMA BehindStart ==
    ASSUME NEW n \in Nat, NEW end \in Nat, NEW l \in Lines,
           l < FirstFrom(n), l <= Whole(end)
    PROVE  l \in 1..Whole(n) \/ l \in CutBy(n, end)
<1>1. l \in Nat \ {0}
  BY SizesAssumption DEF Lines
<1>2. (l - 1) * LineBytes < n
  BY <1>1, FirstLine
<1>3. l * LineBytes <= end
  BY <1>1, WholeLine
<1>4. CASE l * LineBytes <= n
  BY <1>1, <1>4, WholeLine, DivMod
<1>5. CASE ~(l * LineBytes <= n)
  <2>1. l * LineBytes \in Nat
    BY <1>1, LinesBytes
  <2>2. n < l * LineBytes
    BY <1>5, <2>1
  <2> QED
    BY <1>2, <1>3, <2>2 DEF CutBy
<1> QED
  BY <1>4, <1>5

\* Where a pass leaves the offset: not before its start, and not so far that a
\* line it did not read is whole before it; behind all lines it read, if any.
LEMMA EndOffsetFacts ==
    ASSUME NEW start \in Nat, NEW end \in Nat, start < end
    PROVE  /\ EndOffset(start, end) \in Nat
           /\ start <= EndOffset(start, end) /\ EndOffset(start, end) <= end + 1
           /\ Whole(EndOffset(start, end)) <= Whole(end)
           /\ FirstFrom(start) <= Whole(end) => Whole(end) < FirstFrom(EndOffset(start, end))
<1>1. LineBytes \in Nat /\ LineBytes > 1
  BY SizesAssumption
<1> DEFINE w == Whole(end)
           bytes == w * LineBytes
           off == EndOffset(start, end)
<1>2. w \in Nat /\ bytes \in Nat /\ bytes <= end
  <2>1. w \in Nat
    BY DivMod
  <2> QED
    BY <2>1, LinesBytes, WholeLine
<1>3. \A n \in Nat : bytes < n => w < FirstFrom(n)
  <2>1. w + 1 \in Nat \ {0} /\ (w + 1) - 1 = w
    BY <1>2
  <2>2. ASSUME NEW n \in Nat, bytes < n PROVE w < FirstFrom(n)
    <3>1. w + 1 < FirstFrom(n)
      BY <2>1, <2>2, FirstLine
    <3> QED
      BY <3>1, <1>2, FirstLine
  <2> QED
    BY <2>2
<1>4. CASE end % LineBytes = 0
  <2>1. off = end + 1
    BY <1>4 DEF EndOffset
  <2>2. Whole(end + 1) = w
    <3>1. bytes = end
      <4>1. end = bytes + (end % LineBytes)
        BY DivMod
      <4> HIDE DEF bytes
      <4> QED
        BY <1>2, <1>4, <4>1
    <3>2. (w + 1) * LineBytes = bytes + LineBytes
      BY <1>2, LinesBytes
    <3>3. end + 1 \in Nat /\ bytes <= end + 1 /\ end + 1 < bytes + LineBytes
      BY <1>1, <3>1
    <3> HIDE DEF bytes
    <3>4. end + 1 < (w + 1) * LineBytes
      BY <3>2, <3>3
    <3> QED
      BY <1>2, <3>3, <3>4, WholeIs DEF bytes
  <2>3. w < FirstFrom(end + 1)
    <3>1. end + 1 \in Nat /\ bytes < end + 1
      BY <1>2
    <3> QED
      BY <3>1, <1>3
  <2> QED
    BY <1>2, <2>1, <2>2, <2>3
<1>5. CASE end % LineBytes # 0 /\ bytes > start
  <2>1. off = bytes
    BY <1>5 DEF EndOffset
  <2>2. Whole(bytes) <= w
    BY <1>2, WholeGrows
  <2>3. w < FirstFrom(bytes)
    <3>1. CASE w = 0
      BY <3>1, <1>2, FirstLine
    <3>2. CASE w # 0
      <4>1. w \in Nat \ {0} /\ w - 1 \in Nat /\ (w - 1) + 1 = w
        BY <1>2, <3>2
      <4>2. (w - 1) * LineBytes \in Nat /\ bytes = (w - 1) * LineBytes + LineBytes
        BY <4>1, LinesBytes
      <4>3. (w - 1) * LineBytes < bytes
        BY <4>2, <1>1
      <4> HIDE DEF w, bytes
      <4> QED
        BY <1>2, <4>1, <4>3, FirstLine
    <3> QED
      BY <3>1, <3>2
  <2> QED
    BY <1>2, <1>5, <2>1, <2>2, <2>3
<1>6. CASE end % LineBytes # 0 /\ ~(bytes > start)
  <2>1. off = start
    BY <1>6 DEF EndOffset
  <2>2. Whole(start) <= w
    BY WholeGrows
  <2>3. ASSUME FirstFrom(start) <= w PROVE FALSE
    <3>1. w \in Nat \ {0} /\ ~(w < FirstFrom(start))
      BY <1>2, <2>3, FirstLine
    <3>2. ~((w - 1) * LineBytes < start)
      BY <3>1, FirstLine
    <3>3. w - 1 \in Nat /\ (w - 1) + 1 = w
      BY <3>1
    <3>4. (w - 1) * LineBytes \in Nat /\ bytes = (w - 1) * LineBytes + LineBytes
      BY <3>3, LinesBytes
    <3> HIDE DEF bytes
    <3>5. bytes \in Nat /\ bytes <= start
      BY <1>2, <1>6
    <3> QED
      BY <1>1, <3>2, <3>4, <3>5
  <2> QED
    BY <1>2, <2>1, <2>2, <2>3
<1> QED
  BY <1>4, <1>5, <1>6

\* The turn of a line among lines 1..n has a last line: the least one behind
\* which nothing or another turn follows.
LEMMA TurnHasEnd ==
    ASSUME NEW n \in Nat, NEW i \in Nat, i <= n
    PROVE  /\ EndOf(n, i) \in i..n
           /\ \A k \in i..EndOf(n, i) : Turn[k] = Turn[i]
<1> DEFINE Ends == {j \in i..n : j < n => Turn[j + 1] # Turn[j]}
<1>1. n \in Ends /\ Ends \subseteq Nat
  OBVIOUS
<1>2. PICK m \in Ends : \A k \in Ends : m <= k
  <2> HIDE DEF Ends
  <2> QED
    BY <1>1, LeastElement
<1>3. \A k \in i..(m - 1) : Turn[k + 1] = Turn[k]
  BY <1>2
<1> DEFINE Strays == {k \in i..m : Turn[k] # Turn[i]}
<1>4. Strays = {}
  <2> SUFFICES ASSUME Strays # {} PROVE FALSE
    OBVIOUS
  <2>1. Strays \in SUBSET Nat
    OBVIOUS
  <2>2. PICK k \in Strays : \A l \in Strays : k <= l
    <3> HIDE DEF Strays
    <3> QED
      BY <2>1, LeastElement
  <2>3. k \in i..m /\ k # i /\ Turn[k] # Turn[i]
    BY <2>2
  <2>4. k - 1 \in i..(m - 1) /\ (k - 1) + 1 = k
    BY <2>3, <1>2
  <2>5. Turn[k] = Turn[k - 1]
    BY <1>3, <2>4
  <2>6. k - 1 \in Strays
    BY <2>3, <2>4, <2>5
  <2> QED
    BY <2>2, <2>6, <2>4
<1>5. \A k \in i..m : Turn[k] = Turn[i]
  BY <1>4
<1>6. m \in i..n /\ (m < n => Turn[m + 1] # Turn[i])
  <2>1. m \in i..n /\ (m < n => Turn[m + 1] # Turn[m])
    BY <1>2
  <2> QED
    BY <2>1, <1>5
<1> HIDE DEF Ends, Strays
<1> QED
  BY <1>5, <1>6 DEF EndOf

\* The next turn begins behind the line a pass has recorded last, or that line
\* begins it.
LEMMA NextLine ==
    ASSUME NEW n \in Nat, NEW i \in Nat, i <= n
    PROVE  /\ EndOf(n, i) \in i..n
           /\ NextOf(n, i) \in (EndOf(n, i) + 1)..(n + 1)
           /\ NextOf(n, i) <= EndOf(n, i) + 2
           /\ EndOf(n, i) = n => NextOf(n, i) = n + 1
<1>1. EndOf(n, i) \in i..n
  BY TurnHasEnd
<1> QED
  BY <1>1 DEF NextOf

-----------------------------------------------------------------------------
\* Steps.  A pass has read some of the lines there can be.
LEMMA LineCount ==
    ASSUME TypeOK, NEW p \in Passes
    PROVE  /\ pass[p].size \in Nat /\ pass[p].start \in Nat /\ pass[p].from \in Nat
           /\ pass[p].next \in Nat /\ pass[p].size <= size /\ size \in Nat
           /\ LastLine(p) \in Nat /\ LastLine(p) <= MaxLines
<1>1. MaxLines \in Nat /\ MaxLines * LineBytes \in Nat
  BY SizesAssumption, LinesBytes
<1>2. /\ pass[p].size \in Nat /\ pass[p].start \in Nat /\ pass[p].from \in Nat
      /\ pass[p].next \in Nat
      /\ pass[p].size <= size /\ size \in Nat /\ size <= MaxLines * LineBytes
  BY <1>1 DEF TypeOK
<1>3. Whole(MaxLines * LineBytes) = MaxLines
  <2>1. MaxLines * LineBytes < (MaxLines + 1) * LineBytes
    BY <1>1, LinesBytes, SizesAssumption
  <2> QED
    BY <1>1, <2>1, WholeIs
<1>4. pass[p].size <= MaxLines * LineBytes
  BY <1>1, <1>2
<1>5. Whole(pass[p].size) \in Nat /\ Whole(pass[p].size) <= MaxLines
  BY <1>1, <1>2, <1>3, <1>4, WholeGrows
<1> QED
  BY <1>2, <1>5 DEF LastLine

\* The loop finishes or goes on by a turn.
LEMMA ScanCases ==
    ASSUME NEW p, NEW from, NEW next, Scan(p, from, next), LastLine(p) \in Nat, from \in Nat
    PROVE  \/ from > LastLine(p) /\ Finish(p)
           \/ from <= LastLine(p) /\ Advance(p, from, next)
<1>1. TurnEnd(p, from) = EndOf(LastLine(p), from)
  BY DEF TurnEnd, EndOf
<1>2. CASE from > LastLine(p)
  BY <1>2 DEF Scan, Finish
<1>3. CASE ~(from > LastLine(p))
  <2> DEFINE end == TurnEnd(p, from)
             upTo == IF end < LastLine(p) THEN end + 1 ELSE end
  <2>1. end \in Nat
    BY <1>1, <1>3, TurnHasEnd
  <2>2. upTo + 1 = NextOf(LastLine(p), from) /\ upTo = NextOf(LastLine(p), from) - 1
    BY <1>1, <2>1 DEF NextOf
  <2>3. /\ captured' = [l \in Lines |-> IF l \in next..upTo /\ captured[l] < 2
                                        THEN captured[l] + 1 ELSE captured[l]]
        /\ pass' = [pass EXCEPT ![p] = [@ EXCEPT !.at = "embed", !.from = from,
                                                 !.next = upTo + 1]]
        /\ UNCHANGED <<offset, cut>>
    BY <1>3 DEF Scan
  <2> DEFINE N == NextOf(LastLine(p), from)
  <2> HIDE DEF upTo, end, N
  <2>4. captured' = [l \in Lines |-> IF l \in next..(N - 1) /\ captured[l] < 2
                                    THEN captured[l] + 1 ELSE captured[l]]
    <3>1. upTo = N - 1
      BY <2>2 DEF N
    <3> QED
      BY <3>1, <2>3, Zenon
  <2>5. pass' = [pass EXCEPT ![p] = [@ EXCEPT !.at = "embed", !.from = from, !.next = N]]
    <3>1. upTo + 1 = N
      BY <2>2 DEF N
    <3> QED
      BY <3>1, <2>3, Zenon
  <2>6. Advance(p, from, next)
    BY <2>3, <2>4, <2>5, Zenon DEF Advance, N
  <2>7. from <= LastLine(p)
    BY <1>3
  <2> QED
    BY <2>6, <2>7
<1> QED
  BY <1>2, <1>3

\* What the loop does to the pass and to transcripts.jsonl when it goes on.
LEMMA AdvanceShape ==
    ASSUME TypeOK, NEW p \in Passes, NEW from \in Nat, NEW next \in Nat,
           from <= LastLine(p), Advance(p, from, next)
    PROVE  /\ pass'[p].at = "embed" /\ pass'[p].from = from
           /\ pass'[p].size = pass[p].size /\ pass'[p].start = pass[p].start
           /\ pass'[p].next = NextOf(LastLine(p), from)
           /\ \A q \in Passes : q # p => pass'[q] = pass[q]
           /\ pass' \in [Passes -> [at : {"idle", "stat", "open", "embed"},
                                    size : 0..size, start : 0..size,
                                    from : 0..MaxLines, next : 0..(MaxLines + 1)]]
           /\ captured' \in [Lines -> 0..2]
           /\ \A l \in Lines :
                 /\ captured'[l] >= captured[l]
                 /\ l \in next..(NextOf(LastLine(p), from) - 1) => captured'[l] > 0
                 /\ captured[l] < 2 => captured'[l] <= captured[l] + 1
                 /\ l \notin next..(NextOf(LastLine(p), from) - 1) => captured'[l] = captured[l]
<1> DEFINE n == NextOf(LastLine(p), from)
           PassRec == [at : {"idle", "stat", "open", "embed"},
                       size : 0..size, start : 0..size,
                       from : 0..MaxLines, next : 0..(MaxLines + 1)]
<1>1. LastLine(p) \in Nat /\ LastLine(p) <= MaxLines /\ MaxLines \in Nat
  BY LineCount, SizesAssumption
<1>2. n \in Nat /\ n <= MaxLines + 1
  <2> DEFINE e == EndOf(LastLine(p), from)
  <2>1. e \in from..LastLine(p) /\ n \in (e + 1)..(LastLine(p) + 1)
    BY <1>1, NextLine
  <2> HIDE DEF e, n
  <2> QED
    BY <1>1, <2>1
<1>3. pass \in [Passes -> PassRec] /\ captured \in [Lines -> 0..2]
  BY DEF TypeOK
<1>4. /\ pass' = [pass EXCEPT ![p] = [@ EXCEPT !.at = "embed", !.from = from, !.next = n]]
      /\ captured' = [l \in Lines |-> IF l \in next..(n - 1) /\ captured[l] < 2
                                      THEN captured[l] + 1 ELSE captured[l]]
  BY DEF Advance
<1> HIDE DEF n
<1>5. from \in 0..MaxLines /\ n \in 0..(MaxLines + 1)
  BY <1>1, <1>2
<1>6. /\ pass'[p].at = "embed" /\ pass'[p].from = from
      /\ pass'[p].size = pass[p].size /\ pass'[p].start = pass[p].start
      /\ pass'[p].next = n
      /\ \A q \in Passes : q # p => pass'[q] = pass[q]
      /\ pass' \in [Passes -> PassRec]
  BY <1>3, <1>4, <1>5
<1>7. captured' \in [Lines -> 0..2]
  BY <1>3, <1>4
<1>8. ASSUME NEW l \in Lines
      PROVE  /\ captured'[l] >= captured[l]
             /\ l \in next..(n - 1) => captured'[l] > 0
             /\ captured[l] < 2 => captured'[l] <= captured[l] + 1
             /\ l \notin next..(n - 1) => captured'[l] = captured[l]
  <2>1. captured[l] \in 0..2
    BY <1>3
  <2>2. captured'[l] = IF l \in next..(n - 1) /\ captured[l] < 2
                       THEN captured[l] + 1 ELSE captured[l]
    BY <1>4
  <2> QED
    BY <2>1, <2>2
<1> QED
  BY <1>6, <1>7, <1>8 DEF n

\* What the end of a pass leaves.
LEMMA FinishShape ==
    ASSUME TypeOK, NEW p \in Passes, pass[p].start < pass[p].size, Finish(p)
    PROVE  /\ offset' = EndOffset(pass[p].start, pass[p].size)
           /\ offset' \in 0..(MaxLines * LineBytes + 1)
           /\ pass[p].start <= offset' /\ Whole(offset') <= LastLine(p)
           /\ FirstFrom(pass[p].start) <= FirstFrom(offset')
           /\ FirstFrom(pass[p].start) <= LastLine(p) => LastLine(p) < FirstFrom(offset')
           /\ pass'[p] = Idle
           /\ \A q \in Passes : q # p => pass'[q] = pass[q]
           /\ pass' \in [Passes -> [at : {"idle", "stat", "open", "embed"},
                                    size : 0..size, start : 0..size,
                                    from : 0..MaxLines, next : 0..(MaxLines + 1)]]
           /\ cut' = cut \cup CutBy(pass[p].start, pass[p].size) /\ cut' \in SUBSET Lines
           /\ captured' = captured
<1>1. pass[p].start \in Nat /\ pass[p].size \in Nat /\ pass[p].size <= size /\ size \in Nat
  BY LineCount
<1>2. MaxLines * LineBytes \in Nat /\ size <= MaxLines * LineBytes /\ MaxLines \in Nat
  BY SizesAssumption, LinesBytes DEF TypeOK
<1>3. /\ offset' = EndOffset(pass[p].start, pass[p].size) /\ offset' \in Nat
      /\ pass[p].start <= offset' /\ offset' <= pass[p].size + 1
      /\ Whole(offset') <= LastLine(p)
      /\ FirstFrom(pass[p].start) <= LastLine(p) => LastLine(p) < FirstFrom(offset')
  BY <1>1, EndOffsetFacts DEF Finish, LastLine
<1>4. offset' \in 0..(MaxLines * LineBytes + 1)
  BY <1>1, <1>2, <1>3
<1>5. FirstFrom(pass[p].start) <= FirstFrom(offset')
  BY <1>1, <1>3, FirstLineGrows
<1>6. Idle \in [at : {"idle", "stat", "open", "embed"}, size : 0..size, start : 0..size,
                from : 0..MaxLines, next : 0..(MaxLines + 1)]
  BY <1>1, <1>2 DEF Idle
<1>7. /\ pass'[p] = Idle
      /\ \A q \in Passes : q # p => pass'[q] = pass[q]
      /\ pass' \in [Passes -> [at : {"idle", "stat", "open", "embed"},
                               size : 0..size, start : 0..size,
                               from : 0..MaxLines, next : 0..(MaxLines + 1)]]
  BY <1>6 DEF Finish, TypeOK
<1>8. cut' = cut \cup CutBy(pass[p].start, pass[p].size) /\ cut' \in SUBSET Lines
  BY DEF Finish, TypeOK, CutBy
<1> QED
  BY <1>3, <1>4, <1>5, <1>7, <1>8 DEF Finish

\* The turn that a pass has embedded when it goes on.
LEMMA EmbeddedTurn ==
    ASSUME TypeOK, PassSane, NEW p \in Passes, Embedding(p)
    PROVE  /\ pass[p].from \in Lines
           /\ TurnEnd(p, pass[p].from) = EndOf(LastLine(p), pass[p].from)
           /\ TurnEnd(p, pass[p].from) \in pass[p].from..LastLine(p)
           /\ TurnEnd(p, pass[p].from) \in Lines
           /\ \A k \in pass[p].from..TurnEnd(p, pass[p].from) :
                 Turn[k] = Turn[TurnEnd(p, pass[p].from)]
           /\ TurnEnd(p, pass[p].from) < pass[p].next
           /\ pass[p].next <= LastLine(p) + 1
           /\ pass[p].next <= TurnEnd(p, pass[p].from) + 2
           /\ TurnEnd(p, pass[p].from) = LastLine(p) => pass[p].next = LastLine(p) + 1
           /\ [id |-> TurnEnd(p, pass[p].from), ver |-> pass[p].from] \in Chunks
<1> DEFINE i == pass[p].from
           n == LastLine(p)
           e == EndOf(n, i)
<1>1. /\ i \in Nat /\ n \in Nat /\ n <= MaxLines /\ MaxLines \in Nat
      /\ pass[p].start \in Nat
  BY LineCount, SizesAssumption
<1>2. FirstFrom(pass[p].start) <= i /\ i <= n /\ pass[p].next = NextOf(n, i)
  BY DEF PassSane
<1>3. FirstFrom(pass[p].start) \in Nat /\ FirstFrom(pass[p].start) >= 1
  BY <1>1, FirstLine
<1>4. TurnEnd(p, i) = e
  BY DEF TurnEnd, EndOf
<1>5. e \in i..n /\ \A k \in i..e : Turn[k] = Turn[i]
  BY <1>1, <1>2, TurnHasEnd
<1>6. /\ NextOf(n, i) \in (e + 1)..(n + 1) /\ NextOf(n, i) <= e + 2
      /\ e = n => NextOf(n, i) = n + 1
  BY <1>1, <1>2, NextLine
<1> HIDE DEF i, n, e
<1>7. i \in Lines /\ e \in Lines
  BY <1>1, <1>2, <1>3, <1>5 DEF Lines
<1>8. e \in i..e
  BY <1>1, <1>5
<1>9. \A k \in i..e : Turn[k] = Turn[e]
  BY <1>5, <1>8
<1>10. /\ e < pass[p].next /\ pass[p].next <= n + 1 /\ pass[p].next <= e + 2
       /\ e = n => pass[p].next = n + 1
  BY <1>1, <1>2, <1>5, <1>6
<1>11. [id |-> e, ver |-> i] \in Chunks
  BY <1>7 DEF Chunks
<1> QED
  BY <1>4, <1>5, <1>7, <1>9, <1>10, <1>11 DEF i, n, e

\* The whole lines before the offset are lines.
LEMMA OffsetWhole ==
    ASSUME TypeOK
    PROVE  Whole(offset) \in Nat /\ Whole(offset) <= MaxLines /\ MaxLines \in Nat
<1> DEFINE all == MaxLines * LineBytes
<1>1. MaxLines \in Nat /\ all \in Nat /\ LineBytes \in Nat /\ LineBytes > 1
  BY SizesAssumption, LinesBytes
<1>2. offset \in Nat /\ offset <= all + 1 /\ all + 1 \in Nat
  BY <1>1 DEF TypeOK
<1>3. Whole(all + 1) = MaxLines
  <2>1. (MaxLines + 1) * LineBytes = all + LineBytes
    BY <1>1, LinesBytes
  <2>2. all <= all + 1 /\ all + 1 < (MaxLines + 1) * LineBytes
    <3> HIDE DEF all
    <3> QED
      BY <1>1, <2>1
  <2> QED
    BY <1>1, <1>2, <2>2, WholeIs
<1> QED
  BY <1>1, <1>2, <1>3, WholeGrows

\* So are those that an embedding pass has recorded.
LEMMA EmbeddingLines ==
    ASSUME TypeOK, PassSane, NEW q \in Passes, Embedding(q)
    PROVE  FirstFrom(pass[q].start)..(pass[q].next - 1) \subseteq Lines
<1>1. /\ pass[q].start \in Nat /\ pass[q].next \in Nat /\ LastLine(q) \in Nat
      /\ LastLine(q) <= MaxLines /\ MaxLines \in Nat
  BY LineCount, SizesAssumption
<1>2. FirstFrom(pass[q].start) \in Nat /\ FirstFrom(pass[q].start) >= 1
  BY <1>1, FirstLine
<1>3. pass[q].next <= LastLine(q) + 1
  BY EmbeddedTurn
<1> QED
  BY <1>1, <1>2, <1>3 DEF Lines

\* What the loop does as the first step of a pass, and as a later one.
LEMMA ScanSteps ==
    ASSUME TypeOK, PassSane, NEW p \in Passes, ScanFirst(p) \/ Resume(p)
    PROVE  /\ pass[p].start < pass[p].size /\ pass[p].start \in Nat
           /\ FirstFrom(pass[p].start) \in Nat /\ FirstFrom(pass[p].start) >= 1
           /\ \/ Finish(p)
              \/ \E from \in Nat, next \in Nat :
                    /\ FirstFrom(pass[p].start) <= from /\ from <= LastLine(p)
                    /\ Advance(p, from, next)
<1>1. /\ pass[p].start \in Nat /\ LastLine(p) \in Nat /\ pass[p].next \in Nat
      /\ pass[p].from \in Nat
  BY LineCount
<1>2. FirstFrom(pass[p].start) \in Nat /\ FirstFrom(pass[p].start) >= 1
  BY <1>1, FirstLine
<1>3. pass[p].start < pass[p].size
  BY DEF PassSane, ScanFirst, Resume, Reading
<1>4. CASE ScanFirst(p)
  <2>1. Scan(p, FirstFrom(pass[p].start), FirstFrom(pass[p].start))
    BY <1>4 DEF ScanFirst
  <2>2. \/ Finish(p)
        \/ /\ FirstFrom(pass[p].start) <= LastLine(p)
           /\ Advance(p, FirstFrom(pass[p].start), FirstFrom(pass[p].start))
    BY <1>1, <1>2, <2>1, ScanCases
  <2> QED
    BY <1>1, <1>2, <1>3, <2>2
<1>5. CASE Resume(p)
  <2>1. Embedding(p) /\ Scan(p, TurnEnd(p, pass[p].from) + 1, pass[p].next)
    BY <1>5 DEF Resume, Embedding
  <2>2. TurnEnd(p, pass[p].from) \in pass[p].from..LastLine(p)
    BY <2>1, EmbeddedTurn
  <2>3. FirstFrom(pass[p].start) <= pass[p].from
    BY <2>1 DEF PassSane
  <2> DEFINE e == TurnEnd(p, pass[p].from)
  <2> HIDE DEF e
  <2>4. e + 1 \in Nat /\ FirstFrom(pass[p].start) <= e + 1
    BY <1>1, <1>2, <2>2, <2>3 DEF e
  <2>5. Finish(p) \/ (e + 1 <= LastLine(p) /\ Advance(p, e + 1, pass[p].next))
    BY <1>1, <2>1, <2>4, ScanCases DEF e
  <2> QED
    BY <1>1, <1>2, <1>3, <2>4, <2>5
<1> QED
  BY <1>4, <1>5

\* The lines of chunks are lines.
LEMMA LinesOfChunks ==
    ASSUME NEW recs \in SUBSET Chunks
    PROVE  LinesOf(recs) \in SUBSET Lines
<1>1. MaxLines \in Nat
  BY SizesAssumption
<1>2. ASSUME NEW r \in recs PROVE r.ver..r.id \subseteq Lines
  BY <1>1 DEF Chunks, Lines
<1> QED
  BY <1>2 DEF LinesOf

\* Every step keeps the types.
LEMMA TypeStep ==
    ASSUME TypeOK, PassSane, [Next]_vars
    PROVE  TypeOK'
<1> DEFINE PassRec(n) == [at : {"idle", "stat", "open", "embed"}, size : 0..n, start : 0..n,
                          from : 0..MaxLines, next : 0..(MaxLines + 1)]
<1>1. /\ MaxLines \in Nat /\ MaxCrashes \in Nat /\ MaxLines * LineBytes \in Nat
      /\ LineBytes \in Nat
  BY SizesAssumption, LinesBytes
<1>2. size \in Nat /\ size <= MaxLines * LineBytes /\ pass \in [Passes -> PassRec(size)]
  BY <1>1 DEF TypeOK
<1>3. Idle \in PassRec(size)
  BY <1>1, <1>2 DEF Idle
<1>4. CASE Write
  <2>1. size' \in Nat /\ size <= size' /\ size' <= MaxLines * LineBytes
    BY <1>1, <1>2, <1>4 DEF Write
  <2>2. PassRec(size) \subseteq PassRec(size')
    BY <1>2, <2>1
  <2>3. pass' \in [Passes -> PassRec(size')]
    BY <1>2, <1>4, <2>2 DEF Write
  <2>4. size' \in 0..(MaxLines * LineBytes)
    BY <1>1, <2>1
  <2> QED
    BY <1>4, <2>3, <2>4 DEF Write, TypeOK, historyVars
<1>5. CASE Flush
  BY <1>5 DEF Flush, TypeOK, fileVars, historyVars, Store!Save
<1>6. ASSUME NEW off \in {0, offset}, Restart(off) PROVE TypeOK'
  <2>1. pass' \in [Passes -> PassRec(size)]
    BY <1>3, <1>6 DEF Restart
  <2>2. offset' \in 0..(MaxLines * LineBytes + 1)
    BY <1>1, <1>6 DEF Restart, TypeOK
  <2>3. event' \in BOOLEAN
    <3>1. event' = (size > off)
      BY <1>6 DEF Restart
    <3> QED
      BY <3>1
  <2>4. overlap' \in BOOLEAN
    BY <1>6, Zenon DEF Restart, TypeOK
  <2>5. crashes' \in 0..MaxCrashes
    BY <1>1, <1>6 DEF Restart, TypeOK
  <2>6. unindexed' \in SUBSET Lines
    <3>1. LinesOf(chunks) \in SUBSET Lines
      BY LinesOfChunks DEF TypeOK
    <3>2. unindexed' = unindexed \cup (LinesOf(chunks) \ LinesOf(savedChunks))
      BY <1>6 DEF Restart
    <3>3. unindexed \in SUBSET Lines
      BY DEF TypeOK
    <3> QED
      BY <3>1, <3>2, <3>3
  <2>7. chunks' \in SUBSET Chunks /\ savedChunks' \in SUBSET Chunks
    BY <1>6 DEF Restart, Store!Crash, TypeOK
  <2>8. UNCHANGED <<size, captured, cut, replaced>>
    BY <1>6 DEF Restart
  <2> QED
    BY <2>1, <2>2, <2>3, <2>4, <2>5, <2>6, <2>7, <2>8 DEF TypeOK
<1>7. ASSUME NEW p \in Passes, StartPass(p) PROVE TypeOK'
  <2>1. [Idle EXCEPT !.at = "stat", !.size = size] \in PassRec(size)
    <3> DEFINE a == [Idle EXCEPT !.at = "stat"]
    <3>1. a \in PassRec(size)
      BY <1>3
    <3> HIDE DEF a
    <3>2. [a EXCEPT !.size = size] \in PassRec(size)
      BY <1>2, <3>1
    <3>3. [a EXCEPT !.size = size] = [Idle EXCEPT !.at = "stat", !.size = size]
      BY DEF a
    <3> QED
      BY <3>2, <3>3, Zenon
  <2>2. pass' \in [Passes -> PassRec(size)]
    BY <1>2, <1>7, <2>1 DEF StartPass
  <2> QED
    BY <1>7, <2>2 DEF StartPass, TypeOK, fileVars, historyVars
<1>8. ASSUME NEW p \in Passes, OpenTail(p) PROVE TypeOK'
  <2>1. CASE pass[p].size <= offset
    <3>1. pass' \in [Passes -> PassRec(size)] /\ overlap' = overlap
      BY <1>2, <1>3, <1>8, <2>1 DEF OpenTail
    <3> QED
      BY <1>8, <3>1 DEF OpenTail, TypeOK, fileVars
  <2>2. CASE ~(pass[p].size <= offset)
    <3>1. offset \in 0..size
      BY <1>1, <1>2, <2>2 DEF TypeOK
    <3>2. pass' \in [Passes -> PassRec(size)]
      BY <1>2, <1>8, <2>2, <3>1 DEF OpenTail
    <3>3. overlap' \in BOOLEAN
      BY <1>8, <2>2, Zenon DEF OpenTail, TypeOK
    <3> QED
      BY <1>8, <3>2, <3>3 DEF OpenTail, TypeOK, fileVars
  <2> QED
    BY <2>1, <2>2
<1>9. ASSUME NEW p \in Passes, ScanFirst(p) \/ Resume(p)
      PROVE  /\ pass' \in [Passes -> PassRec(size)]
             /\ offset' \in 0..(MaxLines * LineBytes + 1)
             /\ captured' \in [Lines -> 0..2] /\ cut' \in SUBSET Lines
  <2>1. CASE Finish(p)
    BY <1>9, <2>1, ScanSteps, FinishShape DEF TypeOK
  <2>2. ASSUME NEW from \in Nat, NEW next \in Nat, from <= LastLine(p), Advance(p, from, next)
        PROVE  /\ pass' \in [Passes -> PassRec(size)]
               /\ offset' \in 0..(MaxLines * LineBytes + 1)
               /\ captured' \in [Lines -> 0..2] /\ cut' \in SUBSET Lines
    <3>1. pass' \in [Passes -> PassRec(size)] /\ captured' \in [Lines -> 0..2]
      BY <2>2, AdvanceShape
    <3> QED
      BY <2>2, <3>1 DEF Advance, TypeOK
  <2> QED
    BY <1>9, <2>1, <2>2, ScanSteps
<1>10. ASSUME NEW p \in Passes, ScanFirst(p) PROVE TypeOK'
  BY <1>9, <1>10 DEF ScanFirst, TypeOK
<1>11. ASSUME NEW p \in Passes, Resume(p) PROVE TypeOK'
  <2> DEFINE end == TurnEnd(p, pass[p].from)
             r == [id |-> end, ver |-> pass[p].from]
  <2>1. r \in Chunks /\ end \in Lines /\ pass[p].from \in Lines
    BY <1>11, EmbeddedTurn DEF Resume, Embedding
  <2>2. /\ \/ /\ Store!Put(r)
              /\ replaced' = (replaced \cup LinesOf(chunks)) \ LinesOf(chunks')
              /\ UNCHANGED unindexed
           \/ /\ unindexed' = unindexed \cup pass[p].from..end
              /\ UNCHANGED <<chunks, savedChunks, replaced>>
        /\ UNCHANGED <<size, event, crashes, overlap>>
    BY <1>11 DEF Resume
  <2>3. /\ chunks' \in SUBSET Chunks /\ savedChunks' \in SUBSET Chunks
        /\ unindexed' \in SUBSET Lines /\ replaced' \in SUBSET Lines
    <3>1. CASE Store!Put(r) /\ replaced' = (replaced \cup LinesOf(chunks)) \ LinesOf(chunks')
               /\ UNCHANGED unindexed
      <4>1. LinesOf(chunks) \in SUBSET Lines
        BY LinesOfChunks DEF TypeOK
      <4>2. replaced \in SUBSET Lines /\ unindexed \in SUBSET Lines
            /\ chunks \in SUBSET Chunks /\ savedChunks \in SUBSET Chunks
        BY DEF TypeOK
      <4> HIDE DEF r
      <4>3. chunks' = {x \in chunks : x.id # r.id} \cup {r} /\ savedChunks' = savedChunks
        BY <3>1 DEF Store!Put
      <4> QED
        BY <2>1, <3>1, <4>1, <4>2, <4>3
    <3>2. CASE unindexed' = unindexed \cup pass[p].from..end
               /\ UNCHANGED <<chunks, savedChunks, replaced>>
      <4>1. pass[p].from..end \subseteq Lines
        BY <1>1, <2>1 DEF Lines
      <4> QED
        BY <3>2, <4>1 DEF TypeOK
    <3> QED
      BY <2>2, <3>1, <3>2
  <2> QED
    BY <1>9, <1>11, <2>2, <2>3 DEF TypeOK
<1>12. CASE UNCHANGED vars
  BY <1>12 DEF vars, fileVars, historyVars, TypeOK
<1>13. DieAndBoot \/ DieInSave => TypeOK'
  BY <1>6 DEF DieAndBoot, DieInSave
<1> QED
  BY <1>4, <1>5, <1>7, <1>8, <1>10, <1>11, <1>12, <1>13 DEF Next

-----------------------------------------------------------------------------
\* An empty daemon has the whole invariant.
LEMMA CaptureInit ==
    ASSUME Init PROVE CaptureInv
<1>1. /\ MaxLines \in Nat /\ MaxCrashes \in Nat /\ MaxLines * LineBytes \in Nat
      /\ LineBytes \in Nat /\ LineBytes > 1
  BY SizesAssumption, LinesBytes
<1>2. Idle \in [at : {"idle", "stat", "open", "embed"}, size : 0..0, start : 0..0,
                from : 0..MaxLines, next : 0..(MaxLines + 1)]
  BY <1>1 DEF Idle
<1>3. TypeOK
  <2>1. pass \in [Passes -> [at : {"idle", "stat", "open", "embed"}, size : 0..size,
                            start : 0..size, from : 0..MaxLines, next : 0..(MaxLines + 1)]]
    BY <1>2 DEF Init
  <2>2. /\ size \in 0..(MaxLines * LineBytes) /\ offset \in 0..(MaxLines * LineBytes + 1)
        /\ crashes \in 0..MaxCrashes
    BY <1>1 DEF Init
  <2>3. captured \in [Lines -> 0..2]
    BY DEF Init
  <2> QED
    BY <2>1, <2>2, <2>3 DEF Init, TypeOK
<1>4. \A q \in Passes : ~Reading(q) /\ ~Embedding(q)
  BY DEF Init, Idle, Reading, Embedding
<1>5. Whole(0) = 0
  <2>1. 0 * LineBytes = 0 /\ (0 + 1) * LineBytes = LineBytes
    BY <1>1
  <2> QED
    BY <1>1, <2>1, WholeIs
<1>6. 1..Whole(offset) = {}
  BY <1>5 DEF Init
<1>7. OnlyCutLinesSkipped /\ IndexedUnlessLost
  BY <1>6 DEF OnlyCutLinesSkipped, IndexedUnlessLost
<1>8. \A l \in Lines : captured[l] = 0
  BY DEF Init
<1>9. chunks \cup savedChunks = {}
  BY DEF Init
<1>10. PassSane /\ BehindRecorded /\ ReadRecorded /\ Alone /\ BehindKept
  BY <1>4, <1>7 DEF PassSane, BehindRecorded, ReadRecorded, Alone, BehindKept
<1>11. NotAhead
  BY <1>8 DEF NotAhead
<1>12. ChunksBehind /\ ChunksRecorded
  BY <1>9 DEF ChunksBehind, ChunksRecorded
<1> QED
  BY <1>3, <1>10, <1>11, <1>12 DEF CaptureInv

\* A quiet step keeps the invariant.
LEMMA QuietStep ==
    ASSUME CaptureInv, TypeOK', Quiet
    PROVE  CaptureInv'
<1>1. \A q \in Passes : Reading(q)' => Reading(q) /\ pass'[q] = pass[q]
  BY DEF Quiet, Reading
<1>2. \A q \in Passes : Reading(q) => Reading(q)' /\ pass'[q] = pass[q]
  BY DEF Quiet, Reading
<1>3. \A q \in Passes : Embedding(q)' =>
          /\ Reading(q)' /\ Reading(q)
          /\ Embedding(q) /\ pass'[q] = pass[q]
  BY <1>1 DEF Embedding, Reading
<1>4. \A q \in Passes : Embedding(q) => Embedding(q)' /\ pass'[q] = pass[q]
  BY <1>2 DEF Embedding, Reading
<1>5. \A q \in Passes : pass'[q] = pass[q] => LastLine(q)' = LastLine(q)
  BY DEF LastLine
<1>6. UNCHANGED <<offset, captured, chunks, cut, overlap, unindexed, replaced>>
      /\ savedChunks' \in {savedChunks, chunks}
  BY DEF Quiet
<1>7. \A l : (Recorded(l)' <=> Recorded(l)) /\ (Kept(l)' <=> Kept(l))
  BY <1>6 DEF Recorded, Kept
<1>8. PassSane'
  BY <1>1, <1>3, <1>5 DEF PassSane, CaptureInv
<1>9. BehindRecorded'
  BY <1>1, <1>6, <1>7 DEF BehindRecorded, OnlyCutLinesSkipped, CaptureInv
<1>10. ReadRecorded'
  BY <1>3, <1>6 DEF ReadRecorded, CaptureInv
<1>11. Alone'
  BY <1>1, <1>6 DEF Alone, CaptureInv
<1>12. NotAhead'
  BY <1>4, <1>6 DEF NotAhead, CaptureInv
<1>13. chunks' \cup savedChunks' \subseteq chunks \cup savedChunks
  BY <1>6
<1>14. ChunksBehind'
  BY <1>4, <1>6, <1>13 DEF ChunksBehind, CaptureInv
<1>15. BehindKept'
  BY <1>1, <1>3, <1>6, <1>7 DEF BehindKept, IndexedUnlessLost, Kept, CaptureInv
<1>16. ChunksRecorded'
  BY <1>6, <1>13 DEF ChunksRecorded, CaptureInv
<1> QED
  BY <1>8, <1>9, <1>10, <1>11, <1>12, <1>14, <1>15, <1>16 DEF CaptureInv

\* A death ends every pass; what the collection loses is remembered as unindexed.
LEMMA RestartStep ==
    ASSUME CaptureInv, TypeOK', NEW off \in {0, offset}, Restart(off),
           off # offset => \E p \in Passes : Embedding(p)
    PROVE  CaptureInv'
<1>1. \A q \in Passes : ~Reading(q)' /\ ~Embedding(q)'
  BY DEF Restart, Idle, Reading, Embedding
<1>2. UNCHANGED <<captured, cut, replaced>> /\ offset' = off
      /\ unindexed' = unindexed \cup (LinesOf(chunks) \ LinesOf(savedChunks))
      /\ chunks' = savedChunks /\ savedChunks' = savedChunks
  BY DEF Restart, Store!Crash
<1>3. overlap' <=> overlap \/ \E p \in Passes : Embedding(p)
  BY DEF Restart, Embedding
<1>4. 1..Whole(off) \subseteq 1..Whole(offset)
  <2>1. CASE off = 0
    <3>1. Whole(0) \in Nat /\ ~(1 <= Whole(0))
      <4>1. LineBytes \in Nat /\ LineBytes > 1
        BY SizesAssumption
      <4>2. ~(1 * LineBytes <= 0)
        BY <4>1
      <4> QED
        BY <4>2, DivMod, WholeLine
    <3> QED
      BY <2>1, <3>1
  <2>2. CASE off = offset
    BY <2>2
  <2> QED
    BY <2>1, <2>2
<1>5. PassSane' /\ ReadRecorded' /\ Alone'
  BY <1>1 DEF PassSane, ReadRecorded, Alone
<1>6. BehindRecorded'
  <2>1. \A l : Recorded(l)' <=> Recorded(l)
    BY <1>2 DEF Recorded
  <2>2. OnlyCutLinesSkipped'
    BY <1>2, <1>4, <2>1 DEF OnlyCutLinesSkipped, BehindRecorded, CaptureInv
  <2> QED
    BY <1>1, <2>2 DEF BehindRecorded
<1>7. ~overlap' => ~overlap /\ off = offset /\ \A p \in Passes : ~Embedding(p)
  BY <1>3
<1>8. NotAhead'
  BY <1>2, <1>7 DEF NotAhead, CaptureInv
<1>9. ChunksBehind'
  BY <1>2, <1>7 DEF ChunksBehind, CaptureInv
<1>10. \A l : Kept(l) => Kept(l)'
  BY <1>2, <1>3 DEF Kept
<1>11. BehindKept'
  <2>1. \A l \in 1..Whole(offset) : Kept(l)
    BY DEF BehindKept, IndexedUnlessLost, Kept, CaptureInv
  <2>2. \A l \in 1..Whole(off) : Kept(l)'
    BY <1>4, <1>10, <2>1
  <2>3. IndexedUnlessLost'
    BY <1>2, <2>2 DEF IndexedUnlessLost, Kept
  <2> QED
    BY <1>1, <2>3 DEF BehindKept
<1>12. ChunksRecorded'
  BY <1>2 DEF ChunksRecorded, CaptureInv
<1> QED
  BY <1>5, <1>6, <1>8, <1>9, <1>11, <1>12 DEF CaptureInv

\* A pass that begins to read starts at the offset.
LEMMA OpenStep ==
    ASSUME CaptureInv, TypeOK', NEW p \in Passes, OpenTail(p), ~(pass[p].size <= offset)
    PROVE  CaptureInv'
<1>1. /\ pass[p].at = "stat" /\ pass'[p].at = "open" /\ pass'[p].start = offset
      /\ pass'[p].size = pass[p].size
      /\ \A q \in Passes : q # p => pass'[q] = pass[q]
  BY DEF OpenTail, CaptureInv, TypeOK
<1>2. overlap' <=> overlap \/ \E q \in Passes : Reading(q)
  BY DEF OpenTail
<1>3. UNCHANGED <<size, offset, captured, chunks, savedChunks, cut, unindexed, replaced>>
  BY DEF OpenTail, fileVars
<1>4. ~Reading(p) /\ ~Embedding(p) /\ Reading(p)' /\ ~Embedding(p)'
  BY <1>1 DEF Reading, Embedding
<1>5. \A q \in Passes : q # p => /\ pass'[q] = pass[q] /\ (Reading(q)' <=> Reading(q))
                                /\ (Embedding(q)' <=> Embedding(q))
                                /\ LastLine(q)' = LastLine(q)
  BY <1>1 DEF Reading, Embedding, LastLine
<1>6. \A q \in Passes : /\ Embedding(q)' <=> Embedding(q)
                        /\ Embedding(q) => pass'[q] = pass[q] /\ LastLine(q)' = LastLine(q)
  BY <1>4, <1>5
<1>7. \A l : (Recorded(l)' <=> Recorded(l)) /\ (Kept(l) => Kept(l)')
  BY <1>2, <1>3 DEF Recorded, Kept
<1>8. pass[p].size \in Nat /\ offset \in Nat
  <2>1. MaxLines * LineBytes \in Nat
    BY SizesAssumption, LinesBytes
  <2> QED
    BY <2>1, LineCount DEF CaptureInv, TypeOK
<1>9. PassSane'
  <2>1. pass'[p].start < pass'[p].size
    BY <1>1, <1>8
  <2> QED
    BY <1>4, <1>5, <2>1 DEF PassSane, CaptureInv
<1>10. BehindRecorded'
  <2>1. \A q \in Passes : Reading(q)' => \A l \in 1..Whole(pass'[q].start) : Recorded(l)
    BY <1>1, <1>5 DEF BehindRecorded, OnlyCutLinesSkipped, CaptureInv
  <2>2. OnlyCutLinesSkipped'
    BY <1>3, <1>7 DEF OnlyCutLinesSkipped, BehindRecorded, CaptureInv
  <2> QED
    BY <1>7, <2>1, <2>2 DEF BehindRecorded
<1>11. ReadRecorded'
  BY <1>3, <1>6 DEF ReadRecorded, CaptureInv
<1>12. Alone'
  <2>1. ~overlap' => \A q \in Passes : q # p => ~Reading(q)'
    BY <1>2, <1>5
  <2> QED
    BY <1>1, <1>3, <2>1 DEF Alone
<1>13. NotAhead'
  BY <1>2, <1>3, <1>6 DEF NotAhead, CaptureInv
<1>14. ChunksBehind'
  BY <1>2, <1>3, <1>6 DEF ChunksBehind, CaptureInv
<1>15. BehindKept'
  <2>1. \A l \in 1..Whole(offset) : Kept(l)
    BY DEF BehindKept, IndexedUnlessLost, Kept, CaptureInv
  <2>2. \A q \in Passes : Reading(q)' => \A l \in 1..Whole(pass'[q].start) : Kept(l)
    BY <1>1, <1>5, <2>1 DEF BehindKept, CaptureInv
  <2>3. \A q \in Passes : Embedding(q)' =>
            \A l \in FirstFrom(pass'[q].start)..(pass'[q].from - 1) : Kept(l)
    BY <1>6 DEF BehindKept, CaptureInv
  <2>4. IndexedUnlessLost'
    BY <1>3, <1>7, <2>1 DEF IndexedUnlessLost, Kept
  <2> QED
    BY <1>7, <2>2, <2>3, <2>4 DEF BehindKept
<1>16. ChunksRecorded'
  BY <1>3 DEF ChunksRecorded, CaptureInv
<1> QED
  BY <1>9, <1>10, <1>11, <1>12, <1>13, <1>14, <1>15, <1>16 DEF CaptureInv

\* The first step of the loop is at its head.
LEMMA FirstHead ==
    ASSUME CaptureInv, NEW p \in Passes, ScanFirst(p)
    PROVE  LoopHead(p, FirstFrom(pass[p].start), FirstFrom(pass[p].start))
<1> DEFINE f == FirstFrom(pass[p].start)
<1>1. /\ TypeOK /\ PassSane /\ Reading(p) /\ ~Embedding(p)
  BY DEF CaptureInv, ScanFirst, Reading, Embedding
<1>2. /\ pass[p].start \in Nat /\ LastLine(p) \in Nat /\ f \in Nat /\ f >= 1
  BY <1>1, LineCount, FirstLine
<1>3. \/ f > LastLine(p) /\ Finish(p)
      \/ f <= LastLine(p) /\ Advance(p, f, f)
  BY <1>2, ScanCases DEF ScanFirst
<1>4. UNCHANGED <<size, chunks, savedChunks, overlap, unindexed, replaced>>
  BY DEF ScanFirst
<1>5. ASSUME ~overlap
      PROVE  /\ \A l \in Lines : captured[l] > 0 => l < f
             /\ \A x \in chunks \cup savedChunks : x.id < f
  <2>1. pass[p].start = offset /\ \A q \in Passes : Embedding(q) => q = p
    BY <1>1, <1>5 DEF Alone, CaptureInv, Reading, Embedding
  <2>2. \A q \in Passes : ~Embedding(q)
    BY <1>1, <2>1
  <2> QED
    BY <1>5, <2>1, <2>2 DEF NotAhead, ChunksBehind, CaptureInv
<1>6. \A x \in chunks \cup savedChunks :
          x.ver <= x.id /\ \A k \in x.ver..x.id : captured[k] > 0 /\ Turn[k] = Turn[x.id]
  BY DEF ChunksRecorded, CaptureInv
<1>7. \A l : Kept(l) => KeptNow(l)
  BY <1>4 DEF Kept, KeptNow
<1>8. f..(f - 1) = {}
  BY <1>2
<1> HIDE DEF f
<1>9. f <= f /\ f <= f + 1
  BY <1>2
<1> QED
  BY <1>1, <1>2, <1>3, <1>4, <1>5, <1>6, <1>7, <1>8, <1>9 DEF LoopHead, f

\* What flushTurnBuf does to the collection: the lines that no chunk holds any
\* more have given way to the new one, and of a pass that was alone there are none.
LEMMA TurnPutAway ==
    ASSUME CaptureInv, NEW p \in Passes, Resume(p)
    PROVE  LET end == TurnEnd(p, pass[p].from)
           IN  /\ \A l : Kept(l) => KeptNow(l)
               /\ \A l \in pass[p].from..end : KeptNow(l)
               /\ \A x \in chunks' \cup savedChunks' :
                     x \in chunks \cup savedChunks \/ x = [id |-> end, ver |-> pass[p].from]
               /\ UNCHANGED <<size, overlap>>
<1> DEFINE end == TurnEnd(p, pass[p].from)
           r == [id |-> end, ver |-> pass[p].from]
<1>1. TypeOK /\ PassSane /\ Embedding(p) /\ Reading(p)
  BY DEF CaptureInv, Resume, Embedding, Reading
<1>2. /\ pass[p].from \in Lines /\ end \in Lines
      /\ end \in pass[p].from..LastLine(p)
  BY <1>1, EmbeddedTurn
<1>3. FirstFrom(pass[p].start) <= pass[p].from
  BY <1>1 DEF PassSane
<1> HIDE DEF end
<1>4. UNCHANGED <<size, overlap>>
  BY DEF Resume
<1>5. CASE Store!Put(r) /\ replaced' = (replaced \cup LinesOf(chunks)) \ LinesOf(chunks')
           /\ UNCHANGED unindexed
  <2>1. chunks' = {x \in chunks : x.id # end} \cup {r} /\ savedChunks' = savedChunks
    BY <1>5 DEF Store!Put
  <2>2. r \in chunks' /\ r.ver = pass[p].from /\ r.id = end
    BY <2>1
  <2>3. \A l \in pass[p].from..end : l \in LinesOf(chunks')
    BY <2>2 DEF LinesOf
  <2>4. ASSUME ~overlap PROVE chunks \subseteq chunks'
    <3>1. pass[p].start = offset /\ \A q \in Passes : Embedding(q) => q = p
      BY <1>1, <2>4 DEF Alone, CaptureInv, Reading, Embedding
    <3>2. \A x \in chunks : x.id < FirstFrom(offset) \/ x.id < pass[p].from
      BY <2>4, <3>1 DEF ChunksBehind, CaptureInv
    <3>3. FirstFrom(offset) \in Nat /\ pass[p].from \in Nat /\ end \in Nat
          /\ pass[p].from <= end
      <4>1. pass[p].start \in Nat /\ LastLine(p) \in Nat
        BY <1>1, LineCount
      <4>2. FirstFrom(offset) \in Nat
        BY <3>1, <4>1, FirstLine
      <4>3. Lines \subseteq Nat
        BY SizesAssumption DEF Lines
      <4>4. pass[p].from \in Nat /\ end \in Nat
        BY <1>2, <4>3
      <4>5. pass[p].from <= end
        BY <1>2, <4>1, <4>4
      <4> QED
        BY <4>2, <4>4, <4>5
    <3>4. \A x \in chunks : x.id \in Nat
      BY <1>1 DEF TypeOK, Chunks, Lines
    <3>5. \A x \in chunks : x.id # end
      BY <1>3, <3>1, <3>2, <3>3, <3>4
    <3> QED
      BY <2>1, <3>5
  <2>5. ASSUME NEW l, Kept(l) PROVE KeptNow(l)
    <3>1. CASE l \in LinesOf(chunks)
      <4>1. CASE overlap
        BY <1>5, <3>1, <4>1 DEF KeptNow
      <4>2. CASE ~overlap
        BY <2>4, <3>1, <4>2 DEF KeptNow, LinesOf
      <4> QED
        BY <4>1, <4>2
    <3>2. CASE l \in cut \cup unindexed
      BY <1>5, <3>2 DEF KeptNow
    <3>3. CASE overlap /\ l \in replaced
      BY <1>5, <3>3 DEF KeptNow
    <3> QED
      BY <2>5, <3>1, <3>2, <3>3 DEF Kept
  <2> QED
    BY <1>4, <2>1, <2>3, <2>5 DEF KeptNow, end
<1>6. CASE unindexed' = unindexed \cup pass[p].from..end
           /\ UNCHANGED <<chunks, savedChunks, replaced>>
  BY <1>4, <1>6 DEF Kept, KeptNow, end
<1> QED
  BY <1>5, <1>6 DEF Resume, end

\* So is a later step, behind the turn that has been embedded.
LEMMA LaterHead ==
    ASSUME CaptureInv, NEW p \in Passes, Resume(p)
    PROVE  LoopHead(p, TurnEnd(p, pass[p].from) + 1, pass[p].next)
<1> DEFINE end == TurnEnd(p, pass[p].from)
           from == pass[p].from
           next == pass[p].next
           f == FirstFrom(pass[p].start)
<1>1. TypeOK /\ PassSane /\ Embedding(p) /\ Reading(p)
  BY DEF CaptureInv, Resume, Embedding, Reading
<1>2. /\ pass[p].start \in Nat /\ LastLine(p) \in Nat /\ next \in Nat /\ from \in Nat
      /\ f \in Nat /\ f >= 1
  BY <1>1, LineCount, FirstLine
<1>3. /\ end \in from..LastLine(p) /\ end < next /\ next <= LastLine(p) + 1
      /\ next <= end + 2 /\ \A k \in from..end : Turn[k] = Turn[end]
  BY <1>1, EmbeddedTurn
<1>4. f <= from
  BY <1>1 DEF PassSane
<1>5. /\ \A l : Kept(l) => KeptNow(l)
      /\ \A l \in from..end : KeptNow(l)
      /\ \A x \in chunks' \cup savedChunks' :
            x \in chunks \cup savedChunks \/ x = [id |-> end, ver |-> from]
      /\ UNCHANGED <<size, overlap>>
  BY TurnPutAway
<1>6. Scan(p, end + 1, next)
  BY DEF Resume
<1> HIDE DEF end, from, next, f
<1>7. end \in Nat /\ end + 1 \in Nat /\ f <= end + 1 /\ end + 1 <= next /\ next <= (end + 1) + 1
  BY <1>2, <1>3, <1>4
<1>8. \/ end + 1 > LastLine(p) /\ Finish(p)
      \/ end + 1 <= LastLine(p) /\ Advance(p, end + 1, next)
  BY <1>2, <1>6, <1>7, ScanCases
<1>9. \A l \in f..(next - 1) : captured[l] > 0
  BY <1>1 DEF ReadRecorded, CaptureInv, f, next
<1>10. ASSUME ~overlap
       PROVE  /\ \A l \in Lines : captured[l] > 0 => l < next
              /\ \A x \in chunks' \cup savedChunks' : x.id < end + 1
  <2>1. pass[p].start = offset /\ \A q \in Passes : Embedding(q) => q = p
    BY <1>1, <1>10 DEF Alone, CaptureInv, Reading, Embedding
  <2>2. \A l \in Lines : captured[l] > 0 => l < f \/ l < next
    BY <1>10, <2>1 DEF NotAhead, CaptureInv, f, next
  <2>3. \A x \in chunks \cup savedChunks : x.id < f \/ x.id < from
    BY <1>10, <2>1 DEF ChunksBehind, CaptureInv, f, from
  <2>4. Lines \subseteq Nat /\ \A x \in chunks \cup savedChunks : x.id \in Nat
    BY <1>1, SizesAssumption DEF TypeOK, Chunks, Lines
  <2>5. \A l \in Lines : captured[l] > 0 => l < next
    BY <1>2, <1>7, <2>2, <2>4
  <2>6. \A x \in chunks \cup savedChunks : x.id < end + 1
    BY <1>2, <1>3, <1>4, <1>7, <2>3, <2>4
  <2>7. [id |-> end, ver |-> from].id < end + 1
    BY <1>7
  <2> QED
    BY <1>5, <2>5, <2>6, <2>7
<1>11. ASSUME NEW x \in chunks' \cup savedChunks'
       PROVE  /\ x.ver <= x.id
              /\ \A k \in x.ver..x.id : captured[k] > 0 /\ Turn[k] = Turn[x.id]
  <2>1. CASE x \in chunks \cup savedChunks
    BY <2>1 DEF ChunksRecorded, CaptureInv
  <2>2. CASE x = [id |-> end, ver |-> from]
    <3>1. x.id = end /\ x.ver = from
      BY <2>2
    <3>2. \A k \in from..end : k \in f..(next - 1)
      BY <1>2, <1>3, <1>4
    <3>3. from <= end
      BY <1>2, <1>3
    <3> QED
      BY <1>3, <1>9, <3>1, <3>2, <3>3
  <2> QED
    BY <1>5, <2>1, <2>2
<1>12. ASSUME NEW l \in f..((end + 1) - 1) PROVE KeptNow(l)
  <2>1. l \in f..(from - 1) \/ l \in from..end
    BY <1>2, <1>7
  <2>2. l \in f..(from - 1) => Kept(l)
    BY <1>1 DEF BehindKept, CaptureInv, f, from
  <2> QED
    BY <1>5, <2>1, <2>2
<1>13. next <= LastLine(p) + 1
  BY <1>3
<1>14. \A l \in f..((end + 1) - 1) : KeptNow(l)
  BY <1>12
<1>15. \A x \in chunks' \cup savedChunks' :
          x.ver <= x.id /\ \A k \in x.ver..x.id : captured[k] > 0 /\ Turn[k] = Turn[x.id]
  BY <1>11
<1> QED
  BY <1>1, <1>2, <1>5, <1>7, <1>8, <1>9, <1>10, <1>13, <1>14, <1>15
     DEF LoopHead, end, from, next, f

\* At its head, the loop has seen to every line behind it: it is recorded, or
\* the pass began in the middle of it or some earlier one did.
LEMMA BehindHead ==
    ASSUME CaptureInv, NEW p \in Passes, NEW from, NEW next, LoopHead(p, from, next),
           NEW k \in Lines, k < next, k <= LastLine(p)
    PROVE  Recorded(k) \/ k \in CutBy(pass[p].start, pass[p].size)
<1>1. /\ pass[p].start \in Nat /\ pass[p].size \in Nat /\ LastLine(p) \in Nat
  BY LineCount DEF CaptureInv
<1>2. FirstFrom(pass[p].start) \in Nat /\ next \in Nat /\ k \in Nat
  <2>1. FirstFrom(pass[p].start) \in Nat
    BY <1>1, FirstLine
  <2>2. next \in Nat
    BY DEF LoopHead
  <2>3. k \in Nat
    BY SizesAssumption DEF Lines
  <2> QED
    BY <2>1, <2>2, <2>3
<1>3. CASE k < FirstFrom(pass[p].start)
  <2>1. k \in 1..Whole(pass[p].start) \/ k \in CutBy(pass[p].start, pass[p].size)
    BY <1>1, <1>3, BehindStart DEF LastLine
  <2>2. Reading(p)
    BY DEF LoopHead
  <2> QED
    BY <2>1, <2>2 DEF BehindRecorded, CaptureInv
<1>4. CASE ~(k < FirstFrom(pass[p].start))
  <2>1. k \in FirstFrom(pass[p].start)..(next - 1)
    BY <1>2, <1>4
  <2> QED
    BY <2>1 DEF LoopHead, Recorded
<1> QED
  BY <1>3, <1>4

\* The end of a pass keeps the invariant: the offset it leaves is not beyond a
\* line that its loop has not seen to.
LEMMA FinishStep ==
    ASSUME CaptureInv, TypeOK', NEW p \in Passes, NEW from, NEW next,
           LoopHead(p, from, next), from > LastLine(p), Finish(p)
    PROVE  CaptureInv'
<1> DEFINE f == FirstFrom(pass[p].start)
<1>1. TypeOK /\ Reading(p) /\ pass[p].start < pass[p].size
  BY DEF CaptureInv, LoopHead, PassSane
<1>2. /\ offset' \in Nat /\ Whole(offset') <= LastLine(p) /\ f <= FirstFrom(offset')
      /\ f <= LastLine(p) => LastLine(p) < FirstFrom(offset')
      /\ pass'[p] = Idle
      /\ \A q \in Passes : q # p => pass'[q] = pass[q]
      /\ cut' = cut \cup CutBy(pass[p].start, pass[p].size)
      /\ captured' = captured
  <2>1. MaxLines * LineBytes \in Nat
    BY SizesAssumption, LinesBytes
  <2> QED
    BY <1>1, <2>1, FinishShape
<1>3. /\ LastLine(p) \in Nat /\ LastLine(p) <= MaxLines /\ MaxLines \in Nat
      /\ from \in Nat /\ next \in Nat /\ pass[p].start \in Nat /\ pass[p].size \in Nat
      /\ f \in Nat /\ FirstFrom(offset') \in Nat /\ Whole(offset') \in Nat
      /\ Lines \subseteq Nat
  <2>1. /\ LastLine(p) \in Nat /\ LastLine(p) <= MaxLines
        /\ pass[p].start \in Nat /\ pass[p].size \in Nat
    BY <1>1, LineCount
  <2>2. f \in Nat /\ FirstFrom(offset') \in Nat
    BY <1>2, <2>1, FirstLine
  <2>3. Whole(offset') \in Nat
    BY <1>2, DivMod
  <2>4. from \in Nat /\ next \in Nat
    BY DEF LoopHead
  <2>5. MaxLines \in Nat /\ Lines \subseteq Nat
    BY SizesAssumption DEF Lines
  <2> QED
    BY <2>1, <2>2, <2>3, <2>4, <2>5
<1>4. /\ f <= from /\ from <= next /\ (next = f \/ next <= LastLine(p) + 1)
      /\ UNCHANGED <<size, overlap>>
  BY DEF LoopHead
<1>5. ~Reading(p)' /\ ~Embedding(p)'
  BY <1>2 DEF Idle, Reading, Embedding
<1>6. \A q \in Passes : q # p => /\ pass'[q] = pass[q] /\ (Reading(q)' <=> Reading(q))
                                /\ (Embedding(q)' <=> Embedding(q))
                                /\ LastLine(q)' = LastLine(q)
  BY <1>2 DEF Reading, Embedding, LastLine
<1>7. \A l : Recorded(l) => Recorded(l)'
  BY <1>2 DEF Recorded
<1>8. \A l : Kept(l) => Kept(l)'
  BY <1>2, <1>4 DEF LoopHead, Kept, KeptNow
<1>9. ASSUME NEW l \in 1..Whole(offset')
      PROVE  l \in Lines /\ l <= LastLine(p)
  BY <1>2, <1>3 DEF Lines
<1>10. next <= FirstFrom(offset')
  <2>1. CASE next = f
    BY <1>2, <2>1
  <2>2. CASE next <= LastLine(p) + 1
    <3>1. CASE f <= LastLine(p)
      BY <1>2, <1>3, <2>2, <3>1
    <3>2. CASE ~(f <= LastLine(p))
      BY <1>2, <1>3, <2>2, <3>2
    <3> QED
      BY <3>1, <3>2
  <2> QED
    BY <1>4, <2>1, <2>2
<1>11. PassSane'
  BY <1>5, <1>6 DEF PassSane, CaptureInv
<1>12. BehindRecorded'
  <2>1. \A q \in Passes : Reading(q)' => \A l \in 1..Whole(pass'[q].start) : Recorded(l)'
    BY <1>5, <1>6, <1>7 DEF BehindRecorded, CaptureInv
  <2>2. ASSUME NEW l \in 1..Whole(offset') PROVE Recorded(l)'
    <3>1. l < next
      BY <1>3, <1>4, <1>9
    <3>2. Recorded(l) \/ l \in CutBy(pass[p].start, pass[p].size)
      BY <1>9, <3>1, BehindHead
    <3> QED
      BY <1>2, <1>7, <3>2 DEF Recorded
  <2>3. OnlyCutLinesSkipped'
    BY <2>2 DEF OnlyCutLinesSkipped
  <2> QED
    BY <2>1, <2>3 DEF BehindRecorded
<1>13. ReadRecorded'
  BY <1>2, <1>5, <1>6 DEF ReadRecorded, CaptureInv
<1>14. ASSUME ~overlap PROVE \A q \in Passes : ~Reading(q)' /\ ~Embedding(q)'
  <2>1. \A q \in Passes : Reading(q) => q = p
    BY <1>1, <1>14 DEF Alone, CaptureInv
  <2> QED
    BY <1>5, <1>6, <2>1 DEF Reading, Embedding
<1>15. Alone'
  BY <1>4, <1>14 DEF Alone
<1>16. NotAhead'
  <2>1. ASSUME ~overlap, NEW l \in Lines
        PROVE  captured[l] < 2 /\ (captured[l] > 0 => l < FirstFrom(offset'))
    <3>1. captured[l] < 2
      BY <2>1 DEF NotAhead, CaptureInv
    <3>2. captured[l] > 0 => l < next
      BY <2>1 DEF LoopHead
    <3> QED
      BY <1>3, <1>10, <3>1, <3>2
  <2> QED
    BY <1>2, <1>4, <2>1 DEF NotAhead
<1>17. ChunksBehind'
  <2>1. ASSUME ~overlap, NEW x \in chunks' \cup savedChunks'
        PROVE  x.id < FirstFrom(offset')
    <3>1. x.id < from
      BY <2>1 DEF LoopHead
    <3>2. x.id \in Nat
      BY <1>3 DEF TypeOK, Chunks
    <3> QED
      BY <1>3, <1>4, <1>10, <3>1, <3>2
  <2> QED
    BY <1>4, <2>1 DEF ChunksBehind
<1>18. BehindKept'
  <2>2. \A q \in Passes : Reading(q)' => \A l \in 1..Whole(pass'[q].start) : Kept(l)'
    BY <1>5, <1>6, <1>8 DEF BehindKept, CaptureInv
  <2>4. \A q \in Passes : Embedding(q)' =>
            \A l \in FirstFrom(pass'[q].start)..(pass'[q].from - 1) : Kept(l)'
    BY <1>5, <1>6, <1>8 DEF BehindKept, CaptureInv
  <2>5. ASSUME NEW l \in 1..Whole(offset') PROVE Kept(l)'
    <3>1. l \in Lines /\ l <= LastLine(p) /\ l \in Nat
      BY <1>3, <1>9
    <3>2. CASE l < f
      <4>1. l \in 1..Whole(pass[p].start) \/ l \in CutBy(pass[p].start, pass[p].size)
        BY <1>3, <3>1, <3>2, BehindStart DEF LastLine
      <4>2. l \in 1..Whole(pass[p].start) => Kept(l)
        BY <1>1 DEF BehindKept, CaptureInv
      <4>3. l \in CutBy(pass[p].start, pass[p].size) => l \in cut'
        BY <1>2
      <4> QED
        BY <1>8, <3>1, <4>1, <4>2, <4>3 DEF Kept
    <3>3. CASE ~(l < f)
      <4>1. l \in f..(from - 1)
        BY <1>3, <3>1, <3>3
      <4>2. KeptNow(l)
        BY <4>1 DEF LoopHead
      <4> QED
        BY <1>2, <1>4, <4>2 DEF Kept, KeptNow
    <3> QED
      BY <3>2, <3>3
  <2>6. IndexedUnlessLost'
    BY <2>5 DEF IndexedUnlessLost, Kept
  <2> QED
    BY <2>2, <2>4, <2>6 DEF BehindKept
<1>19. ChunksRecorded'
  BY <1>2 DEF ChunksRecorded, LoopHead
<1> QED
  BY <1>11, <1>12, <1>13, <1>15, <1>16, <1>17, <1>18, <1>19 DEF CaptureInv

\* A turn further, the pass has recorded that turn and perhaps the line behind it.
LEMMA AdvanceStep ==
    ASSUME CaptureInv, TypeOK', NEW p \in Passes, NEW from, NEW next,
           LoopHead(p, from, next), from <= LastLine(p), Advance(p, from, next)
    PROVE  CaptureInv'
<1> DEFINE f == FirstFrom(pass[p].start)
           e == EndOf(LastLine(p), from)
           n == NextOf(LastLine(p), from)
<1>1. TypeOK /\ Reading(p) /\ pass[p].start < pass[p].size
  BY DEF CaptureInv, LoopHead, PassSane
<1>2. /\ LastLine(p) \in Nat /\ from \in Nat /\ next \in Nat /\ f \in Nat
      /\ Lines \subseteq Nat
  <2>1. LastLine(p) \in Nat /\ pass[p].start \in Nat
    BY <1>1, LineCount
  <2>2. f \in Nat
    BY <2>1, FirstLine
  <2>3. from \in Nat /\ next \in Nat
    BY DEF LoopHead
  <2>4. Lines \subseteq Nat
    BY SizesAssumption DEF Lines
  <2> QED
    BY <2>1, <2>2, <2>3, <2>4
<1>3. /\ pass'[p].at = "embed" /\ pass'[p].from = from
      /\ pass'[p].size = pass[p].size /\ pass'[p].start = pass[p].start
      /\ pass'[p].next = n
      /\ \A q \in Passes : q # p => pass'[q] = pass[q]
  BY <1>1, <1>2, AdvanceShape
<1>4. \A l \in Lines : captured'[l] >= captured[l]
  BY <1>1, <1>2, AdvanceShape
<1>5. \A l \in Lines : l \in next..(n - 1) => captured'[l] > 0
  BY <1>1, <1>2, AdvanceShape
<1>6. \A l \in Lines : captured[l] < 2 => captured'[l] <= captured[l] + 1
  BY <1>1, <1>2, AdvanceShape
<1>7. \A l \in Lines : l \notin next..(n - 1) => captured'[l] = captured[l]
  BY <1>1, <1>2, AdvanceShape
<1>8. e \in from..LastLine(p) /\ n \in (e + 1)..(LastLine(p) + 1)
  BY <1>2, NextLine
<1>9. f <= from /\ from <= next /\ next <= from + 1 /\ UNCHANGED <<size, overlap>>
  BY DEF LoopHead
<1>10. UNCHANGED <<offset, cut>>
  BY DEF Advance
<1>11. /\ Reading(p)' /\ Embedding(p)' /\ LastLine(p)' = LastLine(p)
  BY <1>3 DEF Reading, Embedding, LastLine
<1>12. \A q \in Passes : q # p => /\ pass'[q] = pass[q] /\ (Reading(q)' <=> Reading(q))
                                /\ (Embedding(q)' <=> Embedding(q))
                                /\ LastLine(q)' = LastLine(q)
  BY <1>3 DEF Reading, Embedding, LastLine
<1>13. \A q \in Passes : /\ Reading(q)' <=> Reading(q)
                        /\ pass'[q].start = pass[q].start
  BY <1>1, <1>3, <1>11, <1>12
<1>14. e \in Nat /\ n \in Nat /\ from <= e /\ e < n /\ n <= LastLine(p) + 1 /\ next <= n
  <2> HIDE DEF e, n
  <2> QED
    BY <1>2, <1>8, <1>9
<1>15. \A l \in Lines : captured[l] \in Nat /\ captured'[l] \in Nat
  BY <1>1 DEF TypeOK
<1> HIDE DEF e, n
<1>16. \A l \in Lines : captured[l] > 0 => captured'[l] > 0
  BY <1>4, <1>15
<1>17. \A l \in Lines :
           /\ Recorded(l) => Recorded(l)'
           /\ captured'[l] > 0 => captured[l] > 0 \/ l < n
  <2>1. ASSUME NEW l \in Lines PROVE Recorded(l) => Recorded(l)'
    BY <1>10, <1>16 DEF Recorded
  <2>2. ASSUME NEW l \in Lines, captured'[l] > 0, ~(captured[l] > 0) PROVE l < n
    <3>1. l \in next..(n - 1)
      BY <1>7, <2>2
    <3> QED
      BY <1>2, <1>14, <3>1
  <2> QED
    BY <2>1, <2>2
<1>18. \A l : Kept(l) => Kept(l)'
  BY <1>9, <1>10 DEF LoopHead, Kept, KeptNow
<1>19. \A q \in Passes : Reading(q) => \A l \in 1..Whole(pass[q].start) : l \in Lines
  <2>1. ASSUME NEW q \in Passes, Reading(q)
        PROVE  /\ Whole(pass[q].start) \in Nat /\ Whole(pass[q].start) <= MaxLines
               /\ MaxLines \in Nat
    <3>1. /\ pass[q].start \in Nat /\ pass[q].size \in Nat /\ pass[q].start <= pass[q].size
          /\ LastLine(q) \in Nat /\ LastLine(q) <= MaxLines /\ MaxLines \in Nat
      BY <1>1, <2>1, LineCount, SizesAssumption DEF PassSane, CaptureInv
    <3>2. Whole(pass[q].start) \in Nat /\ Whole(pass[q].start) <= LastLine(q)
      BY <3>1, WholeGrows DEF LastLine
    <3> QED
      BY <3>1, <3>2
  <2> QED
    BY <2>1 DEF Lines
<1>20. PassSane'
  <2>1. /\ pass'[p].start < pass'[p].size
        /\ FirstFrom(pass'[p].start) <= pass'[p].from
        /\ pass'[p].from <= LastLine(p)'
        /\ pass'[p].next = NextOf(LastLine(p)', pass'[p].from)
    BY <1>1, <1>3, <1>9, <1>11 DEF n
  <2> QED
    BY <1>12, <2>1 DEF PassSane, CaptureInv
<1>21. BehindRecorded'
  <2>1. \A q \in Passes : Reading(q)' => \A l \in 1..Whole(pass'[q].start) : Recorded(l)'
    BY <1>13, <1>17, <1>19 DEF BehindRecorded, CaptureInv
  <2>2. \A l \in 1..Whole(offset) : Recorded(l)'
    <3>1. \A l \in 1..Whole(offset) : Recorded(l)
      BY DEF BehindRecorded, OnlyCutLinesSkipped, CaptureInv
    <3>2. \A l \in cut : l \in Lines
      BY <1>1 DEF TypeOK
    <3>3. \A l \in 1..Whole(offset) : l \in Lines
      BY <1>1, OffsetWhole DEF Lines
    <3> QED
      BY <1>17, <3>1, <3>3
  <2>3. OnlyCutLinesSkipped'
    BY <1>10, <2>2 DEF OnlyCutLinesSkipped
  <2> QED
    BY <2>1, <2>3 DEF BehindRecorded
<1>22. ReadRecorded'
  <2>1. ASSUME NEW l \in f..(n - 1) PROVE captured'[l] > 0
    <3>1. l \in Lines
      <4>1. LastLine(p) <= MaxLines /\ MaxLines \in Nat /\ f >= 1
        BY <1>1, LineCount, FirstLine, SizesAssumption
      <4> HIDE DEF f
      <4> QED
        BY <1>2, <1>14, <4>1 DEF Lines
    <3>2. CASE l \in f..(next - 1)
      BY <1>16, <3>1, <3>2 DEF LoopHead
    <3>3. CASE l \in next..(n - 1)
      BY <1>5, <3>1, <3>3
    <3> QED
      BY <1>2, <1>14, <3>2, <3>3
  <2>2. ASSUME NEW q \in Passes, q # p, Embedding(q),
               NEW l \in FirstFrom(pass[q].start)..(pass[q].next - 1)
        PROVE  captured'[l] > 0
    <3>1. captured[l] > 0
      BY <2>2 DEF ReadRecorded, CaptureInv
    <3>2. l \in Lines
      BY <1>1, <2>2, EmbeddingLines DEF CaptureInv
    <3> QED
      BY <1>16, <3>1, <3>2
  <2> QED
    BY <1>3, <1>12, <2>1, <2>2 DEF ReadRecorded
<1>23. Alone'
  BY <1>9, <1>10, <1>13 DEF Alone, CaptureInv
<1>24. NotAhead'
  <2>1. ASSUME ~overlap, NEW l \in Lines
        PROVE  captured'[l] < 2 /\ (captured'[l] > 0 => l < n)
    <3>1. captured[l] < 2 /\ (captured[l] > 0 => l < next)
      BY <2>1 DEF NotAhead, LoopHead, CaptureInv
    <3>2. captured'[l] > 0 => l < n
      BY <1>2, <1>14, <1>17, <3>1
    <3>3. CASE l \in next..(n - 1)
      <4>1. ~(captured[l] > 0)
        BY <1>2, <3>1, <3>3
      <4> QED
        BY <1>6, <1>15, <3>1, <3>2, <4>1
    <3>4. CASE l \notin next..(n - 1)
      BY <1>7, <3>1, <3>2, <3>4
    <3> QED
      BY <3>3, <3>4
  <2> QED
    BY <1>3, <1>9, <1>11, <2>1 DEF NotAhead
<1>25. ChunksBehind'
  <2>1. ~overlap => \A x \in chunks' \cup savedChunks' : x.id < from
    BY DEF LoopHead
  <2> QED
    BY <1>3, <1>9, <1>11, <2>1 DEF ChunksBehind
<1>26. BehindKept'
  <2>1. \A q \in Passes : Reading(q)' => \A l \in 1..Whole(pass'[q].start) : Kept(l)'
    BY <1>13, <1>18 DEF BehindKept, CaptureInv
  <2>2. \A l \in f..(from - 1) : Kept(l)'
    BY <1>9, <1>10 DEF LoopHead, Kept, KeptNow
  <2>3. \A q \in Passes : Embedding(q)' =>
            \A l \in FirstFrom(pass'[q].start)..(pass'[q].from - 1) : Kept(l)'
    BY <1>3, <1>12, <1>18, <2>2 DEF BehindKept, CaptureInv
  <2>4. \A l \in 1..Whole(offset) : Kept(l)
    BY DEF BehindKept, IndexedUnlessLost, Kept, CaptureInv
  <2>5. IndexedUnlessLost'
    BY <1>10, <1>18, <2>4 DEF IndexedUnlessLost, Kept
  <2> QED
    BY <2>1, <2>3, <2>5 DEF BehindKept
<1>27. ChunksRecorded'
  <2>1. ASSUME NEW x \in chunks' \cup savedChunks', NEW k \in x.ver..x.id
        PROVE  captured'[k] > 0
    <3>1. captured[k] > 0
      BY <2>1 DEF LoopHead
    <3>2. k \in Lines
      <4>1. x \in Chunks /\ MaxLines \in Nat
        BY SizesAssumption DEF TypeOK
      <4> QED
        BY <2>1, <4>1 DEF Chunks, Lines
    <3> QED
      BY <1>16, <3>1, <3>2
  <2> QED
    BY <2>1 DEF ChunksRecorded, LoopHead
<1> QED
  BY <1>20, <1>21, <1>22, <1>23, <1>24, <1>25, <1>26, <1>27 DEF CaptureInv

-----------------------------------------------------------------------------
\* A step of the loop is one from its head.
LEMMA ScanIsFromHead ==
    ASSUME CaptureInv, NEW p \in Passes, ScanFirst(p) \/ Resume(p)
    PROVE  \E from \in Nat, next \in Nat : LoopHead(p, from, next)
<1>1. CASE ScanFirst(p)
  <2>1. LoopHead(p, FirstFrom(pass[p].start), FirstFrom(pass[p].start))
    BY <1>1, FirstHead
  <2>2. FirstFrom(pass[p].start) \in Nat
    BY <2>1 DEF LoopHead
  <2> QED
    BY <2>1, <2>2
<1>2. CASE Resume(p)
  <2> DEFINE from == TurnEnd(p, pass[p].from) + 1
             next == pass[p].next
  <2>1. LoopHead(p, from, next)
    BY <1>2, LaterHead
  <2> HIDE DEF from, next
  <2>2. from \in Nat /\ next \in Nat
    BY <2>1 DEF LoopHead
  <2> QED
    BY <2>1, <2>2
<1> QED
  BY <1>1, <1>2

\* What a step can be.
LEMMA StepCases ==
    ASSUME CaptureInv, [Next]_vars
    PROVE  \/ Quiet
           \/ \E off \in {0, offset} :
                 Restart(off) /\ (off # offset => \E p \in Passes : Embedding(p))
           \/ \E p \in Passes : OpenTail(p) /\ ~(pass[p].size <= offset)
           \/ \E p \in Passes : ScanFirst(p) \/ Resume(p)
<1>0. pass \in [Passes -> [at : {"idle", "stat", "open", "embed"}, size : 0..size,
                          start : 0..size, from : 0..MaxLines, next : 0..(MaxLines + 1)]]
  BY DEF CaptureInv, TypeOK
<1>1. Write => Quiet
  BY DEF Write, Quiet, historyVars
<1>2. Flush => Quiet
  BY DEF Flush, Quiet, fileVars, historyVars, Store!Save
<1>3. ASSUME NEW p \in Passes, StartPass(p) PROVE Quiet
  <2>1. /\ pass[p].at = "idle" /\ pass'[p].at = "stat"
        /\ \A q \in Passes : q # p => pass'[q] = pass[q]
    BY <1>0, <1>3 DEF StartPass, Idle
  <2>2. \A q \in Passes : Reading(q) \/ Reading(q)' => pass'[q] = pass[q]
    BY <2>1 DEF Reading
  <2>3. UNCHANGED <<fileVars, chunks, savedChunks, crashes, historyVars>>
    BY <1>3 DEF StartPass
  <2> QED
    BY <2>2, <2>3 DEF Quiet, fileVars, historyVars
<1>4. ASSUME NEW p \in Passes, OpenTail(p), pass[p].size <= offset PROVE Quiet
  <2>1. /\ pass[p].at = "stat" /\ pass'[p].at = "idle"
        /\ \A q \in Passes : q # p => pass'[q] = pass[q]
    BY <1>0, <1>4 DEF OpenTail, Idle
  <2>2. \A q \in Passes : Reading(q) \/ Reading(q)' => pass'[q] = pass[q]
    BY <2>1 DEF Reading
  <2>3. UNCHANGED <<fileVars, chunks, savedChunks, cut, overlap, unindexed, replaced>>
    BY <1>4 DEF OpenTail
  <2> QED
    BY <2>2, <2>3 DEF Quiet, fileVars
<1>5. DieAndBoot => Restart(offset)
  BY DEF DieAndBoot
<1>6. DieInSave => Restart(0) /\ \E p \in Passes : Embedding(p)
  BY DEF DieInSave, Embedding
<1>7. UNCHANGED vars => Quiet
  BY DEF vars, fileVars, historyVars, Quiet
<1> QED
  BY <1>1, <1>2, <1>3, <1>4, <1>5, <1>6, <1>7 DEF Next

\* Every step keeps the whole invariant.
LEMMA CaptureStep ==
    ASSUME CaptureInv, [Next]_vars
    PROVE  CaptureInv'
<1>1. TypeOK'
  BY TypeStep DEF CaptureInv
<1>2. CASE Quiet
  BY <1>1, <1>2, QuietStep
<1>3. ASSUME NEW off \in {0, offset}, Restart(off),
             off # offset => \E p \in Passes : Embedding(p)
      PROVE  CaptureInv'
  BY <1>1, <1>3, RestartStep
<1>4. ASSUME NEW p \in Passes, OpenTail(p), ~(pass[p].size <= offset)
      PROVE  CaptureInv'
  BY <1>1, <1>4, OpenStep
<1>5. ASSUME NEW p \in Passes, ScanFirst(p) \/ Resume(p)
      PROVE  CaptureInv'
  <2>1. PICK from \in Nat, next \in Nat : LoopHead(p, from, next)
    BY <1>5, ScanIsFromHead
  <2>2. CASE from > LastLine(p) /\ Finish(p)
    BY <1>1, <2>1, <2>2, FinishStep
  <2>3. CASE from <= LastLine(p) /\ Advance(p, from, next)
    BY <1>1, <2>1, <2>3, AdvanceStep
  <2> QED
    BY <2>1, <2>2, <2>3 DEF LoopHead
<1> QED
  BY <1>2, <1>3, <1>4, <1>5, StepCases

\* The inductive invariant holds of every history of the watcher.
LEMMA CaptureInvHolds == Spec => []CaptureInv
<1>1. Init => CaptureInv
  BY CaptureInit
<1>2. CaptureInv /\ [Next]_vars => CaptureInv'
  BY CaptureStep
<1> QED
  BY <1>1, <1>2, PTL DEF Spec

\* Only the loop records lines, and it has seen to those before them.
LEMMA RecordsInOrder ==
    ASSUME CaptureInv, [Next]_vars,
           NEW l \in Lines, captured[l] = 0, captured'[l] > 0, NEW k \in 1..(l - 1)
    PROVE  captured'[k] > 0 \/ k \in cut \cup BeingCut
<1>1. captured' # captured
  OBVIOUS
<1>2. ~Quiet /\ \A off \in {0, offset} : ~Restart(off)
  BY <1>1 DEF Quiet, Restart
<1>3. \A p \in Passes : ~OpenTail(p)
  BY <1>1 DEF OpenTail, fileVars
<1>4. PICK p \in Passes : ScanFirst(p) \/ Resume(p)
  BY <1>2, <1>3, StepCases
<1>5. PICK from \in Nat, next \in Nat : LoopHead(p, from, next)
  BY <1>4, ScanIsFromHead
<1>6. from <= LastLine(p) /\ Advance(p, from, next)
  BY <1>1, <1>5 DEF LoopHead, Finish
<1> DEFINE n == NextOf(LastLine(p), from)
<1>7. \A i \in Lines : i \in next..(n - 1) => captured'[i] > 0
  BY <1>6, AdvanceShape DEF CaptureInv
<1>8. \A i \in Lines : i \notin next..(n - 1) => captured'[i] = captured[i]
  BY <1>6, AdvanceShape DEF CaptureInv
<1>9. LastLine(p) \in Nat /\ MaxLines \in Nat
  BY LineCount, SizesAssumption DEF CaptureInv
<1>10. n \in Nat /\ n <= LastLine(p) + 1
  <2> DEFINE e == EndOf(LastLine(p), from)
  <2>1. e \in from..LastLine(p) /\ n \in (e + 1)..(LastLine(p) + 1)
    BY <1>6, <1>9, NextLine
  <2> HIDE DEF e, n
  <2> QED
    BY <1>9, <2>1
<1> HIDE DEF n
<1>11. l \in next..(n - 1)
  BY <1>8
<1>12. k \in Lines /\ k < l /\ k <= LastLine(p)
  BY <1>9, <1>10, <1>11 DEF Lines
<1>13. CASE k < next
  <2>1. Recorded(k) \/ k \in CutBy(pass[p].start, pass[p].size)
    BY <1>5, <1>12, <1>13, BehindHead
  <2>2. Recorded(k) => captured'[k] > 0 \/ k \in cut
    <3>1. captured'[k] >= captured[k] /\ captured[k] \in Nat /\ captured'[k] \in Nat
      <4>1. captured'[k] >= captured[k] /\ captured' \in [Lines -> 0..2]
        BY <1>6, <1>12, AdvanceShape DEF CaptureInv
      <4>2. captured \in [Lines -> 0..2]
        BY DEF CaptureInv, TypeOK
      <4> QED
        BY <1>12, <4>1, <4>2
    <3> QED
      BY <3>1 DEF Recorded
  <2>3. Reading(p)
    BY <1>5 DEF LoopHead
  <2> QED
    BY <2>1, <2>2, <2>3 DEF BeingCut
<1>14. CASE ~(k < next)
  <2>1. k \in next..(n - 1)
    BY <1>10, <1>11, <1>12, <1>14
  <2> QED
    BY <1>7, <1>12, <2>1
<1> QED
  BY <1>13, <1>14

-----------------------------------------------------------------------------
\* The state of the watcher stays well typed.
THEOREM CaptureTypes == Spec => []TypeOK
<1>1. CaptureInv => TypeOK
  BY DEF CaptureInv
<1> QED
  BY <1>1, CaptureInvHolds, PTL

\* In whatever order overlapping passes finish and the daemon dies, the offset
\* never leaves a line behind that is neither in transcripts.jsonl nor one that
\* a pass began to read in its middle.
THEOREM SkipsOnlyCutLines == Spec => []OnlyCutLinesSkipped
<1>1. CaptureInv => OnlyCutLinesSkipped
  BY DEF CaptureInv, BehindRecorded
<1> QED
  BY <1>1, CaptureInvHolds, PTL

\* A line gets into transcripts.jsonl after every earlier line, cut ones excepted.
THEOREM RecordsLinesInOrder == Spec => RecordedInOrder
<1>1. CaptureInv /\ [Next]_vars =>
          [\A l \in Lines : captured[l] = 0 /\ captured'[l] > 0 =>
              \A k \in 1..(l - 1) : captured'[k] > 0 \/ k \in cut \cup BeingCut]_vars
  BY RecordsInOrder
<1> QED
  BY <1>1, CaptureInvHolds, PTL DEF Spec, RecordedInOrder

\* As long as no two passes overlap and no death cuts one short, every line is
\* recorded once at most, however often the file is processed.
THEOREM RecordsOnce == Spec => []OnceUnlessOverlap
<1>1. CaptureInv => OnceUnlessOverlap
  BY DEF CaptureInv, NotAhead, OnceUnlessOverlap
<1> QED
  BY <1>1, CaptureInvHolds, PTL

\* A line behind the offset is in a chunk, or one of the losses the code allows
\* has taken it.
THEOREM IndexesWhatItPasses == Spec => []IndexedUnlessLost
<1>1. CaptureInv => IndexedUnlessLost
  BY DEF CaptureInv, BehindKept
<1> QED
  BY <1>1, CaptureInvHolds, PTL

\* A chunk never mixes two turns and never holds a line that transcripts.jsonl
\* does not have, in memory or in the file, across overlaps and deaths.
THEOREM ChunksHoldRecordedTurns == Spec => []ChunksRecorded
<1>1. CaptureInv => ChunksRecorded
  BY DEF CaptureInv
<1> QED
  BY <1>1, CaptureInvHolds, PTL

\* What the watcher does to raw_chunks is what SnapshotStore allows: it puts
\* chunks, and a death brings back those of the last flush.
THEOREM CaptureKeepsPromise == Spec => Store!Spec
<1>1. Init => Store!Init
  BY DEF Init, Store!Init
<1>2. CaptureInv /\ [Next]_vars => [Store!Next]_(Store!vars)
  <2> SUFFICES ASSUME CaptureInv, [Next]_vars PROVE [Store!Next]_(Store!vars)
    OBVIOUS
  <2>1. ASSUME NEW p \in Passes, Resume(p) PROVE [Store!Next]_(Store!vars)
    <3> DEFINE r == [id |-> TurnEnd(p, pass[p].from), ver |-> pass[p].from]
    <3>1. r \in Chunks
      BY <2>1, EmbeddedTurn DEF CaptureInv, Resume, Embedding
    <3> HIDE DEF r
    <3>2. Store!Put(r) \/ UNCHANGED <<chunks, savedChunks>>
      BY <2>1 DEF Resume, r
    <3> QED
      BY <3>1, <3>2 DEF Store!Next, Store!vars
  <2>2. ASSUME NEW p \in Passes, StartPass(p) \/ OpenTail(p) \/ ScanFirst(p)
        PROVE  UNCHANGED <<chunks, savedChunks>>
    BY <2>2 DEF StartPass, OpenTail, ScanFirst
  <2>3. Write => UNCHANGED <<chunks, savedChunks>>
    BY DEF Write
  <2>4. Flush => Store!Next
    BY DEF Flush, Store!Next
  <2>5. DieAndBoot \/ DieInSave => Store!Next
    BY DEF DieAndBoot, DieInSave, Restart, Store!Next
  <2>6. UNCHANGED vars => UNCHANGED <<chunks, savedChunks>>
    BY DEF vars
  <2> QED
    BY <2>1, <2>2, <2>3, <2>4, <2>5, <2>6 DEF Next, Store!vars
<1> QED
  BY <1>1, <1>2, CaptureInvHolds, PTL DEF Spec, Store!Spec
=============================================================================
