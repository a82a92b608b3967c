------------------------- MODULE BridgeInboxProofs -------------------------
(* Theorems of BridgeInbox, for any number of inboxes, lines and reloads, and *)
(* whatever overtakes the chains.  NothingLostUnseen and PastesInOrder rest on *)
(* one invariant of the chains' contents, ChainInOrder; NothingStaleIsPasted   *)
(* on another, FreshChains.                                                   *)
EXTENDS BridgeInbox, TLAPS

\* What stands on a chain has an answer, or its place, for every line before
\* it: the strengthening that makes NothingPassedUnseen inductive.
ChainInOrder ==
    \A f \in Inboxes : \A p \in 1..Len(chain[f]) :
        \A j \in 1..(chain[f][p].line - 1) :
            j \in answered[f] \/ \E q \in 1..(p - 1) : chain[f][q].line = j

InOrder == NothingPassedUnseen /\ ChainInOrder

-----------------------------------------------------------------------------
\* An entry of a cursor map reads as a number of lines (lastOffsets.get ?? 0).
LEMMA FromType ==
    ASSUME NEW c \in Cursors, NEW f \in Inboxes
    PROVE  From(c, f) \in Nat
BY DEF From, Cursors

\* What processFile hangs on a chain: deliveries of lines within the file, the
\* i-th of them for the i-th line after the cursor.
LEMMA UnreadType ==
    ASSUME TypeOK, NEW f \in Inboxes
    PROVE  /\ Unread(f) \in Seq(Deliveries)
           /\ Len(Unread(f)) = lines[f] - From(cursor, f)
           /\ \A i \in 1..Len(Unread(f)) : Unread(f)[i].line = From(cursor, f) + i
<1> DEFINE n == lines[f] - From(cursor, f)
           entry(i) == [line |-> From(cursor, f) + i,
                        kind |-> IF From(cursor, f) + i <= old[f]
                                 THEN "stale" ELSE "deliver"]
<1>1. From(cursor, f) \in Nat
  BY FromType DEF TypeOK
<1>2. n \in Nat
  BY <1>1, NoneAssumption DEF TypeOK, InFile, From, Cursors
<1>3. \A i \in 1..n : entry(i) \in Deliveries
  BY <1>1, <1>2 DEF Deliveries
<1>4. Unread(f) = [i \in 1..n |-> entry(i)]
  BY DEF Unread
<1> HIDE DEF n, entry
<1>5. Unread(f) \in [1..n -> Deliveries]
  BY <1>3, <1>4
<1>6. Unread(f) \in Seq(Deliveries) /\ Len(Unread(f)) = n
  BY <1>2, <1>5
<1>7. \A i \in 1..n : entry(i).line = From(cursor, f) + i
  BY DEF entry
<1> QED  BY <1>4, <1>6, <1>7 DEF n

\* Taking the head off a chain leaves a chain of the same lines, one place up.
LEMMA TailOfChain ==
    ASSUME TypeOK, NEW f \in Inboxes, chain[f] # <<>>
    PROVE  /\ Head(chain[f]) \in Deliveries
           /\ Head(chain[f]) = chain[f][1]
           /\ Head(chain[f]).line <= lines[f]
           /\ Tail(chain[f]) \in Seq(Deliveries)
           /\ Len(Tail(chain[f])) = Len(chain[f]) - 1
           /\ Len(chain[f]) \in Nat \ {0}
           /\ \A p \in 1..Len(Tail(chain[f])) : Tail(chain[f])[p] = chain[f][p + 1]
BY DEF TypeOK

\* Steps that leave files, chains and the offsets file alone leave the chains'
\* lines and the saved cursors within the files.
LEMMA FilesKept ==
    ASSUME TypeOK, UNCHANGED <<lines, saved, chain>>
    PROVE  /\ chain' \in [Inboxes -> Seq(Deliveries)]
           /\ \A f \in Inboxes : \A p \in 1..Len(chain'[f]) : chain'[f][p].line <= lines'[f]
           /\ saved' # None => InFile(saved)'
           /\ UNCHANGED cursor => InFile(cursor)'
BY DEF TypeOK, InFile

-----------------------------------------------------------------------------
\* The chain of one file after its head was answered and taken off.
HeadOff(f) ==
    /\ chain[f] # <<>>
    /\ chain' = [chain EXCEPT ![f] = Tail(@)]
    /\ answered' = [answered EXCEPT ![f] = @ \cup {Head(chain[f]).line}]
    /\ UNCHANGED <<lines, saved, bridge>>
    /\ \/ cursor' = [cursor EXCEPT ![f] = Head(chain[f]).line]
       \/ UNCHANGED cursor

\* Deliver and SkipStale take a head off (extension.ts enqueueDelivery and the
\* stale line's closure).
LEMMA HeadsComeOff ==
    ASSUME NEW f \in Inboxes, Deliver(f) \/ SkipStale(f)
    PROVE  HeadOff(f)
BY DEF Deliver, SkipStale, Commit, HeadOff, diskVars

\* Taking a head off keeps every type it touches, and every cursor in its file.
LEMMA HeadOffTypes ==
    ASSUME TypeOK, NEW f \in Inboxes, HeadOff(f)
    PROVE  /\ chain' \in [Inboxes -> Seq(Deliveries)]
           /\ \A g \in Inboxes : \A p \in 1..Len(chain'[g]) : chain'[g][p].line <= lines'[g]
           /\ cursor' \in Cursors /\ InFile(cursor)'
           /\ saved' # None => InFile(saved)'
           /\ answered' \in [Inboxes -> SUBSET Nat]
<1>1. /\ Head(chain[f]) \in Deliveries /\ Head(chain[f]).line <= lines[f]
      /\ Tail(chain[f]) \in Seq(Deliveries)
      /\ Len(Tail(chain[f])) = Len(chain[f]) - 1 /\ Len(chain[f]) \in Nat \ {0}
      /\ \A p \in 1..Len(Tail(chain[f])) : Tail(chain[f])[p] = chain[f][p + 1]
  BY TailOfChain DEF HeadOff
<1>2. Head(chain[f]).line \in Nat
  BY <1>1 DEF Deliveries
<1>3. chain' \in [Inboxes -> Seq(Deliveries)]
  BY <1>1 DEF TypeOK, HeadOff
<1>4. ASSUME NEW g \in Inboxes, NEW p \in 1..Len(chain'[g])
      PROVE  chain'[g][p].line <= lines'[g]
  <2>1. CASE g = f
    <3>1. chain'[f] = Tail(chain[f])
      BY DEF TypeOK, HeadOff
    <3>2. p + 1 \in 1..Len(chain[f]) /\ chain'[f][p] = chain[f][p + 1]
      BY <1>1, <2>1, <3>1, <1>4
    <3> QED  BY <2>1, <3>2 DEF TypeOK, HeadOff
  <2>2. CASE g # f
    BY <1>4, <2>2 DEF TypeOK, HeadOff
  <2> QED  BY <2>1, <2>2
<1>5. cursor' \in Cursors /\ InFile(cursor)'
  BY <1>1, <1>2 DEF TypeOK, HeadOff, Cursors, InFile
<1>6. saved' # None => InFile(saved)'
  BY DEF TypeOK, HeadOff, InFile
<1>7. answered' \in [Inboxes -> SUBSET Nat]
  BY <1>2 DEF TypeOK, HeadOff
<1> QED  BY <1>3, <1>4, <1>5, <1>6, <1>7

\* startWatching hands memory a cursor map that is typed and within the files.
LEMMA StartTypes ==
    ASSUME TypeOK, StartWatching
    PROVE  cursor' \in Cursors /\ InFile(cursor)'
<1>1. CASE cursor' = IF saved = None THEN cursor ELSE saved
  BY <1>1 DEF TypeOK, StartWatching, InFile, diskVars
<1>2. CASE cursor' = [f \in Inboxes |-> IF lines[f] = 0 THEN None ELSE lines[f]]
  BY <1>2 DEF TypeOK, StartWatching, InFile, Cursors, diskVars
<1> QED  BY <1>1, <1>2 DEF StartWatching

-----------------------------------------------------------------------------
\* Every variable keeps its type and no cursor, in memory, on disk or on a
\* chain, is past the end of its file (extension.ts processFile's overshoot).
THEOREM TypeCorrect == Spec => []TypeOK
<1>1. Init => TypeOK
  <2> SUFFICES ASSUME Init PROVE TypeOK
    OBVIOUS
  <2>1. cursor \in Cursors /\ InFile(cursor)
    BY DEF Init, NoEntries, Cursors, InFile
  <2>2. \A f \in Inboxes : chain[f] = <<>> /\ Len(chain[f]) = 0
    BY DEF Init
  <2>3. /\ chain \in [Inboxes -> Seq(Deliveries)]
        /\ \A f \in Inboxes : \A p \in 1..Len(chain[f]) : chain[f][p].line <= lines[f]
    BY <2>2 DEF Init
  <2> QED  BY <2>1, <2>3 DEF Init, TypeOK
<1>2. TypeOK /\ [Next]_vars => TypeOK'
  <2> SUFFICES ASSUME TypeOK, [Next]_vars PROVE TypeOK'
    OBVIOUS
  <2>1. ASSUME NEW f \in Inboxes, WritePrompt(f) PROVE TypeOK'
    <3>1. lines' \in [Inboxes -> Nat] /\ \A g \in Inboxes : lines[g] <= lines'[g]
      BY <2>1 DEF WritePrompt, TypeOK
    <3>2. InFile(cursor)' /\ (saved' # None => InFile(saved)')
      BY <2>1, <3>1 DEF WritePrompt, TypeOK, InFile, Cursors
    <3>3. \A g \in Inboxes : \A p \in 1..Len(chain[g]) :
             chain[g][p].line \in Nat /\ chain[g][p].line <= lines'[g]
      <4> SUFFICES ASSUME NEW g \in Inboxes, NEW p \in 1..Len(chain[g])
                   PROVE  chain[g][p].line \in Nat /\ chain[g][p].line <= lines'[g]
        OBVIOUS
      <4>1. chain[g] \in Seq(Deliveries) /\ chain[g][p].line <= lines[g]
        BY DEF TypeOK
      <4>2. chain[g][p] \in Deliveries
        BY <4>1
      <4>3. chain[g][p].line \in Nat
        BY <4>2 DEF Deliveries
      <4>4. lines[g] \in Nat /\ lines'[g] \in Nat /\ lines[g] <= lines'[g]
        BY <3>1 DEF TypeOK
      <4> QED  BY <4>1, <4>3, <4>4
    <3> QED  BY <2>1, <3>1, <3>2, <3>3 DEF WritePrompt, TypeOK, historyVars
  <2>2. ASSUME NEW f \in Inboxes, Age(f) PROVE TypeOK'
    <3>1. old' \in [Inboxes -> Nat]
      BY <2>2 DEF Age, TypeOK
    <3> QED  BY <2>2, <3>1, FilesKept DEF Age, TypeOK, historyVars
  <2>3. ASSUME NEW f \in Inboxes, Deliver(f) PROVE TypeOK'
    <3>1. HeadOff(f)
      BY <2>3, HeadsComeOff
    <3>2. Head(chain[f]).line \in Nat
      BY <3>1, TailOfChain DEF HeadOff, Deliveries
    <3>3. /\ halted' \in [Inboxes -> BOOLEAN] /\ timer' \in BOOLEAN
          /\ pasted' \in [Inboxes -> SUBSET Nat]
      <4> DEFINE line == Head(chain[f]).line
      <4>1. \/ pasted' = [pasted EXCEPT ![f] = @ \cup {line}]
            \/ pasted' = pasted
        BY <2>3 DEF Deliver
      <4>2. halted' \in [Inboxes -> BOOLEAN] /\ timer' \in BOOLEAN
        BY <2>3 DEF Deliver, Commit, TypeOK
      <4>3. pasted \in [Inboxes -> SUBSET Nat] /\ line \in Nat
        BY <3>2 DEF TypeOK
      <4> HIDE DEF line
      <4>4. pasted' \in [Inboxes -> SUBSET Nat]
        BY <4>1, <4>3
      <4> QED  BY <4>2, <4>4
    <3> QED  BY <2>3, <3>1, <3>3, HeadOffTypes
             DEF Deliver, TypeOK, diskVars
  <2>4. ASSUME NEW f \in Inboxes, SkipStale(f) PROVE TypeOK'
    <3>1. HeadOff(f)
      BY <2>4, HeadsComeOff
    <3>2. halted' \in [Inboxes -> BOOLEAN] /\ timer' \in BOOLEAN
      BY <2>4 DEF SkipStale, Commit, TypeOK
    <3> QED  BY <2>4, <3>1, <3>2, HeadOffTypes
             DEF SkipStale, TypeOK, diskVars
  <2>5. CASE Tick
    <3>1. ASSUME NEW f \in Inboxes
          PROVE  /\ chain'[f] \in Seq(Deliveries)
                 /\ \A p \in 1..Len(chain'[f]) : chain'[f][p].line <= lines[f]
      <4>1. CASE chain'[f] = chain[f]
        BY <4>1 DEF TypeOK
      <4>2. CASE chain'[f] = chain[f] \o Unread(f)
        <5>1. /\ Unread(f) \in Seq(Deliveries)
              /\ Len(Unread(f)) = lines[f] - From(cursor, f)
              /\ \A i \in 1..Len(Unread(f)) : Unread(f)[i].line = From(cursor, f) + i
          BY UnreadType
        <5>2. chain[f] \in Seq(Deliveries) /\ lines[f] \in Nat /\ From(cursor, f) \in Nat
          BY FromType DEF TypeOK
        <5>3. ASSUME NEW p \in 1..Len(chain'[f]) PROVE chain'[f][p].line <= lines[f]
          <6>1. CASE p <= Len(chain[f])
            BY <4>2, <5>1, <5>2, <5>3, <6>1 DEF TypeOK
          <6>2. CASE p > Len(chain[f])
            <7>1. p - Len(chain[f]) \in 1..Len(Unread(f))
              BY <4>2, <5>1, <5>2, <5>3, <6>2
            <7>2. chain'[f][p] = Unread(f)[p - Len(chain[f])]
              BY <4>2, <5>1, <5>2, <5>3, <6>2
            <7> QED  BY <5>1, <5>2, <7>1, <7>2
          <6> QED  BY <5>2, <5>3, <6>1, <6>2
        <5> QED  BY <4>2, <5>1, <5>2, <5>3
      <4> QED  BY <2>5, <4>1, <4>2 DEF Tick
    <3>2. chain' \in [Inboxes -> Seq(Deliveries)]
      BY <2>5, <3>1 DEF Tick
    <3> QED  BY <2>5, <3>1, <3>2 DEF Tick, TypeOK, InFile, diskVars, historyVars
  <2>6. CASE SaveOffsets
    BY <2>6 DEF SaveOffsets, TypeOK, InFile, historyVars
  <2>7. CASE CloseWindow
    <3>1. cursor' \in Cursors /\ InFile(cursor)'
      BY <2>7 DEF CloseWindow, NoEntries, Cursors, InFile
    <3>2. \A f \in Inboxes : chain'[f] = <<>> /\ Len(chain'[f]) = 0
      BY <2>7 DEF CloseWindow
    <3>3. /\ chain' \in [Inboxes -> Seq(Deliveries)]
          /\ \A f \in Inboxes : \A p \in 1..Len(chain'[f]) : chain'[f][p].line <= lines'[f]
      BY <2>7, <3>2 DEF CloseWindow
    <3>4. saved' # None => InFile(saved)'
      BY <2>7 DEF CloseWindow, TypeOK, InFile, diskVars
    <3>5. /\ lines' \in [Inboxes -> Nat] /\ old' \in [Inboxes -> Nat]
          /\ saved' \in Cursors \cup {None} /\ bridge' \in {"closed", "disabled", "watching"}
          /\ halted' \in [Inboxes -> BOOLEAN] /\ timer' \in BOOLEAN
      BY <2>7 DEF CloseWindow, TypeOK, diskVars
    <3>6. /\ stops' \in Nat /\ answered' \in [Inboxes -> SUBSET Nat]
          /\ pasted' \in [Inboxes -> SUBSET Nat] /\ flood' \in [Inboxes -> Nat]
      BY <2>7 DEF CloseWindow, TypeOK, historyVars
    <3> QED  BY <3>1, <3>3, <3>4, <3>5, <3>6 DEF TypeOK
  <2>8. CASE StopWatching
    BY <2>8, FilesKept DEF StopWatching, TypeOK, diskVars, historyVars
  <2>9. CASE StartWatching
    <3>1. cursor' \in Cursors /\ InFile(cursor)'
      BY <2>9, StartTypes
    <3>2. /\ answered' \in [Inboxes -> SUBSET Nat] /\ timer' \in BOOLEAN
          /\ flood' \in [Inboxes -> Nat]
      <4>1. answered' \in [Inboxes -> SUBSET Nat]
        <5>1. ASSUME NEW f \in Inboxes PROVE answered[f] \cup 1..lines[f] \in SUBSET Nat
          BY DEF TypeOK
        <5>2. CASE answered' = [f \in Inboxes |-> answered[f] \cup 1..lines[f]]
          BY <5>1, <5>2
        <5>3. CASE answered' = answered
          BY <5>3 DEF TypeOK
        <5>4. \/ answered' = answered
              \/ answered' = [f \in Inboxes |-> answered[f] \cup 1..lines[f]]
          BY <2>9 DEF StartWatching
        <5> QED  BY <5>2, <5>3, <5>4
      <4>2. timer' \in BOOLEAN /\ flood' \in [Inboxes -> Nat]
        BY <2>9 DEF StartWatching, TypeOK
      <4> QED  BY <4>1, <4>2
    <3>3. stops' \in Nat /\ pasted' \in [Inboxes -> SUBSET Nat] /\ halted' \in [Inboxes -> BOOLEAN]
      BY <2>9 DEF StartWatching, TypeOK
    <3>4. /\ lines' \in [Inboxes -> Nat] /\ old' \in [Inboxes -> Nat]
          /\ saved' \in Cursors \cup {None} /\ bridge' \in {"closed", "disabled", "watching"}
      BY <2>9 DEF StartWatching, TypeOK, diskVars
    <3>5. UNCHANGED <<lines, saved, chain>>
      BY <2>9 DEF StartWatching, diskVars
    <3> QED  BY <3>1, <3>2, <3>3, <3>4, <3>5, FilesKept DEF TypeOK
  <2>10. CASE UNCHANGED vars
    BY <2>10 DEF vars, diskVars, historyVars, TypeOK, InFile
  <2> QED  BY <2>1, <2>2, <2>3, <2>4, <2>5, <2>6, <2>7, <2>8, <2>9, <2>10 DEF Next
<1> QED  BY <1>1, <1>2, PTL DEF Spec

-----------------------------------------------------------------------------
\* A head that comes off has an answer for every line before it.
LEMMA HeadIsNext ==
    ASSUME TypeOK, ChainInOrder, NEW f \in Inboxes, chain[f] # <<>>
    PROVE  1..(Head(chain[f]).line - 1) \subseteq answered[f]
<1>1. Head(chain[f]) = chain[f][1] /\ 1 \in 1..Len(chain[f])
  BY TailOfChain
<1>2. 1..(1 - 1) = {}
  OBVIOUS
<1> QED  BY <1>1, <1>2 DEF ChainInOrder

\* Answers only accumulate, so a map whose lines were covered stays so.
LEMMA CoverGrows ==
    ASSUME NEW c, Covered(c),
           \A f \in Inboxes : answered[f] \subseteq answered'[f]
    PROVE  \A f \in Inboxes : 1..From(c, f) \subseteq answered'[f]
BY DEF Covered

\* Taking a head off keeps both invariants (extension.ts enqueueDelivery): its
\* cursor covers lines all answered, and what stood behind it moves up.
LEMMA HeadOffInOrder ==
    ASSUME TypeOK, InOrder, NEW f \in Inboxes, HeadOff(f)
    PROVE  InOrder'
<1> DEFINE line == Head(chain[f]).line
<1>1. 1..(line - 1) \subseteq answered[f] /\ line \in Nat
  BY HeadIsNext, TailOfChain DEF InOrder, HeadOff, Deliveries
<1>2. /\ answered'[f] = answered[f] \cup {line}
      /\ \A g \in Inboxes : answered[g] \subseteq answered'[g]
  BY DEF HeadOff, TypeOK
<1>3. 1..line \subseteq answered'[f]
  BY <1>1, <1>2
<1>4. Covered(cursor)'
  <2>1. ASSUME NEW g \in Inboxes PROVE 1..From(cursor', g) \subseteq answered'[g]
    <3>1. CASE cursor' = cursor
      BY <1>2, <3>1 DEF InOrder, NothingPassedUnseen, Covered
    <3>2. CASE cursor' = [cursor EXCEPT ![f] = line]
      <4>1. CASE g = f
        <5>1. cursor'[f] = line
          BY <3>2 DEF TypeOK, Cursors
        <5>2. From(cursor', f) = line
          BY <1>1, <5>1, NoneAssumption DEF From
        <5> QED  BY <1>3, <4>1, <5>2
      <4>2. CASE g # f
        <5>1. From(cursor', g) = From(cursor, g)
          BY <3>2, <4>2 DEF From, TypeOK, Cursors
        <5> QED  BY <1>2, <5>1 DEF InOrder, NothingPassedUnseen, Covered
      <4> QED  BY <4>1, <4>2
    <3> QED  BY <3>1, <3>2 DEF HeadOff
  <2> QED  BY <2>1 DEF Covered
<1>5. saved' # None => Covered(saved)'
  BY <1>2 DEF InOrder, NothingPassedUnseen, HeadOff, Covered, From
<1>6. ChainInOrder'
  <2> SUFFICES ASSUME NEW g \in Inboxes, NEW p \in 1..Len(chain'[g]),
                      NEW j \in 1..(chain'[g][p].line - 1)
               PROVE  j \in answered'[g] \/ \E q \in 1..(p - 1) : chain'[g][q].line = j
    BY DEF ChainInOrder
  <2>1. CASE g # f
    <3>1. chain'[g] = chain[g]
      BY <2>1 DEF HeadOff, TypeOK
    <3> QED  BY <1>2, <3>1 DEF InOrder, ChainInOrder
  <2>2. CASE g = f
    <3>1. /\ Head(chain[f]) = chain[f][1]
          /\ Len(Tail(chain[f])) = Len(chain[f]) - 1 /\ Len(chain[f]) \in Nat \ {0}
          /\ \A r \in 1..Len(Tail(chain[f])) : Tail(chain[f])[r] = chain[f][r + 1]
      BY TailOfChain DEF HeadOff
    <3>2. chain'[f] = Tail(chain[f])
      BY DEF HeadOff, TypeOK
    <3>3. p + 1 \in 1..Len(chain[f]) /\ chain'[f][p] = chain[f][p + 1]
      BY <2>2, <3>1, <3>2
    <3>4. j \in answered[f] \/ \E q \in 1..((p + 1) - 1) : chain[f][q].line = j
      BY <2>2, <3>3 DEF InOrder, ChainInOrder
    <3>5. ASSUME NEW q \in 1..((p + 1) - 1), chain[f][q].line = j
          PROVE  j \in answered'[g] \/ \E r \in 1..(p - 1) : chain'[g][r].line = j
      <4>1. CASE q = 1
        BY <1>2, <2>2, <3>1, <3>5, <4>1
      <4>2. CASE q # 1
        <5>1. q - 1 \in 1..(p - 1) /\ q - 1 \in 1..Len(Tail(chain[f])) /\ (q - 1) + 1 = q
          BY <2>2, <3>1, <3>2, <4>2
        <5>2. chain'[f][q - 1] = chain[f][q]
          BY <3>1, <3>2, <5>1
        <5> QED  BY <2>2, <3>5, <5>1, <5>2
      <4> QED  BY <4>1, <4>2
    <3> QED  BY <1>2, <2>2, <3>4, <3>5
  <2> QED  BY <2>1, <2>2
<1> QED  BY <1>4, <1>5, <1>6 DEF InOrder, NothingPassedUnseen

\* The second part of a concatenation starts behind the first.
LEMMA ConcatTail ==
    ASSUME NEW s \in Seq(Deliveries), NEW t \in Seq(Deliveries), NEW i \in 1..Len(t)
    PROVE  (s \o t)[Len(s) + i] = t[i]
<1>1. Len(s) \in Nat /\ Len(t) \in Nat
  OBVIOUS
<1>2. Len(s) + i \in 1..(Len(s) + Len(t)) /\ Len(s) + i > Len(s) /\ (Len(s) + i) - Len(s) = i
  BY <1>1
<1> QED  BY <1>1, <1>2

\* A tick hangs the lines after a covered cursor behind what still waits, in
\* order (extension.ts processFile), so each finds those before it.
LEMMA TickInOrder ==
    ASSUME TypeOK, InOrder, Tick
    PROVE  ChainInOrder'
<1> SUFFICES ASSUME NEW f \in Inboxes, NEW p \in 1..Len(chain'[f]),
                    NEW j \in 1..(chain'[f][p].line - 1)
             PROVE  j \in answered[f] \/ \E q \in 1..(p - 1) : chain'[f][q].line = j
  <2>1. UNCHANGED answered
    BY DEF Tick, historyVars
  <2> QED  BY <2>1 DEF ChainInOrder
<1>1. CASE chain'[f] = chain[f]
  BY <1>1 DEF InOrder, ChainInOrder
<1>2. CASE chain'[f] = chain[f] \o Unread(f)
  <2> DEFINE n == Len(chain[f])
             from == From(cursor, f)
  <2>1. /\ Unread(f) \in Seq(Deliveries)
        /\ \A i \in 1..Len(Unread(f)) : Unread(f)[i].line = from + i
    BY UnreadType
  <2>2. chain[f] \in Seq(Deliveries) /\ n \in Nat /\ from \in Nat
    BY FromType DEF TypeOK
  <2>3. CASE p <= n
    <3>1. chain'[f][p] = chain[f][p] /\ \A q \in 1..(p - 1) : chain'[f][q] = chain[f][q]
      BY <1>2, <2>1, <2>2, <2>3
    <3>2. p \in 1..Len(chain[f])
      BY <2>2, <2>3
    <3> QED  BY <3>1, <3>2 DEF InOrder, ChainInOrder
  <2>4. CASE p > n
    <3>1. p - n \in 1..Len(Unread(f)) /\ chain'[f][p] = Unread(f)[p - n]
      BY <1>2, <2>1, <2>2, <2>4
    <3>2. chain'[f][p].line = from + (p - n)
      BY <2>1, <3>1
    <3>3. CASE j <= from
      <4>1. j \in 1..from
        BY <2>2, <3>3
      <4> QED  BY <4>1 DEF InOrder, NothingPassedUnseen, Covered
    <3>4. CASE j > from
      <4> DEFINE i == j - from
                 m == Len(Unread(f))
      <4>1. j \in 1..((from + (p - n)) - 1) /\ m \in Nat /\ p - n \in 1..m /\ p \in Nat
        BY <2>1, <3>1, <3>2
      <4>2. i \in 1..m /\ n + i \in 1..(p - 1) /\ from + i = j
        <5> HIDE DEF n, from, m
        <5> QED  BY <2>2, <3>4, <4>1
      <4>3. chain'[f][n + i] = Unread(f)[i]
        BY <1>2, <2>1, <2>2, <4>2, ConcatTail
      <4> QED  BY <2>1, <4>2, <4>3
    <3> QED  BY <2>2, <3>3, <3>4
  <2> QED  BY <2>2, <2>3, <2>4
<1> QED  BY <1>1, <1>2 DEF Tick

\* startWatching goes on from cursors that were covered, or from the end of files
\* it counts as seen.
LEMMA StartInOrder ==
    ASSUME TypeOK, InOrder, StartWatching
    PROVE  InOrder'
<1>1. \A f \in Inboxes : answered[f] \subseteq answered'[f]
  BY DEF StartWatching, TypeOK
<1>2. Covered(cursor)'
  <2>1. CASE cursor' = IF saved = None THEN cursor ELSE saved
    BY <1>1, <2>1 DEF InOrder, NothingPassedUnseen, Covered, From
  <2>2. CASE /\ cursor' = [f \in Inboxes |-> IF lines[f] = 0 THEN None ELSE lines[f]]
             /\ answered' = [f \in Inboxes |-> answered[f] \cup 1..lines[f]]
    <3>1. ASSUME NEW f \in Inboxes PROVE 1..From(cursor', f) \subseteq answered'[f]
      <4>1. From(cursor', f) = lines[f]
        BY <2>2, NoneAssumption DEF From, TypeOK
      <4> QED  BY <2>2, <4>1
    <3> QED  BY <3>1 DEF Covered
  <2> QED  BY <2>1, <2>2 DEF StartWatching
<1>3. saved' # None => Covered(saved)'
  BY <1>1 DEF StartWatching, diskVars, InOrder, NothingPassedUnseen, Covered, From
<1>4. ChainInOrder'
  <2>1. UNCHANGED chain
    BY DEF StartWatching
  <2> QED  BY <1>1, <2>1 DEF InOrder, ChainInOrder
<1> QED  BY <1>2, <1>3, <1>4 DEF InOrder, NothingPassedUnseen

\* Steps that leave chains, cursors and answers alone keep the order.
LEMMA OrderKept ==
    ASSUME InOrder, UNCHANGED <<chain, cursor, saved, answered>>
    PROVE  InOrder'
BY DEF InOrder, NothingPassedUnseen, ChainInOrder, Covered, From

\* Both invariants hold together in every state.
LEMMA AlwaysInOrder == Spec => [](TypeOK /\ InOrder)
<1>1. Init => InOrder
  <2> SUFFICES ASSUME Init PROVE InOrder
    OBVIOUS
  <2>1. \A f \in Inboxes : From(cursor, f) = 0 /\ Len(chain[f]) = 0
    BY DEF Init, From, NoEntries
  <2>2. 1..0 = {}
    OBVIOUS
  <2> QED  BY <2>1, <2>2 DEF Init, InOrder, NothingPassedUnseen, ChainInOrder, Covered
<1>2. TypeOK /\ InOrder /\ [Next]_vars => InOrder'
  <2> SUFFICES ASSUME TypeOK, InOrder, [Next]_vars PROVE InOrder'
    OBVIOUS
  <2>1. ASSUME NEW f \in Inboxes, WritePrompt(f) PROVE InOrder'
    BY <2>1, OrderKept DEF WritePrompt, historyVars
  <2>2. ASSUME NEW f \in Inboxes, Age(f) PROVE InOrder'
    BY <2>2, OrderKept DEF Age, historyVars
  <2>3. ASSUME NEW f \in Inboxes, Deliver(f) \/ SkipStale(f) PROVE InOrder'
    BY <2>3, HeadsComeOff, HeadOffInOrder
  <2>4. CASE Tick
    <3>1. ChainInOrder'
      BY <2>4, TickInOrder
    <3>2. NothingPassedUnseen'
      BY <2>4 DEF Tick, InOrder, NothingPassedUnseen, Covered, From, diskVars, historyVars
    <3> QED  BY <3>1, <3>2 DEF InOrder
  <2>5. CASE SaveOffsets
    <3>1. NothingPassedUnseen'
      BY <2>5 DEF SaveOffsets, InOrder, NothingPassedUnseen, Covered, From, historyVars
    <3>2. ChainInOrder'
      BY <2>5 DEF SaveOffsets, InOrder, ChainInOrder, historyVars
    <3> QED  BY <3>1, <3>2 DEF InOrder
  <2>6. CASE CloseWindow
    <3>1. \A f \in Inboxes : From(cursor', f) = 0 /\ Len(chain'[f]) = 0
      BY <2>6 DEF CloseWindow, From, NoEntries
    <3>2. Covered(cursor)' /\ ChainInOrder'
      BY <3>1 DEF Covered, ChainInOrder
    <3>3. saved' # None => Covered(saved)'
      BY <2>6 DEF CloseWindow, InOrder, NothingPassedUnseen, Covered, From, diskVars, historyVars
    <3> QED  BY <3>2, <3>3 DEF InOrder, NothingPassedUnseen
  <2>7. CASE StopWatching
    BY <2>7, OrderKept DEF StopWatching, diskVars, historyVars
  <2>8. CASE StartWatching
    BY <2>8, StartInOrder
  <2>9. CASE UNCHANGED vars
    BY <2>9, OrderKept DEF vars, diskVars, historyVars
  <2> QED  BY <2>1, <2>2, <2>3, <2>4, <2>5, <2>6, <2>7, <2>8, <2>9 DEF Next
<1> QED  BY <1>1, <1>2, TypeCorrect, PTL DEF Spec

\* No cursor, in memory or on disk, is past a line nothing ever answered.
THEOREM NothingLostUnseen == Spec => []NothingPassedUnseen
BY AlwaysInOrder, PTL DEF InOrder

\* A prompt reaches a terminal only after every earlier one had its answer.
THEOREM PastesInOrder == Spec => PastedInOrder
<1> DEFINE InStep == \A f \in Inboxes : \A i \in pasted'[f] \ pasted[f] :
                        1..(i - 1) \subseteq answered[f]
<1>1. TypeOK /\ InOrder /\ [Next]_vars => [InStep]_vars
  <2> SUFFICES ASSUME TypeOK, InOrder, Next PROVE InStep
    BY DEF vars, historyVars
  <2>1. ASSUME NEW f \in Inboxes, Deliver(f) PROVE InStep
    <3>1. chain[f] # <<>> /\ \A g \in Inboxes : \A i \in pasted'[g] \ pasted[g] :
                                g = f /\ i = Head(chain[f]).line
      BY <2>1 DEF Deliver, TypeOK
    <3> QED  BY <3>1, HeadIsNext DEF InOrder
  <2>2. CASE UNCHANGED pasted
    BY <2>2
  <2>3. ASSUME NEW f \in Inboxes, WritePrompt(f) \/ Age(f) \/ SkipStale(f)
        PROVE  UNCHANGED pasted
    BY <2>3 DEF WritePrompt, Age, SkipStale, historyVars
  <2>4. Tick \/ SaveOffsets \/ CloseWindow \/ StopWatching \/ StartWatching
          => UNCHANGED pasted
    BY DEF Tick, SaveOffsets, CloseWindow, StopWatching, StartWatching, historyVars
  <2> QED  BY <2>1, <2>2, <2>3, <2>4 DEF Next
<1> QED  BY <1>1, AlwaysInOrder, PTL DEF Spec, PastedInOrder

-----------------------------------------------------------------------------
\* NoFloodOnOpen speaks of one step; what carries it from the opening of the
\* window to that step is that a line chained for a terminal was not old when
\* the window opened, and that a closed window has no chains.
FreshChains ==
    /\ \A f \in Inboxes : flood[f] <= old[f]
    /\ bridge = "closed" => \A f \in Inboxes : chain[f] = <<>>
    /\ \A f \in Inboxes : \A p \in 1..Len(chain[f]) :
          chain[f][p].kind = "deliver" => chain[f][p].line > flood[f]

\* What processFile chains for a terminal is younger than the 90 s gate.
LEMMA UnreadIsFresh ==
    ASSUME TypeOK, FreshChains, NEW f \in Inboxes, NEW i \in 1..Len(Unread(f)),
           Unread(f)[i].kind = "deliver"
    PROVE  Unread(f)[i].line > flood[f]
<1>1. /\ Len(Unread(f)) = lines[f] - From(cursor, f) /\ From(cursor, f) \in Nat
      /\ Unread(f)[i].line = From(cursor, f) + i
  BY UnreadType, FromType DEF TypeOK
<1>2. lines[f] \in Nat /\ old[f] \in Nat /\ flood[f] \in Nat /\ flood[f] <= old[f]
  BY DEF TypeOK, FreshChains
<1>3. i \in 1..(lines[f] - From(cursor, f))
  BY <1>1
<1>4. Unread(f)[i].kind = IF From(cursor, f) + i <= old[f] THEN "stale" ELSE "deliver"
  BY <1>3 DEF Unread
<1>5. ~(From(cursor, f) + i <= old[f])
  BY <1>4
<1> QED  BY <1>1, <1>2, <1>3, <1>5

\* Every step keeps the chains fresh.
LEMMA FreshKept == TypeOK /\ FreshChains /\ [Next]_vars => FreshChains'
<1> SUFFICES ASSUME TypeOK, FreshChains, [Next]_vars PROVE FreshChains'
  OBVIOUS
<1>0. \A f \in Inboxes : old[f] \in Nat /\ flood[f] \in Nat /\ chain[f] \in Seq(Deliveries)
  BY DEF TypeOK
<1>1. ASSUME NEW f \in Inboxes, Age(f) PROVE FreshChains'
  <2>1. \A g \in Inboxes : old[g] <= old'[g] /\ old'[g] \in Nat
    BY <1>1 DEF Age, TypeOK
  <2>2. UNCHANGED <<bridge, chain, flood>>
    BY <1>1 DEF Age, historyVars
  <2>3. \A g \in Inboxes : flood[g] <= old[g] /\ flood[g] \in Nat /\ old[g] \in Nat
    BY DEF FreshChains, TypeOK
  <2>4. \A g \in Inboxes : flood'[g] <= old'[g]
    BY <2>1, <2>2, <2>3
  <2> QED  BY <2>2, <2>4 DEF FreshChains
<1>2. ASSUME NEW f \in Inboxes, Deliver(f) \/ SkipStale(f) PROVE FreshChains'
  <2>1. HeadOff(f) /\ UNCHANGED <<old, bridge, flood>>
    BY <1>2, HeadsComeOff DEF Deliver, SkipStale, diskVars
  <2>2. bridge' # "closed"
    BY <1>2, <2>1 DEF Deliver, SkipStale
  <2>3. /\ Len(Tail(chain[f])) = Len(chain[f]) - 1 /\ Len(chain[f]) \in Nat \ {0}
        /\ \A p \in 1..Len(Tail(chain[f])) : Tail(chain[f])[p] = chain[f][p + 1]
    BY <2>1, TailOfChain DEF HeadOff
  <2>4. chain'[f] = Tail(chain[f]) /\ \A g \in Inboxes : g # f => chain'[g] = chain[g]
    BY <2>1 DEF HeadOff, TypeOK
  <2>5. ASSUME NEW g \in Inboxes, NEW p \in 1..Len(chain'[g]), chain'[g][p].kind = "deliver"
        PROVE  chain'[g][p].line > flood[g]
    <3>1. CASE g = f
      <4>1. chain'[g] = Tail(chain[f]) /\ p \in 1..Len(Tail(chain[f]))
        BY <2>4, <2>5, <3>1
      <4>2. p + 1 \in 1..Len(chain[f]) /\ Tail(chain[f])[p] = chain[f][p + 1]
        BY <2>3, <4>1
      <4> QED  BY <2>5, <3>1, <4>1, <4>2 DEF FreshChains
    <3>2. CASE g # f
      BY <2>4, <2>5, <3>2 DEF FreshChains
    <3> QED  BY <3>1, <3>2
  <2> QED  BY <2>1, <2>2, <2>5 DEF FreshChains
<1>3. CASE Tick
  <2>1. UNCHANGED <<old, bridge, flood>> /\ bridge = "watching"
    BY <1>3 DEF Tick, diskVars, historyVars
  <2>2. ASSUME NEW f \in Inboxes, NEW p \in 1..Len(chain'[f]), chain'[f][p].kind = "deliver"
        PROVE  chain'[f][p].line > flood[f]
    <3>1. CASE chain'[f] = chain[f]
      BY <2>2, <3>1 DEF FreshChains
    <3>2. CASE chain'[f] = chain[f] \o Unread(f)
      <4>1. Unread(f) \in Seq(Deliveries) /\ chain[f] \in Seq(Deliveries)
        BY <1>0, UnreadType
      <4>2. CASE p <= Len(chain[f])
        <5>1. p \in 1..Len(chain[f]) /\ chain'[f][p] = chain[f][p]
          BY <2>2, <3>2, <4>1, <4>2
        <5> QED  BY <2>2, <5>1 DEF FreshChains
      <4>3. CASE p > Len(chain[f])
        <5>1. Len(chain[f]) \in Nat /\ Len(Unread(f)) \in Nat
          BY <4>1
        <5>2. Len(chain'[f]) = Len(chain[f]) + Len(Unread(f))
          BY <3>2, <4>1
        <5>3. p - Len(chain[f]) \in 1..Len(Unread(f))
          BY <2>2, <4>3, <5>1, <5>2
        <5>4. chain'[f][p] = Unread(f)[p - Len(chain[f])]
          BY <2>2, <3>2, <4>1, <4>3, <5>3
        <5> QED  BY <2>2, <5>3, <5>4, UnreadIsFresh
      <4> QED  BY <2>2, <4>1, <4>2, <4>3
    <3> QED  BY <1>3, <3>1, <3>2 DEF Tick
  <2> QED  BY <2>1, <2>2 DEF FreshChains
<1>4. CASE CloseWindow
  <2>1. \A f \in Inboxes : chain'[f] = <<>> /\ Len(chain'[f]) = 0
    BY <1>4 DEF CloseWindow
  <2>2. UNCHANGED <<old, flood>>
    BY <1>4 DEF CloseWindow, diskVars, historyVars
  <2> QED  BY <2>1, <2>2 DEF FreshChains
<1>5. CASE StartWatching
  <2>1. UNCHANGED <<old, chain>> /\ bridge' = "watching"
        /\ flood' = IF bridge = "closed" THEN old ELSE flood
    BY <1>5 DEF StartWatching, diskVars
  <2>2. CASE bridge = "closed"
    <3>1. \A f \in Inboxes : chain'[f] = <<>> /\ Len(chain'[f]) = 0
      BY <2>1, <2>2 DEF FreshChains
    <3>2. \A f \in Inboxes : flood'[f] <= old'[f]
      BY <1>0, <2>1, <2>2
    <3> QED  BY <2>1, <3>1, <3>2 DEF FreshChains
  <2>3. CASE bridge # "closed"
    BY <2>1, <2>3 DEF FreshChains
  <2> QED  BY <2>2, <2>3
<1>6. CASE StopWatching
  BY <1>6 DEF StopWatching, FreshChains, diskVars, historyVars
<1>7. CASE UNCHANGED <<old, bridge, chain, flood>>
  BY <1>7 DEF FreshChains
<1> QED  BY <1>1, <1>2, <1>3, <1>4, <1>5, <1>6, <1>7
         DEF Next, WritePrompt, SaveOffsets, vars, diskVars, historyVars

\* What had gone stale before a window opened never reaches a terminal of it,
\* across retries, overtaking ticks, disabling and reloads (extension.ts
\* processFile, STALE_MESSAGE_MS).
THEOREM NothingStaleIsPasted == Spec => NoFloodOnOpen
<1>1. Init => FreshChains
  <2> SUFFICES ASSUME Init PROVE FreshChains
    OBVIOUS
  <2>1. \A f \in Inboxes : chain[f] = <<>> /\ Len(chain[f]) = 0
    BY DEF Init
  <2>2. \A f \in Inboxes : flood[f] = 0 /\ old[f] = 0
    BY DEF Init
  <2> QED  BY <2>1, <2>2 DEF FreshChains
<1> DEFINE FreshStep == \A f \in Inboxes : \A i \in pasted'[f] \ pasted[f] : i > flood[f]
<1>2. TypeOK /\ FreshChains /\ [Next]_vars => [FreshStep]_vars
  <2> SUFFICES ASSUME TypeOK, FreshChains, Next PROVE FreshStep
    BY DEF vars, historyVars
  <2> SUFFICES ASSUME NEW f \in Inboxes, NEW i \in pasted'[f] \ pasted[f]
               PROVE  i > flood[f]
    OBVIOUS
  <2>1. CASE UNCHANGED pasted
    BY <2>1
  <2>2. ASSUME NEW g \in Inboxes, Deliver(g) PROVE i > flood[f]
    <3>1. chain[g] # <<>> /\ Head(chain[g]).kind = "deliver"
          /\ (pasted' = pasted \/ pasted' = [pasted EXCEPT ![g] = @ \cup {Head(chain[g]).line}])
      BY <2>2 DEF Deliver
    <3>2. Head(chain[g]) = chain[g][1] /\ 1 \in 1..Len(chain[g])
      BY <3>1, TailOfChain
    <3>3. f = g /\ i = Head(chain[g]).line
      <4>1. pasted \in [Inboxes -> SUBSET Nat]
        BY DEF TypeOK
      <4>2. i \in pasted'[f] /\ i \notin pasted[f]
        OBVIOUS
      <4>3. pasted' = [pasted EXCEPT ![g] = @ \cup {Head(chain[g]).line}]
        BY <3>1, <4>2
      <4> QED  BY <4>1, <4>2, <4>3
    <3> QED  BY <3>1, <3>2, <3>3 DEF FreshChains
  <2> QED  BY <2>1, <2>2
           DEF Next, WritePrompt, Age, SkipStale, Tick, SaveOffsets, CloseWindow,
               StopWatching, StartWatching, historyVars
<1> QED  BY <1>1, <1>2, FreshKept, TypeCorrect, PTL DEF Spec, NoFloodOnOpen

-----------------------------------------------------------------------------
\* A file whose last chained line was retried: halted, and nothing on its chain.
Stuck(f) == halted[f] /\ chain[f] = <<>>

\* Such a file stays so until the window closes, and nothing more of it is
\* pasted: later lines, ticks, the ageing of its lines, switching the bridge off
\* and on, none reaches it.  The comments on the halt have another tick or the
\* age of the line lift it (extension.ts 600-604, 679-684).
THEOREM StuckUntilClosed ==
    Spec => [][\A f \in Inboxes : Stuck(f) =>
                  \/ bridge' = "closed"
                  \/ /\ Stuck(f)' /\ pasted'[f] = pasted[f]
                     /\ bridge = "watching" => cursor'[f] = cursor[f]]_vars
<1> DEFINE StuckStep ==
        \A f \in Inboxes : Stuck(f) =>
            \/ bridge' = "closed"
            \/ /\ Stuck(f)' /\ pasted'[f] = pasted[f]
               /\ bridge = "watching" => cursor'[f] = cursor[f]
<1>1. TypeOK /\ [Next]_vars => [StuckStep]_vars
  <2> SUFFICES ASSUME TypeOK, Next, NEW f \in Inboxes, Stuck(f), bridge' # "closed"
               PROVE  /\ Stuck(f)' /\ pasted'[f] = pasted[f]
                      /\ bridge = "watching" => cursor'[f] = cursor[f]
    OBVIOUS
  <2>1. ASSUME NEW g \in Inboxes, Deliver(g) \/ SkipStale(g)
        PROVE  /\ Stuck(f)' /\ pasted'[f] = pasted[f] /\ cursor'[f] = cursor[f]
    <3>1. f # g
      BY <2>1 DEF Stuck, Deliver, SkipStale
    <3> QED  BY <2>1, <3>1 DEF Stuck, Deliver, SkipStale, Commit, TypeOK, Cursors
  <2>2. CASE Tick
    BY <2>2 DEF Stuck, Tick, TypeOK, diskVars, historyVars
  <2>3. CASE StartWatching
    BY <2>3 DEF Stuck, StartWatching, diskVars
  <2>4. CASE UNCHANGED <<chain, halted, pasted, cursor>>
    BY <2>4 DEF Stuck
  <2> QED  BY <2>1, <2>2, <2>3, <2>4
           DEF Next, WritePrompt, Age, SaveOffsets, CloseWindow, StopWatching,
               diskVars, historyVars
<1> QED  BY <1>1, TypeCorrect, PTL DEF Spec
=============================================================================
