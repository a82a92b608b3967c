-------------------------- MODULE SpeakQueueProofs --------------------------
(* What becomes of the segments a connection says, for any number of          *)
(* connections, segments, barges and faults: their order, their epoch and the *)
(* report of what was cut.  Every step touches one connection, and of what    *)
(* was said it leaves all, changes one fate or adds one, so each part of the  *)
(* invariant has a lemma for each of these changes and each action picks its. *)
EXTENDS ReplyDeliveryProofs, FiniteSetTheorems

Rising(s) == \A i, j \in 1..Len(s) : i < j => s[i] < s[j]

\* The segments started (st) and queued (q) of the n that were said.
InLine(st, q, n) ==
  /\ Rising(st) /\ Rising(q)
  /\ \A i \in 1..Len(st), j \in 1..Len(q) : st[i] < q[j]
  /\ \A i \in 1..Len(st) : st[i] \in 1..n
  /\ \A j \in 1..Len(q) : q[j] \in 1..n

\* The queue holds segments of the present epoch that wait, and all of them.
Waits(q, sd, ep) ==
  /\ \A i \in 1..Len(q) : sd[q[i]].fate = "waiting" /\ sd[q[i]].epoch = ep
  /\ \A n \in 1..Len(sd) :
       /\ sd[n].epoch <= ep
       /\ sd[n].fate = "waiting" =>
            sd[n].epoch < ep \/ \E i \in 1..Len(q) : q[i] = n

\* Audio that goes on has audio of its own epoch to go on from; while the chain
\* is not broken there is some of the present epoch.
Breaks(sd, ep, broken) ==
  /\ \A n \in 1..Len(sd) :
       sd[n].cont /\ sd[n].epoch > 0 => \E m \in 1..(n - 1) : sd[m].epoch = sd[n].epoch
  /\ ep > 0 /\ ~broken => \E m \in 1..Len(sd) : sd[m].epoch = ep

CutOf(sd) == {n \in 1..Len(sd) : sd[n].fate = "cut"}

Elems(s) == {s[i] : i \in 1..Len(s)}

\* What is owed to the brain (ch) and what it was told (td) are the cuts, once.
Cuts(ch, td, sd) ==
  /\ Elems(ch) \cup td = CutOf(sd)
  /\ Elems(ch) \cap td = {}
  /\ \A i, j \in 1..Len(ch) : ch[i] = ch[j] => i = j

\* The stream in flight is of the segment started last, which plays until it is
\* cut, and is the text in delivery until it is cut or the socket is gone.
Plays(c) ==
  /\ loop[c] = "play" <=> ctx[c] # "none"
  /\ loop[c] = "play" => starts[c] # <<>>
  /\ ctx[c] \in {"active", "detached"} => said[c][Playing(c)].fate = "playing"
  /\ ctx[c] = "active" => text[c] = Playing(c)
  /\ ctx[c] = "detached" => closed[c]

FloorIsQuiet(c) == floor[c] => queue[c] = <<>> /\ ctx[c] \in {"none", "cancelled"}

ConnInv(c) ==
  /\ InLine(starts[c], queue[c], Len(said[c]))
  /\ Waits(queue[c], said[c], epoch[c])
  /\ Breaks(said[c], epoch[c], chainBroken[c])
  /\ Cuts(chain[c], told[c], said[c])
  /\ Plays(c)
  /\ FloorIsQuiet(c)

Kinds ==
  /\ queue \in [Conns -> Seq(Nat)]
  /\ loop \in [Conns -> {"idle", "next", "wait", "play"}]
  /\ ctx \in [Conns -> {"none", "active", "cancelled", "detached"}]
  /\ text \in [Conns -> Nat]
  /\ chain \in [Conns -> Seq(Nat)]
  /\ chainBroken \in [Conns -> BOOLEAN]
  /\ floor \in [Conns -> BOOLEAN]
  /\ closed \in [Conns -> BOOLEAN]
  /\ said \in [Conns -> Seq(SaidRec)]
  /\ epoch \in [Conns -> Nat]
  /\ starts \in [Conns -> Seq(Nat)]
  /\ told \in [Conns -> SUBSET Nat]

SegmentInv == Kinds /\ \A c \in Conns : ConnInv(c)

-----------------------------------------------------------------------------
(* The line of segments. *)

\* Taking the head leaves a rising queue of larger numbers.
LEMMA RisingTail ==
    ASSUME NEW q \in Seq(Nat), q # <<>>, Rising(q)
    PROVE  /\ Tail(q) \in Seq(Nat) /\ Len(Tail(q)) = Len(q) - 1
           /\ \A i \in 1..Len(Tail(q)) : Tail(q)[i] = q[i + 1] /\ Head(q) < Tail(q)[i]
           /\ Rising(Tail(q))
           /\ Head(q) = q[1] /\ 1 \in 1..Len(q)
<1>1. /\ Tail(q) \in Seq(Nat) /\ Len(Tail(q)) = Len(q) - 1 /\ Len(q) \in Nat \ {0}
      /\ \A i \in 1..Len(Tail(q)) : Tail(q)[i] = q[i + 1]
      /\ Head(q) = q[1]
  OBVIOUS
<1>2. ASSUME NEW i \in 1..Len(Tail(q))
      PROVE  i + 1 \in 1..Len(q) /\ 1 < i + 1
  BY <1>1
<1>3. \A i \in 1..Len(Tail(q)) : Head(q) < Tail(q)[i]
  BY <1>1, <1>2 DEF Rising
<1>4. Rising(Tail(q))
  <2> SUFFICES ASSUME NEW i \in 1..Len(Tail(q)), NEW j \in 1..Len(Tail(q)), i < j
               PROVE  Tail(q)[i] < Tail(q)[j]
    BY DEF Rising
  <2>1. i + 1 \in 1..Len(q) /\ j + 1 \in 1..Len(q) /\ i + 1 < j + 1
    BY <1>2
  <2>2. q[i + 1] < q[j + 1]
    BY <2>1 DEF Rising
  <2> QED  BY <1>1, <2>2
<1> QED  BY <1>1, <1>3, <1>4

\* A larger number at the end keeps a queue rising.
LEMMA RisingAppend ==
    ASSUME NEW s \in Seq(Nat), NEW x \in Nat, Rising(s), \A i \in 1..Len(s) : s[i] < x
    PROVE  /\ Append(s, x) \in Seq(Nat) /\ Len(Append(s, x)) = Len(s) + 1
           /\ \A i \in 1..Len(s) : Append(s, x)[i] = s[i]
           /\ Append(s, x)[Len(s) + 1] = x
           /\ Rising(Append(s, x))
<1>1. /\ Append(s, x) \in Seq(Nat) /\ Len(Append(s, x)) = Len(s) + 1 /\ Len(s) \in Nat
      /\ \A i \in 1..Len(s) : Append(s, x)[i] = s[i]
      /\ Append(s, x)[Len(s) + 1] = x
  OBVIOUS
<1>2. Rising(Append(s, x))
  <2> SUFFICES ASSUME NEW i \in 1..(Len(s) + 1), NEW j \in 1..(Len(s) + 1), i < j
               PROVE  Append(s, x)[i] < Append(s, x)[j]
    BY <1>1 DEF Rising
  <2>1. i \in 1..Len(s) /\ (j = Len(s) + 1 \/ j \in 1..Len(s))
    BY <1>1
  <2> QED  BY <1>1, <2>1 DEF Rising
<1> QED  BY <1>1, <1>2

\* A segment leaves the queue and is not started.
LEMMA LineDrops ==
    ASSUME NEW st \in Seq(Nat), NEW q \in Seq(Nat), NEW n \in Nat, InLine(st, q, n), q # <<>>
    PROVE  InLine(st, Tail(q), n)
<1>1. Rising(q)
  BY DEF InLine
<1>2. /\ Tail(q) \in Seq(Nat) /\ Len(Tail(q)) = Len(q) - 1 /\ Rising(Tail(q))
      /\ \A i \in 1..Len(Tail(q)) : Tail(q)[i] = q[i + 1]
  BY <1>1, RisingTail
<1>3. \A i \in 1..Len(Tail(q)) : i + 1 \in 1..Len(q)
  BY <1>2
<1> QED  BY <1>2, <1>3 DEF InLine

\* The head of the queue is started.
LEMMA LineStarts ==
    ASSUME NEW st \in Seq(Nat), NEW q \in Seq(Nat), NEW n \in Nat, InLine(st, q, n), q # <<>>
    PROVE  InLine(Append(st, Head(q)), Tail(q), n)
<1>1. Rising(q) /\ Rising(st)
  BY DEF InLine
<1>2. /\ \A i \in 1..Len(Tail(q)) : Head(q) < Tail(q)[i]
      /\ Head(q) = q[1] /\ 1 \in 1..Len(q)
  BY <1>1, RisingTail
<1>3. Head(q) \in Nat /\ \A i \in 1..Len(st) : st[i] < Head(q)
  BY <1>2 DEF InLine
<1>4. /\ Append(st, Head(q)) \in Seq(Nat) /\ Len(Append(st, Head(q))) = Len(st) + 1
      /\ \A i \in 1..Len(st) : Append(st, Head(q))[i] = st[i]
      /\ Append(st, Head(q))[Len(st) + 1] = Head(q)
      /\ Rising(Append(st, Head(q)))
  BY <1>1, <1>3, RisingAppend
<1>5. \A i \in 1..(Len(st) + 1) : i \in 1..Len(st) \/ i = Len(st) + 1
  OBVIOUS
<1>6. InLine(st, Tail(q), n)
  BY LineDrops
<1>7. Head(q) \in 1..n
  BY <1>2 DEF InLine
<1> QED  BY <1>2, <1>4, <1>5, <1>6, <1>7 DEF InLine

\* A barge empties the queue.
LEMMA LineClears ==
    ASSUME NEW st, NEW q, NEW n, InLine(st, q, n)
    PROVE  InLine(st, <<>>, n)
  BY DEF InLine, Rising

\* One more is said.
LEMMA LineGrows ==
    ASSUME NEW st \in Seq(Nat), NEW q \in Seq(Nat), NEW n \in Nat, InLine(st, q, n)
    PROVE  InLine(st, Append(q, n + 1), n + 1)
<1>1. Rising(q) /\ \A i \in 1..Len(q) : q[i] < n + 1
  BY DEF InLine
<1>2. /\ Append(q, n + 1) \in Seq(Nat) /\ Len(Append(q, n + 1)) = Len(q) + 1
      /\ \A i \in 1..Len(q) : Append(q, n + 1)[i] = q[i]
      /\ Append(q, n + 1)[Len(q) + 1] = n + 1
      /\ Rising(Append(q, n + 1))
  BY <1>1, RisingAppend
<1>3. \A i \in 1..(Len(q) + 1) : i \in 1..Len(q) \/ i = Len(q) + 1
  OBVIOUS
<1>4. \A i \in 1..Len(st) : st[i] < n + 1 /\ st[i] \in 1..(n + 1)
  BY DEF InLine
<1>5. \A i \in 1..Len(q) : q[i] \in 1..(n + 1)
  BY DEF InLine
<1> QED  BY <1>2, <1>3, <1>4, <1>5 DEF InLine

-----------------------------------------------------------------------------
(* What was said: nothing is forgotten, one fate changes or one is added. *)

\* new is sd with the fate f for segment n.
FateIs(sd, n, f, new) ==
  /\ new \in Seq(SaidRec) /\ Len(new) = Len(sd)
  /\ \A k \in 1..Len(sd) :
       /\ new[k].reply = sd[k].reply /\ new[k].epoch = sd[k].epoch
       /\ new[k].cont = sd[k].cont
       /\ k # n => new[k].fate = sd[k].fate
       /\ k = n => new[k].fate = f

\* new is sd and one more, of epoch ep, that waits.
OneMore(sd, ep, cont, new) ==
  /\ new \in Seq(SaidRec) /\ Len(new) = Len(sd) + 1
  /\ \A k \in 1..Len(sd) : new[k] = sd[k]
  /\ new[Len(sd) + 1].epoch = ep
  /\ new[Len(sd) + 1].cont = cont
  /\ new[Len(sd) + 1].fate = "waiting"

\* The head leaves the queue and waits no more.
LEMMA WaitsDrop ==
    ASSUME NEW q \in Seq(Nat), NEW sd \in Seq(SaidRec), NEW ep \in Nat, NEW new, NEW f,
           NEW st \in Seq(Nat), InLine(st, q, Len(sd)), q # <<>>,
           Waits(q, sd, ep), FateIs(sd, Head(q), f, new), f # "waiting"
    PROVE  Waits(Tail(q), new, ep)
<1>0. Len(sd) \in Nat /\ \A k \in 1..Len(sd) : sd[k] \in SaidRec
  OBVIOUS
<1>1. Rising(q) /\ \A i \in 1..Len(q) : q[i] \in 1..Len(sd)
  BY DEF InLine
<1>2. /\ Tail(q) \in Seq(Nat) /\ Len(Tail(q)) = Len(q) - 1
      /\ \A i \in 1..Len(Tail(q)) : Tail(q)[i] = q[i + 1] /\ Head(q) < Tail(q)[i]
      /\ Head(q) = q[1] /\ 1 \in 1..Len(q)
  BY <1>1, RisingTail
<1>3. \A i \in 1..Len(Tail(q)) : i + 1 \in 1..Len(q)
  BY <1>2
<1>4. ASSUME NEW i \in 1..Len(Tail(q))
      PROVE  new[Tail(q)[i]].fate = "waiting" /\ new[Tail(q)[i]].epoch = ep
  <2>1. /\ Tail(q)[i] \in 1..Len(sd) /\ Tail(q)[i] # Head(q)
        /\ sd[Tail(q)[i]].fate = "waiting" /\ sd[Tail(q)[i]].epoch = ep
    <3>1. Tail(q)[i] = q[i + 1] /\ Head(q) < Tail(q)[i] /\ i + 1 \in 1..Len(q)
      BY <1>2, <1>3
    <3>2. q[i + 1] \in 1..Len(sd) /\ Head(q) \in 1..Len(sd)
      BY <1>1, <1>2, <3>1
    <3> QED  BY <3>1, <3>2 DEF Waits
  <2> QED  BY <2>1 DEF FateIs
<1>5. ASSUME NEW n \in 1..Len(sd), new[n].fate = "waiting", ~(sd[n].epoch < ep)
      PROVE  \E i \in 1..Len(Tail(q)) : Tail(q)[i] = n
  <2>1. n # Head(q) /\ sd[n].fate = "waiting"
    BY <1>5 DEF FateIs
  <2>2. PICK i \in 1..Len(q) : q[i] = n
    BY <1>5, <2>1 DEF Waits
  <2>3. i - 1 \in 1..Len(Tail(q)) /\ (i - 1) + 1 = i
    BY <1>2, <2>1, <2>2
  <2> QED  BY <1>2, <2>2, <2>3
<1>6. \A n \in 1..Len(sd) : new[n].epoch = sd[n].epoch /\ sd[n].epoch <= ep
  BY DEF FateIs, Waits
<1>7. Len(new) = Len(sd)
  BY DEF FateIs
<1> QED  BY <1>4, <1>5, <1>6, <1>7 DEF Waits

\* The fate of a segment that had left the queue changes.
LEMMA WaitsStay ==
    ASSUME NEW q \in Seq(Nat), NEW sd \in Seq(SaidRec), NEW ep \in Nat, NEW new, NEW f,
           NEW n, NEW st \in Seq(Nat), InLine(st, q, Len(sd)),
           Waits(q, sd, ep), FateIs(sd, n, f, new), f # "waiting",
           sd[n].fate # "waiting"
    PROVE  Waits(q, new, ep)
<1>1. ASSUME NEW i \in 1..Len(q)
      PROVE  new[q[i]].fate = "waiting" /\ new[q[i]].epoch = ep
  <2>1. q[i] \in 1..Len(sd)
    BY DEF InLine
  <2>2. sd[q[i]].fate = "waiting" /\ sd[q[i]].epoch = ep
    BY DEF Waits
  <2> QED  BY <2>1, <2>2 DEF FateIs
<1>2. ASSUME NEW k \in 1..Len(sd)
      PROVE  /\ new[k].epoch = sd[k].epoch
             /\ new[k].fate = "waiting" => sd[k].fate = "waiting"
  BY DEF FateIs
<1>3. Len(new) = Len(sd)
  BY DEF FateIs
<1> QED  BY <1>1, <1>2, <1>3 DEF Waits

\* A barge: the queue is emptied and what was said is of an earlier epoch.
LEMMA WaitsClear ==
    ASSUME NEW q, NEW sd \in Seq(SaidRec), NEW ep \in Nat, NEW new, NEW f, NEW n,
           Waits(q, sd, ep), FateIs(sd, n, f, new) \/ new = sd
    PROVE  Waits(<<>>, new, ep + 1)
<1>1. Len(new) = Len(sd) /\ \A k \in 1..Len(sd) : new[k].epoch = sd[k].epoch
  BY DEF FateIs
<1>2. ASSUME NEW k \in 1..Len(sd)
      PROVE  sd[k].epoch \in Nat /\ sd[k].epoch <= ep
  <2>1. sd[k] \in SaidRec
    OBVIOUS
  <2> QED  BY <2>1 DEF Waits, SaidRec
<1>3. \A k \in 1..Len(sd) : new[k].epoch < ep + 1 /\ new[k].epoch <= ep + 1
  BY <1>1, <1>2
<1> QED  BY <1>1, <1>3 DEF Waits

\* One more is said and queued.
LEMMA WaitsGrow ==
    ASSUME NEW q \in Seq(Nat), NEW sd \in Seq(SaidRec), NEW ep \in Nat, NEW new, NEW cont,
           NEW st \in Seq(Nat), InLine(st, q, Len(sd)),
           Waits(q, sd, ep), OneMore(sd, ep, cont, new)
    PROVE  Waits(Append(q, Len(sd) + 1), new, ep)
<1> DEFINE L == Len(sd)
           more == Append(q, L + 1)
<1>0. L \in Nat /\ Len(q) \in Nat
  OBVIOUS
<1>1. /\ Len(more) = Len(q) + 1 /\ more[Len(q) + 1] = L + 1
      /\ \A i \in 1..Len(q) : more[i] = q[i]
  BY <1>0
<1>2. /\ \A i \in 1..Len(more) : i \in 1..Len(q) \/ i = Len(q) + 1
      /\ \A i \in 1..Len(q) : i \in 1..Len(more)
      /\ Len(q) + 1 \in 1..Len(more)
  BY <1>0, <1>1
<1>3. /\ \A k \in 1..Len(new) : k \in 1..L \/ k = L + 1
      /\ \A k \in 1..L : new[k] = sd[k]
      /\ new[L + 1].epoch = ep /\ new[L + 1].fate = "waiting"
  BY <1>0 DEF OneMore
<1>4. ASSUME NEW i \in 1..Len(more)
      PROVE  new[more[i]].fate = "waiting" /\ new[more[i]].epoch = ep
  <2>1. CASE i = Len(q) + 1
    BY <1>1, <1>3, <2>1
  <2>2. CASE i \in 1..Len(q)
    <3>1. more[i] = q[i] /\ q[i] \in 1..L
      BY <1>1, <2>2 DEF InLine
    <3>2. sd[q[i]].fate = "waiting" /\ sd[q[i]].epoch = ep
      BY <2>2 DEF Waits
    <3> QED  BY <1>3, <3>1, <3>2
  <2> QED  BY <1>2, <2>1, <2>2
<1>5. ASSUME NEW k \in 1..Len(new)
      PROVE  /\ new[k].epoch <= ep
             /\ new[k].fate = "waiting" =>
                  new[k].epoch < ep \/ \E i \in 1..Len(more) : more[i] = k
  <2>1. CASE k = L + 1
    BY <1>1, <1>2, <1>3, <2>1
  <2>2. CASE k \in 1..L
    <3>1. /\ sd[k].epoch <= ep
          /\ sd[k].fate = "waiting" => sd[k].epoch < ep \/ \E i \in 1..Len(q) : q[i] = k
      BY <2>2 DEF Waits
    <3>2. ASSUME NEW i \in 1..Len(q), q[i] = k
          PROVE  \E j \in 1..Len(more) : more[j] = k
      BY <1>1, <1>2, <3>2
    <3> QED  BY <1>3, <2>2, <3>1, <3>2
  <2> QED  BY <1>3, <2>1, <2>2
<1> HIDE DEF more, L
<1> QED  BY <1>4, <1>5 DEF Waits, more, L

\* A change of fate opens no audio.
LEMMA AudioStays ==
    ASSUME NEW sd \in Seq(SaidRec), NEW new, NEW f, NEW n, FateIs(sd, n, f, new),
           \A k \in 1..Len(sd) :
             sd[k].cont /\ sd[k].epoch > 0 => \E m \in 1..(k - 1) : sd[m].epoch = sd[k].epoch
    PROVE  /\ Len(new) = Len(sd) /\ Len(sd) \in Nat
           /\ \A k \in 1..Len(sd) : new[k].epoch = sd[k].epoch
           /\ \A k \in 1..Len(new) :
                new[k].cont /\ new[k].epoch > 0 =>
                  \E m \in 1..(k - 1) : new[m].epoch = new[k].epoch
<1>1. /\ Len(new) = Len(sd) /\ Len(sd) \in Nat
      /\ \A k \in 1..Len(sd) : new[k].epoch = sd[k].epoch /\ new[k].cont = sd[k].cont
  BY DEF FateIs
<1>2. ASSUME NEW k \in 1..Len(sd), new[k].cont, new[k].epoch > 0
      PROVE  \E m \in 1..(k - 1) : new[m].epoch = new[k].epoch
  <2>1. PICK m \in 1..(k - 1) : sd[m].epoch = sd[k].epoch
    BY <1>1, <1>2
  <2>2. m \in 1..Len(sd)
    BY <1>1
  <2> QED  BY <1>1, <2>1, <2>2
<1> QED  BY <1>1, <1>2

\* A change of fate leaves the chain as it is.
LEMMA BreaksStay ==
    ASSUME NEW sd \in Seq(SaidRec), NEW ep \in Nat, NEW broken,
           NEW new, NEW f, NEW n,
           Breaks(sd, ep, broken), FateIs(sd, n, f, new)
    PROVE  Breaks(new, ep, broken)
  BY AudioStays DEF Breaks

\* A chain once broken claims no audio of the present epoch.
LEMMA BreaksAnew ==
    ASSUME NEW sd, NEW ep, NEW ep2, NEW broken, NEW broken2, Breaks(sd, ep, broken), broken2
    PROVE  Breaks(sd, ep2, broken2)
  BY DEF Breaks

\* One more is said: it goes on from other audio only while the chain is whole.
LEMMA BreaksGrow ==
    ASSUME NEW sd \in Seq(SaidRec), NEW ep \in Nat, NEW broken, NEW broken2,
           NEW new, NEW cont, Breaks(sd, ep, broken), OneMore(sd, ep, cont, new),
           cont => ~broken
    PROVE  Breaks(new, ep, broken2)
<1>1. /\ Len(new) = Len(sd) + 1 /\ Len(sd) \in Nat
      /\ \A k \in 1..Len(sd) : new[k] = sd[k]
      /\ \A k \in 1..Len(new) : k \in 1..Len(sd) \/ k = Len(sd) + 1
      /\ new[Len(sd) + 1].epoch = ep
  BY DEF OneMore
<1>2. ASSUME NEW k \in 1..Len(new), new[k].cont, new[k].epoch > 0
      PROVE  \E m \in 1..(k - 1) : new[m].epoch = new[k].epoch
  <2>1. CASE k \in 1..Len(sd)
    <3>1. PICK m \in 1..(k - 1) : sd[m].epoch = sd[k].epoch
      BY <1>1, <1>2, <2>1 DEF Breaks
    <3>2. m \in 1..Len(sd)
      BY <1>1, <2>1
    <3> QED  BY <1>1, <2>1, <3>1, <3>2
  <2>2. CASE k = Len(sd) + 1
    <3>1. ~broken /\ ep > 0
      BY <1>1, <1>2, <2>2 DEF OneMore
    <3>2. PICK m \in 1..Len(sd) : sd[m].epoch = ep
      BY <3>1 DEF Breaks
    <3>3. m \in 1..(k - 1)
      BY <1>1, <2>2
    <3> QED  BY <1>1, <2>2, <3>2, <3>3
  <2> QED  BY <1>1, <2>1, <2>2
<1>3. Len(sd) + 1 \in 1..Len(new)
  BY <1>1
<1> QED  BY <1>1, <1>2, <1>3 DEF Breaks

\* The cuts stay when a fate changes from and to another.
LEMMA CutsStay ==
    ASSUME NEW sd \in Seq(SaidRec), NEW ch, NEW td, NEW new, NEW f, NEW n,
           Cuts(ch, td, sd), FateIs(sd, n, f, new), sd[n].fate # "cut", f # "cut"
    PROVE  Cuts(ch, td, new)
<1>1. CutOf(new) = CutOf(sd)
  BY DEF FateIs, CutOf
<1> QED  BY <1>1 DEF Cuts

\* One more is said, and is not cut.
LEMMA CutsGrow ==
    ASSUME NEW sd \in Seq(SaidRec), NEW ch, NEW td, NEW new, NEW ep, NEW cont,
           Cuts(ch, td, sd), OneMore(sd, ep, cont, new)
    PROVE  Cuts(ch, td, new)
<1>1. /\ Len(new) = Len(sd) + 1 /\ Len(sd) \in Nat
      /\ \A k \in 1..Len(new) : k \in 1..Len(sd) \/ k = Len(sd) + 1
      /\ \A k \in 1..Len(sd) : k \in 1..Len(new)
  BY DEF OneMore
<1>2. CutOf(new) = CutOf(sd)
  BY <1>1 DEF OneMore, CutOf
<1> QED  BY <1>2 DEF Cuts

\* What Append does to the elements.
LEMMA ElemsAppend ==
    ASSUME NEW s \in Seq(Nat), NEW x \in Nat
    PROVE  /\ Elems(Append(s, x)) = Elems(s) \cup {x}
           /\ (\A i, j \in 1..Len(s) : s[i] = s[j] => i = j) /\ x \notin Elems(s)
                => \A i, j \in 1..Len(Append(s, x)) :
                      Append(s, x)[i] = Append(s, x)[j] => i = j
<1>1. /\ Len(Append(s, x)) = Len(s) + 1 /\ Len(s) \in Nat
      /\ \A i \in 1..Len(s) : Append(s, x)[i] = s[i]
      /\ Append(s, x)[Len(s) + 1] = x
  OBVIOUS
<1>2. /\ \A i \in 1..(Len(s) + 1) : i \in 1..Len(s) \/ i = Len(s) + 1
      /\ \A i \in 1..Len(s) : i \in 1..(Len(s) + 1)
      /\ Len(s) + 1 \in 1..(Len(s) + 1)
  BY <1>1
<1> QED  BY <1>1, <1>2 DEF Elems

\* What played is cut and joins the chain.
LEMMA CutsCut ==
    ASSUME NEW sd \in Seq(SaidRec), NEW ch \in Seq(Nat), NEW td, NEW new, NEW n \in 1..Len(sd),
           Cuts(ch, td, sd), FateIs(sd, n, "cut", new), sd[n].fate # "cut"
    PROVE  Cuts(Append(ch, n), td, new)
<1>1. CutOf(new) = CutOf(sd) \cup {n}
  BY DEF FateIs, CutOf
<1>2. n \notin CutOf(sd)
  BY DEF CutOf
<1>3. Elems(Append(ch, n)) = Elems(ch) \cup {n}
  BY ElemsAppend
<1>4. n \notin Elems(ch) /\ n \notin td
  BY <1>2 DEF Cuts
<1>5. \A i, j \in 1..Len(Append(ch, n)) : Append(ch, n)[i] = Append(ch, n)[j] => i = j
  BY <1>4, ElemsAppend DEF Cuts
<1> QED  BY <1>1, <1>3, <1>4, <1>5 DEF Cuts

\* An inject that went through has told what was owed.
LEMMA CutsTold ==
    ASSUME NEW ch, NEW td, NEW sd, Cuts(ch, td, sd)
    PROVE  Cuts(<<>>, td \cup Elems(ch), sd)
<1>1. Elems(<<>>) = {}
  BY DEF Elems
<1> QED  BY <1>1 DEF Cuts

-----------------------------------------------------------------------------
\* SetFate changes one fate of one connection.
LEMMA SetFateIs ==
    ASSUME Kinds, NEW c \in Conns, NEW n \in 1..Len(said[c]), NEW f \in Fates, SetFate(c, n, f)
    PROVE  /\ said' \in [Conns -> Seq(SaidRec)]
           /\ FateIs(said[c], n, f, said'[c])
           /\ \A d \in Conns \ {c} : said'[d] = said[d]
<1> DEFINE sd == said[c]
           new == [sd EXCEPT ![n].fate = f]
<1>1. said \in [Conns -> Seq(SaidRec)] /\ sd \in Seq(SaidRec)
  BY DEF Kinds
<1>2. said' = [said EXCEPT ![c] = new]
  BY DEF SetFate
<1>3. sd[n] \in SaidRec
  BY <1>1
<1>4. /\ [sd[n] EXCEPT !.fate = f] \in SaidRec
      /\ [sd[n] EXCEPT !.fate = f].fate = f
      /\ [sd[n] EXCEPT !.fate = f].reply = sd[n].reply
      /\ [sd[n] EXCEPT !.fate = f].epoch = sd[n].epoch
      /\ [sd[n] EXCEPT !.fate = f].cont = sd[n].cont
  BY <1>3 DEF SaidRec
<1>5. /\ new \in Seq(SaidRec) /\ Len(new) = Len(sd)
      /\ \A k \in 1..Len(sd) : k # n => new[k] = sd[k]
      /\ new[n] = [sd[n] EXCEPT !.fate = f]
  BY <1>1, <1>4, ExceptSeq
<1>6. FateIs(sd, n, f, new)
  BY <1>4, <1>5 DEF FateIs
<1>7. said'[c] = new /\ said' \in [Conns -> Seq(SaidRec)] /\ \A d \in Conns \ {c} : said'[d] = said[d]
  BY <1>1, <1>2, <1>5
<1> QED  BY <1>6, <1>7

\* Push adds one segment to what its connection said, and to its queue.
LEMMA PushIs ==
    ASSUME Kinds, NEW c \in Conns, NEW r \in Nat, NEW forced \in BOOLEAN,
           Push(c, r, forced), NEW cont \in BOOLEAN, cont = Continues(c, forced)
    PROVE  /\ said' \in [Conns -> Seq(SaidRec)]
           /\ OneMore(said[c], epoch[c], cont, said'[c])
           /\ \A d \in Conns \ {c} : said'[d] = said[d]
<1> DEFINE sd == said[c]
           rec == [reply |-> r, epoch |-> epoch[c], cont |-> cont, fate |-> "waiting"]
<1>1. said \in [Conns -> Seq(SaidRec)] /\ sd \in Seq(SaidRec) /\ epoch[c] \in Nat
  BY DEF Kinds
<1>2. said' = [said EXCEPT ![c] = Append(@, rec)]
  BY DEF Push
<1>3. rec \in SaidRec /\ rec.epoch = epoch[c] /\ rec.cont = cont /\ rec.fate = "waiting"
  BY <1>1 DEF SaidRec, Fates
<1> HIDE DEF rec
<1>4. /\ Append(sd, rec) \in Seq(SaidRec) /\ Len(Append(sd, rec)) = Len(sd) + 1
      /\ \A k \in 1..Len(sd) : Append(sd, rec)[k] = sd[k]
      /\ Append(sd, rec)[Len(sd) + 1] = rec
  BY <1>1, <1>3
<1>5. /\ said'[c] = Append(sd, rec) /\ said' \in [Conns -> Seq(SaidRec)]
      /\ \A d \in Conns \ {c} : said'[d] = said[d]
  BY <1>1, <1>2, <1>4
<1>6. OneMore(sd, epoch[c], cont, said'[c])
  BY <1>3, <1>4, <1>5 DEF OneMore
<1> QED  BY <1>5, <1>6

\* What a connection's part of the invariant speaks of.
Untouched(d) ==
  /\ queue'[d] = queue[d] /\ loop'[d] = loop[d] /\ ctx'[d] = ctx[d] /\ text'[d] = text[d]
  /\ chain'[d] = chain[d] /\ chainBroken'[d] = chainBroken[d] /\ floor'[d] = floor[d]
  /\ closed'[d] = closed[d] /\ said'[d] = said[d] /\ epoch'[d] = epoch[d]
  /\ starts'[d] = starts[d] /\ told'[d] = told[d]

\* A step touches one connection.
LEMMA OthersKeep ==
    ASSUME SegmentInv, NEW c \in Conns, Kinds', ConnInv(c)',
           \A d \in Conns \ {c} : Untouched(d)
    PROVE  SegmentInv'
<1>1. ASSUME NEW d \in Conns, Untouched(d)
      PROVE  ConnInv(d)'
  <2>1. ConnInv(d)
    BY DEF SegmentInv
  <2>2. /\ InLine(starts[d], queue[d], Len(said[d]))'
        /\ Waits(queue[d], said[d], epoch[d])'
        /\ Breaks(said[d], epoch[d], chainBroken[d])'
        /\ Cuts(chain[d], told[d], said[d])'
    BY <1>1, <2>1 DEF ConnInv, Untouched
  <2>3. Plays(d)' /\ FloorIsQuiet(d)'
    BY <1>1, <2>1 DEF ConnInv, Untouched, Plays, Playing, FloorIsQuiet
  <2> QED  BY <2>2, <2>3 DEF ConnInv
<1> QED  BY <1>1 DEF SegmentInv

\* What a connection has, by name.
LEMMA AtConn ==
    ASSUME SegmentInv, NEW c \in Conns
    PROVE  /\ Kinds /\ ConnInv(c)
           /\ queue[c] \in Seq(Nat) /\ starts[c] \in Seq(Nat) /\ chain[c] \in Seq(Nat)
           /\ said[c] \in Seq(SaidRec) /\ Len(said[c]) \in Nat /\ epoch[c] \in Nat
           /\ told[c] \in SUBSET Nat
  BY DEF SegmentInv, Kinds

\* The loop goes round: DrainEmpty, Defer and Retry leave the segments alone.
LEMMA LoopKeeps ==
    ASSUME SegmentInv, NEW c \in Conns, DrainEmpty(c) \/ Defer(c) \/ Retry(c)
    PROVE  SegmentInv'
<1>1. Kinds /\ ConnInv(c) /\ queue[c] \in Seq(Nat)
  BY AtConn
<1>2. queue' = queue
  <2>1. ASSUME queue[c] # <<>> PROVE Requeued(queue[c]) = queue[c]
    BY <1>1, <2>1 DEF Requeued
  <2>2. ASSUME Defer(c) PROVE queue' = queue
    <3>1. queue \in [Conns -> Seq(Nat)]
      BY <1>1 DEF Kinds
    <3> QED  BY <2>1, <2>2, <3>1 DEF Defer
  <2> QED  BY <2>2 DEF DrainEmpty, Retry
<1>3. /\ UNCHANGED <<ctx, text, chain, chainBroken, floor, closed, said, epoch, starts, told>>
      /\ loop[c] # "play" /\ \E l \in {"idle", "wait", "next"} : loop' = [loop EXCEPT ![c] = l]
  BY DEF DrainEmpty, Defer, Retry
<1>4. /\ Kinds' /\ loop'[c] # "play" /\ \A d \in Conns \ {c} : loop'[d] = loop[d]
  BY <1>1, <1>2, <1>3 DEF Kinds
<1>5. \A d \in Conns \ {c} : Untouched(d)
  BY <1>2, <1>3, <1>4 DEF Untouched
<1>6. /\ Plays(c)' /\ FloorIsQuiet(c)'
  BY <1>1, <1>2, <1>3, <1>4 DEF ConnInv, Plays, Playing, FloorIsQuiet
<1>7. ConnInv(c)'
  BY <1>1, <1>2, <1>3, <1>6 DEF ConnInv
<1> QED  BY <1>4, <1>5, <1>7, OthersKeep

\* The floor is given back.
LEMMA PttUpKeeps ==
    ASSUME SegmentInv, NEW c \in Conns, PttUp(c)
    PROVE  SegmentInv'
<1>1. Kinds /\ ConnInv(c)
  BY AtConn
<1>2. /\ Kinds' /\ ~floor'[c] /\ \A d \in Conns \ {c} : Untouched(d)
      /\ UNCHANGED <<queue, loop, ctx, text, chain, chainBroken, closed, said, epoch,
                     starts, told>>
  BY <1>1 DEF Kinds, PttUp, Untouched
<1>3. Plays(c)' /\ FloorIsQuiet(c)'
  BY <1>1, <1>2 DEF ConnInv, Plays, Playing, FloorIsQuiet
<1>4. ConnInv(c)'
  BY <1>1, <1>2, <1>3 DEF ConnInv
<1> QED  BY <1>2, <1>4, OthersKeep

\* An inject tells what the chain owes, or fails and owes it still.
LEMMA InjectKeeps ==
    ASSUME SegmentInv, NEW c \in Conns, NEW ok \in BOOLEAN, Inject(c, ok)
    PROVE  SegmentInv'
<1>1. /\ Kinds /\ ConnInv(c) /\ chain[c] \in Seq(Nat) /\ told[c] \in SUBSET Nat
  BY AtConn
<1>2. DOMAIN chain[c] = 1..Len(chain[c]) /\ Elems(chain[c]) \in SUBSET Nat
  BY <1>1 DEF Elems
<1>3. /\ UNCHANGED <<queue, loop, ctx, text, chainBroken, floor, closed, said, epoch, starts>>
      /\ chain' = [chain EXCEPT ![c] = IF ok THEN <<>> ELSE @]
      /\ told' = [told EXCEPT ![c] = IF ok THEN @ \cup Elems(chain[c]) ELSE @]
  BY <1>2 DEF Inject, Elems
<1>4. /\ Kinds' /\ \A d \in Conns \ {c} : Untouched(d)
  BY <1>1, <1>2, <1>3 DEF Kinds, Untouched
<1>5. Cuts(chain[c], told[c], said[c])'
  <2>1. chain'[c] = (IF ok THEN <<>> ELSE chain[c])
        /\ told'[c] = (IF ok THEN told[c] \cup Elems(chain[c]) ELSE told[c])
    BY <1>1, <1>3 DEF Kinds
  <2>2. Cuts(chain[c], told[c], said[c])
    BY <1>1 DEF ConnInv
  <2> QED  BY <1>3, <2>1, <2>2, CutsTold
<1>6. Plays(c)' /\ FloorIsQuiet(c)'
  BY <1>1, <1>3 DEF ConnInv, Plays, Playing, FloorIsQuiet
<1>7. ConnInv(c)'
  BY <1>1, <1>3, <1>5, <1>6 DEF ConnInv
<1> QED  BY <1>4, <1>7, OthersKeep

\* teardown: a stream in flight goes on, detached.
LEMMA CloseKeeps ==
    ASSUME SegmentInv, NEW c \in Conns, Close(c)
    PROVE  SegmentInv'
<1>1. Kinds /\ ConnInv(c)
  BY AtConn
<1>2. UNCHANGED <<queue, loop, text, chain, chainBroken, floor, said, epoch, starts, told>>
  BY DEF Close
<1>3. /\ Kinds' /\ closed'[c] /\ \A d \in Conns \ {c} : Untouched(d)
      /\ ctx'[c] = IF ctx[c] = "active" THEN "detached" ELSE ctx[c]
  BY <1>1 DEF Kinds, Close, Untouched
<1>4. Plays(c)' /\ FloorIsQuiet(c)'
  BY <1>1, <1>2, <1>3 DEF ConnInv, Plays, Playing, FloorIsQuiet
<1>5. ConnInv(c)'
  BY <1>1, <1>2, <1>4 DEF ConnInv
<1> QED  BY <1>3, <1>5, OthersKeep

\* The segment at the head of the queue: it was said, and waits.
LEMMA HeadWaits ==
    ASSUME NEW st \in Seq(Nat), NEW q \in Seq(Nat), NEW sd \in Seq(SaidRec), NEW ep \in Nat,
           InLine(st, q, Len(sd)), Waits(q, sd, ep), q # <<>>
    PROVE  Head(q) \in 1..Len(sd) /\ sd[Head(q)].fate = "waiting" /\ Head(q) \in Nat
<1>1. Rising(q)
  BY DEF InLine
<1>2. Head(q) = q[1] /\ 1 \in 1..Len(q)
  BY <1>1, RisingTail
<1> QED  BY <1>2 DEF InLine, Waits

\* synthesize throws.
LEMMA SynthFailsKeeps ==
    ASSUME SegmentInv, NEW c \in Conns, SynthFails(c)
    PROVE  SegmentInv'
<1> DEFINE q == queue[c]
           sd == said[c]
<1>1. /\ Kinds /\ ConnInv(c) /\ q \in Seq(Nat) /\ starts[c] \in Seq(Nat)
      /\ sd \in Seq(SaidRec) /\ Len(sd) \in Nat /\ epoch[c] \in Nat /\ chain[c] \in Seq(Nat)
  BY AtConn
<1>2. /\ InLine(starts[c], q, Len(sd)) /\ Waits(q, sd, epoch[c])
      /\ Breaks(sd, epoch[c], chainBroken[c]) /\ Cuts(chain[c], told[c], sd)
      /\ Plays(c) /\ FloorIsQuiet(c)
  BY <1>1 DEF ConnInv
<1>3. /\ q # <<>> /\ loop[c] = "next" /\ queue' = [queue EXCEPT ![c] = Tail(@)]
      /\ SetFate(c, Head(q), "failed")
      /\ UNCHANGED <<loop, ctx, text, chain, chainBroken, floor, closed, epoch, starts, told>>
  BY DEF SynthFails
<1>4. Head(q) \in 1..Len(sd) /\ sd[Head(q)].fate = "waiting"
  BY <1>1, <1>2, <1>3, HeadWaits
<1>5. "failed" \in Fates
  BY DEF Fates
<1>6. /\ said' \in [Conns -> Seq(SaidRec)]
      /\ FateIs(sd, Head(q), "failed", said'[c])
      /\ \A d \in Conns \ {c} : said'[d] = said[d]
  BY <1>1, <1>3, <1>4, <1>5, SetFateIs
<1>7. Tail(q) \in Seq(Nat)
  BY <1>1, <1>3
<1>8. queue' \in [Conns -> Seq(Nat)] /\ queue'[c] = Tail(q)
      /\ \A d \in Conns \ {c} : queue'[d] = queue[d]
  BY <1>1, <1>3, <1>7 DEF Kinds
<1>9. Kinds' /\ \A d \in Conns \ {c} : Untouched(d)
  BY <1>1, <1>3, <1>6, <1>8 DEF Kinds, Untouched
<1>10. InLine(starts[c], Tail(q), Len(said'[c]))
  BY <1>1, <1>2, <1>3, <1>6, LineDrops DEF FateIs
<1>11. Waits(Tail(q), said'[c], epoch[c])
  BY <1>1, <1>2, <1>3, <1>6, WaitsDrop
<1>12. Breaks(said'[c], epoch[c], chainBroken[c])
  BY <1>1, <1>2, <1>6, BreaksStay
<1>13. Cuts(chain[c], told[c], said'[c])
  BY <1>1, <1>2, <1>4, <1>6, CutsStay
<1>14. Plays(c)' /\ FloorIsQuiet(c)'
  BY <1>2, <1>3 DEF Plays, Playing, FloorIsQuiet
<1>15. ConnInv(c)'
  BY <1>3, <1>8, <1>10, <1>11, <1>12, <1>13, <1>14 DEF ConnInv
<1> QED  BY <1>9, <1>15, OthersKeep

\* A stream starts.
LEMMA StartKeepsSegments ==
    ASSUME SegmentInv, NEW c \in Conns, StartStream(c)
    PROVE  SegmentInv'
<1> DEFINE q == queue[c]
           sd == said[c]
           st == starts[c]
<1>1. /\ Kinds /\ ConnInv(c) /\ q \in Seq(Nat) /\ st \in Seq(Nat)
      /\ sd \in Seq(SaidRec) /\ Len(sd) \in Nat /\ epoch[c] \in Nat /\ chain[c] \in Seq(Nat)
  BY AtConn
<1>2. /\ InLine(st, q, Len(sd)) /\ Waits(q, sd, epoch[c])
      /\ Breaks(sd, epoch[c], chainBroken[c]) /\ Cuts(chain[c], told[c], sd)
      /\ Plays(c) /\ FloorIsQuiet(c)
  BY <1>1 DEF ConnInv
<1>3. /\ q # <<>> /\ loop[c] = "next" /\ queue' = [queue EXCEPT ![c] = Tail(@)]
      /\ loop' = [loop EXCEPT ![c] = "play"]
      /\ ctx' = [ctx EXCEPT ![c] = "active"]
      /\ text' = [text EXCEPT ![c] = Head(q)]
      /\ starts' = [starts EXCEPT ![c] = Append(@, Head(q))]
      /\ SetFate(c, Head(q), "playing")
      /\ UNCHANGED <<chain, chainBroken, floor, closed, epoch, told>>
  BY DEF StartStream
<1>4. Head(q) \in 1..Len(sd) /\ sd[Head(q)].fate = "waiting" /\ Head(q) \in Nat
  BY <1>1, <1>2, <1>3, HeadWaits
<1>5. "playing" \in Fates
  BY DEF Fates
<1>6. /\ said' \in [Conns -> Seq(SaidRec)]
      /\ FateIs(sd, Head(q), "playing", said'[c])
      /\ \A d \in Conns \ {c} : said'[d] = said[d]
  BY <1>1, <1>3, <1>4, <1>5, SetFateIs
<1>7. /\ Tail(q) \in Seq(Nat) /\ Append(st, Head(q)) \in Seq(Nat)
      /\ Append(st, Head(q)) # <<>>
      /\ Append(st, Head(q))[Len(Append(st, Head(q)))] = Head(q)
  <2>1. Tail(q) \in Seq(Nat)
    BY <1>1, <1>3
  <2>2. ASSUME NEW s \in Seq(Nat), NEW x \in Nat
        PROVE  /\ Append(s, x) \in Seq(Nat) /\ Append(s, x) # <<>>
               /\ Append(s, x)[Len(Append(s, x))] = x
    <3>1. Append(s, x) \in Seq(Nat) /\ Len(Append(s, x)) = Len(s) + 1 /\ Len(s) \in Nat
      OBVIOUS
    <3>2. Append(s, x)[Len(s) + 1] = x
      OBVIOUS
    <3> QED  BY <3>1, <3>2
  <2> QED  BY <1>1, <1>4, <2>1, <2>2
<1>8. /\ queue' \in [Conns -> Seq(Nat)] /\ queue'[c] = Tail(q)
      /\ starts' \in [Conns -> Seq(Nat)] /\ starts'[c] = Append(st, Head(q))
      /\ \A d \in Conns \ {c} : queue'[d] = queue[d] /\ starts'[d] = starts[d]
  BY <1>1, <1>3, <1>7 DEF Kinds
<1>9. /\ loop'[c] = "play" /\ ctx'[c] = "active" /\ text'[c] = Head(q)
      /\ \A d \in Conns \ {c} : loop'[d] = loop[d] /\ ctx'[d] = ctx[d] /\ text'[d] = text[d]
  BY <1>1, <1>3 DEF Kinds
<1>10. Kinds'
  BY <1>1, <1>3, <1>4, <1>6, <1>8 DEF Kinds
<1>11. \A d \in Conns \ {c} : Untouched(d)
  BY <1>3, <1>6, <1>8, <1>9 DEF Untouched
<1>12. InLine(Append(st, Head(q)), Tail(q), Len(said'[c]))
  BY <1>1, <1>2, <1>3, <1>6, LineStarts DEF FateIs
<1>13. Waits(Tail(q), said'[c], epoch[c])
  BY <1>1, <1>2, <1>3, <1>6, WaitsDrop
<1>14. Breaks(said'[c], epoch[c], chainBroken[c])
  BY <1>1, <1>2, <1>6, BreaksStay
<1>15. Cuts(chain[c], told[c], said'[c])
  BY <1>1, <1>2, <1>4, <1>6, CutsStay
<1>16. Plays(c)'
  <2>1. Playing(c)' = Head(q)
    BY <1>7, <1>8 DEF Playing
  <2>2. said'[c][Head(q)].fate = "playing"
    BY <1>4, <1>6 DEF FateIs
  <2> QED  BY <1>7, <1>8, <1>9, <2>1, <2>2 DEF Plays
<1>17. FloorIsQuiet(c)'
  BY <1>2, <1>3 DEF FloorIsQuiet
<1>18. ConnInv(c)'
  BY <1>3, <1>8, <1>12, <1>13, <1>14, <1>15, <1>16, <1>17 DEF ConnInv
<1> QED  BY <1>10, <1>11, <1>18, OthersKeep

\* The stream is over: it gives the loop back, and unless a barge has cut it its
\* segment has its fate.
Over(c, f) ==
  /\ loop[c] = "play"
  /\ loop' = [loop EXCEPT ![c] = "next"]
  /\ ctx' = [ctx EXCEPT ![c] = "none"]
  /\ IF ctx[c] = "cancelled" THEN UNCHANGED said ELSE SetFate(c, Playing(c), f)
  /\ UNCHANGED <<queue, chain, chainBroken, floor, closed, epoch, starts, told>>

\* A stream that is over gives a fate only to the segment that played.
LEMMA OverKeeps ==
    ASSUME SegmentInv, NEW c \in Conns, NEW f \in {"ended", "failed"}, Over(c, f),
           text' \in [Conns -> Nat], \A d \in Conns \ {c} : text'[d] = text[d]
    PROVE  SegmentInv'
<1> DEFINE q == queue[c]
           sd == said[c]
<1>1. /\ Kinds /\ ConnInv(c) /\ q \in Seq(Nat) /\ starts[c] \in Seq(Nat)
      /\ sd \in Seq(SaidRec) /\ Len(sd) \in Nat /\ epoch[c] \in Nat /\ chain[c] \in Seq(Nat)
  BY AtConn
<1>2. /\ InLine(starts[c], q, Len(sd)) /\ Waits(q, sd, epoch[c])
      /\ Breaks(sd, epoch[c], chainBroken[c]) /\ Cuts(chain[c], told[c], sd)
      /\ Plays(c) /\ FloorIsQuiet(c)
  BY <1>1 DEF ConnInv
<1>3. /\ UNCHANGED <<queue, chain, chainBroken, floor, closed, epoch, starts, told>>
      /\ loop[c] = "play" /\ loop' = [loop EXCEPT ![c] = "next"]
      /\ ctx' = [ctx EXCEPT ![c] = "none"]
  BY DEF Over
<1>4. /\ loop'[c] = "next" /\ ctx'[c] = "none"
      /\ \A d \in Conns \ {c} : loop'[d] = loop[d] /\ ctx'[d] = ctx[d]
  BY <1>1, <1>3 DEF Kinds
<1>5. Plays(c)' /\ FloorIsQuiet(c)'
  BY <1>2, <1>3, <1>4 DEF Plays, FloorIsQuiet
<1>6. CASE ctx[c] = "cancelled"
  <2>1. UNCHANGED said
    BY <1>6 DEF Over
  <2>2. Kinds' /\ \A d \in Conns \ {c} : Untouched(d)
    BY <1>1, <1>3, <1>4, <2>1 DEF Kinds, Untouched
  <2>3. ConnInv(c)'
    BY <1>2, <1>3, <1>5, <2>1 DEF ConnInv
  <2> QED  BY <2>2, <2>3, OthersKeep
<1>7. CASE ctx[c] # "cancelled"
  <2>1. SetFate(c, Playing(c), f) /\ f \in Fates /\ f # "waiting" /\ f # "cut"
    BY <1>7 DEF Over, Fates
  <2>2. ctx[c] \in {"active", "detached"}
    BY <1>1, <1>2, <1>3, <1>7 DEF Kinds, Plays
  <2>3. Playing(c) \in 1..Len(sd) /\ sd[Playing(c)].fate = "playing"
    <3>1. starts[c] # <<>> /\ sd[Playing(c)].fate = "playing"
      BY <1>2, <1>3, <2>2 DEF Plays
    <3>2. Len(starts[c]) \in 1..Len(starts[c])
      BY <1>1, <3>1
    <3> QED  BY <1>2, <3>1, <3>2 DEF InLine, Playing
  <2>4. /\ said' \in [Conns -> Seq(SaidRec)]
        /\ FateIs(sd, Playing(c), f, said'[c])
        /\ \A d \in Conns \ {c} : said'[d] = said[d]
    BY <1>1, <2>1, <2>3, SetFateIs
  <2>5. Kinds'
    BY <1>1, <1>3, <2>4 DEF Kinds
  <2>6. \A d \in Conns \ {c} : Untouched(d)
    BY <1>3, <1>4, <2>4 DEF Untouched
  <2>7. InLine(starts[c], q, Len(said'[c]))
    BY <1>2, <2>4 DEF FateIs
  <2>8. Waits(q, said'[c], epoch[c])
    BY <1>1, <1>2, <2>1, <2>3, <2>4, WaitsStay
  <2>9. Breaks(said'[c], epoch[c], chainBroken[c])
    BY <1>1, <1>2, <2>4, BreaksStay
  <2>10. Cuts(chain[c], told[c], said'[c])
    BY <1>1, <1>2, <2>1, <2>3, <2>4, CutsStay
  <2>11. ConnInv(c)'
    BY <1>3, <1>5, <2>7, <2>8, <2>9, <2>10 DEF ConnInv
  <2> QED  BY <2>5, <2>6, <2>11, OthersKeep
<1> QED  BY <1>6, <1>7

\* StreamEnd and StreamError are both that.
LEMMA EndKeeps ==
    ASSUME SegmentInv, NEW c \in Conns, StreamEnd(c) \/ StreamError(c)
    PROVE  SegmentInv'
<1>1. text \in [Conns -> Nat]
  BY DEF SegmentInv, Kinds
<1>2. CASE StreamEnd(c)
  <2>1. Over(c, "ended")
    BY <1>2 DEF StreamEnd, Over
  <2>2. text' = text \/ text' = [text EXCEPT ![c] = 0]
    BY <1>2 DEF StreamEnd
  <2>3. text' \in [Conns -> Nat] /\ \A d \in Conns \ {c} : text'[d] = text[d]
    BY <1>1, <2>2
  <2> QED  BY <2>1, <2>3, OverKeeps
<1>3. CASE StreamError(c)
  <2>1. Over(c, "failed") /\ text' = text
    BY <1>3 DEF StreamError, Over
  <2> QED  BY <1>1, <2>1, OverKeeps
<1> QED  BY <1>2, <1>3

\* A barge: the queue is emptied, the stream is cut and reported.
LEMMA KillKeepsSegments ==
    ASSUME SegmentInv, NEW c \in Conns, Kill(c), ~closed[c], floor' \in [Conns -> BOOLEAN],
           \A d \in Conns \ {c} : floor'[d] = floor[d]
    PROVE  SegmentInv'
<1> DEFINE q == queue[c]
           sd == said[c]
           p == Playing(c)
<1>1. /\ Kinds /\ ConnInv(c) /\ q \in Seq(Nat) /\ starts[c] \in Seq(Nat)
      /\ sd \in Seq(SaidRec) /\ Len(sd) \in Nat /\ epoch[c] \in Nat /\ chain[c] \in Seq(Nat)
  BY AtConn
<1>2. /\ InLine(starts[c], q, Len(sd)) /\ Waits(q, sd, epoch[c])
      /\ Breaks(sd, epoch[c], chainBroken[c]) /\ Cuts(chain[c], told[c], sd)
      /\ Plays(c) /\ FloorIsQuiet(c)
  BY <1>1 DEF ConnInv
<1>3. /\ queue' = [queue EXCEPT ![c] = <<>>] /\ epoch' = [epoch EXCEPT ![c] = @ + 1]
      /\ chainBroken' = [chainBroken EXCEPT ![c] = TRUE]
      /\ UNCHANGED <<loop, closed, starts, told>>
  BY DEF Kill
<1>4. /\ queue' \in [Conns -> Seq(Nat)] /\ epoch' \in [Conns -> Nat]
      /\ chainBroken' \in [Conns -> BOOLEAN]
      /\ queue'[c] = <<>> /\ epoch'[c] = epoch[c] + 1 /\ chainBroken'[c]
      /\ \A d \in Conns \ {c} : /\ queue'[d] = queue[d] /\ epoch'[d] = epoch[d]
                                /\ chainBroken'[d] = chainBroken[d]
  BY <1>1, <1>3 DEF Kinds
<1>5. InLine(starts[c], <<>>, Len(sd))
  BY <1>2, LineClears
<1>6. CASE ctx[c] = "active"
  <2>1. /\ SetFate(c, p, "cut") /\ "cut" \in Fates
        /\ ctx' = [ctx EXCEPT ![c] = "cancelled"]
        /\ chain' = [chain EXCEPT ![c] = IF text[c] # 0 THEN Append(@, text[c]) ELSE @]
        /\ text' = [text EXCEPT ![c] = 0]
    BY <1>6 DEF Kill, Fates
  <2>2. starts[c] # <<>> /\ sd[p].fate = "playing" /\ text[c] = p
    BY <1>2, <1>6 DEF Plays
  <2>3. p \in 1..Len(sd)
    <3>1. Len(starts[c]) \in 1..Len(starts[c])
      BY <1>1, <2>2
    <3> QED  BY <1>2, <3>1 DEF InLine, Playing
  <2>4. /\ said' \in [Conns -> Seq(SaidRec)]
        /\ FateIs(sd, p, "cut", said'[c])
        /\ \A d \in Conns \ {c} : said'[d] = said[d]
    BY <1>1, <2>1, <2>3, SetFateIs
  <2>5. p \in Nat /\ p # 0 /\ Append(chain[c], p) \in Seq(Nat)
    BY <1>1, <2>3
  <2>6. /\ ctx' \in [Conns -> {"none", "active", "cancelled", "detached"}]
        /\ text' \in [Conns -> Nat] /\ chain' \in [Conns -> Seq(Nat)]
        /\ ctx'[c] = "cancelled" /\ text'[c] = 0 /\ chain'[c] = Append(chain[c], p)
        /\ \A d \in Conns \ {c} : ctx'[d] = ctx[d] /\ text'[d] = text[d] /\ chain'[d] = chain[d]
    BY <1>1, <2>1, <2>2, <2>5 DEF Kinds
  <2>7. Kinds'
    BY <1>1, <1>3, <1>4, <2>4, <2>6 DEF Kinds
  <2>8. \A d \in Conns \ {c} : Untouched(d)
    BY <1>3, <1>4, <2>4, <2>6 DEF Untouched
  <2>9. InLine(starts[c], <<>>, Len(said'[c]))
    BY <1>5, <2>4 DEF FateIs
  <2>10. Waits(<<>>, said'[c], epoch[c] + 1)
    BY <1>1, <1>2, <2>4, WaitsClear
  <2>12. Cuts(Append(chain[c], p), told[c], said'[c])
    BY <1>1, <1>2, <2>2, <2>3, <2>4, CutsCut
  <2>13. Plays(c)'
    BY <1>2, <1>3, <1>6, <2>6 DEF Plays
  <2>14. FloorIsQuiet(c)'
    BY <1>4, <2>6 DEF FloorIsQuiet
  <2>15. Breaks(said[c], epoch[c], chainBroken[c])'
    <3>1. Breaks(said'[c], epoch[c], chainBroken[c])
      BY <1>1, <1>2, <2>4, BreaksStay
    <3> QED  BY <1>4, <3>1, BreaksAnew
  <2>16. ConnInv(c)'
    BY <1>3, <1>4, <2>6, <2>9, <2>10, <2>12, <2>13, <2>14, <2>15 DEF ConnInv
  <2> QED  BY <2>7, <2>8, <2>16, OthersKeep
<1>7. CASE ctx[c] # "active"
  <2>1. UNCHANGED <<ctx, said, chain, text>>
    BY <1>7 DEF Kill
  <2>2. Kinds'
    BY <1>1, <1>3, <1>4, <2>1 DEF Kinds
  <2>3. \A d \in Conns \ {c} : Untouched(d)
    BY <1>3, <1>4, <2>1 DEF Untouched
  <2>4. Waits(<<>>, sd, epoch[c] + 1)
    BY <1>1, <1>2, WaitsClear
  <2>6. Breaks(said[c], epoch[c], chainBroken[c])'
    BY <1>2, <1>4, <2>1, BreaksAnew
  <2>7. Plays(c)'
    BY <1>2, <1>3, <2>1 DEF Plays, Playing
  <2>8. FloorIsQuiet(c)'
    <3>1. ctx[c] \in {"none", "cancelled"}
      BY <1>1, <1>2, <1>7 DEF Kinds, Plays
    <3> QED  BY <1>4, <2>1, <3>1 DEF FloorIsQuiet
  <2>9. ConnInv(c)'
    BY <1>2, <1>3, <1>4, <1>5, <2>1, <2>4, <2>6, <2>7, <2>8 DEF ConnInv
  <2> QED  BY <2>2, <2>3, <2>9, OthersKeep
<1> QED  BY <1>6, <1>7

\* One more is said: dropped on a closed socket or under the floor, or queued.
LEMMA SayKeepsSegments ==
    ASSUME SegmentInv, NEW c \in Conns, NEW r \in Nat, NEW forced \in BOOLEAN,
           Say(c, r, forced)
    PROVE  SegmentInv'
<1> DEFINE q == queue[c]
           sd == said[c]
<1>1. /\ Kinds /\ ConnInv(c) /\ q \in Seq(Nat) /\ starts[c] \in Seq(Nat)
      /\ sd \in Seq(SaidRec) /\ Len(sd) \in Nat /\ epoch[c] \in Nat /\ chain[c] \in Seq(Nat)
  BY AtConn
<1>2. /\ InLine(starts[c], q, Len(sd)) /\ Waits(q, sd, epoch[c])
      /\ Breaks(sd, epoch[c], chainBroken[c]) /\ Cuts(chain[c], told[c], sd)
      /\ Plays(c) /\ FloorIsQuiet(c)
  BY <1>1 DEF ConnInv
<1>3. CASE Dropped(c)
  <2>1. UNCHANGED speakVars
    BY <1>3 DEF Say
  <2>2. Kinds' /\ \A d \in Conns : Untouched(d)
    BY <1>1, <2>1 DEF Kinds, speakVars, Untouched
  <2>3. ConnInv(c)'
    BY <1>2, <2>1 DEF ConnInv, speakVars, Plays, Playing, FloorIsQuiet
  <2> QED  BY <2>2, <2>3, OthersKeep
<1>4. CASE ~Dropped(c)
  <2>1. Push(c, r, forced) /\ ~floor[c]
    BY <1>4 DEF Say, Dropped
  <2>2. PICK cont \in BOOLEAN : cont = Continues(c, forced)
    <3>1. Continues(c, forced) \in BOOLEAN
      BY Zenon DEF Continues
    <3> QED  BY <3>1
  <2>3. cont => ~chainBroken[c]
    BY <2>2, Zenon DEF Continues
  <2>4. /\ said' \in [Conns -> Seq(SaidRec)]
        /\ OneMore(sd, epoch[c], cont, said'[c])
        /\ \A d \in Conns \ {c} : said'[d] = said[d]
    BY <1>1, <2>1, <2>2, PushIs
  <2>5. /\ queue' = [queue EXCEPT ![c] = Append(@, Len(sd) + 1)]
        /\ \E l \in {"next", loop[c]} : /\ l = "play" <=> loop[c] = "play"
                                        /\ loop' = [loop EXCEPT ![c] = l]
        /\ UNCHANGED <<ctx, text, chain, floor, closed, epoch, starts, told>>
    BY <2>1 DEF Push
  <2>6. chainBroken' = [chainBroken EXCEPT ![c] = cont /\ @]
    BY <2>1, <2>2, Zenon DEF Push
  <2>7. /\ queue' \in [Conns -> Seq(Nat)] /\ queue'[c] = Append(q, Len(sd) + 1)
        /\ \A d \in Conns \ {c} : queue'[d] = queue[d]
    <3>1. Append(q, Len(sd) + 1) \in Seq(Nat)
      BY <1>1
    <3> QED  BY <1>1, <2>5, <3>1 DEF Kinds
  <2>8. /\ chainBroken' \in [Conns -> BOOLEAN]
        /\ \A d \in Conns \ {c} : chainBroken'[d] = chainBroken[d]
    BY <1>1, <2>6 DEF Kinds
  <2>9. /\ loop' \in [Conns -> {"idle", "next", "wait", "play"}]
        /\ loop'[c] = "play" <=> loop[c] = "play"
        /\ \A d \in Conns \ {c} : loop'[d] = loop[d]
    BY <1>1, <2>5 DEF Kinds
  <2>10. Kinds'
    BY <1>1, <2>4, <2>5, <2>7, <2>8, <2>9 DEF Kinds
  <2>11. \A d \in Conns \ {c} : Untouched(d)
    BY <2>4, <2>5, <2>7, <2>8, <2>9 DEF Untouched
  <2>12. InLine(starts[c], queue'[c], Len(said'[c]))
    <3>1. Len(said'[c]) = Len(sd) + 1
      BY <2>4 DEF OneMore
    <3>2. InLine(starts[c], Append(q, Len(sd) + 1), Len(sd) + 1)
      BY <1>1, <1>2, LineGrows
    <3> QED  BY <2>7, <3>1, <3>2
  <2>13. Waits(Append(q, Len(sd) + 1), said'[c], epoch[c])
    BY <1>1, <1>2, <2>4, WaitsGrow
  <2>14. Breaks(said[c], epoch[c], chainBroken[c])'
    BY <1>1, <1>2, <2>3, <2>4, <2>5, BreaksGrow
  <2>15. Cuts(chain[c], told[c], said'[c])
    BY <1>1, <1>2, <2>4, CutsGrow
  <2>16. Plays(c)'
    <3>1. ASSUME ctx[c] \in {"active", "detached"}
          PROVE  said'[c][Playing(c)].fate = "playing"
      <4>1. starts[c] # <<>> /\ sd[Playing(c)].fate = "playing"
        BY <1>2, <3>1 DEF Plays
      <4>2. Len(starts[c]) \in 1..Len(starts[c])
        BY <1>1, <4>1
      <4>3. Playing(c) \in 1..Len(sd)
        BY <1>2, <4>2 DEF InLine, Playing
      <4> QED  BY <2>4, <4>1, <4>3 DEF OneMore
    <3> QED  BY <1>2, <2>5, <2>9, <3>1 DEF Plays, Playing
  <2>17. FloorIsQuiet(c)'
    BY <2>1, <2>5 DEF FloorIsQuiet
  <2>18. ConnInv(c)'
    BY <2>5, <2>7, <2>12, <2>13, <2>14, <2>15, <2>16, <2>17 DEF ConnInv
  <2> QED  BY <2>10, <2>11, <2>18, OthersKeep
<1> QED  BY <1>3, <1>4

-----------------------------------------------------------------------------
\* Nothing has been said.
LEMMA SegmentInit == Init => SegmentInv
<1> SUFFICES ASSUME Init PROVE SegmentInv
  OBVIOUS
<1>1. SpeakInit
  BY DEF Init
<1>2. /\ queue \in [Conns -> Seq(Nat)] /\ chain \in [Conns -> Seq(Nat)]
      /\ starts \in [Conns -> Seq(Nat)] /\ said \in [Conns -> Seq(SaidRec)]
  BY <1>1 DEF SpeakInit
<1>3. Kinds
  BY <1>1, <1>2 DEF SpeakInit, Kinds
<1>4. ASSUME NEW c \in Conns PROVE ConnInv(c)
  <2>1. /\ queue[c] = <<>> /\ chain[c] = <<>> /\ starts[c] = <<>> /\ said[c] = <<>>
        /\ loop[c] = "idle" /\ ctx[c] = "none" /\ told[c] = {} /\ epoch[c] = 0
    BY <1>1 DEF SpeakInit
  <2>2. InLine(<<>>, <<>>, 0) /\ Waits(<<>>, <<>>, 0) /\ Cuts(<<>>, {}, <<>>)
    BY DEF InLine, Rising, Waits, Cuts, Elems, CutOf
  <2>3. Breaks(said[c], epoch[c], chainBroken[c])
    BY <2>1 DEF Breaks
  <2>4. Plays(c) /\ FloorIsQuiet(c)
    BY <2>1 DEF Plays, FloorIsQuiet
  <2> QED  BY <2>1, <2>2, <2>3, <2>4 DEF ConnInv
<1> QED  BY <1>3, <1>4 DEF SegmentInv

\* Nothing of the speech path changes.
LEMMA SilentKeepsSegments ==
    ASSUME SegmentInv, UNCHANGED speakVars
    PROVE  SegmentInv'
<1>1. Kinds'
  BY DEF SegmentInv, Kinds, speakVars
<1>2. ASSUME NEW c \in Conns PROVE ConnInv(c)'
  <2>1. ConnInv(c)
    BY DEF SegmentInv
  <2> QED  BY <2>1 DEF ConnInv, Plays, Playing, FloorIsQuiet, speakVars
<1> QED  BY <1>1, <1>2 DEF SegmentInv

\* What the delivery of replies does to the speech path: it says something on a
\* connection or barges for a hold-up.
LEMMA DeliverSays ==
    ASSUME AsksInv, Deliver
    PROVE  \/ UNCHANGED speakVars
           \/ \E c \in Conns, r \in Nat, forced \in BOOLEAN : Say(c, r, forced)
           \/ \E c \in Conns : Kill(c) /\ ~closed[c] /\ UNCHANGED floor
<1>0. /\ replies \in Seq(ReplyRec) /\ asks \in Seq(Nat)
      /\ \A i \in 1..Len(asks) : asks[i] \in 1..Len(replies)
  BY DEF AsksInv
<1>1. ASSUME asks # <<>>
      PROVE  Head(asks) \in Nat /\ replies[Head(asks)].conn \in Conns
  <2>1. 1 \in 1..Len(asks) /\ Head(asks) = asks[1]
    BY <1>0, <1>1
  <2>2. Head(asks) \in 1..Len(replies)
    BY <1>0, <2>1
  <2> QED  BY <1>0, <2>2, AskedReply
<1>2. CASE \E c \in Bound : StartReply(c) \/ HoldUp(c)
  <2>1. PICK c \in Conns : StartReply(c) \/ HoldUp(c)
    BY <1>2, BoundAssumption
  <2> QED  BY <2>1 DEF StartReply, HoldUp
<1>3. CASE \E c \in Conns : SayDirect(c)
  BY <1>3 DEF SayDirect
<1>4. CASE Record
  BY <1>1, <1>4 DEF Record
<1>5. CASE \E answered \in BOOLEAN : AskEnds(answered)
  BY <1>1, <1>5 DEF AskEnds
<1>6. CASE \E r \in DOMAIN replies : Redeliver(r) \/ StopWaiting(r)
  <2>1. PICK r \in 1..Len(replies) : Redeliver(r) \/ StopWaiting(r)
    BY <1>0, <1>6
  <2>2. r \in Nat /\ replies[r].conn \in Conns
    BY <1>0, <2>1, AskedReply
  <2> QED  BY <2>1, <2>2 DEF Redeliver, StopWaiting
<1> QED  BY <1>2, <1>3, <1>4, <1>5, <1>6 DEF Deliver

\* Every step of the speech path and of the delivery keeps the invariant.
LEMMA SegmentStep == AsksInv /\ SegmentInv /\ [Next]_vars => SegmentInv'
<1> SUFFICES ASSUME AsksInv, SegmentInv, [Next]_vars PROVE SegmentInv'
  OBVIOUS
<1>0. floor \in [Conns -> BOOLEAN]
  BY DEF SegmentInv, Kinds
<1>1. ASSUME NEW c \in Conns, SpeechStep(c) PROVE SegmentInv'
  BY <1>1, LoopKeeps, StartKeepsSegments, EndKeeps DEF SpeechStep
<1>2. ASSUME NEW c \in Conns, Operator(c) PROVE SegmentInv'
  <2>1. CASE Barge(c)
    BY <1>0, <2>1, KillKeepsSegments DEF Barge
  <2>2. CASE PttDown(c)
    <3>1. floor' = [floor EXCEPT ![c] = TRUE] /\ Kill(c) /\ ~closed[c]
      BY <2>2 DEF PttDown
    <3>2. floor' \in [Conns -> BOOLEAN] /\ \A d \in Conns \ {c} : floor'[d] = floor[d]
      BY <1>0, <3>1
    <3> QED  BY <3>1, <3>2, KillKeepsSegments
  <2>3. CASE PttUp(c) \/ \E ok \in BOOLEAN : Inject(c, ok)
    BY <2>3, PttUpKeeps, InjectKeeps
  <2> QED  BY <1>2, <2>1, <2>2, <2>3 DEF Operator
<1>3. ASSUME NEW c \in Conns, Fault(c) PROVE SegmentInv'
  BY <1>3, SynthFailsKeeps, EndKeeps, CloseKeeps DEF Fault
<1>4. CASE Deliver
  <2>1. CASE UNCHANGED speakVars
    BY <2>1, SilentKeepsSegments
  <2>2. CASE \E c \in Conns, r \in Nat, forced \in BOOLEAN : Say(c, r, forced)
    BY <2>2, SayKeepsSegments
  <2>3. CASE \E c \in Conns : Kill(c) /\ ~closed[c] /\ UNCHANGED floor
    BY <1>0, <2>3, KillKeepsSegments
  <2> QED  BY <1>4, <2>1, <2>2, <2>3, DeliverSays
<1>5. CASE UNCHANGED vars
  BY <1>5, SilentKeepsSegments DEF vars
<1> QED  BY <1>1, <1>2, <1>3, <1>4, <1>5 DEF Next

\* Every segment of every connection is where its fate says it is.
LEMMA SegmentInvHolds == Spec => []SegmentInv
<1>1. VoiceInv => AsksInv
  BY DEF VoiceInv
<1> QED  BY <1>1, SegmentInit, SegmentStep, VoiceInvHolds, PTL DEF Spec

-----------------------------------------------------------------------------
\* Segments play in the order they were said, none twice, and none is lost but
\* by a failed synthesis or a barge, whatever deferrals and retries of the shared
\* mouth come between (lex-voice-speak-controller.ts runQueue, speakOne).
THEOREM VoiceSpokenInOrder == Spec => []SpokenInOrder
<1>1. SegmentInv => SpokenInOrder
  <2> SUFFICES ASSUME SegmentInv, NEW c \in Conns
               PROVE  LET line == starts[c] \o queue[c]
                      IN /\ \A i, j \in DOMAIN line : i < j => line[i] < line[j]
                         /\ \A n \in DOMAIN said[c] :
                              said[c][n].fate = "waiting" =>
                                \/ \E i \in DOMAIN queue[c] : queue[c][i] = n
                                \/ said[c][n].epoch < epoch[c]
    BY DEF SpokenInOrder
  <2> DEFINE st == starts[c]
             q == queue[c]
             line == st \o q
  <2>1. /\ ConnInv(c) /\ q \in Seq(Nat) /\ st \in Seq(Nat) /\ said[c] \in Seq(SaidRec)
    BY AtConn
  <2>2. InLine(st, q, Len(said[c])) /\ Waits(q, said[c], epoch[c])
    BY <2>1 DEF ConnInv
  <2>3. DOMAIN q = 1..Len(q) /\ DOMAIN said[c] = 1..Len(said[c])
    BY <2>1
  <2>4. DOMAIN line = 1..(Len(st) + Len(q)) /\ Len(st) \in Nat /\ Len(q) \in Nat
    BY <2>1
  <2>5. ASSUME NEW i \in DOMAIN line
        PROVE  \/ i \in 1..Len(st) /\ line[i] = st[i]
               \/ i - Len(st) \in 1..Len(q) /\ line[i] = q[i - Len(st)]
    <3>1. line[i] = IF i <= Len(st) THEN st[i] ELSE q[i - Len(st)]
      BY <2>1, <2>4, ConcatProperties
    <3>2. i \in 1..(Len(st) + Len(q))
      BY <2>4
    <3> HIDE DEF st, q, line
    <3>3. CASE i <= Len(st)
      BY <2>4, <3>1, <3>2, <3>3
    <3>4. CASE ~(i <= Len(st))
      BY <2>4, <3>1, <3>2, <3>4
    <3> QED  BY <3>3, <3>4
  <2>6. ASSUME NEW i \in DOMAIN line, NEW j \in DOMAIN line, i < j
        PROVE  line[i] < line[j]
    <3>1. CASE j \in 1..Len(st)
      <4>1. i \in 1..Len(st) /\ line[i] = st[i] /\ line[j] = st[j]
        BY <2>1, <2>4, <2>6, <3>1
      <4> QED  BY <2>2, <2>6, <3>1, <4>1 DEF InLine, Rising
    <3>2. CASE j \notin 1..Len(st)
      <4>1. j - Len(st) \in 1..Len(q) /\ line[j] = q[j - Len(st)]
        BY <2>5, <3>2
      <4>2. CASE i \in 1..Len(st)
        <5>1. line[i] = st[i]
          BY <2>1, <2>4, <4>2
        <5> QED  BY <2>2, <4>1, <4>2, <5>1 DEF InLine
      <4>3. CASE i \notin 1..Len(st)
        <5>1. i - Len(st) \in 1..Len(q) /\ line[i] = q[i - Len(st)]
          BY <2>5, <4>3
        <5>2. i - Len(st) < j - Len(st)
          BY <2>4, <2>6
        <5> QED  BY <2>2, <4>1, <5>1, <5>2 DEF InLine, Rising
      <4> QED  BY <4>2, <4>3
    <3> QED  BY <3>1, <3>2
  <2>7. ASSUME NEW n \in DOMAIN said[c], said[c][n].fate = "waiting"
        PROVE  \/ \E i \in DOMAIN q : q[i] = n
               \/ said[c][n].epoch < epoch[c]
    BY <2>2, <2>3, <2>7 DEF Waits
  <2> QED  BY <2>6, <2>7
<1> QED  BY <1>1, SegmentInvHolds, PTL

\* A barge is a boundary for what was said before it, and the floor is silent,
\* however many barges come while a stream is still winding down
\* (lex-voice-speak-controller.ts killActive, speak).
THEOREM VoiceBargeIsABoundary == Spec => []BargeIsABoundary
<1>1. SegmentInv => BargeIsABoundary
  <2> SUFFICES ASSUME SegmentInv, NEW c \in Conns
               PROVE  /\ \A i \in DOMAIN queue[c] : said[c][queue[c][i]].epoch = epoch[c]
                      /\ \A n \in DOMAIN said[c] :
                           said[c][n].cont /\ said[c][n].epoch > 0 =>
                             \E m \in 1..(n - 1) : said[c][m].epoch = said[c][n].epoch
                      /\ floor[c] => queue[c] = <<>> /\ ctx[c] \in {"none", "cancelled"}
    BY DEF BargeIsABoundary
  <2>1. /\ ConnInv(c) /\ queue[c] \in Seq(Nat) /\ said[c] \in Seq(SaidRec)
    BY AtConn
  <2>2. /\ DOMAIN queue[c] = 1..Len(queue[c])
        /\ DOMAIN said[c] = 1..Len(said[c])
    BY <2>1
  <2> QED  BY <2>1, <2>2 DEF ConnInv, Waits, Breaks, FloorIsQuiet
<1> QED  BY <1>1, SegmentInvHolds, PTL

\* Every segment a barge cut is owed to the brain or was told it, never both and
\* never twice, whichever injects failed (lex-voice-ws.ts partialChain,
\* lex-voice-speak-controller.ts killActive).
THEOREM VoiceCutToldOnce == Spec => []CutToldOnce
<1>1. SegmentInv => CutToldOnce
  <2> SUFFICES ASSUME SegmentInv, NEW c \in Conns
               PROVE  LET owed == {chain[c][i] : i \in DOMAIN chain[c]}
                      IN /\ owed \cup told[c] =
                              {n \in DOMAIN said[c] : said[c][n].fate = "cut"}
                         /\ owed \cap told[c] = {}
                         /\ \A i, j \in DOMAIN chain[c] : chain[c][i] = chain[c][j] => i = j
    BY DEF CutToldOnce
  <2>1. /\ ConnInv(c) /\ chain[c] \in Seq(Nat) /\ said[c] \in Seq(SaidRec)
    BY AtConn
  <2>2. DOMAIN chain[c] = 1..Len(chain[c]) /\ DOMAIN said[c] = 1..Len(said[c])
    BY <2>1
  <2> QED  BY <2>1, <2>2 DEF ConnInv, Cuts, Elems, CutOf
<1> QED  BY <1>1, SegmentInvHolds, PTL

-----------------------------------------------------------------------------
(* Types.  AsksInv says that who stands in the line of asks is due an answer; *)
(* the type invariant says also that who is due one stands there.             *)

Due(rs, r) == rs[r].phase \in {"ask", "again"}

NobodyForgotten ==
  \A r \in 1..Len(replies) : Due(replies, r) => \E i \in 1..Len(asks) : asks[i] = r

RestTyped ==
  /\ mouth \in Conns \cup {NoConn}
  /\ faults \in 0..MaxFaults
  /\ NobodyForgotten

\* One more in the line: a new reply, or one that is asked for again.
LEMMA AppendForgetsNobody ==
    ASSUME NobodyForgotten, asks \in Seq(Nat), NEW r \in Nat, asks' = Append(asks, r),
           \A q \in 1..Len(replies') :
             Due(replies', q) => q = r \/ (q \in 1..Len(replies) /\ Due(replies, q))
    PROVE  NobodyForgotten'
<1>1. /\ Len(asks') = Len(asks) + 1 /\ Len(asks) \in Nat
      /\ \A i \in 1..Len(asks) : asks'[i] = asks[i]
      /\ asks'[Len(asks) + 1] = r
  OBVIOUS
<1>2. \A i \in 1..Len(asks) : i \in 1..Len(asks')
  BY <1>1
<1>3. Len(asks) + 1 \in 1..Len(asks')
  BY <1>1
<1>4. ASSUME NEW q \in 1..Len(replies'), Due(replies', q)
      PROVE  \E i \in 1..Len(asks') : asks'[i] = q
  <2>1. CASE q = r
    BY <1>1, <1>3, <2>1
  <2>2. CASE q # r
    <3>1. PICK i \in 1..Len(asks) : asks[i] = q
      BY <1>4, <2>2 DEF NobodyForgotten
    <3> QED  BY <1>1, <1>2, <3>1
  <2> QED  BY <2>1, <2>2
<1> QED  BY <1>4 DEF NobodyForgotten

\* The head leaves the line when its ask ends, and is due nothing.
LEMMA TailForgetsNobody ==
    ASSUME NobodyForgotten, AsksInv, asks # <<>>, asks' = Tail(asks),
           NEW p \in {"waiting", "done"}, Marked(Head(asks), p)
    PROVE  NobodyForgotten'
<1>1. /\ asks \in Seq(Nat) /\ Len(asks) \in Nat \ {0} /\ Head(asks) = asks[1]
      /\ Len(asks') = Len(asks) - 1
      /\ \A i \in 1..Len(asks') : asks'[i] = asks[i + 1]
  BY DEF AsksInv
<1>2. ASSUME NEW q \in 1..Len(replies'), Due(replies', q)
      PROVE  \E i \in 1..Len(asks') : asks'[i] = q
  <2>1. q # Head(asks) /\ q \in 1..Len(replies) /\ Due(replies, q)
    BY <1>2 DEF Due, Marked
  <2>2. PICK i \in 1..Len(asks) : asks[i] = q
    BY <2>1 DEF NobodyForgotten
  <2>3. i - 1 \in 1..Len(asks') /\ (i - 1) + 1 = i
    BY <1>1, <2>1, <2>2
  <2> QED  BY <1>1, <2>2, <2>3
<1> QED  BY <1>2 DEF NobodyForgotten

\* A reply that changes its phase, and is due no more than before, is not missed.
LEMMA MarkForgetsNobody ==
    ASSUME NobodyForgotten, UNCHANGED asks, NEW r, NEW p, Marked(r, p),
           p \in {"ask", "again"} => r \in 1..Len(replies) /\ Due(replies, r)
    PROVE  NobodyForgotten'
  BY DEF NobodyForgotten, Due, Marked

\* Deliver keeps everybody who is due an answer in the line.
LEMMA DeliverForgetsNobody ==
    ASSUME NobodyForgotten, AsksInv, Deliver
    PROVE  NobodyForgotten'
<1>0. /\ replies \in Seq(ReplyRec) /\ Len(replies) \in Nat /\ asks \in Seq(Nat)
      /\ \A i \in 1..Len(asks) : asks[i] \in 1..Len(replies) /\ Due(replies, asks[i])
  BY DEF AsksInv, Due
<1>1. ASSUME asks # <<>>
      PROVE  Head(asks) \in 1..Len(replies) /\ Due(replies, Head(asks))
  <2>1. 1 \in 1..Len(asks) /\ Head(asks) = asks[1]
    BY <1>0, <1>1
  <2> QED  BY <1>0, <2>1
<1>2. ASSUME NEW c \in Conns, NEW f \in BOOLEAN, Started(c, f)
      PROVE  NobodyForgotten'
  <2> DEFINE new == [conn |-> c, fallback |-> f, phase |-> "ask", spoke |-> FALSE]
  <2>1. replies' = Append(replies, new) /\ asks' = Append(asks, Len(replies) + 1)
    BY <1>2 DEF Started
  <2>2. \A q \in 1..Len(replies') :
          q = Len(replies) + 1 \/ (q \in 1..Len(replies) /\ replies'[q] = replies[q])
    BY <1>0, <2>1
  <2>3. \A q \in 1..Len(replies') :
          Due(replies', q) => q = Len(replies) + 1
                              \/ (q \in 1..Len(replies) /\ Due(replies, q))
    BY <2>2 DEF Due
  <2>4. Len(replies) + 1 \in Nat
    BY <1>0
  <2> HIDE DEF new
  <2> QED  BY <1>0, <2>1, <2>3, <2>4, AppendForgetsNobody
<1>3. ASSUME NEW c \in Bound, StartReply(c) \/ HoldUp(c) PROVE NobodyForgotten'
  BY <1>2, <1>3, BoundAssumption DEF StartReply, HoldUp
<1>4. ASSUME NEW c \in Conns, SayDirect(c) PROVE NobodyForgotten'
  BY <1>4 DEF SayDirect, NobodyForgotten
<1>5. CASE Record
  <2>1. /\ asks # <<>> /\ asks' = asks
        /\ replies' = [replies EXCEPT ![Head(asks)].spoke = TRUE]
    BY <1>5 DEF Record
  <2>2. Marked(Head(asks), replies[Head(asks)].phase)
    BY <1>0, <1>1, <2>1, SpokeMarks
  <2> QED  BY <1>1, <2>1, <2>2, MarkForgetsNobody
<1>6. ASSUME NEW answered \in BOOLEAN, AskEnds(answered) PROVE NobodyForgotten'
  <2>1. /\ asks # <<>> /\ asks' = Tail(asks)
        /\ \E p \in {"waiting", "done"} : SetPhase(Head(asks), p)
    BY <1>6 DEF AskEnds
  <2>2. PICK p \in {"waiting", "done"} : SetPhase(Head(asks), p)
    BY <2>1
  <2>3. Marked(Head(asks), p)
    BY <1>0, <1>1, <2>1, <2>2, PhaseMarks
  <2> QED  BY <2>1, <2>3, TailForgetsNobody
<1>7. ASSUME NEW r \in 1..Len(replies), Redeliver(r) PROVE NobodyForgotten'
  <2>1. /\ asks' = Append(asks, r)
        /\ replies' = [replies EXCEPT ![r].phase = "again", ![r].spoke = FALSE]
    BY <1>7 DEF Redeliver
  <2>2. Marked(r, "again")
    BY <1>0, <2>1, PhaseMarks
  <2>3. \A q \in 1..Len(replies') :
          Due(replies', q) => q = r \/ (q \in 1..Len(replies) /\ Due(replies, q))
    BY <2>2 DEF Due, Marked
  <2>4. r \in Nat
    BY <1>0
  <2> QED  BY <1>0, <2>1, <2>3, <2>4, AppendForgetsNobody
<1>8. ASSUME NEW r \in 1..Len(replies), StopWaiting(r) PROVE NobodyForgotten'
  <2>1. SetPhase(r, "done") /\ asks' = asks
    BY <1>8 DEF StopWaiting
  <2>2. Marked(r, "done")
    BY <1>0, <2>1, PhaseMarks
  <2> QED  BY <2>1, <2>2, MarkForgetsNobody
<1>9. DOMAIN replies = 1..Len(replies)
  BY <1>0
<1> QED  BY <1>3, <1>4, <1>5, <1>6, <1>7, <1>8, <1>9 DEF Deliver

\* Every step keeps the rest of the types.
LEMMA RestStep == AsksInv /\ RestTyped /\ [Next]_vars => RestTyped'
<1> SUFFICES ASSUME AsksInv, RestTyped, [Next]_vars PROVE RestTyped'
  OBVIOUS
<1>0. UNCHANGED <<replies, asks>> /\ NobodyForgotten => NobodyForgotten'
  BY DEF NobodyForgotten
<1>1. ASSUME NEW c \in Conns, SpeechStep(c) \/ Operator(c), UNCHANGED deliveryVars
      PROVE  RestTyped'
  <2>1. mouth' \in {mouth, c, NoConn}
    BY <1>1 DEF SpeechStep, DrainEmpty, Defer, StartStream, Retry, StreamEnd,
                Operator, Barge, PttDown, PttUp, Inject, Kill
  <2> QED  BY <1>0, <1>1, <2>1 DEF RestTyped, deliveryVars
<1>2. ASSUME NEW c \in Conns, Fault(c), UNCHANGED <<replies, asks>> PROVE RestTyped'
  <2>1. mouth' \in {mouth, NoConn} /\ faults < MaxFaults /\ faults' = faults + 1
    BY <1>2 DEF Fault, SynthFails, StreamError, Close
  <2>2. faults' \in 0..MaxFaults
    BY <2>1, FaultsAssumption DEF RestTyped
  <2> QED  BY <1>0, <1>2, <2>1, <2>2 DEF RestTyped
<1>3. CASE Deliver
  <2>1. faults' = faults
    BY <1>3 DEF Deliver, StartReply, HoldUp, SayDirect, Record, AskEnds, Redeliver,
                StopWaiting
  <2>2. mouth' = mouth
    BY <1>3, DeliverSays DEF Say, Push, Kill, speakVars
  <2> QED  BY <1>3, <2>1, <2>2, DeliverForgetsNobody DEF RestTyped
<1>4. CASE UNCHANGED vars
  BY <1>0, <1>4 DEF RestTyped, vars, speakVars, deliveryVars
<1> QED  BY <1>1, <1>2, <1>3, <1>4 DEF Next

\* What the parts say together: an ask that is due stands in the line once.
LEMMA DueOnce ==
    ASSUME AsksInv, NobodyForgotten, NEW r \in DOMAIN replies
    PROVE  Cardinality({i \in DOMAIN asks : asks[i] = r}) =
             IF Due(replies, r) THEN 1 ELSE 0
<1>0. /\ replies \in Seq(ReplyRec) /\ asks \in Seq(Nat)
      /\ DOMAIN replies = 1..Len(replies) /\ DOMAIN asks = 1..Len(asks)
      /\ \A i \in 1..Len(asks) : asks[i] \in 1..Len(replies) /\ Due(replies, asks[i])
  BY DEF AsksInv, Due
<1>1. CASE Due(replies, r)
  <2>1. PICK i \in 1..Len(asks) : asks[i] = r
    BY <1>0, <1>1 DEF NobodyForgotten
  <2>2. ASSUME NEW j \in 1..Len(asks), asks[j] = r PROVE j = i
    <3>1. ~(i < j) /\ ~(j < i)
      BY <1>0, <2>1, <2>2 DEF AsksInv
    <3> QED  BY <3>1
  <2>3. {k \in DOMAIN asks : asks[k] = r} = {i}
    BY <1>0, <2>1, <2>2
  <2> QED  BY <1>1, <2>3, FS_Singleton
<1>2. CASE ~Due(replies, r)
  <2>1. {k \in DOMAIN asks : asks[k] = r} = {}
    BY <1>0, <1>2
  <2> QED  BY <1>2, <2>1, FS_EmptySet
<1> QED  BY <1>1, <1>2

\* Every variable of the speech path and the delivery keeps its type, a context
\* is in flight exactly while its loop plays, and every reply that is due an
\* answer stands in the line of asks exactly once (voice-brain-session.ts).
THEOREM VoiceTyped == Spec => []TypeOK
<1>1. Init => RestTyped
  <2> SUFFICES ASSUME Init PROVE RestTyped
    OBVIOUS
  <2>1. replies = <<>> /\ faults = 0 /\ mouth = NoConn
    BY DEF Init, SpeakInit
  <2>2. NobodyForgotten
    BY <2>1 DEF NobodyForgotten
  <2> QED  BY <2>1, <2>2, FaultsAssumption DEF RestTyped
<1>2. VoiceInv /\ SegmentInv /\ RestTyped => TypeOK
  <2> SUFFICES ASSUME VoiceInv, SegmentInv, RestTyped PROVE TypeOK
    OBVIOUS
  <2>0. AsksInv /\ Kinds /\ NobodyForgotten
    BY DEF VoiceInv, SegmentInv, RestTyped
  <2>1. SpeakType
    <3>1. ASSUME NEW c \in Conns PROVE queue[c] \in Seq(Nat \ {0})
      <4>1. /\ queue[c] \in Seq(Nat) /\ Len(said[c]) \in Nat
            /\ InLine(starts[c], queue[c], Len(said[c]))
        BY AtConn DEF ConnInv
      <4>2. \A i \in 1..Len(queue[c]) : queue[c][i] \in Nat \ {0}
        <5>1. \A i \in 1..Len(queue[c]) : queue[c][i] \in 1..Len(said[c])
          BY <4>1 DEF InLine
        <5> QED  BY <4>1, <5>1
      <4> QED  BY <4>1, <4>2
    <3>2. queue \in [Conns -> Seq(Nat \ {0})]
      BY <2>0, <3>1 DEF Kinds
    <3>3. \A c \in Conns : ctx[c] # "none" <=> loop[c] = "play"
      BY DEF SegmentInv, ConnInv, Plays
    <3>4. mouth \in Conns \cup {NoConn}
      BY DEF RestTyped
    <3> QED  BY <2>0, <3>2, <3>3, <3>4 DEF SpeakType, Kinds, SaidRec
  <2>2. replies \in Seq([conn: Conns, fallback: BOOLEAN, spoke: BOOLEAN,
                         phase: {"ask", "waiting", "again", "done"}])
    BY <2>0 DEF AsksInv, ReplyRec
  <2>3. asks \in Seq(DOMAIN replies)
    <3>1. /\ asks \in Seq(Nat) /\ DOMAIN replies = 1..Len(replies)
          /\ \A i \in 1..Len(asks) : asks[i] \in DOMAIN replies
      BY <2>0 DEF AsksInv
    <3> QED  BY <3>1
  <2>4. \A r \in DOMAIN replies :
          Cardinality({i \in DOMAIN asks : asks[i] = r}) =
            IF replies[r].phase \in {"ask", "again"} THEN 1 ELSE 0
    BY <2>0, DueOnce DEF Due
  <2>5. faults \in 0..MaxFaults
    BY DEF RestTyped
  <2> QED  BY <2>1, <2>2, <2>3, <2>4, <2>5 DEF TypeOK
<1>3. VoiceInv => AsksInv
  BY DEF VoiceInv
<1> QED  BY <1>1, <1>2, <1>3, RestStep, VoiceInvHolds, SegmentInvHolds, PTL DEF Spec
=============================================================================
