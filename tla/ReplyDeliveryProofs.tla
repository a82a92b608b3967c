------------------------ MODULE ReplyDeliveryProofs ------------------------
(* What the speech path keeps for any number of connections, replies, barges  *)
(* and faults: one stream at a time behind the single mouth, and the order of *)
(* a connection's replies.                                                    *)
EXTENDS ReplyDelivery, SequenceTheorems, TLAPS

SaidRec == [reply: Nat, epoch: Nat, cont: BOOLEAN, fate: Fates]
ReplyRec == [conn: Conns, fallback: BOOLEAN, spoke: BOOLEAN,
             phase: {"ask", "waiting", "again", "done"}]

\* The mouth is held exactly by the connection whose loop plays.
MouthInv ==
  /\ loop \in [Conns -> {"idle", "next", "wait", "play"}]
  /\ \A c \in Conns : mouth = c <=> loop[c] = "play"

SaidInv ==
  /\ said \in [Conns -> Seq(SaidRec)]
  /\ epoch \in [Conns -> Nat]

\* The line of asks: pending replies, those of one connection in the order they
\* were started, and none older than a reply that waits to be delivered again.
AsksInv ==
  /\ replies \in Seq(ReplyRec)
  /\ asks \in Seq(Nat)
  /\ \A i \in 1..Len(asks) : /\ asks[i] \in 1..Len(replies)
                             /\ replies[asks[i]].phase \in {"ask", "again"}
  /\ \A i, j \in 1..Len(asks) :
       i < j /\ replies[asks[i]].conn = replies[asks[j]].conn => asks[i] < asks[j]
  /\ \A r \in 1..Len(replies), i \in 1..Len(asks) :
       replies[r].phase = "waiting" /\ replies[asks[i]].conn = replies[r].conn
         => r < asks[i]

\* Whatever was said came from a reply of its own connection.
Attributed ==
  \A c \in Conns : \A n \in 1..Len(said[c]) :
    said[c][n].reply > 0 =>
      /\ said[c][n].reply \in 1..Len(replies)
      /\ replies[said[c][n].reply].conn = c

\* Nothing said is ahead of a reply that still waits for its answer.
Behind ==
  \A i \in 1..Len(asks) : \A n \in 1..Len(said[replies[asks[i]].conn]) :
    said[replies[asks[i]].conn][n].reply <= asks[i]

VoiceInv ==
  /\ MouthInv
  /\ SaidInv
  /\ AsksInv
  /\ Attributed
  /\ Behind
  /\ RepliesInOrder

-----------------------------------------------------------------------------
(* What a step does to what was said: it leaves the replies said as they are, *)
(* or adds one.                                                               *)

SameSaid ==
  /\ SaidInv'
  /\ \A c \in Conns : /\ Len(said'[c]) = Len(said[c])
                      /\ \A n \in 1..Len(said[c]) : said'[c][n].reply = said[c][n].reply

OneMoreSaid(c, r) ==
  /\ SaidInv'
  /\ \A d \in Conns \ {c} : said'[d] = said[d]
  /\ Len(said'[c]) = Len(said[c]) + 1
  /\ \A n \in 1..Len(said[c]) : said'[c][n] = said[c][n]
  /\ said'[c][Len(said[c]) + 1].reply = r

\* A member of a sequence of segments is a segment.
LEMMA SaidReply ==
    ASSUME NEW s \in Seq(SaidRec), NEW n \in 1..Len(s)
    PROVE  s[n] \in SaidRec /\ s[n].reply \in Nat
<1>1. s[n] \in SaidRec
  OBVIOUS
<1> QED
  BY <1>1 DEF SaidRec

\* A member of a sequence of replies is a reply, of a connection.
LEMMA AskedReply ==
    ASSUME NEW rs \in Seq(ReplyRec), NEW r \in 1..Len(rs)
    PROVE  rs[r] \in ReplyRec /\ rs[r].conn \in Conns
<1>1. rs[r] \in ReplyRec
  OBVIOUS
<1> QED
  BY <1>1 DEF ReplyRec

\* A step that leaves said alone says the same.
LEMMA SameSaidIfUnchanged ==
    ASSUME SaidInv, UNCHANGED said, epoch' \in [Conns -> Nat]
    PROVE  SameSaid
  BY DEF SameSaid, SaidInv

\* The fate of a segment is not its reply.
LEMMA FateKeeps ==
    ASSUME SaidInv, NEW c \in Conns, NEW n, NEW f \in Fates, SetFate(c, n, f),
           epoch' \in [Conns -> Nat]
    PROVE  SameSaid
<1> DEFINE new == [said[c] EXCEPT ![n].fate = f]
<1>0. /\ said[c] \in Seq(SaidRec)
      /\ said \in [Conns -> Seq(SaidRec)]
  BY DEF SaidInv
<1>1. said' = [said EXCEPT ![c] = new]
  BY DEF SetFate
<1>2. /\ new \in Seq(SaidRec)
      /\ Len(new) = Len(said[c])
      /\ \A k \in 1..Len(said[c]) : new[k].reply = said[c][k].reply
  <2>1. CASE n \in 1..Len(said[c])
    <3>1. said[c][n] \in SaidRec
      BY <1>0, <2>1
    <3>2. /\ [said[c][n] EXCEPT !.fate = f] \in SaidRec
          /\ [said[c][n] EXCEPT !.fate = f].reply = said[c][n].reply
      BY <3>1 DEF SaidRec
    <3> QED
      BY <1>0, <2>1, <3>2, ExceptSeq
  <2>2. CASE n \notin 1..Len(said[c])
    <3>1. DOMAIN said[c] = 1..Len(said[c])
      BY <1>0
    <3>2. new = said[c]
      BY <1>0, <2>2, <3>1
    <3> QED
      BY <1>0, <3>2
  <2> QED
    BY <2>1, <2>2
<1>3. said' \in [Conns -> Seq(SaidRec)]
  BY <1>0, <1>1, <1>2
<1>4. /\ said'[c] = new
      /\ \A d \in Conns \ {c} : said'[d] = said[d]
  BY <1>0, <1>1
<1> QED
  BY <1>2, <1>3, <1>4 DEF SameSaid, SaidInv

\* A segment that is pushed is one more.
LEMMA PushSays ==
    ASSUME SaidInv, NEW c \in Conns, NEW r \in Nat, NEW forced \in BOOLEAN,
           Push(c, r, forced), Continues(c, forced) \in BOOLEAN
    PROVE  OneMoreSaid(c, r)
<1> DEFINE rec == [reply |-> r, epoch |-> epoch[c], cont |-> Continues(c, forced),
                   fate |-> "waiting"]
<1>1. /\ said' = [said EXCEPT ![c] = Append(@, rec)]
      /\ epoch' = epoch
  BY DEF Push
<1>2. rec \in SaidRec
  BY DEF SaidInv, SaidRec, Fates
<1>3. /\ said[c] \in Seq(SaidRec)
      /\ said \in [Conns -> Seq(SaidRec)]
  BY DEF SaidInv
<1>4. /\ Append(said[c], rec) \in Seq(SaidRec)
      /\ Len(Append(said[c], rec)) = Len(said[c]) + 1
      /\ \A n \in 1..Len(said[c]) : Append(said[c], rec)[n] = said[c][n]
      /\ Append(said[c], rec)[Len(said[c]) + 1] = rec
  BY <1>2, <1>3
<1>5. said'[c] = Append(said[c], rec) /\ \A d \in Conns \ {c} : said'[d] = said[d]
  BY <1>1, <1>3
<1>6. SaidInv'
  BY <1>1, <1>3, <1>4 DEF SaidInv
<1> QED
  BY <1>4, <1>5, <1>6 DEF OneMoreSaid

\* Say drops the segment or pushes it, and does not touch the mouth.
LEMMA SaySays ==
    ASSUME SaidInv, MouthInv, NEW c \in Conns, NEW r \in Nat, NEW forced \in BOOLEAN,
           Say(c, r, forced)
    PROVE  /\ SameSaid \/ OneMoreSaid(c, r)
           /\ MouthInv'
<1>1. CASE Dropped(c)
  <2>1. UNCHANGED <<said, epoch, loop, mouth>>
    BY <1>1 DEF Say, speakVars
  <2>2. SameSaid
    BY <2>1, SameSaidIfUnchanged DEF SaidInv
  <2> QED
    BY <2>1, <2>2 DEF MouthInv
<1>2. CASE ~Dropped(c)
  <2>1. Push(c, r, forced)
    BY <1>2 DEF Say
  <2>2. Continues(c, forced) \in BOOLEAN
    BY Zenon DEF Continues
  <2>3. OneMoreSaid(c, r)
    BY <2>1, <2>2, PushSays
  <2>4. MouthInv'
    BY <2>1 DEF Push, MouthInv
  <2> QED
    BY <2>3, <2>4
<1> QED
  BY <1>1, <1>2

\* killActive forgets nothing said, and does not give the mouth back.
LEMMA KillKeeps ==
    ASSUME SaidInv, MouthInv, NEW c \in Conns, Kill(c)
    PROVE  SameSaid /\ MouthInv'
<1>1. epoch' \in [Conns -> Nat]
  BY DEF Kill, SaidInv
<1>2. SameSaid
  <2>1. CASE ctx[c] = "active"
    <3>1. SetFate(c, Playing(c), "cut")
      BY <2>1 DEF Kill
    <3>2. "cut" \in Fates
      BY DEF Fates
    <3> QED
      BY <1>1, <3>1, <3>2, FateKeeps
  <2>2. CASE ctx[c] # "active"
    <3>1. UNCHANGED said
      BY <2>2 DEF Kill
    <3> QED
      BY <1>1, <3>1, SameSaidIfUnchanged
  <2> QED
    BY <2>1, <2>2
<1>3. MouthInv'
  BY DEF Kill, MouthInv
<1> QED
  BY <1>2, <1>3

\* The drain loop says nothing new; the mouth goes with the stream.
LEMMA SpeechStepKeeps ==
    ASSUME SaidInv, MouthInv, NEW c \in Conns, SpeechStep(c)
    PROVE  SameSaid /\ MouthInv'
<1>0. /\ "playing" \in Fates
      /\ "ended" \in Fates
  BY DEF Fates
<1>1. CASE DrainEmpty(c) \/ Defer(c) \/ Retry(c)
  <2>1. UNCHANGED <<said, epoch, mouth>> /\ MouthInv'
    BY <1>1 DEF DrainEmpty, Defer, Retry, MouthInv
  <2> QED
    BY <2>1, SameSaidIfUnchanged DEF SaidInv
<1>2. CASE StartStream(c)
  <2>1. epoch' = epoch /\ SetFate(c, Head(queue[c]), "playing")
    BY <1>2 DEF StartStream
  <2>2. MouthInv'
    BY <1>2, NoConnAssumption DEF StartStream, MouthBusy, MouthInv
  <2> QED
    BY <1>0, <2>1, <2>2, FateKeeps DEF SaidInv
<1>3. CASE StreamEnd(c)
  <2>1. epoch' = epoch /\ (UNCHANGED said \/ SetFate(c, Playing(c), "ended"))
    BY <1>3 DEF StreamEnd
  <2>2. MouthInv'
    BY <1>3, NoConnAssumption DEF StreamEnd, MouthInv
  <2>3. SameSaid
    BY <1>0, <2>1, FateKeeps, SameSaidIfUnchanged DEF SaidInv
  <2> QED
    BY <2>2, <2>3
<1> QED
  BY <1>1, <1>2, <1>3 DEF SpeechStep

\* Nor does a failure, and it gives the mouth back with the stream.
LEMMA FaultKeeps ==
    ASSUME SaidInv, MouthInv, NEW c \in Conns, SynthFails(c) \/ StreamError(c) \/ Close(c)
    PROVE  SameSaid /\ MouthInv'
<1>0. "failed" \in Fates
  BY DEF Fates
<1>1. CASE SynthFails(c)
  <2>1. epoch' = epoch /\ SetFate(c, Head(queue[c]), "failed")
    BY <1>1 DEF SynthFails
  <2>2. MouthInv'
    BY <1>1 DEF SynthFails, MouthInv
  <2> QED
    BY <1>0, <2>1, <2>2, FateKeeps DEF SaidInv
<1>2. CASE StreamError(c)
  <2>1. epoch' = epoch /\ (UNCHANGED said \/ SetFate(c, Playing(c), "failed"))
    BY <1>2 DEF StreamError
  <2>2. MouthInv'
    BY <1>2, NoConnAssumption DEF StreamError, MouthInv
  <2>3. SameSaid
    BY <1>0, <2>1, FateKeeps, SameSaidIfUnchanged DEF SaidInv
  <2> QED
    BY <2>2, <2>3
<1>3. CASE Close(c)
  <2>1. UNCHANGED <<said, epoch, mouth>> /\ MouthInv'
    BY <1>3 DEF Close, MouthInv
  <2> QED
    BY <2>1, SameSaidIfUnchanged DEF SaidInv
<1> QED
  BY <1>1, <1>2, <1>3

\* Nor does what the operator does.
LEMMA OperatorKeeps ==
    ASSUME SaidInv, MouthInv, NEW c \in Conns, Operator(c)
    PROVE  SameSaid /\ MouthInv'
<1>1. CASE Kill(c)
  BY <1>1, KillKeeps
<1>2. CASE PttUp(c) \/ \E ok \in BOOLEAN : Inject(c, ok)
  <2>1. UNCHANGED <<said, epoch, mouth>> /\ MouthInv'
    BY <1>2 DEF PttUp, Inject, MouthInv
  <2> QED
    BY <2>1, SameSaidIfUnchanged DEF SaidInv
<1> QED
  BY <1>1, <1>2 DEF Operator, Barge, PttDown

-----------------------------------------------------------------------------
(* The order of what is said.  A step that says no more keeps it; a step that  *)
(* says one more of reply r keeps it when everything said so far on that       *)
(* connection is of r or older, and everything that waits is of r or newer.    *)

\* The replies known keep their connection.
SameConns ==
  /\ Len(replies) <= Len(replies')
  /\ \A q \in 1..Len(replies) : replies'[q].conn = replies[q].conn

\* No reply that waits after the step is older than what was said before it.
StillBehind ==
  \A i \in 1..Len(asks') : \A n \in 1..Len(said[replies'[asks'[i]].conn]) :
    said[replies'[asks'[i]].conn][n].reply <= asks'[i]

\* A step that says no more keeps the order.
LEMMA KeepsOrder ==
    ASSUME SaidInv, Attributed, RepliesInOrder, SameSaid, SameConns, AsksInv, AsksInv',
           StillBehind
    PROVE  Attributed' /\ Behind' /\ RepliesInOrder'
<1>0. \A c \in Conns : /\ said[c] \in Seq(SaidRec)
                       /\ said'[c] \in Seq(SaidRec)
                       /\ Len(said'[c]) = Len(said[c])
                       /\ \A n \in 1..Len(said[c]) : said'[c][n].reply = said[c][n].reply
  BY DEF SameSaid, SaidInv
<1>1. Attributed'
  <2> SUFFICES ASSUME NEW c \in Conns, NEW n \in 1..Len(said[c]), said'[c][n].reply > 0
               PROVE  /\ said'[c][n].reply \in 1..Len(replies')
                      /\ replies'[said'[c][n].reply].conn = c
    BY <1>0 DEF Attributed
  <2>1. /\ said[c][n].reply \in 1..Len(replies)
        /\ replies[said[c][n].reply].conn = c
        /\ said'[c][n].reply = said[c][n].reply
    BY <1>0 DEF Attributed
  <2> QED
    BY <2>1 DEF SameConns, AsksInv
<1>2. Behind'
  <2> SUFFICES ASSUME NEW i \in 1..Len(asks'),
                      NEW n \in 1..Len(said'[replies'[asks'[i]].conn])
               PROVE  said'[replies'[asks'[i]].conn][n].reply <= asks'[i]
    BY DEF Behind
  <2>1. replies' \in Seq(ReplyRec) /\ asks'[i] \in 1..Len(replies')
    BY DEF AsksInv
  <2>2. replies'[asks'[i]].conn \in Conns
    BY <2>1, AskedReply
  <2> QED
    BY <1>0, <2>2 DEF StillBehind
<1>3. RepliesInOrder'
  <2> SUFFICES ASSUME NEW c \in Conns, NEW m \in 1..Len(said[c]), NEW n \in 1..Len(said[c]),
                      m < n, said'[c][m].reply > 0, said'[c][n].reply > 0
               PROVE  said'[c][m].reply <= said'[c][n].reply
    BY <1>0 DEF RepliesInOrder
  <2>1. m \in DOMAIN said[c] /\ n \in DOMAIN said[c]
    BY <1>0
  <2> QED
    BY <1>0, <2>1 DEF RepliesInOrder
<1> QED
  BY <1>1, <1>2, <1>3

\* One more, of the newest reply spoken and the oldest awaited, keeps it.
LEMMA OneMoreKeepsOrder ==
    ASSUME SaidInv, Attributed, RepliesInOrder, SameConns, AsksInv, AsksInv', StillBehind,
           NEW c \in Conns, NEW r \in Nat, OneMoreSaid(c, r),
           r > 0 => /\ r \in 1..Len(replies)
                    /\ replies[r].conn = c
                    /\ \A n \in 1..Len(said[c]) : said[c][n].reply <= r
                    /\ \A i \in 1..Len(asks') : replies'[asks'[i]].conn = c => r <= asks'[i]
    PROVE  Attributed' /\ Behind' /\ RepliesInOrder'
<1>0. /\ \A d \in Conns : said[d] \in Seq(SaidRec) /\ said'[d] \in Seq(SaidRec)
      /\ \A d \in Conns \ {c} : said'[d] = said[d]
      /\ Len(said'[c]) = Len(said[c]) + 1
      /\ \A n \in 1..Len(said[c]) : said'[c][n] = said[c][n]
      /\ said'[c][Len(said[c]) + 1].reply = r
  BY DEF OneMoreSaid, SaidInv
<1>1. \A d \in Conns : \A n \in 1..Len(said'[d]) :
        \/ n \in 1..Len(said[d]) /\ said'[d][n] = said[d][n]
        \/ d = c /\ n = Len(said[c]) + 1 /\ said'[d][n].reply = r
  BY <1>0
<1>2. \A d \in Conns : \A n \in 1..Len(said[d]) : said[d][n].reply \in Nat
  BY <1>0, SaidReply
<1>3. Attributed'
  <2> SUFFICES ASSUME NEW d \in Conns, NEW n \in 1..Len(said'[d]), said'[d][n].reply > 0
               PROVE  /\ said'[d][n].reply \in 1..Len(replies')
                      /\ replies'[said'[d][n].reply].conn = d
    BY DEF Attributed
  <2> DEFINE k == said'[d][n].reply
  <2>1. k \in 1..Len(replies) /\ replies[k].conn = d
    BY <1>1 DEF Attributed
  <2>2. Len(replies) \in Nat /\ Len(replies') \in Nat
    BY DEF AsksInv
  <2> HIDE DEF k
  <2>3. k \in 1..Len(replies') /\ replies'[k].conn = d
    BY <2>1, <2>2 DEF SameConns
  <2> QED
    BY <2>3 DEF k
<1>4. Behind'
  <2> SUFFICES ASSUME NEW i \in 1..Len(asks'),
                      NEW n \in 1..Len(said'[replies'[asks'[i]].conn])
               PROVE  said'[replies'[asks'[i]].conn][n].reply <= asks'[i]
    BY DEF Behind
  <2>1. /\ replies' \in Seq(ReplyRec)
        /\ asks'[i] \in 1..Len(replies')
        /\ asks'[i] \in Nat
    BY DEF AsksInv
  <2> DEFINE d == replies'[asks'[i]].conn
  <2>2. d \in Conns
    BY <2>1, AskedReply
  <2> HIDE DEF d
  <2>3. \A j \in 1..Len(said[d]) : said[d][j].reply <= asks'[i]
    BY DEF StillBehind, d
  <2>4. CASE n \in 1..Len(said[d]) /\ said'[d][n] = said[d][n]
    <3>1. said'[d][n].reply <= asks'[i]
      BY <2>3, <2>4
    <3> QED
      BY <3>1 DEF d
  <2>5. CASE d = c /\ n = Len(said[c]) + 1 /\ said'[d][n].reply = r
    <3>1. r <= asks'[i]
      BY <2>1, <2>5 DEF d
    <3> QED
      BY <2>5, <3>1 DEF d
  <2>6. n \in 1..Len(said'[d])
    BY DEF d
  <2> QED
    BY <1>1, <2>2, <2>4, <2>5, <2>6
<1>5. RepliesInOrder'
  <2> SUFFICES ASSUME NEW d \in Conns, NEW m \in 1..Len(said'[d]), NEW n \in 1..Len(said'[d]),
                      m < n, said'[d][m].reply > 0, said'[d][n].reply > 0
               PROVE  said'[d][m].reply <= said'[d][n].reply
    BY <1>0 DEF RepliesInOrder
  <2>1. CASE n \in 1..Len(said[d]) /\ said'[d][n] = said[d][n]
    <3>1. m \in 1..Len(said[d]) /\ said'[d][m] = said[d][m]
      BY <1>0, <1>1, <2>1
    <3>2. m \in DOMAIN said[d] /\ n \in DOMAIN said[d]
      BY <1>0, <2>1, <3>1
    <3> QED
      BY <2>1, <3>1, <3>2 DEF RepliesInOrder
  <2>2. CASE d = c /\ n = Len(said[c]) + 1 /\ said'[d][n].reply = r
    <3>1. m \in 1..Len(said[c]) /\ said'[c][m] = said[c][m]
      BY <1>0, <1>1, <2>2
    <3> QED
      BY <2>2, <3>1
  <2> QED
    BY <1>1, <2>1, <2>2
<1> QED
  BY <1>3, <1>4, <1>5

-----------------------------------------------------------------------------
(* The steps of the deliveries. *)

\* A mark on a reply leaves its connection.
Marked(r, phase) ==
  /\ replies' \in Seq(ReplyRec)
  /\ Len(replies') = Len(replies)
  /\ \A q \in 1..Len(replies) : /\ replies'[q].conn = replies[q].conn
                                /\ q # r => replies'[q] = replies[q]
  /\ replies'[r].phase = phase

\* An update of one record leaves the others and the connections as they are.
LEMMA MarkedBy ==
    ASSUME replies \in Seq(ReplyRec), NEW r \in 1..Len(replies), NEW new \in ReplyRec,
           new.conn = replies[r].conn, replies' = [replies EXCEPT ![r] = new]
    PROVE  Marked(r, new.phase)
<1>1. /\ [replies EXCEPT ![r] = new] \in Seq(ReplyRec)
      /\ Len([replies EXCEPT ![r] = new]) = Len(replies)
      /\ \A q \in 1..Len(replies) :
           [replies EXCEPT ![r] = new][q] = IF q = r THEN new ELSE replies[q]
  BY ExceptSeq
<1> QED
  BY <1>1 DEF Marked

\* The mark that a record of the reply was spoken is no change of phase.
LEMMA SpokeMarks ==
    ASSUME replies \in Seq(ReplyRec), NEW r \in 1..Len(replies),
           replies' = [replies EXCEPT ![r].spoke = TRUE]
    PROVE  Marked(r, replies[r].phase)
<1> DEFINE new == [replies[r] EXCEPT !.spoke = TRUE]
<1>1. replies[r] \in ReplyRec
  BY AskedReply
<1>2. new \in ReplyRec /\ new.conn = replies[r].conn /\ new.phase = replies[r].phase
  BY <1>1 DEF ReplyRec
<1>3. replies' = [replies EXCEPT ![r] = new]
  OBVIOUS
<1> HIDE DEF new
<1> QED
  BY <1>2, <1>3, MarkedBy

\* A change of phase is one.
LEMMA PhaseMarks ==
    ASSUME replies \in Seq(ReplyRec), NEW r \in 1..Len(replies),
           NEW p \in {"ask", "waiting", "again", "done"},
           \/ SetPhase(r, p)
           \/ replies' = [replies EXCEPT ![r].phase = p, ![r].spoke = FALSE]
    PROVE  Marked(r, p)
<1>1. replies[r] \in ReplyRec
  BY AskedReply
<1>2. CASE SetPhase(r, p)
  <2> DEFINE new == [replies[r] EXCEPT !.phase = p]
  <2>1. new \in ReplyRec /\ new.conn = replies[r].conn /\ new.phase = p
    BY <1>1 DEF ReplyRec
  <2>2. replies' = [replies EXCEPT ![r] = new]
    BY <1>2 DEF SetPhase
  <2> HIDE DEF new
  <2> QED
    BY <2>1, <2>2, MarkedBy
<1>3. CASE replies' = [replies EXCEPT ![r].phase = p, ![r].spoke = FALSE]
  <2> DEFINE new == [replies[r] EXCEPT !.phase = p, !.spoke = FALSE]
  <2>1. new \in ReplyRec /\ new.conn = replies[r].conn /\ new.phase = p
    BY <1>1 DEF ReplyRec
  <2>2. replies' = [replies EXCEPT ![r] = new]
    <3>1. DOMAIN replies = 1..Len(replies)
      OBVIOUS
    <3> QED
      BY <1>3, <3>1
  <2> HIDE DEF new
  <2> QED
    BY <2>1, <2>2, MarkedBy
<1> QED
  BY <1>2, <1>3

\* Everything said on a connection is of its latest reply or older.
LEMMA SaidIsOlder ==
    ASSUME SaidInv, Attributed, replies \in Seq(ReplyRec), NEW r \in 1..Len(replies),
           Latest(r), NEW n \in 1..Len(said[replies[r].conn])
    PROVE  said[replies[r].conn][n].reply <= r
<1>1. replies[r].conn \in Conns
  BY AskedReply
<1>2. said[replies[r].conn] \in Seq(SaidRec)
  BY <1>1 DEF SaidInv
<1>3. said[replies[r].conn][n].reply \in Nat
  BY <1>2, SaidReply
<1>4. CASE said[replies[r].conn][n].reply > 0
  <2>1. /\ said[replies[r].conn][n].reply \in DOMAIN replies
        /\ replies[said[replies[r].conn][n].reply].conn = replies[r].conn
    BY <1>1, <1>4 DEF Attributed
  <2> QED
    BY <2>1 DEF Latest
<1> QED
  BY <1>3, <1>4

\* A new reply stands last in the line of asks, behind all that was said.
LEMMA StartedKeeps ==
    ASSUME SaidInv, AsksInv, Attributed, Behind, NEW c \in Conns, NEW f \in BOOLEAN,
           Started(c, f)
    PROVE  AsksInv' /\ SameConns /\ StillBehind
<1> DEFINE new == [conn |-> c, fallback |-> f, phase |-> "ask", spoke |-> FALSE]
           k == Len(replies) + 1
<1>1. /\ replies \in Seq(ReplyRec) /\ asks \in Seq(Nat)
      /\ \A i \in 1..Len(asks) : /\ asks[i] \in 1..Len(replies)
                                 /\ asks[i] \in Nat
  BY DEF AsksInv
<1>a. \A i \in 1..Len(asks) : replies[asks[i]].phase \in {"ask", "again"}
  BY DEF AsksInv
<1>b. \A i, j \in 1..Len(asks) :
        i < j /\ replies[asks[i]].conn = replies[asks[j]].conn => asks[i] < asks[j]
  BY DEF AsksInv
<1>c. \A r \in 1..Len(replies), i \in 1..Len(asks) :
        replies[r].phase = "waiting" /\ replies[asks[i]].conn = replies[r].conn
          => r < asks[i]
  BY DEF AsksInv
<1>2. new \in ReplyRec
  BY DEF ReplyRec
<1>3. replies' = Append(replies, new) /\ asks' = Append(asks, k)
  BY DEF Started
<1>d. new.conn = c /\ new.phase = "ask"
  OBVIOUS
<1> HIDE DEF new
<1>4. /\ replies' \in Seq(ReplyRec)
      /\ Len(replies') = k
      /\ \A q \in 1..Len(replies) : replies'[q] = replies[q]
      /\ replies'[k] = new
  BY <1>1, <1>2, <1>3
<1>5. /\ asks' \in Seq(Nat)
      /\ Len(asks') = Len(asks) + 1
      /\ \A i \in 1..Len(asks) : asks'[i] = asks[i]
      /\ asks'[Len(asks) + 1] = k
  BY <1>1, <1>3
<1>6. AsksInv'
  <2>1. \A i \in 1..Len(asks') : /\ asks'[i] \in 1..Len(replies')
                                 /\ replies'[asks'[i]].phase \in {"ask", "again"}
    <3> SUFFICES ASSUME NEW i \in 1..Len(asks')
                 PROVE  /\ asks'[i] \in 1..Len(replies')
                        /\ replies'[asks'[i]].phase \in {"ask", "again"}
      OBVIOUS
    <3>1. CASE i \in 1..Len(asks)
      <4>1. asks'[i] = asks[i] /\ replies'[asks[i]] = replies[asks[i]]
        BY <3>1, <1>1, <1>4, <1>5
      <4> QED
        BY <3>1, <4>1, <1>1, <1>4, <1>a
    <3>2. CASE i = Len(asks) + 1
      BY <3>2, <1>1, <1>4, <1>5, <1>d
    <3> QED
      BY <1>1, <1>5, <3>1, <3>2
  <2>2. \A i, j \in 1..Len(asks') :
          i < j /\ replies'[asks'[i]].conn = replies'[asks'[j]].conn => asks'[i] < asks'[j]
    <3> SUFFICES ASSUME NEW i \in 1..Len(asks'), NEW j \in 1..Len(asks'), i < j,
                        replies'[asks'[i]].conn = replies'[asks'[j]].conn
                 PROVE  asks'[i] < asks'[j]
      OBVIOUS
    <3>0. i \in 1..Len(asks) /\ asks'[i] = asks[i] /\ asks[i] \in 1..Len(replies)
      BY <1>1, <1>5
    <3>1. CASE j \in 1..Len(asks)
      <4>1. /\ asks'[i] = asks[i] /\ replies'[asks[i]] = replies[asks[i]]
            /\ asks'[j] = asks[j] /\ replies'[asks[j]] = replies[asks[j]]
        BY <3>0, <3>1, <1>1, <1>4, <1>5
      <4> QED
        BY <3>0, <3>1, <4>1, <1>b
    <3>2. CASE j = Len(asks) + 1
      BY <3>0, <3>2, <1>1, <1>5
    <3>3. j \in 1..Len(asks) \/ j = Len(asks) + 1
      BY <1>1, <1>5
    <3> QED
      BY <3>1, <3>2, <3>3
  <2>3. \A r \in 1..Len(replies'), i \in 1..Len(asks') :
          replies'[r].phase = "waiting" /\ replies'[asks'[i]].conn = replies'[r].conn
            => r < asks'[i]
    <3> SUFFICES ASSUME NEW r \in 1..Len(replies'), NEW i \in 1..Len(asks'),
                        replies'[r].phase = "waiting",
                        replies'[asks'[i]].conn = replies'[r].conn
                 PROVE  r < asks'[i]
      OBVIOUS
    <3>0. r \in 1..Len(replies)
      BY <1>1, <1>4, <1>d
    <3>1. CASE i \in 1..Len(asks)
      <4>1. /\ asks'[i] = asks[i] /\ replies'[asks[i]] = replies[asks[i]]
            /\ replies'[r] = replies[r]
        BY <3>0, <3>1, <1>1, <1>4, <1>5
      <4> QED
        BY <3>0, <3>1, <4>1, <1>c
    <3>2. CASE i = Len(asks) + 1
      BY <3>0, <3>2, <1>1, <1>5
    <3> QED
      BY <1>1, <1>5, <3>1, <3>2
  <2> QED
    BY <1>4, <1>5, <2>1, <2>2, <2>3 DEF AsksInv
<1>7. SameConns
  BY <1>1, <1>4 DEF SameConns
<1>8. StillBehind
  <2> SUFFICES ASSUME NEW i \in 1..Len(asks'),
                      NEW n \in 1..Len(said[replies'[asks'[i]].conn])
               PROVE  said[replies'[asks'[i]].conn][n].reply <= asks'[i]
    BY DEF StillBehind
  <2>1. CASE i \in 1..Len(asks)
    BY <2>1, <1>1, <1>4, <1>5 DEF Behind
  <2>2. CASE i = Len(asks) + 1
    <3>1. asks'[i] = k /\ replies'[k].conn = c
      BY <2>2, <1>4, <1>5, <1>d
    <3>2. said[c] \in Seq(SaidRec) /\ n \in 1..Len(said[c])
      BY <3>1 DEF SaidInv
    <3>3. said[c][n].reply \in Nat
      BY <3>2, SaidReply
    <3>4. said[c][n].reply > 0 => said[c][n].reply \in 1..Len(replies)
      BY <3>2 DEF Attributed
    <3> QED
      BY <1>1, <3>1, <3>3, <3>4
  <2> QED
    BY <1>1, <1>5, <2>1, <2>2
<1> QED
  BY <1>6, <1>7, <1>8

\* A mark, with the line of asks kept (shift 0) or its head gone (shift 1).
LEMMA MarkedAsks ==
    ASSUME AsksInv, Behind, NEW r \in 1..Len(replies), NEW p, Marked(r, p),
           asks' \in Seq(Nat), NEW shift \in {0, 1},
           \A i \in 1..Len(asks') : i + shift \in 1..Len(asks) /\ asks'[i] = asks[i + shift],
           \A i \in 1..Len(asks') : asks'[i] = r => p \in {"ask", "again"},
           p = "waiting" => \A i \in 1..Len(asks') :
                              replies[asks'[i]].conn = replies[r].conn => r < asks'[i]
    PROVE  AsksInv' /\ SameConns /\ StillBehind
<1>1. /\ replies' \in Seq(ReplyRec)
      /\ Len(replies') = Len(replies)
      /\ replies \in Seq(ReplyRec)
      /\ Len(replies) \in Nat
  BY DEF Marked, AsksInv
<1>2. \A q \in 1..Len(replies) : /\ replies'[q].conn = replies[q].conn
                                 /\ q # r => replies'[q] = replies[q]
  BY DEF Marked
<1>3. replies'[r].phase = p
  BY DEF Marked
<1>4. \A i \in 1..Len(asks') : asks'[i] \in 1..Len(replies)
  BY DEF AsksInv
<1>5. \A i \in 1..Len(asks') : replies'[asks'[i]].phase \in {"ask", "again"}
  <2> SUFFICES ASSUME NEW i \in 1..Len(asks')
               PROVE  replies'[asks'[i]].phase \in {"ask", "again"}
    OBVIOUS
  <2>1. CASE asks'[i] = r
    BY <1>3, <2>1
  <2>2. CASE asks'[i] # r
    <3>1. replies'[asks'[i]] = replies[asks[i + shift]]
      BY <1>2, <1>4, <2>2
    <3>2. replies[asks[i + shift]].phase \in {"ask", "again"}
      BY DEF AsksInv
    <3> QED
      BY <3>1, <3>2
  <2> QED
    BY <2>1, <2>2
<1>6. \A i, j \in 1..Len(asks') :
        i < j /\ replies'[asks'[i]].conn = replies'[asks'[j]].conn => asks'[i] < asks'[j]
  <2> SUFFICES ASSUME NEW i \in 1..Len(asks'), NEW j \in 1..Len(asks'), i < j,
                      replies'[asks'[i]].conn = replies'[asks'[j]].conn
               PROVE  asks'[i] < asks'[j]
    OBVIOUS
  <2>1. replies[asks[i + shift]].conn = replies[asks[j + shift]].conn
    BY <1>2, <1>4
  <2>2. i + shift < j + shift
    OBVIOUS
  <2>3. asks[i + shift] < asks[j + shift]
    BY <2>1, <2>2 DEF AsksInv
  <2> QED
    BY <2>3
<1>7. \A q \in 1..Len(replies'), i \in 1..Len(asks') :
        replies'[q].phase = "waiting" /\ replies'[asks'[i]].conn = replies'[q].conn
          => q < asks'[i]
  <2> SUFFICES ASSUME NEW q \in 1..Len(replies), NEW i \in 1..Len(asks'),
                      replies'[q].phase = "waiting",
                      replies'[asks'[i]].conn = replies'[q].conn
               PROVE  q < asks'[i]
    BY <1>1
  <2>1. replies[asks'[i]].conn = replies[q].conn
    BY <1>2, <1>4
  <2>2. CASE q = r
    BY <1>3, <2>1, <2>2
  <2>3. CASE q # r
    <3>1. replies[q].phase = "waiting"
      BY <1>2, <2>3
    <3>2. q < asks[i + shift]
      BY <2>1, <3>1 DEF AsksInv
    <3> QED
      BY <3>2
  <2> QED
    BY <2>2, <2>3
<1>8. AsksInv'
  BY <1>1, <1>4, <1>5, <1>6, <1>7 DEF AsksInv
<1>9. SameConns
  BY <1>1, <1>2 DEF SameConns
<1>10. StillBehind
  <2> SUFFICES ASSUME NEW i \in 1..Len(asks'),
                      NEW n \in 1..Len(said[replies'[asks'[i]].conn])
               PROVE  said[replies'[asks'[i]].conn][n].reply <= asks'[i]
    BY DEF StillBehind
  <2>1. replies'[asks'[i]].conn = replies[asks[i + shift]].conn
    BY <1>2, <1>4
  <2>2. said[replies[asks[i + shift]].conn][n].reply <= asks[i + shift]
    BY <2>1 DEF Behind
  <2> QED
    BY <2>1, <2>2
<1> QED
  BY <1>8, <1>9, <1>10

\* The asks behind the head are not the head's, and newer if of its connection.
LEMMA HeadIsOldest ==
    ASSUME AsksInv, asks # <<>>
    PROVE  /\ Head(asks) = asks[1]
           /\ Head(asks) \in 1..Len(replies)
           /\ Head(asks) \in Nat
           /\ replies[Head(asks)].phase \in {"ask", "again"}
           /\ replies[Head(asks)].conn \in Conns
           /\ Tail(asks) \in Seq(Nat)
           /\ \A i \in 1..Len(Tail(asks)) : /\ i + 1 \in 1..Len(asks)
                                            /\ Tail(asks)[i] = asks[i + 1]
                                            /\ Tail(asks)[i] # Head(asks)
                                            /\ replies[Tail(asks)[i]].conn = replies[Head(asks)].conn
                                                 => Head(asks) < Tail(asks)[i]
<1>1. asks \in Seq(Nat) /\ Len(asks) \in Nat /\ Len(asks) # 0
  BY DEF AsksInv
<1>2. Head(asks) = asks[1] /\ 1 \in 1..Len(asks)
  BY <1>1
<1>3. /\ Head(asks) \in 1..Len(replies)
      /\ Head(asks) \in Nat
      /\ replies[Head(asks)].phase \in {"ask", "again"}
      /\ replies \in Seq(ReplyRec)
  BY <1>2 DEF AsksInv
<1>4. /\ Tail(asks) \in Seq(Nat)
      /\ \A i \in 1..Len(Tail(asks)) : i + 1 \in 1..Len(asks) /\ Tail(asks)[i] = asks[i + 1]
  BY <1>1
<1>5. ASSUME NEW i \in 1..Len(Tail(asks)),
             replies[Tail(asks)[i]].conn = replies[Head(asks)].conn
      PROVE  Head(asks) < Tail(asks)[i]
  <2>1. 1 < i + 1 /\ i + 1 \in 1..Len(asks)
    BY <1>4
  <2>2. replies[asks[1]].conn = replies[asks[i + 1]].conn
    BY <1>2, <1>4, <1>5
  <2>3. asks[1] < asks[i + 1]
    BY <1>2, <2>1, <2>2 DEF AsksInv
  <2> QED
    BY <1>2, <1>4, <2>3
<1>6. \A i \in 1..Len(Tail(asks)) : Tail(asks)[i] # Head(asks)
  BY <1>3, <1>5
<1>7. replies[Head(asks)].conn \in Conns
  BY <1>3, AskedReply
<1> QED
  BY <1>2, <1>3, <1>4, <1>5, <1>6, <1>7

-----------------------------------------------------------------------------
\* A step of the delivery that says nothing keeps the invariant.
LEMMA SilentKeeps ==
    ASSUME VoiceInv, AsksInv', SameConns, StillBehind, SameSaid, MouthInv'
    PROVE  VoiceInv'
<1>1. Attributed' /\ Behind' /\ RepliesInOrder'
  BY KeepsOrder DEF VoiceInv
<1>2. SaidInv'
  BY DEF SameSaid
<1> QED
  BY <1>1, <1>2 DEF VoiceInv

\* So does one that says a segment of the reply whose turn it is.
LEMMA SayKeeps ==
    ASSUME VoiceInv, AsksInv', SameConns, StillBehind,
           NEW c \in Conns, NEW r \in Nat, NEW forced \in BOOLEAN, Say(c, r, forced),
           r > 0 => /\ r \in 1..Len(replies)
                    /\ replies[r].conn = c
                    /\ \A n \in 1..Len(said[c]) : said[c][n].reply <= r
                    /\ \A i \in 1..Len(asks') : replies'[asks'[i]].conn = c => r <= asks'[i]
    PROVE  VoiceInv'
<1>1. (SameSaid \/ OneMoreSaid(c, r)) /\ MouthInv'
  BY SaySays DEF VoiceInv
<1>2. CASE SameSaid
  BY <1>1, <1>2, SilentKeeps
<1>3. CASE OneMoreSaid(c, r)
  <2>1. SaidInv /\ Attributed /\ RepliesInOrder /\ AsksInv
    BY DEF VoiceInv
  <2>2. Attributed' /\ Behind' /\ RepliesInOrder'
    BY <1>3, <2>1, OneMoreKeepsOrder
  <2>3. SaidInv'
    BY <1>3 DEF OneMoreSaid
  <2> QED
    BY <1>1, <2>2, <2>3 DEF VoiceInv
<1> QED
  BY <1>1, <1>2, <1>3

\* A step that leaves the deliveries alone.
LEMMA NoDelivery ==
    ASSUME VoiceInv, UNCHANGED <<replies, asks>>
    PROVE  AsksInv' /\ SameConns /\ StillBehind
<1>1. AsksInv'
  BY DEF VoiceInv, AsksInv
<1>2. SameConns
  BY DEF SameConns, VoiceInv, AsksInv
<1>3. StillBehind
  BY DEF StillBehind, VoiceInv, Behind
<1> QED
  BY <1>1, <1>2, <1>3

\* What leaves the speech path alone says the same.
LEMMA UnchangedSpeech ==
    ASSUME VoiceInv, UNCHANGED speakVars
    PROVE  SameSaid /\ MouthInv'
<1>1. UNCHANGED <<said, epoch, loop, mouth>>
  BY DEF speakVars
<1>2. SameSaid
  BY <1>1, SameSaidIfUnchanged DEF VoiceInv, SaidInv
<1>3. MouthInv'
  BY <1>1 DEF VoiceInv, MouthInv
<1> QED
  BY <1>2, <1>3

\* A reply starts, or a hold-up.
LEMMA StartKeeps ==
    ASSUME VoiceInv, NEW c \in Conns, StartReply(c) \/ HoldUp(c)
    PROVE  VoiceInv'
<1>1. Started(c, TRUE) \/ Started(c, FALSE)
  BY DEF StartReply, HoldUp
<1>2. AsksInv' /\ SameConns /\ StillBehind
  BY <1>1, StartedKeeps DEF VoiceInv
<1>3. CASE StartReply(c)
  BY <1>2, <1>3, UnchangedSpeech, SilentKeeps DEF StartReply
<1>4. CASE HoldUp(c)
  <2>1. Kill(c)
    BY <1>4 DEF HoldUp
  <2>2. SameSaid /\ MouthInv'
    BY <2>1, KillKeeps DEF VoiceInv
  <2> QED
    BY <1>2, <2>2, SilentKeeps
<1> QED
  BY <1>3, <1>4

\* The ask in flight is the oldest of its connection: its record may be said.
LEMMA RecordKeeps ==
    ASSUME VoiceInv, Record
    PROVE  VoiceInv'
<1> DEFINE h == Head(asks)
           c == replies[h].conn
<1>0. AsksInv /\ Behind /\ asks # <<>> /\ asks \in Seq(Nat) /\ replies \in Seq(ReplyRec)
  BY DEF VoiceInv, AsksInv, Record
<1>1. /\ h = asks[1]
      /\ h \in 1..Len(replies)
      /\ h \in Nat
      /\ replies[h].phase \in {"ask", "again"}
      /\ c \in Conns
  BY <1>0, HeadIsOldest
<1>2. Marked(h, replies[h].phase)
  BY <1>0, <1>1, SpokeMarks DEF Record
<1>3. asks' = asks /\ Say(c, h, TRUE)
  BY DEF Record
<1>4. AsksInv' /\ SameConns /\ StillBehind
  <2>1. \A i \in 1..Len(asks') : i + 0 \in 1..Len(asks) /\ asks'[i] = asks[i + 0]
    BY <1>0, <1>3
  <2>2. asks' \in Seq(Nat) /\ 0 \in {0, 1}
    BY <1>0, <1>3
  <2>3. replies[h].phase # "waiting"
    BY <1>1
  <2> HIDE DEF h
  <2> QED
    BY <1>0, <1>1, <1>2, <2>1, <2>2, <2>3, MarkedAsks
<1>5. \A n \in 1..Len(said[c]) : said[c][n].reply <= h
  <2>1. 1 \in 1..Len(asks)
    BY <1>0
  <2> QED
    BY <1>0, <1>1, <2>1 DEF Behind
<1>6. ASSUME NEW i \in 1..Len(asks'), replies'[asks'[i]].conn = c
      PROVE  h <= asks'[i]
  <2>1. i \in 1..Len(asks) /\ asks'[i] = asks[i]
    BY <1>3
  <2>2. asks[i] \in 1..Len(replies) /\ asks[i] \in Nat
    BY <1>0, <2>1 DEF AsksInv
  <2>3. replies[asks[i]].conn = replies[asks[1]].conn
    BY <1>1, <1>2, <1>6, <2>1, <2>2 DEF Marked
  <2>4. CASE i = 1
    BY <1>1, <2>1, <2>4
  <2>5. CASE i # 1
    <3>1. 1 \in 1..Len(asks) /\ 1 < i
      BY <2>1, <2>5
    <3>2. asks[1] < asks[i]
      BY <1>0, <2>1, <2>3, <3>1 DEF AsksInv
    <3> QED
      BY <1>1, <2>1, <2>2, <3>2
  <2> QED
    BY <2>4, <2>5
<1> HIDE DEF h, c
<1>7. c = replies[h].conn
  BY DEF c
<1> QED
  BY <1>1, <1>3, <1>4, <1>5, <1>6, <1>7, SayKeeps

\* So may the raw body of the reply, when its ask ends.
LEMMA AskEndsKeeps ==
    ASSUME VoiceInv, NEW answered \in BOOLEAN, AskEnds(answered)
    PROVE  VoiceInv'
<1> DEFINE h == Head(asks)
           c == replies[h].conn
<1>0. AsksInv /\ Behind /\ asks # <<>> /\ asks \in Seq(Nat) /\ replies \in Seq(ReplyRec)
  BY DEF VoiceInv, AsksInv, AskEnds
<1>1. /\ h = asks[1]
      /\ h \in 1..Len(replies)
      /\ h \in Nat
      /\ c \in Conns
      /\ asks' \in Seq(Nat)
      /\ \A i \in 1..Len(asks') : /\ i + 1 \in 1..Len(asks)
                                  /\ asks'[i] = asks[i + 1]
                                  /\ asks'[i] # h
                                  /\ replies[asks'[i]].conn = c => h < asks'[i]
  <2>1. asks' = Tail(asks)
    BY DEF AskEnds
  <2> QED
    BY <1>0, <2>1, HeadIsOldest
<1>2. PICK p \in {"done", "waiting"} : Marked(h, p)
  <2>1. SetPhase(h, "done") \/ SetPhase(h, "waiting")
    BY DEF AskEnds
  <2> HIDE DEF h
  <2> QED
    BY <1>0, <1>1, <2>1, PhaseMarks
<1>3. Say(c, h, TRUE) \/ UNCHANGED speakVars
  BY DEF AskEnds
<1> HIDE DEF h
<1>4. AsksInv' /\ SameConns /\ StillBehind
  <2>1. 1 \in {0, 1}
    OBVIOUS
  <2> QED
    BY <1>0, <1>1, <1>2, <2>1, MarkedAsks
<1>5. \A n \in 1..Len(said[c]) : said[c][n].reply <= h
  <2>1. 1 \in 1..Len(asks)
    BY <1>0
  <2> QED
    BY <1>0, <1>1, <2>1 DEF Behind
<1>6. ASSUME NEW i \in 1..Len(asks'), replies'[asks'[i]].conn = c
      PROVE  h <= asks'[i]
  <2>1. asks'[i] \in 1..Len(replies') /\ asks'[i] \in Nat /\ Len(replies') = Len(replies)
    BY <1>2, <1>4 DEF AsksInv, Marked
  <2>2. replies[asks'[i]].conn = c
    BY <1>2, <1>6, <2>1 DEF Marked
  <2>3. h < asks'[i]
    BY <1>1, <2>2
  <2> QED
    BY <1>1, <2>1, <2>3
<1>7. CASE UNCHANGED speakVars
  BY <1>4, <1>7, UnchangedSpeech, SilentKeeps
<1>8. CASE Say(c, h, TRUE)
  <2>1. c = replies[h].conn
    OBVIOUS
  <2> HIDE DEF c
  <2> QED
    BY <1>1, <1>4, <1>5, <1>6, <1>8, <2>1, SayKeeps
<1> QED
  BY <1>3, <1>7, <1>8

\* A reply goes back to the line only if it is the latest of its connection.
LEMMA RedeliverKeeps ==
    ASSUME VoiceInv, NEW r \in DOMAIN replies, Redeliver(r)
    PROVE  VoiceInv'
<1>0. /\ AsksInv /\ Behind /\ Attributed /\ SaidInv
      /\ asks \in Seq(Nat) /\ replies \in Seq(ReplyRec)
      /\ r \in 1..Len(replies)
      /\ r \in Nat
  BY DEF VoiceInv, AsksInv
<1>1. Latest(r) /\ replies[r].phase = "waiting" /\ UNCHANGED speakVars /\ asks' = Append(asks, r)
  BY DEF Redeliver
<1>2. Marked(r, "again")
  BY <1>0, PhaseMarks DEF Redeliver
<1>3. /\ replies' \in Seq(ReplyRec)
      /\ Len(replies') = Len(replies)
      /\ replies'[r].phase = "again"
      /\ \A q \in 1..Len(replies) : /\ replies'[q].conn = replies[q].conn
                                    /\ q # r => replies'[q] = replies[q]
  BY <1>2 DEF Marked
<1>4. /\ asks' \in Seq(Nat)
      /\ Len(asks') = Len(asks) + 1
      /\ \A i \in 1..Len(asks) : asks'[i] = asks[i]
      /\ asks'[Len(asks) + 1] = r
  BY <1>0, <1>1
<1>5. \A i \in 1..Len(asks') : i \in 1..Len(asks) \/ i = Len(asks) + 1
  BY <1>0, <1>4
<1>6. \A i \in 1..Len(asks) : /\ asks[i] \in 1..Len(replies)
                              /\ asks[i] # r
                              /\ replies'[asks[i]] = replies[asks[i]]
  BY <1>0, <1>1, <1>3 DEF AsksInv
\* Nothing of that connection is in the line: it would be newer than r, and r is the latest.
<1>7. \A i \in 1..Len(asks) : replies[asks[i]].conn # replies[r].conn
  <2> SUFFICES ASSUME NEW i \in 1..Len(asks), replies[asks[i]].conn = replies[r].conn
               PROVE  FALSE
    OBVIOUS
  <2>1. r < asks[i]
    BY <1>0, <1>1 DEF AsksInv
  <2>2. asks[i] \in DOMAIN replies
    BY <1>0, <1>6
  <2>3. asks[i] <= r
    BY <1>1, <2>2 DEF Latest
  <2> QED
    BY <1>0, <1>6, <2>1, <2>3
<1>8. AsksInv'
  <2>1. \A i \in 1..Len(asks') : /\ asks'[i] \in 1..Len(replies')
                                 /\ replies'[asks'[i]].phase \in {"ask", "again"}
    <3> SUFFICES ASSUME NEW i \in 1..Len(asks')
                 PROVE  /\ asks'[i] \in 1..Len(replies')
                        /\ replies'[asks'[i]].phase \in {"ask", "again"}
      OBVIOUS
    <3>1. CASE i \in 1..Len(asks)
      <4>1. replies[asks[i]].phase \in {"ask", "again"}
        BY <1>0, <3>1 DEF AsksInv
      <4> QED
        BY <1>3, <1>4, <1>6, <3>1, <4>1
    <3>2. CASE i = Len(asks) + 1
      BY <1>0, <1>3, <1>4, <3>2
    <3> QED
      BY <1>5, <3>1, <3>2
  <2>2. \A i, j \in 1..Len(asks') :
          i < j /\ replies'[asks'[i]].conn = replies'[asks'[j]].conn => asks'[i] < asks'[j]
    <3> SUFFICES ASSUME NEW i \in 1..Len(asks'), NEW j \in 1..Len(asks'), i < j,
                        replies'[asks'[i]].conn = replies'[asks'[j]].conn
                 PROVE  asks'[i] < asks'[j]
      OBVIOUS
    <3>0. i \in 1..Len(asks)
      BY <1>0, <1>4
    <3>1. CASE j \in 1..Len(asks)
      <4>1. /\ asks'[i] = asks[i] /\ replies'[asks[i]] = replies[asks[i]]
            /\ asks'[j] = asks[j] /\ replies'[asks[j]] = replies[asks[j]]
        BY <1>4, <1>6, <3>0, <3>1
      <4>2. replies[asks[i]].conn = replies[asks[j]].conn
        BY <4>1
      <4>3. asks[i] < asks[j]
        BY <1>0, <3>0, <3>1, <4>2 DEF AsksInv
      <4> QED
        BY <4>1, <4>3
    <3>2. CASE j = Len(asks) + 1
      BY <1>0, <1>3, <1>4, <1>6, <1>7, <3>0, <3>2, SMTT(30)
    <3> QED
      BY <1>5, <3>1, <3>2
  <2>3. \A q \in 1..Len(replies'), i \in 1..Len(asks') :
          replies'[q].phase = "waiting" /\ replies'[asks'[i]].conn = replies'[q].conn
            => q < asks'[i]
    <3> SUFFICES ASSUME NEW q \in 1..Len(replies), NEW i \in 1..Len(asks'),
                        replies'[q].phase = "waiting",
                        replies'[asks'[i]].conn = replies'[q].conn
                 PROVE  q < asks'[i]
      BY <1>3
    <3>0. q # r /\ replies'[q] = replies[q]
      BY <1>3
    <3>1. CASE i \in 1..Len(asks)
      <4>1. asks'[i] = asks[i] /\ replies'[asks[i]] = replies[asks[i]]
        BY <1>4, <1>6, <3>1
      <4>2. replies[q].phase = "waiting" /\ replies[asks[i]].conn = replies[q].conn
        BY <3>0, <4>1
      <4>3. q < asks[i]
        BY <1>0, <3>1, <4>2 DEF AsksInv
      <4> QED
        BY <4>1, <4>3
    <3>2. CASE i = Len(asks) + 1
      <4>1. asks'[i] = r /\ replies[q].conn = replies[r].conn
        BY <1>0, <1>3, <1>4, <3>2
      <4>2. q \in DOMAIN replies
        BY <1>0
      <4>3. q <= r
        BY <1>1, <4>1, <4>2 DEF Latest
      <4> QED
        BY <1>0, <3>0, <4>1, <4>3
    <3> QED
      BY <1>5, <3>1, <3>2
  <2> QED
    BY <1>3, <1>4, <2>1, <2>2, <2>3 DEF AsksInv
<1>9. SameConns
  BY <1>0, <1>3 DEF SameConns
<1>10. StillBehind
  <2> SUFFICES ASSUME NEW i \in 1..Len(asks'),
                      NEW n \in 1..Len(said[replies'[asks'[i]].conn])
               PROVE  said[replies'[asks'[i]].conn][n].reply <= asks'[i]
    BY DEF StillBehind
  <2>1. CASE i \in 1..Len(asks)
    BY <1>0, <1>4, <1>6, <2>1 DEF Behind
  <2>2. CASE i = Len(asks) + 1
    <3>1. asks'[i] = r /\ replies'[asks'[i]].conn = replies[r].conn
      BY <1>0, <1>3, <1>4, <2>2
    <3> QED
      BY <1>0, <1>1, <3>1, SaidIsOlder
  <2> QED
    BY <1>5, <2>1, <2>2
<1> QED
  BY <1>1, <1>8, <1>9, <1>10, UnchangedSpeech, SilentKeeps

\* And only then is its raw body said when the wait is given up.
LEMMA StopWaitingKeeps ==
    ASSUME VoiceInv, NEW r \in DOMAIN replies, StopWaiting(r)
    PROVE  VoiceInv'
<1>0. /\ AsksInv /\ Behind /\ Attributed /\ SaidInv
      /\ asks \in Seq(Nat) /\ replies \in Seq(ReplyRec)
      /\ r \in 1..Len(replies)
      /\ r \in Nat
      /\ replies[r].conn \in Conns
  <2>1. replies \in Seq(ReplyRec)
    BY DEF VoiceInv, AsksInv
  <2> QED
    BY <2>1, AskedReply DEF VoiceInv, AsksInv
<1>1. replies[r].phase = "waiting" /\ asks' = asks
  BY DEF StopWaiting
<1>2. Marked(r, "done")
  BY <1>0, PhaseMarks DEF StopWaiting
<1>3. \A i \in 1..Len(asks') : asks'[i] # r
  BY <1>0, <1>1 DEF AsksInv
<1>4. AsksInv' /\ SameConns /\ StillBehind
  <2>1. \A i \in 1..Len(asks') : i + 0 \in 1..Len(asks) /\ asks'[i] = asks[i + 0]
    BY <1>0, <1>1
  <2>2. asks' \in Seq(Nat) /\ 0 \in {0, 1}
    BY <1>0, <1>1
  <2> QED
    BY <1>0, <1>2, <1>3, <2>1, <2>2, MarkedAsks, SMTT(30)
<1>5. CASE UNCHANGED speakVars
  BY <1>4, <1>5, UnchangedSpeech, SilentKeeps
<1>6. CASE Latest(r) /\ Say(replies[r].conn, r, TRUE)
  <2>1. \A n \in 1..Len(said[replies[r].conn]) : said[replies[r].conn][n].reply <= r
    BY <1>0, <1>6, SaidIsOlder
  <2>2. \A i \in 1..Len(asks') : replies'[asks'[i]].conn = replies[r].conn => r <= asks'[i]
    <3> SUFFICES ASSUME NEW i \in 1..Len(asks), replies'[asks[i]].conn = replies[r].conn
                 PROVE  r <= asks[i]
      BY <1>1
    <3>1. asks[i] \in 1..Len(replies) /\ asks[i] \in Nat
      BY <1>0 DEF AsksInv
    <3>2. replies[asks[i]].conn = replies[r].conn
      BY <1>2, <3>1 DEF Marked
    <3>3. r < asks[i]
      BY <1>0, <1>1, <3>2 DEF AsksInv
    <3> QED
      BY <1>0, <3>1, <3>3
  <2> QED
    BY <1>0, <1>4, <1>6, <2>1, <2>2, SayKeeps
<1> QED
  BY <1>5, <1>6 DEF StopWaiting

-----------------------------------------------------------------------------
(* The theorems. *)

\* Nothing is said and nothing asked.
LEMMA VoiceInit == Init => VoiceInv
<1> SUFFICES ASSUME Init
             PROVE  VoiceInv
  OBVIOUS
<1>1. /\ said = [c \in Conns |-> <<>>]
      /\ epoch = [c \in Conns |-> 0]
      /\ loop = [c \in Conns |-> "idle"]
      /\ mouth = NoConn
      /\ replies = <<>>
      /\ asks = <<>>
  BY DEF Init, SpeakInit
<1>2. MouthInv
  BY <1>1, NoConnAssumption DEF MouthInv
<1>3. SaidInv
  BY <1>1 DEF SaidInv
<1>4. AsksInv
  BY <1>1 DEF AsksInv
<1>5. Attributed /\ Behind /\ RepliesInOrder
  BY <1>1 DEF Attributed, Behind, RepliesInOrder
<1> QED
  BY <1>2, <1>3, <1>4, <1>5 DEF VoiceInv

\* Every step of the delivery and the speech path keeps the invariant.
LEMMA VoiceStep == VoiceInv /\ [Next]_vars => VoiceInv'
<1> SUFFICES ASSUME VoiceInv, [Next]_vars
             PROVE  VoiceInv'
  OBVIOUS
<1>1. ASSUME NEW c \in Conns, SpeechStep(c) \/ Operator(c), UNCHANGED deliveryVars
      PROVE  VoiceInv'
  <2>1. SameSaid /\ MouthInv'
    BY <1>1, SpeechStepKeeps, OperatorKeeps DEF VoiceInv
  <2>2. UNCHANGED <<replies, asks>>
    BY <1>1 DEF deliveryVars
  <2> QED
    BY <2>1, <2>2, NoDelivery, SilentKeeps
<1>2. ASSUME NEW c \in Conns, Fault(c), UNCHANGED <<replies, asks>>
      PROVE  VoiceInv'
  <2>1. SameSaid /\ MouthInv'
    BY <1>2, FaultKeeps DEF VoiceInv, Fault
  <2> QED
    BY <1>2, <2>1, NoDelivery, SilentKeeps
<1>3. ASSUME NEW c \in Bound, StartReply(c) \/ HoldUp(c)
      PROVE  VoiceInv'
  BY <1>3, BoundAssumption, StartKeeps
<1>4. ASSUME NEW c \in Conns, SayDirect(c)
      PROVE  VoiceInv'
  <2>1. Say(c, 0, FALSE) /\ UNCHANGED <<replies, asks>>
    BY <1>4 DEF SayDirect
  <2>2. AsksInv' /\ SameConns /\ StillBehind
    BY <2>1, NoDelivery
  <2>3. 0 \in Nat /\ FALSE \in BOOLEAN /\ ~(0 > 0)
    OBVIOUS
  <2> QED
    BY ONLY <2>1, <2>2, <2>3, VoiceInv, SayKeeps
<1>5. CASE UNCHANGED vars
  <2>1. UNCHANGED speakVars /\ UNCHANGED <<replies, asks>>
    BY <1>5 DEF vars, deliveryVars
  <2> QED
    BY <2>1, NoDelivery, UnchangedSpeech, SilentKeeps
<1> QED
  BY <1>1, <1>2, <1>3, <1>4, <1>5, RecordKeeps, AskEndsKeeps, RedeliverKeeps,
     StopWaitingKeeps DEF Next, Deliver

\* The mouth, the line of asks and what was said keep the invariant of the
\* proofs, whatever the connections, replies, barges and faults.
THEOREM VoiceInvHolds == Spec => []VoiceInv
<1>1. Init => VoiceInv
  BY VoiceInit
<1>2. VoiceInv /\ [Next]_vars => VoiceInv'
  BY VoiceStep
<1> QED
  BY <1>1, <1>2, PTL DEF Spec

\* One stream is in flight at most, and the mouth is held exactly while it is
\* (voice-mouth.ts: "two TTS streams are structurally impossible").
THEOREM VoiceOneMouth == Spec => []OneMouth
<1>1. VoiceInv => OneMouth
  BY DEF VoiceInv, MouthInv, OneMouth
<1> QED
  BY <1>1, VoiceInvHolds, PTL

\* A connection never speaks an older reply after a newer one.
THEOREM VoiceRepliesInOrder == Spec => []RepliesInOrder
<1>1. VoiceInv => RepliesInOrder
  BY DEF VoiceInv
<1> QED
  BY <1>1, VoiceInvHolds, PTL
=============================================================================
