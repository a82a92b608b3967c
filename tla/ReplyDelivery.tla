---------------------------- MODULE ReplyDelivery ----------------------------
(***************************************************************************)
(* How a reply of the brain reaches the speak queue: speakViaBrain of        *)
(* voice/lex-voice-ws.ts asks the voice brain to deliver the body            *)
(* (voiceLexReply, voice/voice-top-layer.ts), speaks each record of the       *)
(* answer as it streams in, falls back to the raw body on a miss and         *)
(* delivers again, once, when the stream was cut.  The voice brain is one     *)
(* PTY: the asks of all connections go through one FIFO                      *)
(* (lex/voice-brain-session.ts).  Composed with SpeakQueue.                  *)
(***************************************************************************)
EXTENDS SpeakQueue

CONSTANTS Bound,        \* the connections bound to a session that replies
          MaxReplies,   \* bound: replies started
          MaxBarges,    \* bound: barges and floor holds
          MaxFaults     \* bound: failed syntheses and streams, sockets lost

ASSUME BoundAssumption == Bound \subseteq Conns
ASSUME FaultsAssumption == MaxFaults \in Nat

VARIABLES
  replies,   \* Seq of [conn, fallback, phase, spoke]
  asks,      \* queueTail: the replies whose ask is queued, the head in flight
  faults     \* history: failures so far

deliveryVars == <<replies, asks, faults>>
vars == <<speakVars, deliveryVars>>

\* Types, and two links between the parts: a context is in flight exactly while
\* its loop plays, and the line of asks holds exactly the replies that wait for
\* an answer, each once.
TypeOK ==
  /\ SpeakType
  /\ replies \in Seq([conn: Conns, fallback: BOOLEAN, spoke: BOOLEAN,
                      phase: {"ask", "waiting", "again", "done"}])
  /\ asks \in Seq(DOMAIN replies)
  /\ faults \in 0..MaxFaults
  /\ \A r \in DOMAIN replies :
       Cardinality({i \in DOMAIN asks : asks[i] = r}) =
         IF replies[r].phase \in {"ask", "again"} THEN 1 ELSE 0

Init ==
  /\ SpeakInit
  /\ replies = <<>>
  /\ asks = <<>>
  /\ faults = 0

Barges == MapThenSumSet(LAMBDA c : epoch[c], Conns)

\* mutant: a newer reply does not supersede a pending redelivery
Latest_Always(r) == r \in DOMAIN replies

\* deliverySeq = seq: no newer reply was started on the connection.
Latest(r) == \A q \in DOMAIN replies : replies[q].conn = replies[r].conn => q <= r

SetPhase(r, p) == replies' = [replies EXCEPT ![r].phase = p]

-----------------------------------------------------------------------------

\* speakViaBrain: the reply takes its place in the line of asks.
Started(c, fallback) ==
  /\ Len(replies) < MaxReplies
  /\ replies' = Append(replies, [conn |-> c, fallback |-> fallback, phase |-> "ask",
                                 spoke |-> FALSE])
  /\ asks' = Append(asks, Len(replies) + 1)

\* A text of the brain, mid-turn or at its end.
StartReply(c) ==
  /\ Quiet
  /\ ~closed[c]
  /\ Started(c, TRUE)
  /\ UNCHANGED <<faults, speakVars>>

\* hold_up: the speech is killed and a recap is asked for, with no fallback.
HoldUp(c) ==
  /\ Quiet
  /\ ~closed[c]
  /\ Barges < MaxBarges
  /\ Kill(c)
  /\ Started(c, FALSE)
  /\ UNCHANGED <<faults, floor>>

\* onPartial: a record of the ask in flight is spoken as it lands.
Record ==
  /\ Quiet
  /\ asks # <<>>
  /\ replies' = [replies EXCEPT ![Head(asks)].spoke = TRUE]
  /\ Say(replies[Head(asks)].conn, Head(asks), TRUE)
  /\ UNCHANGED <<asks, faults>>

\* The ask ends.  answered: it closed with a text; otherwise it timed out, died
\* or was refused.
AskEnds(answered) ==
  /\ Quiet
  /\ asks # <<>>
  /\ asks' = Tail(asks)
  /\ LET r == Head(asks)
         c == replies[r].conn
         delivered == answered \/ replies[r].phase = "again" \/ ~replies[r].spoke
         raw == IF replies[r].phase = "ask"
                THEN ~replies[r].spoke /\ replies[r].fallback
                ELSE replies[r].fallback /\ Latest(r)
     IN /\ SetPhase(r, IF delivered THEN "done" ELSE "waiting")
        /\ IF (answered /\ ~replies[r].spoke) \/ (~answered /\ raw)
           THEN Say(c, r, TRUE)
           ELSE UNCHANGED speakVars
  /\ UNCHANGED faults

\* redeliverAfterRespawn, the brain warm again: the body is asked for once more.
Redeliver(r) ==
  /\ Quiet
  /\ replies[r].phase = "waiting"
  /\ ~closed[replies[r].conn]
  /\ Latest(r)
  /\ replies' = [replies EXCEPT ![r].phase = "again", ![r].spoke = FALSE]
  /\ asks' = Append(asks, r)
  /\ UNCHANGED <<faults, speakVars>>

\* The wait finds the socket closed or a newer reply, or its deadline passes.
StopWaiting(r) ==
  /\ Quiet
  /\ replies[r].phase = "waiting"
  /\ SetPhase(r, "done")
  /\ IF replies[r].fallback /\ Latest(r) /\ ~closed[replies[r].conn]
     THEN Say(replies[r].conn, r, TRUE)
     ELSE UNCHANGED speakVars
  /\ UNCHANGED <<asks, faults>>

\* speak without the brain: replay on switch, command feedback.
SayDirect(c) ==
  /\ Quiet
  /\ Say(c, 0, FALSE)
  /\ UNCHANGED <<replies, asks, faults>>

-----------------------------------------------------------------------------

SpeechStep(c) ==
  \/ DrainEmpty(c)
  \/ Defer(c)
  \/ StartStream(c)
  \/ Retry(c)
  \/ StreamEnd(c)

Operator(c) ==
  \/ Barges < MaxBarges /\ Barge(c)
  \/ Barges < MaxBarges /\ PttDown(c)
  \/ PttUp(c)
  \/ \E ok \in BOOLEAN : Inject(c, ok)

Fault(c) ==
  /\ faults < MaxFaults
  /\ faults' = faults + 1
  /\ SynthFails(c) \/ StreamError(c) \/ Close(c)

Deliver ==
  \/ \E c \in Bound : StartReply(c) \/ HoldUp(c)
  \/ \E c \in Conns : SayDirect(c)
  \/ Record
  \/ \E answered \in BOOLEAN : AskEnds(answered)
  \/ \E r \in DOMAIN replies : Redeliver(r) \/ StopWaiting(r)

Next ==
  \/ \E c \in Conns : (SpeechStep(c) \/ Operator(c)) /\ UNCHANGED deliveryVars
  \/ \E c \in Conns : Fault(c) /\ UNCHANGED <<replies, asks>>
  \/ Deliver

\* The event loop runs a promise chain it has begun, a timer fires, a piper
\* process comes to its end.
Fairness ==
  \A c \in Conns :
    /\ WF_vars((DrainEmpty(c) \/ Defer(c) \/ StartStream(c)) /\ UNCHANGED deliveryVars)
    /\ WF_vars(Retry(c) /\ UNCHANGED deliveryVars)
    /\ WF_vars(StreamEnd(c) /\ UNCHANGED deliveryVars)

Spec == Init /\ [][Next]_vars /\ Fairness

-----------------------------------------------------------------------------

\* A connection never goes back to an earlier reply: once a sentence of a reply
\* was said, no sentence of an older one is, although asks of several
\* connections share one queue, a cut reply is delivered again, and the
\* fallback speaks whole bodies ("the operator is never re-read an old reply
\* after the conversation moved on").
RepliesInOrder ==
  \A c \in Conns : \A m, n \in DOMAIN said[c] :
    m < n /\ said[c][m].reply > 0 /\ said[c][n].reply > 0
      => said[c][m].reply <= said[c][n].reply

\* "A barge never resumes": a reply whose speech a barge has cut is not heard
\* again on that connection.
BargeNeverResumes ==
  \A c \in Conns : \A m, n \in DOMAIN said[c] :
    said[c][m].fate = "cut" /\ said[c][n].reply = said[c][m].reply /\ said[c][m].reply > 0
      /\ said[c][n].epoch > said[c][m].epoch
      => said[c][n].fate \in {"waiting", "failed"}
=============================================================================
