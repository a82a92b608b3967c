------------------------------ MODULE SpeakQueue ------------------------------
(***************************************************************************)
(* The speech path of the daemon: each voice connection has a speak         *)
(* controller (voice/lex-voice-speak-controller.ts) that plays its segments  *)
(* one at a time, all controllers share the single mouth                     *)
(* (voice/voice-mouth.ts, the haiku tier on), and the socket handlers of     *)
(* voice/lex-voice-ws.ts barge, hold the push-to-talk floor, hand the        *)
(* interrupted segments to the next inject and tear the connection down.     *)
(*                                                                         *)
(* JavaScript runs a promise chain to its end before it takes the next      *)
(* event.  A drain loop that has control is in state "next", and every       *)
(* other action waits until no loop is (Quiet).                              *)
(***************************************************************************)
EXTENDS Naturals, Sequences, FiniteSetsExt

CONSTANTS Conns,     \* voice connections
          NoConn,    \* the mouth is free
          MaxSaid    \* bound: segments said

ASSUME NoConnAssumption == NoConn \notin Conns

VARIABLES
  queue,        \* [Conns -> Seq(Nat)]: ttsQueue, segments by number
  loop,         \* the drain loop: "idle", "next", "wait" (25 ms) or "play"
  ctx,          \* the stream in flight: "none", "active", "cancelled" (killed), "detached" (teardown)
  text,         \* currentTtsText: a segment number, or 0
  chain,        \* partialChain
  chainBroken,  \* chainBroken of the controller
  floor,        \* pttFloorHeld
  closed,       \* state.closed
  mouth,        \* holder of the single mouth
  said,         \* history: what was pushed, [reply, epoch, cont, fate]
  epoch,        \* history: barges so far
  starts,       \* history: segments whose stream started, in order
  told          \* history: interrupted segments an inject has carried

speakVars == <<queue, loop, ctx, text, chain, chainBroken, floor, closed,
               mouth, said, epoch, starts, told>>

Fates == {"waiting", "playing", "ended", "cut", "failed"}

SpeakType ==
  /\ queue \in [Conns -> Seq(Nat \ {0})]
  /\ loop \in [Conns -> {"idle", "next", "wait", "play"}]
  /\ ctx \in [Conns -> {"none", "active", "cancelled", "detached"}]
  /\ text \in [Conns -> Nat]
  /\ chain \in [Conns -> Seq(Nat)]
  /\ chainBroken \in [Conns -> BOOLEAN]
  /\ floor \in [Conns -> BOOLEAN]
  /\ closed \in [Conns -> BOOLEAN]
  /\ mouth \in Conns \cup {NoConn}
  /\ said \in [Conns -> Seq([reply: Nat, epoch: Nat, cont: BOOLEAN, fate: Fates])]
  /\ epoch \in [Conns -> Nat]
  /\ starts \in [Conns -> Seq(Nat)]
  /\ told \in [Conns -> SUBSET Nat]
  /\ \A c \in Conns : ctx[c] # "none" <=> loop[c] = "play"

SpeakInit ==
  /\ queue = [c \in Conns |-> <<>>]
  /\ loop = [c \in Conns |-> "idle"]
  /\ ctx = [c \in Conns |-> "none"]
  /\ text = [c \in Conns |-> 0]
  /\ chain = [c \in Conns |-> <<>>]
  /\ chainBroken = [c \in Conns |-> FALSE]
  /\ floor = [c \in Conns |-> FALSE]
  /\ closed = [c \in Conns |-> FALSE]
  /\ mouth = NoConn
  /\ said = [c \in Conns |-> <<>>]
  /\ epoch = [c \in Conns |-> 0]
  /\ starts = [c \in Conns |-> <<>>]
  /\ told = [c \in Conns |-> {}]

Quiet == \A c \in Conns : loop[c] # "next"

SetFate(c, n, f) == said' = [said EXCEPT ![c][n].fate = f]

-----------------------------------------------------------------------------
(* speak of the socket, then speak of the controller: the segment is dropped
   on a closed socket or under the push-to-talk floor, and otherwise pushed;
   an idle loop starts draining in the same turn of the event loop. *)

Dropped(c) == closed[c] \/ floor[c]

\* mutant: a barge does not break the chain
Continues_IgnoresBarge(c, forced) ==
  forced \/ loop[c] # "idle" \/ queue[c] # <<>>

\* A segment that joins an active drain chains onto the audio ahead of it, but
\* never across a barge.
Continues(c, forced) ==
  ~chainBroken[c] /\ (forced \/ loop[c] # "idle" \/ queue[c] # <<>>)

Push(c, r, forced) ==
  LET cont == Continues(c, forced)
  IN /\ MapThenSumSet(LAMBDA d : Len(said[d]), Conns) < MaxSaid
     /\ said' = [said EXCEPT ![c] = Append(@,
                  [reply |-> r, epoch |-> epoch[c], cont |-> cont, fate |-> "waiting"])]
     /\ queue' = [queue EXCEPT ![c] = Append(@, Len(said[c]) + 1)]
     /\ chainBroken' = [chainBroken EXCEPT ![c] = cont /\ @]
     /\ loop' = [loop EXCEPT ![c] = IF @ = "idle" THEN "next" ELSE @]
     /\ UNCHANGED <<ctx, text, chain, floor, closed, mouth, epoch, starts, told>>

Say(c, r, forced) ==
  IF Dropped(c) THEN UNCHANGED speakVars ELSE Push(c, r, forced)

-----------------------------------------------------------------------------
(* runQueue and speakOne. *)

DrainEmpty(c) ==
  /\ loop[c] = "next"
  /\ queue[c] = <<>>
  /\ loop' = [loop EXCEPT ![c] = "idle"]
  /\ UNCHANGED <<queue, ctx, text, chain, chainBroken, floor, closed, mouth,
                 said, epoch, starts, told>>

\* mutant: a connection waits only for its own stream
MouthBusy_OwnOnly(c) == mouth = c

MouthBusy(c) == mouth # NoConn

\* mutant: the segment is not put back
Requeued_Lost(q) == Tail(q)

\* The mouth is held elsewhere: the segment goes back to the front of the queue.
Requeued(q) == <<Head(q)>> \o Tail(q)

Defer(c) ==
  /\ loop[c] = "next"
  /\ queue[c] # <<>>
  /\ MouthBusy(c)
  /\ queue' = [queue EXCEPT ![c] = Requeued(@)]
  /\ loop' = [loop EXCEPT ![c] = "wait"]
  /\ UNCHANGED <<ctx, text, chain, chainBroken, floor, closed, mouth, said,
                 epoch, starts, told>>

\* synthesize throws: the grant is released and the loop goes on.
SynthFails(c) ==
  /\ loop[c] = "next"
  /\ queue[c] # <<>>
  /\ ~MouthBusy(c)
  /\ queue' = [queue EXCEPT ![c] = Tail(@)]
  /\ SetFate(c, Head(queue[c]), "failed")
  /\ UNCHANGED <<loop, ctx, text, chain, chainBroken, floor, closed, mouth,
                 epoch, starts, told>>

StartStream(c) ==
  /\ loop[c] = "next"
  /\ queue[c] # <<>>
  /\ ~MouthBusy(c)
  /\ mouth' = c
  /\ queue' = [queue EXCEPT ![c] = Tail(@)]
  /\ loop' = [loop EXCEPT ![c] = "play"]
  /\ ctx' = [ctx EXCEPT ![c] = "active"]
  /\ text' = [text EXCEPT ![c] = Head(queue[c])]
  /\ SetFate(c, Head(queue[c]), "playing")
  /\ starts' = [starts EXCEPT ![c] = Append(@, Head(queue[c]))]
  /\ UNCHANGED <<chain, chainBroken, floor, closed, epoch, told>>

\* The timer of a deferred segment fires.  A retry that finds the mouth still held
\* leaves everything as it was, so a retry is a step when the mouth is free or a
\* barge has emptied the queue.
Retry(c) ==
  /\ Quiet
  /\ loop[c] = "wait"
  /\ ~MouthBusy(c) \/ queue[c] = <<>>
  /\ loop' = [loop EXCEPT ![c] = "next"]
  /\ UNCHANGED <<queue, ctx, text, chain, chainBroken, floor, closed, mouth,
                 said, epoch, starts, told>>

Playing(c) == starts[c][Len(starts[c])]

\* The pcm stream is drained ('end').  A cancelled stream only gives the slot
\* back; a stream that ended by itself is no longer the text in delivery.
StreamEnd(c) ==
  /\ Quiet
  /\ loop[c] = "play"
  /\ loop' = [loop EXCEPT ![c] = "next"]
  /\ mouth' = NoConn
  /\ ctx' = [ctx EXCEPT ![c] = "none"]
  /\ IF ctx[c] = "cancelled"
     THEN UNCHANGED <<text, said>>
     ELSE /\ text' = [text EXCEPT ![c] = 0]
          /\ SetFate(c, Playing(c), "ended")
  /\ UNCHANGED <<queue, chain, chainBroken, floor, closed, epoch, starts, told>>

\* mutants: the error path keeps the grant; it keeps the context
StreamError_KeepsMouth(c) ==
  /\ Quiet
  /\ loop[c] = "play"
  /\ loop' = [loop EXCEPT ![c] = "next"]
  /\ ctx' = [ctx EXCEPT ![c] = "none"]
  /\ IF ctx[c] = "cancelled"
     THEN UNCHANGED said
     ELSE SetFate(c, Playing(c), "failed")
  /\ UNCHANGED <<queue, text, chain, chainBroken, floor, closed, mouth, epoch, starts, told>>

\* The pcm stream fails: the context goes, currentTtsText stays as it was.
StreamError(c) ==
  /\ Quiet
  /\ loop[c] = "play"
  /\ loop' = [loop EXCEPT ![c] = "next"]
  /\ mouth' = NoConn
  /\ ctx' = [ctx EXCEPT ![c] = "none"]
  /\ IF ctx[c] = "cancelled"
     THEN UNCHANGED said
     ELSE SetFate(c, Playing(c), "failed")
  /\ UNCHANGED <<queue, text, chain, chainBroken, floor, closed, epoch, starts, told>>

-----------------------------------------------------------------------------
(* The socket's handlers. *)

\* killActive: the queue is cleared whatever plays; a stream in flight is
\* cancelled and its text joins the partial chain.
Kill(c) ==
  /\ epoch' = [epoch EXCEPT ![c] = @ + 1]
  /\ queue' = [queue EXCEPT ![c] = <<>>]
  /\ chainBroken' = [chainBroken EXCEPT ![c] = TRUE]
  /\ IF ctx[c] = "active"
     THEN /\ ctx' = [ctx EXCEPT ![c] = "cancelled"]
          /\ SetFate(c, Playing(c), "cut")
          /\ chain' = [chain EXCEPT ![c] = IF text[c] # 0 THEN Append(@, text[c]) ELSE @]
          /\ text' = [text EXCEPT ![c] = 0]
     ELSE UNCHANGED <<ctx, said, chain, text>>
  /\ UNCHANGED <<loop, closed, mouth, starts, told>>

\* vad-onset, asr words, barge-in and hold-up: the speech is killed.
Barge(c) ==
  /\ Quiet
  /\ ~closed[c]
  /\ Kill(c)
  /\ UNCHANGED floor

\* utterance-start: the operator takes the floor, and the speech is killed.
PttDown(c) ==
  /\ Quiet
  /\ ~closed[c]
  /\ ~floor[c]
  /\ floor' = [floor EXCEPT ![c] = TRUE]
  /\ Kill(c)

\* utterance-end.
PttUp(c) ==
  /\ Quiet
  /\ ~closed[c]
  /\ floor[c]
  /\ floor' = [floor EXCEPT ![c] = FALSE]
  /\ UNCHANGED <<queue, loop, ctx, text, chain, chainBroken, closed, mouth,
                 said, epoch, starts, told>>

\* mutant: the chain is consumed whether or not the inject went through
Inject_Consumes(c, ok) ==
  /\ Quiet
  /\ chain[c] # <<>>
  /\ chain' = [chain EXCEPT ![c] = <<>>]
  /\ told' = [told EXCEPT ![c] =
                IF ok THEN @ \cup {chain[c][i] : i \in DOMAIN chain[c]} ELSE @]
  /\ UNCHANGED <<queue, loop, ctx, text, chainBroken, floor, closed, mouth,
                 said, epoch, starts>>

\* The next user turn goes to the PTY with the partial chain ahead of it; the
\* chain is consumed only when the inject succeeded.
Inject(c, ok) ==
  /\ Quiet
  /\ chain[c] # <<>>
  /\ chain' = [chain EXCEPT ![c] = IF ok THEN <<>> ELSE @]
  /\ told' = [told EXCEPT ![c] =
                IF ok THEN @ \cup {chain[c][i] : i \in DOMAIN chain[c]} ELSE @]
  /\ UNCHANGED <<queue, loop, ctx, text, chainBroken, floor, closed, mouth,
                 said, epoch, starts>>

\* teardown on ws-close: the stream is cancelled without its flag, the queue
\* is left to drain onto the closed socket.
Close(c) ==
  /\ Quiet
  /\ ~closed[c]
  /\ closed' = [closed EXCEPT ![c] = TRUE]
  /\ ctx' = [ctx EXCEPT ![c] = IF @ = "active" THEN "detached" ELSE @]
  /\ UNCHANGED <<queue, loop, text, chain, chainBroken, floor, mouth, said,
                 epoch, starts, told>>

-----------------------------------------------------------------------------
(* Properties of the speech path. *)

\* At most one stream is in flight across the connections, and the mouth is
\* held exactly by the connection that plays it: a barge, a teardown, a failed
\* synthesis or a stream error neither frees the mouth early nor keeps it.
OneMouth ==
  /\ \A c, d \in Conns : loop[c] = "play" /\ loop[d] = "play" => c = d
  /\ \A c \in Conns : mouth = c <=> loop[c] = "play"

\* Segments play in the order they were said, whatever deferrals, retries and
\* barges came between; none is played twice; and one that is neither played
\* nor failed is still queued unless a barge came after it.
SpokenInOrder ==
  \A c \in Conns :
    LET line == starts[c] \o queue[c]
    IN /\ \A i, j \in DOMAIN line : i < j => line[i] < line[j]
       /\ \A n \in DOMAIN said[c] :
            said[c][n].fate = "waiting" =>
              \/ \E i \in DOMAIN queue[c] : queue[c][i] = n
              \/ said[c][n].epoch < epoch[c]

\* A barge is a boundary: nothing said before it is queued after it, the first
\* segment said after it opens a new run of audio, and while the operator holds
\* the floor nothing plays and nothing is queued.
BargeIsABoundary ==
  \A c \in Conns :
    /\ \A i \in DOMAIN queue[c] : said[c][queue[c][i]].epoch = epoch[c]
    /\ \A n \in DOMAIN said[c] :
         said[c][n].cont /\ said[c][n].epoch > 0 =>
           \E m \in 1..(n - 1) : said[c][m].epoch = said[c][n].epoch
    /\ floor[c] => queue[c] = <<>> /\ ctx[c] \in {"none", "cancelled"}

\* The partial chain holds the replies that were cut and not yet told to the
\* brain, each once: no segment that ended or failed is reported as cut, and no
\* cut is lost by a failed inject or told twice.
CutToldOnce ==
  \A c \in Conns :
    LET owed == {chain[c][i] : i \in DOMAIN chain[c]}
    IN /\ owed \cup told[c] = {n \in DOMAIN said[c] : said[c][n].fate = "cut"}
       /\ owed \cap told[c] = {}
       /\ \A i, j \in DOMAIN chain[c] : chain[c][i] = chain[c][j] => i = j

\* Every queued segment leaves its queue: the mouth comes round to it.
QueuesDrain == \A c \in Conns : queue[c] # <<>> ~> queue[c] = <<>>
=============================================================================
