----------------------------- MODULE ArteryFanout -----------------------------
(***************************************************************************)
(* One direction of one stream over several arteries.  Upstream the client *)
(* numbers its frames from 1, the OPEN, and DispatchFrame puts each on the *)
(* arteries the scheduler picks, passing over a path that is congested or  *)
(* fails.  Downstream the combiner numbers its chunks from 0 and puts each *)
(* on all its arteries.  Both end with a FIN.  Each artery is a WebSocket, *)
(* first in first out, which may break and lose what it carries and may be *)
(* dialled again; the receiver is the stream of module StreamOps, read by  *)
(* HandleDownstream or by a handler of the combiner.                       *)
(***************************************************************************)
EXTENDS StreamFrames

CONSTANTS
  Arteries,
  Senders,      \* the directions: who may send
  MayFail,      \* the arteries that may break
  MaxReconnects \* how often a broken artery may be dialled again

Fin == [type |-> "FIN", seq |-> MaxSeq + 1]

ASSUME FanoutAssumption ==
  /\ Fin \in Controls
  /\ Senders \subseteq {"client", "combiner"}
  /\ MayFail \subseteq Arteries
  /\ MaxReconnects \in Nat

VARIABLES
  sender,   \* whose frames these are; "quit": the client's, but the OPEN failed
  next,     \* the number of the next frame to send, MaxSeq + 2 at the end
  connected,\* arteries that are up
  line,     \* what each artery carries
  redials,  \* how often each artery was dialled again
  gapped,   \* history: arteries that have gone on without one of the frames
  stream,   \* the receiver
  ended     \* its reader has returned

fanoutVars == <<sender, next, connected, line, redials, gapped, stream, ended>>

\* The number of a sender's first frame, and what it sends before the FIN.
FirstOf(who) == IF who = "combiner" THEN 0 ELSE 1
First == FirstOf(sender)
Chunks == First .. MaxSeq

FanoutInit ==
  /\ sender \in Senders
  /\ next = FirstOf(sender)
  /\ connected = Arteries
  /\ line = [a \in Arteries |-> <<>>]
  /\ redials = [a \in Arteries |-> 0]
  /\ gapped = {}
  /\ stream = NewStream
  /\ ended = FALSE

\* Mutant of Frame: the bytes read together with the end of file are forgotten.
FrameEndsEarly(n) == IF n < MaxSeq THEN Data(n) ELSE Fin

\* What the sender makes of its n-th read: a chunk, or the FIN at the end.
Frame(n) == IF n <= MaxSeq THEN Data(n) ELSE Fin

\* The next frame on some of the arteries; another that is up goes on without it.
PutOn(to) ==
  /\ line' = [a \in Arteries |-> IF a \in to THEN Append(line[a], Frame(next)) ELSE line[a]]
  /\ gapped' = gapped \cup (connected \ to)
  /\ UNCHANGED <<connected, redials, stream, ended>>

\* DispatchFrame: not every artery need be picked, have room and take the frame.
ClientSends ==
  /\ sender = "client" /\ next <= MaxSeq + 1
  /\ next' = next + 1
  /\ \E to \in SUBSET connected : PutOn(to)
  /\ UNCHANGED sender

\* It returns an error for the OPEN, although an artery may have taken it: the
\* client sends no more.
OpenFails ==
  /\ sender = "client" /\ next = 1
  /\ sender' = "quit" /\ next' = 2
  /\ \E to \in SUBSET connected : to # Arteries /\ PutOn(to)


\* sendFrameToAllArteries.
CombinerSends ==
  /\ sender = "combiner" /\ next <= MaxSeq + 1
  /\ next' = next + 1
  /\ PutOn(connected)
  /\ UNCHANGED sender

\* A connection breaks with everything on it.
Break(a) ==
  /\ a \in MayFail \cap connected
  /\ connected' = connected \ {a}
  /\ line' = [line EXCEPT ![a] = <<>>]
  /\ UNCHANGED <<sender, next, redials, gapped, stream, ended>>

\* RunWithAutoReconnect: the artery is back, empty, without what was lost or sent
\* meanwhile.
Redial(a) ==
  /\ a \notin connected
  /\ redials[a] < MaxReconnects
  /\ connected' = connected \cup {a}
  /\ redials' = [redials EXCEPT ![a] = @ + 1]
  /\ gapped' = gapped \cup {a}
  /\ UNCHANGED <<sender, next, line, stream, ended>>

\* The client has opened its stream before it sends the OPEN that creates the
\* combiner's; what comes to the combiner before that is dropped.
Dispatched(f) ==
  IF sender # "combiner" /\ stream = NewStream /\ f # Data(1) THEN stream ELSE Accept(stream, f)

\* The read loop of an artery gives its oldest frame to the stream.
Deliver(a) ==
  /\ line[a] # <<>>
  /\ ~Locked(stream)
  /\ stream' = Dispatched(Head(line[a]))
  /\ line' = [line EXCEPT ![a] = Tail(@)]
  /\ UNCHANGED <<sender, next, connected, redials, gapped, ended>>

DrainBuffer ==
  /\ CanDrain(stream) /\ stream' = DrainStep(stream)
  /\ UNCHANGED <<sender, next, connected, line, redials, gapped, ended>>

EndAccept ==
  /\ CanFinish(stream) /\ stream' = FinishAccept(stream)
  /\ UNCHANGED <<sender, next, connected, line, redials, gapped, ended>>

\* HandleDownstream, or the handler of the combiner, reads the next frame, and
\* returns at a FIN.
HandleDownstream ==
  /\ ~ended
  /\ CanTake(stream)
  /\ stream' = Take(stream)
  /\ ended' = (stream.log[stream.taken + 1].type = "FIN")
  /\ UNCHANGED <<sender, next, connected, line, redials, gapped>>

FanoutNext ==
  \/ ClientSends \/ OpenFails \/ CombinerSends
  \/ \E a \in Arteries : Break(a) \/ Redial(a) \/ Deliver(a)
  \/ DrainBuffer \/ EndAccept \/ HandleDownstream

FanoutSpec == FanoutInit /\ [][FanoutNext]_fanoutVars

\* The read loops keep going; nothing is expected of the two ends, and nothing
\* obliges an artery to break or to come back.
FanoutFairness ==
  /\ \A a \in Arteries : WF_fanoutVars(Deliver(a))
  /\ WF_fanoutVars(DrainBuffer \/ EndAccept)

FairFanoutSpec == FanoutSpec /\ FanoutFairness
-----------------------------------------------------------------------------
Read(n) == \E m \in 1 .. stream.taken : stream.log[m] = Data(n)

\* No artery has gone on without a frame.
Gapless == gapped = {}

\* A clean end is no cut: unless an artery had a gap, which its FIN or a later
\* frame may have carried past the missing ones, the reader has read every frame
\* when it returns at the FIN, but for the chunk numbered 0.
CleanEnd == ended /\ Gapless => \A n \in Chunks \ {0} : Read(n)

\* Redundancy: whatever breaks, what was sent is put into Ordered, by an artery
\* that does not break, unless an artery comes in that has come back with a gap or
\* that the dispatcher has passed over.  (The combiner passes none over.)
Undisturbed == (\A a \in Arteries : redials[a] = 0) /\ (sender = "combiner" \/ Gapless)

\* In both directions, with arteries that pass frames over, break and come back,
\* what is read is read in the order it was sent.
ReadInOrder ==
  \A m, n \in 1 .. stream.taken :
    m < n /\ stream.log[m].type = "DATA" /\ stream.log[n].type = "DATA"
      => stream.log[m].seq < stream.log[n].seq

\* Every chunk of the sender can be received: none is refused by a receiver
\* that has not read it.
NoChunkRefused ==
  \A n \in Chunks :
    (n \in stream.seen /\ n \notin stream.buf) =>
      \E m \in DOMAIN stream.log : stream.log[m] = Data(n)
=============================================================================
