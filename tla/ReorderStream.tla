---------------------------- MODULE ReorderStream ----------------------------
(***************************************************************************)
(* The receiving end of one stream: the arteries bring copies of its       *)
(* frames in any order and each copy is given to Stream.Accept, one        *)
(* consumer receives from Ordered, and the owner may Close the stream.     *)
(***************************************************************************)
EXTENDS StreamFrames

CONSTANTS
  Copies,     \* copies of each frame the arteries may deliver
  Closes      \* whether the owner calls Close

ASSUME CopiesAssumption == Copies \in Nat
ASSUME ClosesAssumption == Closes \in BOOLEAN

VARIABLES
  stream,   \* the stream
  net,      \* copies of each frame still on the arteries
  closing   \* progress of Close: "no", "marked", "done"

vars == <<stream, net, closing>>

Init ==
  /\ stream = NewStream
  /\ net = [f \in Frames |-> Copies]
  /\ closing = "no"

\* A read loop hands a copy of f to Accept, which waits for s.mu.
Arrive(f) ==
  /\ net[f] > 0
  /\ ~Locked(stream)
  /\ net' = [net EXCEPT ![f] = @ - 1]
  /\ stream' = Accept(stream, f)
  /\ UNCHANGED closing

Drain ==
  /\ CanDrain(stream)
  /\ stream' = DrainStep(stream)
  /\ UNCHANGED <<net, closing>>

Finish ==
  /\ CanFinish(stream)
  /\ stream' = FinishAccept(stream)
  /\ UNCHANGED <<net, closing>>

Consume ==
  /\ CanTake(stream)
  /\ stream' = Take(stream)
  /\ UNCHANGED <<net, closing>>

\* Mutant of CloseMark: the state is set without s.mu.
CloseMarkUnlocked ==
  /\ Closes
  /\ closing = "no"
  /\ stream' = MarkClosed(stream)
  /\ closing' = "marked"
  /\ UNCHANGED net

CloseMark ==
  /\ Closes
  /\ closing = "no"
  /\ ~Locked(stream)
  /\ stream' = MarkClosed(stream)
  /\ closing' = "marked"
  /\ UNCHANGED net

CloseChannel ==
  /\ closing = "marked"
  /\ stream' = CloseOrdered(stream)
  /\ closing' = "done"
  /\ UNCHANGED net

Next ==
  \/ \E f \in Frames : Arrive(f)
  \/ Drain
  \/ Finish
  \/ Consume
  \/ CloseMark
  \/ CloseChannel

Spec == Init /\ [][Next]_vars

\* Every artery's read loop, the Accept that holds the lock and the consumer
\* keep running.
Fairness ==
  /\ \A f \in Frames : WF_vars(Arrive(f))
  /\ WF_vars(Drain)
  /\ WF_vars(Finish)
  /\ WF_vars(Consume)

FairSpec == Spec /\ Fairness
-----------------------------------------------------------------------------
Delivered(i) == \E n \in DOMAIN stream.log : stream.log[n] = Data(i)

\* The state of the stream, of the arteries and of Close.
TypeOK ==
  /\ stream \in Streams
  /\ net \in [Frames -> 0 .. Copies]
  /\ closing \in {"no", "marked", "done"}

\* However the copies arrive, the consumer reads the OPEN and DATA frames in
\* sequence order and none of them twice (Accept's two duplicate checks).
InOrderOnce ==
  \A m, n \in DOMAIN stream.log :
    m < n /\ stream.log[m].type = "DATA" /\ stream.log[n].type = "DATA"
      => stream.log[m].seq < stream.log[n].seq

\* NextSeq is an exact account: a frame is below it if and only if it was put
\* on Ordered or dropped there because the channel was full, and a buffered
\* frame is neither.
NextSeqAccounts ==
  \A i \in Seqs :
    /\ i < stream.nextSeq <=> (Delivered(i) \/ i \in stream.lost)
    /\ i \in stream.buf => i >= stream.nextSeq

\* When Accept returns, the frame expected next is not left behind in the
\* reorder buffer: a buffered frame always waits for a missing one
\* (drainReorderBuf runs to the end before s.mu is released).
NothingStranded == ~Locked(stream) => stream.nextSeq \notin stream.buf

\* deliverLocked never sends on Ordered after Close closed it, which would
\* panic in the read loop of an artery.
SendsOnOpenChannel == [][stream'.log # stream.log => stream.open]_vars

\* A stream that was reset or closed stays so: no late FIN, copy or drain
\* reopens it or moves its sequence.
TerminalIsFinal ==
  [][Terminal(stream) => /\ Terminal(stream')
                         /\ stream'.nextSeq = stream.nextSeq
                         /\ stream'.log = stream.log]_vars

\* No frame in sequence is ever dropped on the way to the consumer
\* ("this shouldn't happen with proper sizing", deliverLocked).
NothingLost == stream.lost = {}

-----------------------------------------------------------------------------
(* The stream as the pipe it promises to be. *)
Pipe == INSTANCE OrderedPipe WITH
          Last <- MaxSeq, Control <- Controls, Lossy <- TRUE,
          next <- stream.nextSeq, out <- stream.log, read <- stream.taken

Reliable == INSTANCE OrderedPipe WITH
          Last <- MaxSeq, Control <- Controls, Lossy <- FALSE,
          next <- stream.nextSeq, out <- stream.log, read <- stream.taken

\* Whatever the arteries do, the consumer sees an ordered pipe that at worst
\* skips frames.
RefinesPipe == Pipe!PipeSpec

\* A stream whose frames all fit in Ordered is a reliable pipe.
RefinesReliable == Reliable!PipeSpec
=============================================================================
