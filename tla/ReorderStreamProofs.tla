------------------------- MODULE ReorderStreamProofs -------------------------
(***************************************************************************)
(* Proofs about ReorderStream for every ReorderCap, number of frames,      *)
(* number of copies and set of control frames.                             *)
(***************************************************************************)
EXTENDS ReorderStream, StreamProofs

USE DEF Seqs

\* The channel is closed behind a closed stream.
CloseInOrder ==
  /\ closing # "no" => stream.state = "CLOSED"
  /\ ~stream.open <=> closing = "done"

IInv ==
  /\ Good(stream)
  /\ net \in [Frames -> 0 .. Copies]
  /\ closing \in {"no", "marked", "done"}
  /\ CloseInOrder

LEMMA InitIInv == Init => IInv
<1> SUFFICES ASSUME Init PROVE IInv
  OBVIOUS
<1>1. net \in [Frames -> 0 .. Copies]
  BY CopiesAssumption DEF Init
<1>2. CloseInOrder
  BY DEF Init, NewStream, CloseInOrder
<1> QED BY NewStreamGood, <1>1, <1>2 DEF Init, IInv

\* One fact per action: the invariant, the step of the log, and what happens
\* to a terminal stream.
Advances == IInv' /\ LogStep(stream, stream')
            /\ (Terminal(stream) =>
                  Terminal(stream') /\ (Reads(stream, stream') \/ Quiet(stream, stream')))

LEMMA ArriveStep == ASSUME IInv, NEW f \in Frames, Arrive(f) PROVE Advances
<1>1. Good(stream) /\ ~Locked(stream) /\ net \in [Frames -> 0 .. Copies] /\ net[f] > 0
      /\ net' = [net EXCEPT ![f] = @ - 1] /\ closing' = closing
      /\ closing \in {"no", "marked", "done"} /\ CloseInOrder
      /\ stream' = Accept(stream, f)
  BY DEF IInv, Arrive
<1>2. Good(stream') /\ LogStep(stream, stream') /\ stream'.open = stream.open
      /\ (Terminal(stream) => stream' = stream)
  BY <1>1, AcceptGood
<1>3. net' \in [Frames -> 0 .. Copies]
  BY <1>1, CopiesAssumption
<1>4. CloseInOrder'
  BY <1>1, <1>2 DEF CloseInOrder, Terminal
<1>5. Terminal(stream) => Quiet(stream, stream')
  BY <1>2, QuietSame
<1> QED BY <1>1, <1>2, <1>3, <1>4, <1>5 DEF Advances, IInv

LEMMA DrainKeeps == ASSUME IInv, Drain PROVE Advances
<1>1. Good(stream) /\ Locked(stream) /\ CloseInOrder /\ UNCHANGED <<net, closing>>
      /\ ~Terminal(stream) /\ CanDrain(stream) /\ stream' = DrainStep(stream)
  BY DEF IInv, Drain, CanDrain, Good, LockedInService
<1>2. Good(stream') /\ LogStep(stream, stream') /\ stream'.open = stream.open
      /\ stream'.state = stream.state
  BY <1>1, DrainGood
<1>3. CloseInOrder'
  BY <1>1, <1>2 DEF CloseInOrder
<1> QED BY <1>1, <1>2, <1>3 DEF Advances, IInv

LEMMA FinishStep == ASSUME IInv, Finish PROVE Advances
<1>1. Good(stream) /\ Locked(stream) /\ CloseInOrder /\ UNCHANGED <<net, closing>>
      /\ ~Terminal(stream) /\ CanFinish(stream) /\ stream' = FinishAccept(stream)
  BY DEF IInv, Finish, CanFinish, Good, LockedInService
<1>2. Good(stream') /\ LogStep(stream, stream') /\ stream'.open = stream.open
  BY <1>1, FinishGood
<1>3. CloseInOrder'
  BY <1>1, <1>2 DEF CloseInOrder, Terminal
<1> QED BY <1>1, <1>2, <1>3 DEF Advances, IInv

LEMMA ConsumeStep == ASSUME IInv, Consume PROVE Advances
<1>1. Good(stream) /\ CloseInOrder /\ UNCHANGED <<net, closing>>
      /\ CanTake(stream) /\ stream' = Take(stream)
  BY DEF IInv, Consume
<1>2. Good(stream') /\ LogStep(stream, stream') /\ stream'.open = stream.open
      /\ stream'.state = stream.state
  BY <1>1, TakeGood
<1>3. Reads(stream, stream')
  <2>1. stream \in Streams /\ stream.taken \in Nat /\ Len(stream.log) \in Nat
    BY <1>1 DEF Good, Streams
  <2> QED BY <1>1, <2>1 DEF CanTake, PendingDelivery, Take, Reads, Streams
<1>4. CloseInOrder'
  BY <1>1, <1>2 DEF CloseInOrder
<1> QED BY <1>1, <1>2, <1>3, <1>4 DEF Advances, IInv, Terminal

LEMMA CloseStep == ASSUME IInv, CloseMark \/ CloseChannel PROVE Advances
<1>1. Good(stream) /\ CloseInOrder /\ net' = net
  BY DEF IInv, CloseMark, CloseChannel
<1>2. CASE CloseMark
  <2>1. Good(stream') /\ Quiet(stream, stream') /\ stream'.open = stream.open
        /\ stream'.state = "CLOSED"
    BY <1>1, <1>2, CloseGood DEF CloseMark
  <2>2. CloseInOrder' /\ closing' \in {"no", "marked", "done"}
    BY <1>1, <1>2, <2>1 DEF CloseInOrder, CloseMark
  <2> QED BY <1>1, <2>1, <2>2 DEF Advances, IInv, Terminal, LogStep
<1>3. CASE CloseChannel
  <2>1. Good(stream') /\ Quiet(stream, stream') /\ stream'.open = FALSE
        /\ stream'.state = stream.state
    BY <1>1, <1>3, CloseGood DEF CloseChannel
  <2>2. CloseInOrder' /\ closing' \in {"no", "marked", "done"}
    BY <1>1, <1>3, <2>1 DEF CloseInOrder, CloseChannel
  <2> QED BY <1>1, <2>1, <2>2 DEF Advances, IInv, Terminal, LogStep
<1> QED BY <1>2, <1>3

LEMMA NextStep == IInv /\ [Next]_vars => Advances
<1> SUFFICES ASSUME IInv, [Next]_vars PROVE Advances
  OBVIOUS
<1>1. CASE UNCHANGED vars
  <2>1. LogStep(stream, stream') /\ Quiet(stream, stream')
    BY <1>1, QuietSame DEF vars, LogStep
  <2>2. IInv'
    BY <1>1 DEF vars, IInv, CloseInOrder
  <2> QED BY <1>1, <2>1, <2>2 DEF vars, Advances
<1> QED BY <1>1, ArriveStep, DrainKeeps, FinishStep, ConsumeStep, CloseStep DEF Next

THEOREM Inductive == Spec => []IInv
<1>1. IInv /\ [Next]_vars => IInv'
  BY NextStep DEF Advances
<1> QED BY InitIInv, <1>1, PTL DEF Spec

-----------------------------------------------------------------------------
(* What follows from the invariant. *)

\* Every reachable state is well formed (NewStream, Accept, Close).
THEOREM TypeCorrect == Spec => []TypeOK
<1>1. IInv => TypeOK
  BY DEF IInv, Good, TypeOK
<1> QED BY Inductive, <1>1, PTL

\* Whatever the arteries do, Ordered carries the frames in sequence order, none
\* of them twice (the two duplicate checks and the reorder buffer of Accept).
THEOREM DeliversInOrderOnce == Spec => []InOrderOnce
<1>1. IInv => InOrderOnce
  BY DEF IInv, Good, Ledger, InOrder, InOrderOnce
<1> QED BY Inductive, <1>1, PTL

\* NextSeq is an exact account of what was delivered, dropped or buffered.
THEOREM Accounting == Spec => []NextSeqAccounts
<1>1. IInv => NextSeqAccounts
  BY DEF IInv, Good, Ledger, Complete, Ahead, NextSeqAccounts, Delivered
<1> QED BY Inductive, <1>1, PTL

\* drainReorderBuf leaves no deliverable frame behind.
THEOREM NoneStranded == Spec => []NothingStranded
<1>1. IInv => NothingStranded
  BY DEF IInv, Good, Ahead, NothingStranded
<1> QED BY Inductive, <1>1, PTL

\* Accept never sends on the closed channel.
THEOREM NoSendAfterClose == Spec => SendsOnOpenChannel
<1>1. IInv /\ [Next]_vars => [stream'.log # stream.log => stream.open]_vars
  <2> SUFFICES ASSUME IInv, [Next]_vars, ~stream.open PROVE stream'.log = stream.log
    BY DEF IInv, Good, Streams
  <2>1. Terminal(stream)
    BY DEF IInv, CloseInOrder, Terminal
  <2> QED BY <2>1, NextStep DEF Advances, Reads, Quiet
<1> QED BY Inductive, <1>1, PTL DEF Spec, SendsOnOpenChannel

\* A stream that is reset or closed stays so.
THEOREM TerminalStays == Spec => TerminalIsFinal
<1>1. IInv /\ [Next]_vars => [Terminal(stream) => /\ Terminal(stream')
                                                /\ stream'.nextSeq = stream.nextSeq
                                                /\ stream'.log = stream.log]_vars
  BY NextStep DEF Advances, Reads, Quiet
<1> QED BY Inductive, <1>1, PTL DEF Spec, TerminalIsFinal

\* The stream implements the ordered pipe that may skip frames.
THEOREM ImplementsPipe == Spec => RefinesPipe
<1>1. Init => Pipe!InitPipe
  BY DEF Init, NewStream, Pipe!InitPipe
<1>2. IInv /\ [Next]_vars => [Pipe!NextPipe]_Pipe!pipe
  <2> SUFFICES ASSUME IInv, [Next]_vars PROVE [Pipe!NextPipe]_Pipe!pipe
    OBVIOUS
  <2>1. LogStep(stream, stream')
    BY NextStep DEF Advances
  <2> QED BY <2>1 DEF LogStep, Emits, Signals, Puts, Reads, Quiet, Data, Pipe!NextPipe,
               Pipe!pipe, Pipe!PutNext, Pipe!Skip, Pipe!PutControl, Pipe!Read
<1> QED BY Inductive, <1>1, <1>2, PTL DEF Spec, RefinesPipe, Pipe!PipeSpec

-----------------------------------------------------------------------------
(* A stream whose frames fit in Ordered. *)

LEMMA FitsStep == Sized /\ IInv /\ Fits(stream) /\ [Next]_vars => Fits(stream')
<1> SUFFICES ASSUME Sized, IInv, Fits(stream), [Next]_vars PROVE Fits(stream')
  OBVIOUS
<1>1. Advances
  BY NextStep
<1>2. stream \in Streams /\ stream' \in Streams
  BY <1>1 DEF Advances, IInv, Good
<1> QED BY <1>1, <1>2, FitsKept DEF Advances

LEMMA FitsAlways == Spec /\ Sized => []Fits(stream) /\ []Sized
<1>1. Init => Fits(stream)
  BY DEF Init, NewStream, Fits, Rank
<1>2. Sized /\ IInv /\ Fits(stream) /\ [Next]_vars => Fits(stream)'
  BY FitsStep
<1>3. Sized /\ [Next]_vars => Sized'
  BY DEF Sized
<1> QED BY Inductive, <1>1, <1>2, <1>3, PTL DEF Spec

\* deliverLocked never drops a frame in sequence when reorderCap has room for
\* the whole stream and one FIN: nothing is lost.
THEOREM SizedStreamLosesNothing == Spec /\ Sized => []NothingLost
<1>1. Fits(stream) => NothingLost
  BY DEF Fits, NothingLost
<1> QED BY FitsAlways, <1>1, PTL

\* ... so that the stream is then a reliable pipe.
THEOREM SizedStreamIsReliable == Spec /\ Sized => RefinesReliable
<1>1. Init => Reliable!InitPipe
  BY DEF Init, NewStream, Reliable!InitPipe
<1>2. Sized /\ IInv /\ Fits(stream) /\ [Next]_vars => [Reliable!NextPipe]_Reliable!pipe
  <2> SUFFICES ASSUME Sized, IInv, Fits(stream), [Next]_vars
               PROVE  [Reliable!NextPipe]_Reliable!pipe
    OBVIOUS
  <2>1. Advances /\ stream \in Streams /\ stream' \in Streams
    BY NextStep DEF Advances, IInv, Good
  <2>2. ~Terminal(stream) /\ stream.nextSeq \in Seqs => Room(stream)
    BY <2>1, FitsKept DEF Advances
  <2>3. CASE Reads(stream, stream') \/ Quiet(stream, stream')
    BY <2>3 DEF Reads, Quiet, Reliable!NextPipe, Reliable!pipe, Reliable!Read
  <2>4. CASE Emits(stream, stream') /\ Room(stream)
    BY <2>4 DEF Emits, Data, Reliable!NextPipe, Reliable!PutNext
  <2>5. CASE Signals(stream, stream')
    BY <2>5 DEF Signals, Puts, Reliable!NextPipe, Reliable!PutControl, Reliable!pipe
  <2> QED BY <2>1, <2>2, <2>3, <2>4, <2>5 DEF Advances, LogStep, Emits
<1> QED BY Inductive, FitsAlways, <1>1, <1>2, PTL
           DEF Spec, RefinesReliable, Reliable!PipeSpec

=============================================================================
