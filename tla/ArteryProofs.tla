----------------------------- MODULE ArteryProofs -----------------------------
(***************************************************************************)
(* The arteries.  ArteryFanout: what is read is in order whoever sends,    *)
(* and a clean end without gaps means that everything was read, for any    *)
(* arteries and failures.  ArteryLink: the safety of one artery for any number of       *)
(* connections.                                                            *)
(***************************************************************************)
EXTENDS ArteryLink, ArteryFanout, StreamProofs, FiniteSetTheorems, SequenceTheorems

USE DEF Seqs
-----------------------------------------------------------------------------
(* One direction of a stream over several arteries: the inductive invariant. *)

\* Whatever number the sender begins with, its chunks are DATA and a FIN follows.
FanoutFrames == {Data(n) : n \in 0 .. MaxSeq} \cup {Fin}

FanoutTypeOK ==
  /\ sender \in {"client", "quit", "combiner"}
  /\ next \in First .. MaxSeq + 2
  /\ connected \in SUBSET Arteries
  /\ line \in [Arteries -> Seq(FanoutFrames)]
  /\ redials \in [Arteries -> Nat]
  /\ gapped \in SUBSET Arteries
  /\ Good(stream)
  /\ ended \in BOOLEAN

\* What an artery still carries are the last frames of the sender, and there is
\* nothing on one that is down.
LinesAreTails ==
  \A a \in Arteries :
    LET k == Len(line[a]) IN
    /\ a \notin connected => line[a] = <<>>
    /\ Gapless /\ a \in connected =>
         /\ k <= next - First
         /\ \A i \in 1 .. k : line[a][i] = Frame(next - 1 - k + i)

\* A chunk that the stream has delivered or keeps in its buffer.
Arrived(s, n) == n < s.nextSeq \/ n \in s.buf

\* What an artery has given to the stream has arrived there, and nothing is marked
\* as seen that has not.
GivenHasArrived ==
  /\ \A n \in stream.seen \cap Seqs : Arrived(stream, n)
  /\ Gapless => \A a \in connected, n \in Seqs :
       n < next - Len(line[a]) => Arrived(stream, n)

\* The FIN comes last: when it is accepted all chunks have arrived, when it is
\* delivered all chunks are in front of it.
FinIsLast ==
  Gapless =>
    /\ stream.busy.type = "FIN" => \A n \in Seqs : Arrived(stream, n)
    /\ stream.state # "OPEN" => stream.nextSeq = MaxSeq + 1
    /\ \A m \in DOMAIN stream.log : stream.log[m].type = "FIN" =>
         \A n \in Seqs : \E k \in 1 .. m : stream.log[k] = Data(n)

\* HandleDownstream has returned at a FIN.
EndedAtFin ==
  ended => stream.taken \in DOMAIN stream.log /\ stream.log[stream.taken].type = "FIN"

-----------------------------------------------------------------------------
(* What Accept does with the frames of the sender, beside what StreamProofs says. *)

\* Nothing that has arrived is forgotten, no control frame is delivered, nothing is
\* read and the state stays.
Gains(s, t) ==
  /\ t.state = s.state /\ t.taken = s.taken
  /\ \A i \in Seqs : Arrived(s, i) => Arrived(t, i)
  /\ t.log = s.log \/ \E i \in Seqs : t.log = Append(s.log, Data(i))

\* The buffer of a sized stream is never full.
LEMMA BufferHasRoom ==
  ASSUME Sized, NEW s \in Streams
  PROVE  /\ Cardinality(s.buf) < ReorderCap
         /\ Cardinality(s.buf) \in Int /\ ReorderCap \in Int
<1>1. s.buf \in SUBSET (1 .. MaxSeq)
  BY DEF Streams
<1>2. IsFiniteSet(1 .. MaxSeq) /\ Cardinality(1 .. MaxSeq) = MaxSeq
  BY MaxSeqAssumption, FS_Interval
<1>3. IsFiniteSet(s.buf) /\ Cardinality(s.buf) <= MaxSeq
  BY <1>1, <1>2, FS_Subset
<1>. QED  BY <1>3, FS_CardinalityType, MaxSeqAssumption, ReorderCapAssumption DEF Sized

\* The number 0, with which the combiner begins, is below NextSeq: a late copy.
LEMMA AcceptZero ==
  ASSUME NEW s, Good(s), ~Locked(s)
  PROVE  LET t == Accept(s, Data(0)) IN
         /\ Good(t) /\ Quiet(s, t) /\ Gains(s, t) /\ t.busy = s.busy
         /\ t.buf = s.buf /\ t.nextSeq = s.nextSeq
         /\ t.seen \subseteq s.seen \cup {0}
<1>. DEFINE t == Accept(s, Data(0))
            m == markSeen(s, 0)
<1>1. s \in Streams /\ s.nextSeq \in 1 .. MaxSeq + 1 /\ Ledger(s) /\ Ahead(s) /\ LockedInService(s)
  BY DEF Good, Streams
<1>2. /\ m \in Streams /\ m.state = s.state /\ m.nextSeq = s.nextSeq /\ m.buf = s.buf
      /\ m.log = s.log /\ m.taken = s.taken /\ m.busy = s.busy /\ m.lost = s.lost
      /\ m.seen \subseteq s.seen \cup {0}
  BY <1>1, MaxSeqAssumption DEF markSeen, Streams
<1>3. t = s \/ t = m
  <2>1. Data(0).type = "DATA" /\ Data(0).seq = 0
    BY DEF Data
  <2>2. Reorder(m, Data(0)) = m
    <3>. HIDE DEF m
    <3>1. m.nextSeq \in Int /\ m.nextSeq > 0
      BY <1>1, <1>2
    <3>. QED  BY <2>1, <3>1 DEF Reorder
  <2>3. CASE Terminal(s)
    BY <2>3 DEF Accept
  <2>4. CASE ~Terminal(s)
    <3>1. t = IF 0 \in s.seen THEN s ELSE Reorder(m, Data(0))
      BY <2>1, <2>4 DEF Accept
    <3>. HIDE DEF t, m
    <3>. QED  BY <2>2, <3>1
  <2>. QED  BY <2>3, <2>4
<1>. HIDE DEF t, m
<1>4. /\ t \in Streams /\ t.state = s.state /\ t.nextSeq = s.nextSeq /\ t.buf = s.buf
      /\ t.log = s.log /\ t.taken = s.taken /\ t.busy = s.busy /\ t.lost = s.lost
      /\ t.seen \subseteq s.seen \cup {0}
  BY <1>1, <1>2, <1>3
<1>5. Quiet(s, t)
  BY <1>4, QuietSame
<1>6. Good(t)
  <2>1. Ahead(t) /\ LockedInService(t)
    BY <1>1, <1>4 DEF Ahead, LockedInService, Locked, Terminal
  <2>. QED  BY <1>1, <1>4, <1>5, <2>1, LedgerKept DEF Good, LogStep
<1>. QED  BY <1>4, <1>5, <1>6 DEF t, Gains, Arrived

\* A chunk arrives for good; only chunks are delivered.
LEMMA AcceptChunk ==
  ASSUME Sized, NEW s, Good(s), ~Locked(s), ~Terminal(s), NEW n \in Seqs
  PROVE  LET t == Accept(s, Data(n)) IN
         /\ Gains(s, t)
         /\ t.seen \subseteq s.seen \cup {n}
         /\ n \notin s.seen => Arrived(t, n)
         /\ t.busy \in {NoFrame, Data(n)}
<1>. DEFINE f == Data(n)
            t == Accept(s, f)
            m == markSeen(s, n)
            d == deliverLocked(m, f)
<1>1. s \in Streams /\ s.nextSeq \in Nat /\ n \in Nat /\ s.busy = NoFrame
  BY MaxSeqAssumption DEF Good, Streams, Locked
<1>2. f \in Frames /\ f.type = "DATA" /\ f.seq = n
  BY FrameType
<1>3. /\ m \in Streams /\ m.state = s.state /\ m.nextSeq = s.nextSeq /\ m.buf = s.buf
      /\ m.log = s.log /\ m.busy = s.busy /\ m.taken = s.taken
      /\ m.seen \subseteq s.seen \cup {n}
  <2>1. PICK S \in SUBSET (s.seen \cup {n}) : m = [s EXCEPT !.seen = S]
    BY DEF markSeen
  <2>2. S \in SUBSET (0 .. MaxSeq)
    BY <1>1, <2>1, MaxSeqAssumption DEF Streams
  <2>. HIDE DEF m
  <2>. QED  BY <1>1, <2>1, <2>2 DEF Streams
<1>4. t = IF n \in s.seen THEN s ELSE Reorder(m, f)
  BY <1>2 DEF Accept
<1>. HIDE DEF f, t, m
<1>5. Cardinality(m.buf) < ReorderCap /\ Cardinality(m.buf) \in Int /\ ReorderCap \in Int
  BY <1>3, BufferHasRoom
<1>6. CASE n \in s.seen
  BY <1>1, <1>4, <1>6 DEF Gains, f, t
<1>7. CASE n \notin s.seen /\ n < s.nextSeq
  <2>1. t = m
    BY <1>1, <1>2, <1>3, <1>4, <1>7 DEF Reorder
  <2>. QED  BY <1>1, <1>3, <1>7, <2>1 DEF Gains, Arrived, f, t
<1>8. CASE n \notin s.seen /\ n > s.nextSeq
  <2>1. t = [m EXCEPT !.buf = @ \cup {n}]
    BY <1>1, <1>2, <1>3, <1>4, <1>5, <1>8 DEF Reorder
  <2>2. /\ t.state = s.state /\ t.log = s.log /\ t.busy = s.busy /\ t.seen = m.seen
        /\ t.taken = s.taken /\ t.nextSeq = s.nextSeq /\ t.buf = s.buf \cup {n}
    BY <1>3, <2>1 DEF Streams
  <2>. QED  BY <1>1, <1>3, <2>2 DEF Gains, Arrived, f, t
<1>9. CASE n \notin s.seen /\ n = s.nextSeq
  <2>1. t = DeliverNext(m, f)
    BY <1>1, <1>2, <1>3, <1>4, <1>9 DEF Reorder
  <2>2. /\ d \in Streams /\ d.state = s.state /\ d.nextSeq = s.nextSeq /\ d.buf = s.buf
        /\ d.seen = m.seen /\ d.taken = s.taken
        /\ d.log = Append(s.log, f) \/ d.log = s.log
    <3>1. /\ d \in Streams /\ d.state = m.state /\ d.nextSeq = m.nextSeq /\ d.buf = m.buf
          /\ d.seen = m.seen /\ d.taken = m.taken
          /\ d.log = Append(m.log, f) \/ d.log = m.log
      BY <1>2, <1>3, DeliverFields
    <3>. QED  BY <1>3, <3>1
  <2>3. t = [d EXCEPT !.nextSeq = @ + 1, !.busy = f]
    BY <2>1 DEF DeliverNext
  <2>. HIDE DEF d
  <2>4. /\ t.state = s.state /\ t.nextSeq = s.nextSeq + 1 /\ t.buf = s.buf
        /\ t.seen = m.seen /\ t.log = d.log /\ t.busy = f /\ t.taken = s.taken
    BY <2>2, <2>3 DEF Streams
  <2>. QED  BY <1>1, <1>3, <1>9, <2>2, <2>4 DEF Gains, Arrived, f, t
<1>. QED  BY <1>1, <1>6, <1>7, <1>8, <1>9

\* A turn of the drain delivers a chunk of the buffer.
LEMMA DrainGains ==
  ASSUME NEW s, Good(s), CanDrain(s)
  PROVE  LET t == DrainStep(s) IN
         Gains(s, t) /\ t.seen = s.seen /\ t.busy = s.busy
<1>. DEFINE f == Data(s.nextSeq)
            d == deliverLocked(s, f)
            t == DrainStep(s)
<1>1. s \in Streams /\ s.nextSeq \in Seqs /\ s.nextSeq \in Int
  BY DEF Good, CanDrain, Streams
<1>2. f \in Frames
  BY <1>1, FrameType
<1>3. /\ d \in Streams /\ d.state = s.state /\ d.nextSeq = s.nextSeq /\ d.buf = s.buf
      /\ d.seen = s.seen /\ d.busy = s.busy /\ d.taken = s.taken
      /\ d.log = Append(s.log, f) \/ d.log = s.log
  BY <1>1, <1>2, DeliverFields
<1>4. t = [d EXCEPT !.buf = @ \ {s.nextSeq}, !.nextSeq = @ + 1]
  BY DEF DrainStep
<1>. HIDE DEF t, d
<1>5. /\ t.state = s.state /\ t.nextSeq = s.nextSeq + 1 /\ t.buf = s.buf \ {s.nextSeq}
      /\ t.seen = s.seen /\ t.log = d.log /\ t.busy = s.busy /\ t.taken = s.taken
  BY <1>3, <1>4 DEF Streams
<1>. QED  BY <1>1, <1>3, <1>5 DEF Gains, Arrived, t

-----------------------------------------------------------------------------
(* The receiver of every sender is what StreamProofs says of one stream. *)

LEMMA FirstIs == First \in {0, 1} /\ First \in Int /\ First <= MaxSeq
  BY MaxSeqAssumption DEF First, FirstOf

LEMMA SenderFrames ==
  /\ \A n \in First .. MaxSeq + 1 : Frame(n) \in FanoutFrames
  /\ \A f \in FanoutFrames : f = Data(0) \/ f \in Frames
  /\ Fin \in Frames /\ Fin.type = "FIN"
  /\ \A n \in Nat : Data(n).type = "DATA" /\ Data(n) # Fin
<1>1. Fin.type = "FIN" /\ \A n \in Nat : Data(n).type = "DATA"
  BY DEF Fin, Data
<1>2. Fin \in Frames
  BY FanoutAssumption, FrameType
<1>3. \A n \in First .. MaxSeq + 1 : Frame(n) \in FanoutFrames
  BY FirstIs, MaxSeqAssumption DEF Frame, FanoutFrames
<1>4. \A n \in 0 .. MaxSeq : n = 0 \/ n \in Seqs
  BY MaxSeqAssumption
<1>5. \A f \in FanoutFrames : f = Data(0) \/ f \in Frames
  BY <1>2, <1>4, FrameType DEF FanoutFrames
<1>. QED  BY <1>1, <1>2, <1>3, <1>5

\* The three ways of sending: the next frame goes on some arteries, and on all that
\* are up when no gap is left.
Sends == ClientSends \/ OpenFails \/ CombinerSends

LEMMA SendsNext ==
  ASSUME FanoutTypeOK, Sends
  PROVE  /\ \E to \in SUBSET connected : PutOn(to) /\ (Gapless' => to = connected)
         /\ next \in First .. MaxSeq + 1 /\ next' = next + 1
         /\ First' = First /\ sender' \in {"client", "quit", "combiner"}
         /\ gapped' \in SUBSET Arteries /\ (Gapless' => Gapless)
         /\ UNCHANGED <<connected, redials, stream, ended>>
<1>1. PICK to \in SUBSET connected : PutOn(to)
  BY DEF Sends, ClientSends, OpenFails, CombinerSends
<1>2. Gapless' => to = connected /\ Gapless
  BY <1>1 DEF PutOn, Gapless
<1>3. next \in First .. MaxSeq + 1 /\ next' = next + 1
  BY FirstIs, MaxSeqAssumption
     DEF FanoutTypeOK, Sends, ClientSends, OpenFails, CombinerSends, First, FirstOf
<1>4. First' = First /\ sender' \in {"client", "quit", "combiner"}
  BY DEF FanoutTypeOK, Sends, ClientSends, OpenFails, CombinerSends, First, FirstOf
<1>5. gapped' \in SUBSET Arteries /\ UNCHANGED <<connected, redials, stream, ended>>
  BY <1>1 DEF PutOn, FanoutTypeOK
<1>. QED  BY <1>1, <1>2, <1>3, <1>4, <1>5

Moves ==
  /\ FanoutTypeOK'
  /\ LogStep(stream, stream')
  /\ Terminal(stream) => Reads(stream, stream') \/ Quiet(stream, stream')

LEMMA StartFanout == FanoutInit => FanoutTypeOK
<1>. SUFFICES ASSUME FanoutInit PROVE FanoutTypeOK
  OBVIOUS
<1>1. line \in [Arteries -> Seq(FanoutFrames)] /\ redials \in [Arteries -> Nat]
  BY DEF FanoutInit
<1>2. next \in First .. MaxSeq + 2 /\ sender \in {"client", "quit", "combiner"}
  BY FirstIs, FanoutAssumption, MaxSeqAssumption DEF FanoutInit, First
<1>3. Good(stream)
  BY NewStreamGood DEF FanoutInit
<1>. QED  BY <1>1, <1>2, <1>3 DEF FanoutInit, FanoutTypeOK

\* The sender and the network leave the stream alone.
LEMMA NetworkMoves ==
  ASSUME FanoutTypeOK, Sends \/ \E a \in Arteries : Break(a) \/ Redial(a)
  PROVE  Moves
<1>1. stream' = stream
  BY SendsNext DEF Break, Redial
<1>2. LogStep(stream, stream') /\ Quiet(stream, stream')
  BY <1>1, QuietSame DEF LogStep
<1>3. CASE Sends
  <2>1. PICK to : PutOn(to)
    BY <1>3, SendsNext
  <2>2. /\ next \in First .. MaxSeq + 1 /\ next' = next + 1 /\ First' = First
        /\ sender' \in {"client", "quit", "combiner"} /\ gapped' \in SUBSET Arteries
        /\ UNCHANGED <<connected, redials, ended>>
    BY <1>3, SendsNext
  <2>3. \A a \in Arteries : Append(line[a], Frame(next)) \in Seq(FanoutFrames)
    BY <2>2, SenderFrames DEF FanoutTypeOK
  <2>4. line' \in [Arteries -> Seq(FanoutFrames)]
    BY <2>1, <2>3 DEF PutOn, FanoutTypeOK
  <2>5. next' \in First .. MaxSeq + 2
    BY <2>2, FirstIs, MaxSeqAssumption
  <2>. QED  BY <1>1, <1>2, <2>2, <2>4, <2>5 DEF Moves, FanoutTypeOK
<1>4. ASSUME NEW a \in Arteries, Break(a) PROVE Moves
  <2>1. line' \in [Arteries -> Seq(FanoutFrames)]
    BY <1>4 DEF Break, FanoutTypeOK
  <2>. QED  BY <1>2, <1>4, <2>1 DEF Moves, Break, First, FanoutTypeOK
<1>5. ASSUME NEW a \in Arteries, Redial(a) PROVE Moves
  <2>1. redials' \in [Arteries -> Nat]
    BY <1>5 DEF Redial, FanoutTypeOK
  <2>. QED  BY <1>2, <1>5, <2>1 DEF Moves, Redial, First, FanoutTypeOK
<1>. QED  BY <1>3, <1>4, <1>5

\* The oldest frame of an artery.
LEMMA OldestFrame ==
  ASSUME FanoutTypeOK, NEW a \in Arteries, line[a] # <<>>
  PROVE  /\ Head(line[a]) \in FanoutFrames /\ Head(line[a]) = line[a][1]
         /\ Tail(line[a]) \in Seq(FanoutFrames)
         /\ Len(line[a]) \in Nat \ {0} /\ Len(Tail(line[a])) = Len(line[a]) - 1
         /\ \A i \in 1 .. Len(line[a]) - 1 : Tail(line[a])[i] = line[a][i + 1]
<1>1. line[a] \in Seq(FanoutFrames)
  BY DEF FanoutTypeOK
<1>. QED  BY <1>1, HeadTailProperties, EmptySeq

LEMMA DeliverMoves ==
  ASSUME FanoutTypeOK, NEW a \in Arteries, Deliver(a)
  PROVE  Moves
<1>. DEFINE f == Head(line[a])
<1>1. /\ f \in FanoutFrames /\ Good(stream) /\ ~Locked(stream)
      /\ stream' = stream \/ stream' = Accept(stream, f)
  BY OldestFrame DEF Deliver, Dispatched, FanoutTypeOK
<1>2. line' \in [Arteries -> Seq(FanoutFrames)]
  BY OldestFrame DEF Deliver, FanoutTypeOK
<1>3. /\ Good(stream') /\ LogStep(stream, stream')
      /\ Terminal(stream) => Quiet(stream, stream')
  <2>1. CASE stream' = stream
    BY <1>1, <2>1, QuietSame DEF LogStep
  <2>2. CASE stream' = Accept(stream, f) /\ f = Data(0)
    BY <1>1, <2>2, AcceptZero DEF LogStep
  <2>3. CASE stream' = Accept(stream, f) /\ f \in Frames
    BY <1>1, <2>3, AcceptGood, QuietSame
  <2>. QED  BY <1>1, <2>1, <2>2, <2>3, SenderFrames
<1>. QED  BY <1>2, <1>3 DEF Deliver, Moves, First, FanoutTypeOK

LEMMA StreamMoves ==
  ASSUME FanoutTypeOK, DrainBuffer \/ EndAccept \/ HandleDownstream
  PROVE  Moves
<1>1. Good(stream)
  BY DEF FanoutTypeOK
<1>2. CASE DrainBuffer
  <2>1. CanDrain(stream) /\ stream' = DrainStep(stream) /\ ~Terminal(stream)
    BY <1>1, <1>2 DEF DrainBuffer, CanDrain, Good, LockedInService
  <2>2. Good(stream') /\ LogStep(stream, stream')
    BY <1>1, <2>1, DrainGood
  <2>. QED  BY <1>2, <2>1, <2>2 DEF DrainBuffer, Moves, First, FanoutTypeOK
<1>3. CASE EndAccept
  <2>1. CanFinish(stream) /\ stream' = FinishAccept(stream) /\ ~Terminal(stream)
    BY <1>1, <1>3 DEF EndAccept, CanFinish, Good, LockedInService
  <2>2. Good(stream') /\ LogStep(stream, stream')
    BY <1>1, <2>1, FinishGood
  <2>. QED  BY <1>3, <2>1, <2>2 DEF EndAccept, Moves, First, FanoutTypeOK
<1>4. CASE HandleDownstream
  <2>1. CanTake(stream) /\ stream' = Take(stream)
    BY <1>4 DEF HandleDownstream
  <2>2. Good(stream') /\ LogStep(stream, stream')
    BY <1>1, <2>1, TakeGood
  <2>3. Reads(stream, stream')
    <3>1. stream \in Streams /\ stream.taken \in Nat /\ Len(stream.log) \in Nat
      BY <1>1 DEF Good, Streams
    <3>. QED  BY <2>1, <3>1 DEF CanTake, PendingDelivery, Take, Reads, Streams
  <2>4. ended' \in BOOLEAN
    <3>1. ended' = (stream.log[stream.taken + 1].type = "FIN")
      BY <1>4 DEF HandleDownstream
    <3>. QED  BY <3>1, Zenon
  <2>. QED  BY <1>4, <2>2, <2>3, <2>4 DEF HandleDownstream, Moves, First, FanoutTypeOK
<1>. QED  BY <1>2, <1>3, <1>4

LEMMA FanoutMoves == FanoutTypeOK /\ [FanoutNext]_fanoutVars => Moves
<1>. SUFFICES ASSUME FanoutTypeOK, [FanoutNext]_fanoutVars PROVE Moves
  OBVIOUS
<1>1. CASE UNCHANGED fanoutVars
  <2>1. Quiet(stream, stream')
    BY <1>1, QuietSame DEF fanoutVars
  <2>. QED  BY <1>1, <2>1 DEF fanoutVars, Moves, First, FanoutTypeOK, LogStep
<1>. QED  BY <1>1, NetworkMoves, DeliverMoves, StreamMoves DEF FanoutNext, Sends

\* The fan-out is typed, and its receiver a well-formed stream, in every behaviour.
THEOREM FanoutTyped == FanoutSpec => []FanoutTypeOK
<1>1. FanoutTypeOK /\ [FanoutNext]_fanoutVars => FanoutTypeOK'
  BY FanoutMoves DEF Moves
<1>. QED  BY <1>1, StartFanout, PTL DEF FanoutSpec

\* Whoever sends, and whatever is passed over, breaks and comes back, HandleDownstream reads the chunks
\* in the order they were sent.
THEOREM ReadsInOrder == FanoutSpec => []ReadInOrder
<1>1. FanoutTypeOK => ReadInOrder
  <2>. SUFFICES ASSUME Good(stream) PROVE ReadInOrder
    BY DEF FanoutTypeOK
  <2>1. \A m \in 1 .. stream.taken : m \in DOMAIN stream.log
    BY DEF Good, Ledger, Streams
  <2>. QED  BY <2>1 DEF Good, Ledger, InOrder, ReadInOrder
<1>. QED  BY <1>1, FanoutTyped, PTL

\* A response begins with the number 0 and the stream with 1: the first chunk is
\* never delivered.
THEOREM ZeroIsNeverRead == FanoutSpec => [](\A m \in DOMAIN stream.log : stream.log[m] # Data(0))
<1>1. FanoutTypeOK => \A m \in DOMAIN stream.log : stream.log[m] # Data(0)
  <2>1. Data(0) \notin Frames
    BY FrameType DEF Data
  <2>. QED  BY <2>1 DEF FanoutTypeOK, Good, Streams
<1>. QED  BY <1>1, FanoutTyped, PTL

-----------------------------------------------------------------------------
(* One direction as the pipe it promises to be: the arteries, their failures and *)
(* the copies they bring are steps that the pipe does not see.                   *)

Pipe == INSTANCE OrderedPipe WITH
          Last <- MaxSeq, Control <- Controls, Lossy <- TRUE,
          next <- stream.nextSeq, out <- stream.log, read <- stream.taken

Reliable == INSTANCE OrderedPipe WITH
              Last <- MaxSeq, Control <- Controls, Lossy <- FALSE,
              next <- stream.nextSeq, out <- stream.log, read <- stream.taken

\* From whatever number the sender counts, HandleDownstream reads from
\* an ordered pipe that at worst skips chunks.
THEOREM FanoutIsPipe == FanoutSpec => Pipe!PipeSpec
<1>1. FanoutInit => Pipe!InitPipe
  BY DEF FanoutInit, NewStream, Pipe!InitPipe
<1>2. FanoutTypeOK /\ [FanoutNext]_fanoutVars => [Pipe!NextPipe]_Pipe!pipe
  <2>. SUFFICES ASSUME FanoutTypeOK, [FanoutNext]_fanoutVars
                PROVE  [Pipe!NextPipe]_Pipe!pipe
    OBVIOUS
  <2>1. LogStep(stream, stream')
    BY FanoutMoves DEF Moves
  <2>. QED  BY <2>1 DEF LogStep, Emits, Signals, Puts, Reads, Quiet, Data, Pipe!NextPipe,
                 Pipe!pipe, Pipe!PutNext, Pipe!Skip, Pipe!PutControl, Pipe!Read
<1>. QED  BY FanoutTyped, <1>1, <1>2, PTL DEF FanoutSpec, Pipe!PipeSpec

\* With room in Ordered for the whole direction the pipe skips nothing.
LEMMA FanoutFits == FanoutSpec /\ Sized => [](Fits(stream) /\ Sized)
<1>1. FanoutInit => Fits(stream)
  BY DEF FanoutInit, NewStream, Fits, Rank
<1>2. Sized /\ FanoutTypeOK /\ Fits(stream) /\ [FanoutNext]_fanoutVars => Fits(stream)'
  <2>. SUFFICES ASSUME Sized, FanoutTypeOK, Fits(stream), [FanoutNext]_fanoutVars
                PROVE  Fits(stream')
    OBVIOUS
  <2>. QED  BY FanoutMoves, FitsKept DEF Moves, FanoutTypeOK, Good
<1>3. Sized => []Sized
  BY DEF Sized
<1>. QED  BY FanoutTyped, <1>1, <1>2, <1>3, PTL DEF FanoutSpec

THEOREM SizedFanoutIsReliable == FanoutSpec /\ Sized => Reliable!PipeSpec
<1>1. FanoutInit => Reliable!InitPipe
  BY DEF FanoutInit, NewStream, Reliable!InitPipe
<1>2. Sized /\ FanoutTypeOK /\ Fits(stream) /\ [FanoutNext]_fanoutVars
        => [Reliable!NextPipe]_Reliable!pipe
  <2>. SUFFICES ASSUME Sized, FanoutTypeOK, Fits(stream), [FanoutNext]_fanoutVars
                PROVE  [Reliable!NextPipe]_Reliable!pipe
    OBVIOUS
  <2>1. Moves /\ stream \in Streams /\ stream' \in Streams
    BY FanoutMoves DEF Moves, FanoutTypeOK, Good
  <2>2. ~Terminal(stream) /\ stream.nextSeq \in Seqs => Room(stream)
    BY <2>1, FitsKept DEF Moves
  <2>3. CASE Reads(stream, stream') \/ Quiet(stream, stream')
    BY <2>3 DEF Reads, Quiet, Reliable!NextPipe, Reliable!pipe, Reliable!Read
  <2>4. CASE Emits(stream, stream') /\ Room(stream)
    BY <2>4 DEF Emits, Data, Reliable!NextPipe, Reliable!PutNext
  <2>5. CASE Signals(stream, stream')
    BY <2>5 DEF Signals, Puts, Reliable!NextPipe, Reliable!PutControl, Reliable!pipe
  <2>. QED  BY <2>1, <2>2, <2>3, <2>4, <2>5 DEF Moves, LogStep, Emits
<1>. QED  BY FanoutTyped, FanoutFits, <1>1, <1>2, PTL DEF FanoutSpec, Reliable!PipeSpec

-----------------------------------------------------------------------------
(* The direction without gaps: the inductive invariant behind CleanEnd. *)

CleanInv ==
  /\ FanoutTypeOK
  /\ Fits(stream)
  /\ LinesAreTails
  /\ GivenHasArrived
  /\ FinIsLast
  /\ EndedAtFin

\* A gap stays, the sender keeps to its numbers, and an artery that comes back has a
\* gap.
LEMMA GaplessBefore ==
  ASSUME FanoutTypeOK, [FanoutNext]_fanoutVars
  PROVE  /\ First' = First
         /\ Gapless' => Gapless /\ \A a \in Arteries : ~Redial(a)
<1>1. CASE Sends
  BY <1>1, SendsNext DEF Redial
<1>2. CASE ~Sends
  BY <1>2 DEF FanoutNext, Sends, fanoutVars, Break, Redial, Deliver, DrainBuffer, EndAccept,
              HandleDownstream, Gapless, First
<1>. QED  BY <1>1, <1>2

\* The sender puts its next frame at the end of every line.
LEMMA SendTails ==
  ASSUME FanoutTypeOK, LinesAreTails, Sends
  PROVE  /\ LinesAreTails'
         /\ Gapless' => \A a \in connected :
                            next' - Len(line'[a]) = next - Len(line[a])
<1>1. /\ next \in Int /\ First \in Int /\ next' = next + 1 /\ connected' = connected
      /\ First' = First /\ (Gapless' => Gapless)
      /\ \A a \in Arteries : line[a] \in Seq(FanoutFrames)
      /\ Frame(next) \in FanoutFrames /\ connected \subseteq Arteries
  BY SendsNext, SenderFrames, FirstIs, MaxSeqAssumption DEF FanoutTypeOK
<1>2. PICK to \in SUBSET connected : PutOn(to) /\ (Gapless' => to = connected)
  BY SendsNext
<1>3. \A a \in Arteries :
        line'[a] = IF a \in to THEN Append(line[a], Frame(next)) ELSE line[a]
  BY <1>2 DEF PutOn
<1>4. \A a \in Arteries : a \notin connected' => line'[a] = <<>>
  BY <1>1, <1>2, <1>3 DEF LinesAreTails
<1>5. ASSUME Gapless', NEW a \in connected
      PROVE  LET k == Len(line'[a]) IN
             /\ k <= next' - First
             /\ \A i \in 1 .. k : line'[a][i] = Frame(next' - 1 - k + i)
             /\ next' - k = next - Len(line[a])
  <2>1. a \in Arteries /\ line'[a] = Append(line[a], Frame(next))
    BY <1>1, <1>2, <1>3, <1>5
  <2>2. /\ Len(line[a]) \in Nat /\ Len(line'[a]) = Len(line[a]) + 1
        /\ \A i \in 1 .. Len(line[a]) : line'[a][i] = line[a][i]
        /\ line'[a][Len(line[a]) + 1] = Frame(next)
    BY <1>1, <2>1, AppendProperties
  <2>3. /\ Len(line[a]) <= next - First
        /\ \A i \in 1 .. Len(line[a]) : line[a][i] = Frame(next - 1 - Len(line[a]) + i)
    BY <1>1, <1>5, <2>1 DEF LinesAreTails
  <2>4. /\ Len(line'[a]) <= next' - First
        /\ next' - Len(line'[a]) = next - Len(line[a])
    <3>1. /\ next \in Int /\ First \in Int /\ next' = next + 1 /\ Len(line[a]) \in Int
          /\ Len(line'[a]) = Len(line[a]) + 1 /\ Len(line[a]) <= next - First
      BY <1>1, <2>2, <2>3
    <3>. QED  BY ONLY <3>1
  <2>5. ASSUME NEW i \in 1 .. Len(line'[a])
        PROVE  line'[a][i] = Frame(next' - 1 - Len(line'[a]) + i)
    <3>1. next' - 1 - Len(line'[a]) + i = next - 1 - Len(line[a]) + i
      <4>1. /\ next \in Int /\ next' = next + 1 /\ i \in Int
            /\ Len(line[a]) \in Int /\ Len(line'[a]) = Len(line[a]) + 1
        BY <1>1, <2>2
      <4>. QED  BY ONLY <4>1
    <3>2. CASE i \in 1 .. Len(line[a])
      BY <2>2, <2>3, <3>1, <3>2
    <3>3. CASE i = Len(line[a]) + 1
      <4>1. next - 1 - Len(line[a]) + i = next
        BY <1>1, <2>2, <3>3
      <4>. QED  BY <2>2, <3>1, <3>3, <4>1
    <3>. QED  BY <2>2, <3>2, <3>3
  <2>. QED  BY <2>4, <2>5
<1>. QED  BY <1>1, <1>4, <1>5 DEF LinesAreTails

\* A line that breaks is empty.
LEMMA BreakTails ==
  ASSUME FanoutTypeOK, LinesAreTails, NEW b \in Arteries, Break(b), Gapless' => Gapless
  PROVE  /\ LinesAreTails'
         /\ connected' \subseteq connected /\ next' = next
         /\ \A a \in connected' : line'[a] = line[a]
<1>1. /\ connected' = connected \ {b} /\ next' = next /\ First' = First
      /\ \A a \in Arteries : line'[a] = IF a = b THEN <<>> ELSE line[a]
  BY DEF Break, First, FanoutTypeOK
<1>2. \A a \in connected' : a \in Arteries /\ line'[a] = line[a]
  BY <1>1 DEF FanoutTypeOK
<1>. QED  BY <1>1, <1>2 DEF LinesAreTails

\* The oldest frame of a line leaves it.
LEMMA DeliverTails ==
  ASSUME FanoutTypeOK, LinesAreTails, NEW b \in Arteries, Deliver(b), Gapless' => Gapless
  PROVE  /\ LinesAreTails' /\ b \in connected
         /\ Gapless => Head(line[b]) = Frame(next - Len(line[b]))
         /\ Gapless => next - Len(line[b]) \in First .. MaxSeq + 1
         /\ next' - Len(line'[b]) = next - Len(line[b]) + 1
         /\ \A a \in connected : a # b => next' - Len(line'[a]) = next - Len(line[a])
<1>1. /\ b \in connected /\ connected' = connected /\ next' = next /\ First' = First
      /\ next \in First .. MaxSeq + 2 /\ MaxSeq \in Int /\ First \in Int
      /\ connected \subseteq Arteries /\ line[b] # <<>>
      /\ \A a \in Arteries : line'[a] = IF a = b THEN Tail(line[b]) ELSE line[a]
  BY FirstIs, MaxSeqAssumption DEF Deliver, First, FanoutTypeOK, LinesAreTails
<1>2. /\ Head(line[b]) = line[b][1]
      /\ Len(line[b]) \in Nat \ {0} /\ Len(line'[b]) = Len(line[b]) - 1
      /\ \A i \in 1 .. Len(line[b]) - 1 : line'[b][i] = line[b][i + 1]
  BY <1>1, OldestFrame
<1>3. ASSUME Gapless
      PROVE  /\ Len(line[b]) <= next - First
             /\ \A i \in 1 .. Len(line[b]) : line[b][i] = Frame(next - 1 - Len(line[b]) + i)
  BY <1>1, <1>3 DEF LinesAreTails
<1>4. ASSUME Gapless PROVE Head(line[b]) = Frame(next - Len(line[b]))
  <2>1. line[b][1] = Frame(next - 1 - Len(line[b]) + 1)
    BY <1>2, <1>3, <1>4
  <2>2. next - 1 - Len(line[b]) + 1 = next - Len(line[b])
    BY <1>1, <1>2
  <2>. QED  BY <1>2, <2>1, <2>2
<1>5. Gapless => next - Len(line[b]) \in First .. MaxSeq + 1
  BY <1>1, <1>2, <1>3
<1>6. /\ next' - Len(line'[b]) = next - Len(line[b]) + 1
      /\ \A a \in connected : a # b => next' - Len(line'[a]) = next - Len(line[a])
  <2>1. next' - Len(line'[b]) = next - Len(line[b]) + 1
    BY <1>1, <1>2
  <2>2. \A a \in connected : a # b => next' = next /\ line'[a] = line[a]
    BY <1>1
  <2>. QED  BY <2>1, <2>2, Zenon
<1>7. ASSUME Gapless
      PROVE  /\ Len(line'[b]) <= next' - First
             /\ \A i \in 1 .. Len(line'[b]) : line'[b][i] = Frame(next' - 1 - Len(line'[b]) + i)
  <2>1. Len(line'[b]) <= next' - First
    BY <1>1, <1>2, <1>3, <1>7
  <2>2. ASSUME NEW i \in 1 .. Len(line'[b])
        PROVE  line'[b][i] = Frame(next' - 1 - Len(line'[b]) + i)
    <3>1. line'[b][i] = line[b][i + 1] /\ i + 1 \in 1 .. Len(line[b])
      BY <1>2
    <3>2. line[b][i + 1] = Frame(next - 1 - Len(line[b]) + (i + 1))
      BY <1>3, <1>7, <3>1
    <3>3. next - 1 - Len(line[b]) + (i + 1) = next' - 1 - Len(line'[b]) + i
      <4>1. /\ next \in Int /\ next' = next /\ i \in Int
            /\ Len(line[b]) \in Int /\ Len(line'[b]) = Len(line[b]) - 1
        BY <1>1, <1>2
      <4>. QED  BY ONLY <4>1
    <3>. QED  BY <3>1, <3>2, <3>3
  <2>. QED  BY <2>1, <2>2
<1>8. LinesAreTails'
  <2>1. \A a \in Arteries : a \notin connected' => line'[a] = <<>>
    BY <1>1 DEF LinesAreTails
  <2>2. ASSUME Gapless', NEW a \in Arteries, a \in connected
        PROVE  LET k == Len(line'[a]) IN
               /\ k <= next' - First
               /\ \A i \in 1 .. k : line'[a][i] = Frame(next' - 1 - k + i)
    <3>1. CASE a = b
      BY <1>7, <2>2, <3>1
    <3>2. CASE a # b
      <4>1. Gapless /\ next' = next /\ line'[a] = line[a]
        BY <1>1, <2>2, <3>2
      <4>2. /\ Len(line[a]) <= next - First
            /\ \A i \in 1 .. Len(line[a]) : line[a][i] = Frame(next - 1 - Len(line[a]) + i)
        BY <2>2, <4>1 DEF LinesAreTails
      <4>. QED  BY <4>1, <4>2
    <3>. QED  BY <3>1, <3>2
  <2>. QED  BY <1>1, <2>1, <2>2 DEF LinesAreTails
<1>. QED  BY <1>1, <1>4, <1>5, <1>6, <1>8

-----------------------------------------------------------------------------
\* One lemma per action: the rest of the invariant.

\* What the sender and the network do leaves all as it arrived.
LEMMA NetworkClean ==
  ASSUME CleanInv, [FanoutNext]_fanoutVars,
         Sends \/ \E a \in Arteries : Break(a) \/ Redial(a)
  PROVE  LinesAreTails' /\ GivenHasArrived' /\ FinIsLast' /\ EndedAtFin'
<1>1. FanoutTypeOK /\ LinesAreTails /\ GivenHasArrived /\ FinIsLast /\ EndedAtFin
  BY DEF CleanInv
<1>2. stream' = stream /\ ended' = ended
  BY SendsNext DEF CleanInv, Break, Redial
<1>3. Gapless' => Gapless /\ \A a \in Arteries : ~Redial(a)
  BY <1>1, GaplessBefore
<1>4. FinIsLast' /\ EndedAtFin'
  BY <1>1, <1>2, <1>3 DEF FinIsLast, EndedAtFin, Arrived
<1>5. CASE Sends
  <2>1. /\ LinesAreTails' /\ connected' = connected
        /\ Gapless' => \A a \in connected : next' - Len(line'[a]) = next - Len(line[a])
    BY <1>1, <1>3, <1>5, SendTails, SendsNext
  <2>2. GivenHasArrived'
    BY <1>1, <1>2, <1>3, <2>1 DEF GivenHasArrived, Arrived
  <2>. QED  BY <1>4, <2>1, <2>2
<1>6. ASSUME NEW b \in Arteries, Break(b)
      PROVE  LinesAreTails' /\ GivenHasArrived' /\ FinIsLast' /\ EndedAtFin'
  <2>1. /\ LinesAreTails' /\ connected' \subseteq connected /\ next' = next
        /\ \A a \in connected' : line'[a] = line[a]
    BY <1>1, <1>3, <1>6, BreakTails
  <2>2. GivenHasArrived'
    BY <1>1, <1>2, <1>3, <2>1 DEF GivenHasArrived, Arrived
  <2>. QED  BY <1>4, <2>1, <2>2
<1>7. ASSUME NEW b \in Arteries, Redial(b)
      PROVE  LinesAreTails' /\ GivenHasArrived' /\ FinIsLast' /\ EndedAtFin'
  <2>1. ~Gapless'
    BY <1>3, <1>7
  <2>2. LinesAreTails'
    BY <1>1, <1>7, <2>1 DEF LinesAreTails, Redial, First
  <2>3. GivenHasArrived'
    BY <1>1, <1>2, <2>1 DEF GivenHasArrived, Arrived
  <2>. QED  BY <1>4, <2>2, <2>3
<1>. QED  BY <1>5, <1>6, <1>7

\* When chunks alone arrive and are delivered, the FIN stays the last frame.
LEMMA GainsClean ==
  ASSUME CleanInv, Good(stream'), LogStep(stream, stream'), Gains(stream, stream'),
         stream'.busy = stream.busy \/ stream'.busy.type # "FIN",
         Gapless' => Gapless
  PROVE  FinIsLast'
<1>. SUFFICES ASSUME Gapless' PROVE FinIsLast'
  BY DEF FinIsLast
<1>1. /\ stream \in Streams /\ stream' \in Streams /\ Gapless
      /\ stream.busy.type = "FIN" => \A n \in Seqs : Arrived(stream, n)
      /\ stream.state # "OPEN" => stream.nextSeq = MaxSeq + 1
      /\ \A m \in DOMAIN stream.log : stream.log[m].type = "FIN" =>
           \A n \in Seqs : \E k \in 1 .. m : stream.log[k] = Data(n)
  BY DEF CleanInv, FanoutTypeOK, Good, FinIsLast
<1>2. stream'.busy.type = "FIN" => \A n \in Seqs : Arrived(stream', n)
  BY <1>1 DEF Gains
<1>3. stream'.state # "OPEN" => stream'.nextSeq = MaxSeq + 1
  <2>. SUFFICES ASSUME stream'.state # "OPEN" PROVE stream'.nextSeq = MaxSeq + 1
    OBVIOUS
  <2>1. stream.nextSeq = MaxSeq + 1 /\ MaxSeq \in Nat
    BY <1>1, MaxSeqAssumption DEF Gains
  <2>2. ~Emits(stream, stream')
    BY <2>1 DEF Emits
  <2>. QED  BY <2>1, <2>2 DEF LogStep, Signals, Puts, Reads, Quiet
<1>4. CASE stream'.log = stream.log
  BY <1>1, <1>2, <1>3, <1>4 DEF FinIsLast
<1>5. ASSUME NEW i \in Seqs, stream'.log = Append(stream.log, Data(i)) PROVE FinIsLast'
  <2>1. stream.log \in Seq(Frames) /\ Data(i) \in Frames /\ Data(i).type # "FIN"
    BY <1>1, FrameType DEF Streams
  <2>2. /\ \A m \in DOMAIN stream'.log : m \in DOMAIN stream.log \/ stream'.log[m] = Data(i)
        /\ \A m \in DOMAIN stream.log :
             /\ stream'.log[m] = stream.log[m]
             /\ \A k \in 1 .. m : k \in DOMAIN stream.log
    BY <1>5, <2>1
  <2>3. ASSUME NEW m \in DOMAIN stream'.log, stream'.log[m].type = "FIN", NEW n \in Seqs
        PROVE  \E k \in 1 .. m : stream'.log[k] = Data(n)
    <3>1. m \in DOMAIN stream.log /\ stream.log[m].type = "FIN"
      BY <2>1, <2>2, <2>3
    <3>2. PICK k \in 1 .. m : stream.log[k] = Data(n)
      BY <1>1, <3>1
    <3>. QED  BY <2>2, <3>1, <3>2
  <2>. QED  BY <1>2, <1>3, <2>3 DEF FinIsLast
<1>. QED  BY <1>4, <1>5 DEF Gains

\* The log grows at its end, so that the FIN which was read stays where it is.
LEMMA EndedKept ==
  ASSUME FanoutTypeOK, EndedAtFin, LogStep(stream, stream'), ended' = ended,
         stream'.taken = stream.taken
  PROVE  EndedAtFin'
<1>1. stream.log \in Seq(Frames)
  BY DEF FanoutTypeOK, Good, Streams
<1>2. stream'.log = stream.log \/ \E f \in Frames : stream'.log = Append(stream.log, f)
  BY FrameType DEF LogStep, Emits, Signals, Puts, Reads, Quiet
<1>3. \A m \in DOMAIN stream.log : m \in DOMAIN stream'.log /\ stream'.log[m] = stream.log[m]
  BY <1>1, <1>2
<1>. QED  BY <1>3 DEF EndedAtFin

\* A frame reaches the stream: a chunk arrives, and a FIN finds all chunks there.
LEMMA DeliverClean ==
  ASSUME CleanInv, Sized, NEW b \in Arteries, Deliver(b)
  PROVE  LinesAreTails' /\ GivenHasArrived' /\ FinIsLast' /\ EndedAtFin'
<1>. DEFINE f == Head(line[b])
            g == next - Len(line[b])
<1>1. FanoutTypeOK /\ LinesAreTails /\ GivenHasArrived /\ FinIsLast /\ EndedAtFin
  BY DEF CleanInv
<1>2. /\ Good(stream) /\ ~Locked(stream) /\ f \in FanoutFrames
      /\ stream' = Dispatched(f) /\ ended' = ended
      /\ connected' = connected /\ Good(stream') /\ LogStep(stream, stream')
  BY <1>1, OldestFrame, DeliverMoves DEF Deliver, FanoutTypeOK, Moves
<1>3. Gapless' => Gapless
  BY <1>1, GaplessBefore DEF FanoutNext
<1>4. /\ LinesAreTails' /\ b \in connected
      /\ Gapless => f = Frame(g)
      /\ Gapless => g \in First .. MaxSeq + 1
      /\ next' - Len(line'[b]) = g + 1
      /\ \A a \in connected : a # b => next' - Len(line'[a]) = next - Len(line[a])
  <2>. HIDE DEF f, g
  <2>1. /\ LinesAreTails' /\ b \in connected
        /\ Gapless => Head(line[b]) = Frame(next - Len(line[b]))
        /\ Gapless => next - Len(line[b]) \in First .. MaxSeq + 1
        /\ next' - Len(line'[b]) = next - Len(line[b]) + 1
        /\ \A a \in connected : a # b => next' - Len(line'[a]) = next - Len(line[a])
    BY <1>1, <1>3, DeliverTails
  <2>. QED  BY <2>1 DEF f, g
<1>. HIDE DEF f, g
\* What arrived stays, and so does what the other arteries gave.
<1>5. ASSUME \A n \in Seqs : Arrived(stream, n) => Arrived(stream', n),
             \A n \in stream'.seen \cap Seqs : n \in stream.seen \/ Arrived(stream', n),
             Gapless => \A n \in Seqs : n < g + 1 => Arrived(stream', n)
      PROVE  GivenHasArrived'
  <2>1. \A n \in stream'.seen \cap Seqs : Arrived(stream', n)
    BY <1>1, <1>5 DEF GivenHasArrived
  <2>2. ASSUME Gapless', NEW a \in connected, NEW n \in Seqs, n < next' - Len(line'[a])
        PROVE  Arrived(stream', n)
    <3>1. CASE a = b
      BY <1>3, <1>4, <1>5, <2>2, <3>1
    <3>2. CASE a # b
      <4>1. n < next - Len(line[a])
        BY <1>4, <2>2, <3>2
      <4>. QED  BY <1>1, <1>3, <1>5, <2>2, <4>1 DEF GivenHasArrived
    <3>. QED  BY <3>1, <3>2
  <2>. QED  BY <1>2, <2>1, <2>2 DEF GivenHasArrived
\* Before this frame the artery had given all chunks below its number.
<1>6. Gapless => \A n \in Seqs : n < g => Arrived(stream, n)
  BY <1>1, <1>4 DEF GivenHasArrived, g
<1>7. g \in Int /\ MaxSeq \in Nat /\ First \in Nat
  <2>1. line[b] \in Seq(FanoutFrames) /\ next \in First .. MaxSeq + 2
    BY <1>1 DEF FanoutTypeOK
  <2>2. Len(line[b]) \in Nat
    BY <2>1
  <2>. QED  BY <2>1, <2>2, FirstIs, MaxSeqAssumption DEF g
\* Without gaps the first frame to come to the combiner is the OPEN.
<1>11. ASSUME Gapless PROVE stream' = Accept(stream, f)
  <2>. SUFFICES ASSUME sender # "combiner", stream = NewStream, f # Data(1) PROVE FALSE
    BY <1>2 DEF Dispatched
  <2>1. g \in 1 .. MaxSeq + 1 /\ f = Frame(g)
    BY <1>4, <1>11 DEF First, FirstOf
  <2>2. g # 1 /\ 1 \in Seqs
    BY <2>1, MaxSeqAssumption DEF Frame
  <2>3. Arrived(NewStream, 1)
    BY <1>6, <1>11, <2>1, <2>2
  <2>. QED  BY <2>3 DEF Arrived, NewStream
<1>8. CASE stream' = stream /\ (Gapless => Terminal(stream))
  <2>1. stream' = stream
    BY <1>8
  <2>2. Gapless => \A n \in Seqs : Arrived(stream, n)
    <3>1. Gapless => stream.nextSeq = MaxSeq + 1
      BY <1>1, <1>8 DEF FinIsLast, Terminal
    <3>. QED  BY <1>7, <3>1 DEF Arrived
  <2>3. FinIsLast' /\ EndedAtFin'
    BY <1>1, <1>2, <1>3, <2>1 DEF FinIsLast, EndedAtFin, Arrived
  <2>4. GivenHasArrived'
    <3>. HIDE DEF Arrived
    <3>. QED  BY <1>5, <2>1, <2>2
  <2>. QED  BY <1>4, <2>3, <2>4
<1>9. CASE stream' = Accept(stream, f) /\ ~Terminal(stream) /\ f = Fin
  <2>1. stream' = [stream EXCEPT !.busy = f] /\ stream \in Streams /\ Fin \in Frames
    BY <1>2, <1>9, SenderFrames DEF Accept, Good
  <2>2. /\ stream'.state = stream.state /\ stream'.nextSeq = stream.nextSeq
        /\ stream'.buf = stream.buf /\ stream'.seen = stream.seen
        /\ stream'.log = stream.log /\ stream'.taken = stream.taken
    BY <2>1 DEF Streams
  <2>3. Gapless => g = MaxSeq + 1
    <3>1. ASSUME Gapless PROVE ~(g <= MaxSeq)
      <4>1. g \in First .. MaxSeq + 1
        BY <1>4, <3>1
      <4>2. g <= MaxSeq => f = Data(g)
        BY <1>4, <3>1 DEF Frame
      <4>3. g \in Nat
        BY <1>7, <4>1
      <4>. QED  BY <1>9, <4>2, <4>3, SenderFrames
    <3>. QED  BY <1>4, <1>7, <3>1
  <2>4. Gapless => \A n \in Seqs : Arrived(stream, n)
    BY <1>6, <1>7, <2>3
  <2>5. \A n \in Seqs : Arrived(stream', n) <=> Arrived(stream, n)
    BY <2>2 DEF Arrived
  <2>6. GivenHasArrived'
    BY <1>5, <2>2, <2>4, <2>5
  <2>7. FinIsLast'
    BY <1>1, <1>3, <2>2, <2>4, <2>5 DEF FinIsLast
  <2>8. EndedAtFin'
    BY <1>1, <1>2, <2>2 DEF EndedAtFin
  <2>. QED  BY <1>4, <2>6, <2>7, <2>8
<1>10. CASE stream' = Accept(stream, f) /\ ~Terminal(stream) /\ f # Fin
  <2>1. PICK n \in 0 .. MaxSeq : f = Data(n)
    BY <1>2, <1>10 DEF FanoutFrames
  <2>2. Gapless => g = n
    <3>. SUFFICES ASSUME Gapless PROVE g = n
      OBVIOUS
    <3>1. f = Frame(g) /\ g \in First .. MaxSeq + 1
      BY <1>4
    <3>2. f = Data(g)
      BY <1>10, <3>1 DEF Frame, Fin
    <3>. QED  BY <2>1, <3>2 DEF Data
  <2>3. /\ Gains(stream, stream')
        /\ stream'.busy = stream.busy \/ stream'.busy.type # "FIN"
        /\ \A i \in stream'.seen \cap Seqs : i \in stream.seen \/ Arrived(stream', i)
        /\ Gapless /\ n \in Seqs => Arrived(stream', n)
    <3>1. CASE n = 0
      <4>1. /\ Gains(stream, stream') /\ stream'.busy = stream.busy
            /\ stream'.seen \subseteq stream.seen \cup {0}
        BY <1>2, <1>10, <2>1, <3>1, AcceptZero
      <4>. QED  BY <3>1, <4>1
    <3>2. CASE n \in Seqs
      <4>1. /\ Gains(stream, stream')
            /\ stream'.seen \subseteq stream.seen \cup {n}
            /\ n \notin stream.seen => Arrived(stream', n)
            /\ stream'.busy \in {NoFrame, Data(n)}
        BY <1>2, <1>10, <2>1, <3>2, AcceptChunk
      <4>2. n \in stream.seen => Arrived(stream', n)
        BY <1>1, <3>2, <4>1 DEF GivenHasArrived, Gains
      <4>3. stream'.busy.type # "FIN"
        BY <4>1 DEF NoFrame, Data
      <4>. QED  BY <4>1, <4>2, <4>3
    <3>. QED  BY <1>7, <3>1, <3>2
  <2>4. GivenHasArrived'
    <3>1. ASSUME Gapless, NEW i \in Seqs, i < g + 1 PROVE Arrived(stream', i)
      <4>1. CASE i < g
        BY <1>6, <2>3, <3>1, <4>1 DEF Gains
      <4>2. CASE i = n
        BY <2>3, <3>1, <4>2
      <4>3. i < g \/ i = n
        BY <1>7, <2>2, <3>1
      <4>. QED  BY <4>1, <4>2, <4>3
    <3>. QED  BY <1>5, <2>3, <3>1 DEF Gains
  <2>5. FinIsLast'
    BY <1>2, <1>3, <2>3, GainsClean
  <2>6. EndedAtFin'
    BY <1>1, <1>2, <2>3, EndedKept DEF Gains
  <2>. QED  BY <1>4, <2>4, <2>5, <2>6
<1>12. Terminal(stream) => Accept(stream, f) = stream
  BY DEF Accept
<1>. QED  BY <1>2, <1>8, <1>9, <1>10, <1>11, <1>12 DEF Dispatched

\* The lines stay and so does what they gave.
LEMMA LinesStay ==
  ASSUME CleanInv, UNCHANGED <<sender, next, connected, line, redials, gapped>>,
         \A n \in Seqs : Arrived(stream, n) => Arrived(stream', n),
         stream'.seen = stream.seen
  PROVE  LinesAreTails' /\ GivenHasArrived' /\ (Gapless' => Gapless)
<1>1. Gapless' <=> Gapless
  BY DEF Gapless
<1>2. LinesAreTails'
  BY <1>1 DEF CleanInv, LinesAreTails, First
<1>3. GivenHasArrived'
  <2>. HIDE DEF Arrived
  <2>. QED  BY <1>1 DEF CleanInv, GivenHasArrived
<1>. QED  BY <1>1, <1>2, <1>3

LEMMA DrainClean ==
  ASSUME CleanInv, DrainBuffer
  PROVE  LinesAreTails' /\ GivenHasArrived' /\ FinIsLast' /\ EndedAtFin'
<1>1. FanoutTypeOK /\ EndedAtFin /\ Good(stream)
  BY DEF CleanInv, FanoutTypeOK
<1>2. /\ CanDrain(stream) /\ stream' = DrainStep(stream) /\ ended' = ended
      /\ UNCHANGED <<sender, next, connected, line, redials, gapped>>
  BY DEF DrainBuffer
<1>3. Gains(stream, stream') /\ stream'.seen = stream.seen /\ stream'.busy = stream.busy
  BY <1>1, <1>2, DrainGains
<1>4. Good(stream') /\ LogStep(stream, stream')
  BY <1>1, <1>2, DrainGood
<1>5. LinesAreTails' /\ GivenHasArrived' /\ (Gapless' => Gapless)
  <2>1. \A n \in Seqs : Arrived(stream, n) => Arrived(stream', n)
    BY <1>3 DEF Gains
  <2>. QED  BY <1>2, <1>3, <2>1, LinesStay
<1>6. FinIsLast'
  BY <1>3, <1>4, <1>5, GainsClean
<1>7. EndedAtFin'
  BY <1>1, <1>2, <1>3, <1>4, EndedKept DEF Gains
<1>. QED  BY <1>5, <1>6, <1>7

\* The FIN goes behind all chunks: none is lost, and all were in the buffer or
\* delivered when it was accepted.
LEMMA EndAcceptClean ==
  ASSUME CleanInv, EndAccept
  PROVE  LinesAreTails' /\ GivenHasArrived' /\ FinIsLast' /\ EndedAtFin'
<1>1. /\ FanoutTypeOK /\ FinIsLast /\ EndedAtFin /\ Good(stream) /\ Fits(stream)
      /\ stream \in Streams /\ Ledger(stream) /\ stream.log \in Seq(Frames)
  BY DEF CleanInv, FanoutTypeOK, Good, Streams
<1>2. /\ CanFinish(stream) /\ stream' = FinishAccept(stream) /\ ended' = ended
      /\ UNCHANGED <<sender, next, connected, line, redials, gapped>>
  BY DEF EndAccept
<1>3. stream.busy \in Frames /\ stream.nextSeq \notin stream.buf
  BY <1>1, <1>2 DEF CanFinish, Locked, Streams
<1>4. LogStep(stream, stream')
  BY <1>1, <1>2, FinishGood
<1>5. /\ stream'.nextSeq = stream.nextSeq /\ stream'.buf = stream.buf
      /\ stream'.seen = stream.seen /\ stream'.taken = stream.taken
      /\ stream'.busy = NoFrame
      /\ \/ /\ stream.busy.type = "FIN"
            /\ stream'.log = stream.log \/ stream'.log = Append(stream.log, stream.busy)
         \/ stream'.log = stream.log /\ stream'.state = stream.state
  <2>. DEFINE d == deliverLocked(stream, stream.busy)
  <2>1. CASE stream.busy.type = "FIN"
    <3>1. /\ d \in Streams /\ d.nextSeq = stream.nextSeq /\ d.buf = stream.buf
          /\ d.seen = stream.seen /\ d.taken = stream.taken
          /\ d.log = stream.log \/ d.log = Append(stream.log, stream.busy)
      BY <1>1, <1>3, DeliverFields
    <3>2. stream' = [d EXCEPT !.state = IF @ = "HALF_CLOSED" THEN "CLOSED" ELSE "HALF_CLOSED",
                              !.busy = NoFrame]
      BY <1>2, <2>1 DEF FinishAccept
    <3>. HIDE DEF d
    <3>. QED  BY <2>1, <3>1, <3>2 DEF Streams
  <2>2. CASE stream.busy.type # "FIN"
    <3>1. stream' = [stream EXCEPT !.busy = NoFrame]
      BY <1>2, <2>2 DEF FinishAccept
    <3>. QED  BY <1>1, <3>1 DEF Streams
  <2>. QED  BY <2>1, <2>2
<1>6. LinesAreTails' /\ GivenHasArrived' /\ (Gapless' => Gapless)
  <2>1. \A n \in Seqs : Arrived(stream, n) => Arrived(stream', n)
    BY <1>5 DEF Arrived
  <2>. QED  BY <1>2, <1>5, <2>1, LinesStay
<1>7. EndedAtFin'
  BY <1>1, <1>2, <1>4, <1>5, EndedKept
<1>8. FinIsLast'
  <2>. SUFFICES ASSUME Gapless' PROVE FinIsLast'
    BY DEF FinIsLast
  <2>1. Gapless /\ stream'.busy.type # "FIN"
    BY <1>5, <1>6 DEF NoFrame
  <2>2. CASE stream'.log = stream.log /\ stream'.state = stream.state
    BY <1>1, <1>5, <2>1, <2>2 DEF FinIsLast
  <2>3. CASE stream.busy.type = "FIN"
    <3>1. \A n \in Seqs : Arrived(stream, n)
      BY <1>1, <2>1, <2>3 DEF FinIsLast
    <3>2. stream.nextSeq = MaxSeq + 1
      <4>1. stream.nextSeq \in 1 .. MaxSeq + 1 /\ MaxSeq \in Nat
        BY <1>1, MaxSeqAssumption DEF Streams
      <4>2. stream.nextSeq \notin Seqs
        BY <1>3, <3>1 DEF Arrived
      <4>. QED  BY <4>1, <4>2
    <3>3. \A n \in Seqs : \E k \in DOMAIN stream.log : stream.log[k] = Data(n)
      <4>1. \A n \in Seqs : n < stream.nextSeq
        BY <3>2, MaxSeqAssumption
      <4>. QED  BY <1>1, <4>1 DEF Ledger, Complete, Fits
    <3>4. CASE stream'.log = stream.log
      BY <1>1, <1>5, <2>1, <3>2, <3>4 DEF FinIsLast
    <3>5. \A m \in DOMAIN stream.log : stream.log[m].type = "FIN" =>
            \A n \in Seqs : \E k \in 1 .. m : stream.log[k] = Data(n)
      BY <1>1, <2>1 DEF FinIsLast
    <3>6. CASE stream'.log = Append(stream.log, stream.busy)
      <4>1. /\ Len(stream.log) \in Nat
            /\ DOMAIN stream'.log = 1 .. Len(stream.log) + 1
            /\ DOMAIN stream.log = 1 .. Len(stream.log)
            /\ \A k \in DOMAIN stream.log : stream'.log[k] = stream.log[k]
        BY <1>1, <1>3, <3>6
      <4>2. ASSUME NEW m \in DOMAIN stream'.log, stream'.log[m].type = "FIN", NEW n \in Seqs
            PROVE  \E k \in 1 .. m : stream'.log[k] = Data(n)
        <5>1. CASE m \in DOMAIN stream.log
          <6>1. stream.log[m].type = "FIN"
            BY <4>1, <4>2, <5>1
          <6>2. PICK k \in 1 .. m : stream.log[k] = Data(n)
            BY <3>5, <5>1, <6>1
          <6>3. k \in DOMAIN stream.log
            BY <4>1, <5>1
          <6>. QED  BY <4>1, <6>2, <6>3, Zenon
        <5>2. CASE m = Len(stream.log) + 1
          <6>1. PICK k \in DOMAIN stream.log : stream.log[k] = Data(n)
            BY <3>3
          <6>. QED  BY <4>1, <5>2, <6>1
        <5>. QED  BY <4>1, <5>1, <5>2
      <4>. QED  BY <1>5, <2>1, <3>2, <4>2 DEF FinIsLast
    <3>. QED  BY <1>5, <2>2, <3>4, <3>6
  <2>. QED  BY <1>5, <2>2, <2>3
<1>. QED  BY <1>6, <1>7, <1>8

\* HandleDownstream returns only at a FIN.
LEMMA HandleClean ==
  ASSUME CleanInv, HandleDownstream
  PROVE  LinesAreTails' /\ GivenHasArrived' /\ FinIsLast' /\ EndedAtFin'
<1>1. stream \in Streams /\ FinIsLast
  BY DEF CleanInv, FanoutTypeOK, Good
<1>2. /\ stream.taken < Len(stream.log) /\ stream' = [stream EXCEPT !.taken = @ + 1]
      /\ ended' = (stream.log[stream.taken + 1].type = "FIN")
      /\ UNCHANGED <<sender, next, connected, line, redials, gapped>>
  BY <1>1 DEF HandleDownstream, CanTake, PendingDelivery, Take, Streams
<1>3. /\ stream'.state = stream.state /\ stream'.nextSeq = stream.nextSeq
      /\ stream'.buf = stream.buf /\ stream'.seen = stream.seen
      /\ stream'.log = stream.log /\ stream'.busy = stream.busy
      /\ stream'.taken = stream.taken + 1 /\ stream'.taken \in DOMAIN stream'.log
  BY <1>1, <1>2 DEF Streams
<1>4. LinesAreTails' /\ GivenHasArrived' /\ (Gapless' => Gapless)
  <2>1. \A n \in Seqs : Arrived(stream, n) => Arrived(stream', n)
    BY <1>3 DEF Arrived
  <2>. QED  BY <1>2, <1>3, <2>1, LinesStay
<1>5. FinIsLast'
  BY <1>1, <1>3, <1>4 DEF FinIsLast, Arrived
<1>6. EndedAtFin'
  BY <1>2, <1>3 DEF EndedAtFin
<1>. QED  BY <1>4, <1>5, <1>6

LEMMA CleanStep ==
  CleanInv /\ Sized /\ [FanoutNext]_fanoutVars => CleanInv'
<1>. SUFFICES ASSUME CleanInv, Sized, [FanoutNext]_fanoutVars
              PROVE  CleanInv'
  OBVIOUS
<1>1. FanoutTypeOK /\ Fits(stream) /\ Moves
  BY FanoutMoves DEF CleanInv
<1>2. FanoutTypeOK' /\ Fits(stream')
  BY <1>1, FitsKept DEF Moves, FanoutTypeOK, Good
<1>3. LinesAreTails' /\ GivenHasArrived' /\ FinIsLast' /\ EndedAtFin'
  <2>1. CASE UNCHANGED fanoutVars
    BY <2>1 DEF fanoutVars, CleanInv, LinesAreTails, GivenHasArrived, Arrived, FinIsLast,
                EndedAtFin, Gapless, First
  <2>. QED  BY <2>1, NetworkClean, DeliverClean, DrainClean, EndAcceptClean, HandleClean
            DEF FanoutNext, Sends
<1>. QED  BY <1>2, <1>3 DEF CleanInv

LEMMA CleanStart == FanoutInit => CleanInv
<1>. SUFFICES ASSUME FanoutInit PROVE CleanInv
  OBVIOUS
<1>1. FanoutTypeOK
  BY StartFanout
<1>2. /\ \A a \in Arteries : line[a] = <<>> /\ Len(line[a]) = 0
      /\ next = First /\ connected = Arteries
  BY DEF FanoutInit, First
<1>3. LinesAreTails
  <2>. SUFFICES ASSUME NEW a \in Arteries
                PROVE  LET k == Len(line[a]) IN
                       /\ a \notin connected => line[a] = <<>>
                       /\ Gapless /\ a \in connected =>
                            /\ k <= next - First
                            /\ \A i \in 1 .. k : line[a][i] = Frame(next - 1 - k + i)
    BY DEF LinesAreTails
  <2>1. line[a] = <<>> /\ Len(line[a]) = 0 /\ next - First = 0
    BY <1>2, FirstIs
  <2>. QED  BY <2>1
<1>4. GivenHasArrived
  BY <1>2, FirstIs DEF FanoutInit, GivenHasArrived, Arrived, NewStream
<1>5. Fits(stream) /\ FinIsLast /\ EndedAtFin
  BY DEF FanoutInit, NewStream, NoFrame, Fits, Rank, FinIsLast, EndedAtFin
<1>. QED  BY <1>1, <1>3, <1>4, <1>5 DEF CleanInv

LEMMA CleanAlways == FanoutSpec /\ Sized => []CleanInv
<1>1. Sized => []Sized
  BY DEF Sized
<1>. QED  BY <1>1, CleanStart, CleanStep, PTL DEF FanoutSpec

\* In both directions a clean end is no cut: with room for its frames in Ordered,
\* and as long as no artery has gone on without a frame, the reader has read every
\* frame that the stream may deliver when it returns at the FIN.
THEOREM EndsClean == FanoutSpec /\ Sized => []CleanEnd
<1>1. CleanInv => CleanEnd
  <2>. SUFFICES ASSUME CleanInv, ended, Gapless, NEW n \in Chunks \ {0} PROVE Read(n)
    BY DEF CleanEnd
  <2>1. n \in Seqs
    BY FirstIs, MaxSeqAssumption DEF Chunks
  <2>2. PICK k \in 1 .. stream.taken : stream.log[k] = Data(n)
    BY <2>1 DEF CleanInv, EndedAtFin, FinIsLast
  <2>. QED  BY <2>2 DEF Read
<1>. QED  BY <1>1, CleanAlways, PTL

-----------------------------------------------------------------------------
(* One artery.  LinkInv adds to the properties what each step relies on:   *)
(* Connect dials with ac.wsConn empty, the connection it brings is open    *)
(* until it is installed, and the loop that reads has a ticker.            *)

\* ac.wsConn is empty while Connect has released the lock.
DialsUnlocked == pc \in {"dialing", "install"} => ws = None

\* The connection that Connect is about to install, and an installed one, are open.
HeldIsOpen ==
  /\ ws # None => client[ws] = "open"
  /\ pc = "install" => mine \in Conns /\ client[mine] = "open"

\* The loop reads the installed connection, unless Close has taken it away, and its
\* ticker runs as long as the connection works.
ReaderHasTicker ==
  pc = "read" =>
    /\ mine \in Conns
    /\ ws \in {mine, None}
    /\ alive /\ ~ctxDone /\ Carries(ws) => mine \in tickers

LinkInv ==
  /\ LinkTypeOK
  /\ OpenIsHeld
  /\ EntryHasHandler
  /\ DialsUnlocked
  /\ HeldIsOpen
  /\ ReaderHasTicker

USE LinkAssumption
-----------------------------------------------------------------------------
LEMMA LinkStart == LinkInit => LinkInv
  BY DEF LinkInit, LinkInv, LinkTypeOK, OpenIsHeld, EntryHasHandler, DialsUnlocked,
         HeldIsOpen, ReaderHasTicker

\* The steps of the client that move no connection.
LEMMA QuietStep ==
  ASSUME LinkInv,
         CtxEnds \/ WaitEnds \/ DialFails \/ ReadFails \/ ReadStops \/ WriteFails \/ Cancel
  PROVE  LinkInv'
<1>1. CASE CtxEnds
  BY <1>1 DEF CtxEnds, serverVars, LinkInv, LinkTypeOK, OpenIsHeld, EntryHasHandler,
              DialsUnlocked, HeldIsOpen, ReaderHasTicker, Carries
<1>2. CASE WaitEnds
  BY <1>2 DEF WaitEnds, serverVars, LinkInv, LinkTypeOK, OpenIsHeld, EntryHasHandler,
              DialsUnlocked, HeldIsOpen, ReaderHasTicker, Carries
<1>3. CASE DialFails
  BY <1>3 DEF DialFails, serverVars, LinkInv, LinkTypeOK, OpenIsHeld, EntryHasHandler,
              DialsUnlocked, HeldIsOpen, ReaderHasTicker, Carries
<1>4. CASE ReadFails
  BY <1>4 DEF ReadFails, serverVars, LinkInv, LinkTypeOK, OpenIsHeld, EntryHasHandler,
              DialsUnlocked, HeldIsOpen, ReaderHasTicker, Carries
<1>5. CASE ReadStops
  BY <1>5 DEF ReadStops, serverVars, LinkInv, LinkTypeOK, OpenIsHeld, EntryHasHandler,
              DialsUnlocked, HeldIsOpen, ReaderHasTicker, Carries
<1>6. CASE WriteFails
  BY <1>6 DEF WriteFails, serverVars, LinkInv, LinkTypeOK, OpenIsHeld, EntryHasHandler,
              DialsUnlocked, HeldIsOpen, ReaderHasTicker, Carries
<1>7. CASE Cancel
  BY <1>7 DEF Cancel, serverVars, LinkInv, LinkTypeOK, OpenIsHeld, EntryHasHandler,
              DialsUnlocked, HeldIsOpen, ReaderHasTicker, Carries
<1>. QED  BY <1>1, <1>2, <1>3, <1>4, <1>5, <1>6, <1>7

LEMMA ConnectStep ==
  ASSUME LinkInv, ConnectCloses \/ Install \/ EnterLoop \/ Close
  PROVE  LinkInv'
<1>1. CASE ConnectCloses
  BY <1>1 DEF ConnectCloses, serverVars, LinkInv, LinkTypeOK, OpenIsHeld, EntryHasHandler,
              DialsUnlocked, HeldIsOpen, ReaderHasTicker, Carries
<1>2. CASE Install
  BY <1>2 DEF Install, serverVars, LinkInv, LinkTypeOK, OpenIsHeld, EntryHasHandler,
              DialsUnlocked, HeldIsOpen, ReaderHasTicker, Carries
<1>3. CASE EnterLoop
  BY <1>3 DEF EnterLoop, serverVars, LinkInv, LinkTypeOK, OpenIsHeld, EntryHasHandler,
              DialsUnlocked, HeldIsOpen, ReaderHasTicker, Carries
<1>4. CASE Close
  BY <1>4 DEF Close, serverVars, LinkInv, LinkTypeOK, OpenIsHeld, EntryHasHandler,
              DialsUnlocked, HeldIsOpen, ReaderHasTicker, Carries
<1>5. QED BY <1>1, <1>2, <1>3, <1>4

\* A dial takes a connection of which nothing is held.
LEMMA DialStep ==
  ASSUME LinkInv, NEW c \in Conns, Dial(c)
  PROVE  LinkInv'
<1>1. server[c] = "none" /\ c # ws /\ c # mine /\ c # table
  BY DEF Dial, DialSucceeds, DialLost, Upgrade, Gone, LinkInv, EntryHasHandler
<1>2. CASE DialSucceeds(c)
  BY <1>1, <1>2 DEF DialSucceeds, Upgrade, LinkInv, LinkTypeOK, OpenIsHeld, EntryHasHandler,
              DialsUnlocked, HeldIsOpen, ReaderHasTicker, Carries
<1>3. CASE DialLost(c)
  BY <1>1, <1>3 DEF DialLost, Upgrade, LinkInv, LinkTypeOK, OpenIsHeld, EntryHasHandler,
              DialsUnlocked, HeldIsOpen, ReaderHasTicker, Carries
<1>4. QED BY <1>2, <1>3 DEF Dial

\* A ticker only goes when the connection it pings does not work.
LEMMA TickerStep ==
  ASSUME LinkInv, NEW t \in Conns, TickerStops(t)
  PROVE  LinkInv'
  BY DEF TickerStops, serverVars, LinkInv, LinkTypeOK, OpenIsHeld, EntryHasHandler,
         DialsUnlocked, HeldIsOpen, ReaderHasTicker, Carries

\* The steps of the server and of the network open no connection.
LEMMA ServerStep ==
  ASSUME LinkInv,
         \/ StopCombiner \/ ServerRestarts
         \/ \E c \in Conns : Serve(c) \/ NetBreaks(c)
  PROVE  LinkInv'
<1>1. ASSUME NEW c \in Conns, Register(c) PROVE LinkInv'
  BY <1>1 DEF Register, clientVars, LinkInv, LinkTypeOK, OpenIsHeld, EntryHasHandler,
              DialsUnlocked, HeldIsOpen, ReaderHasTicker, Carries
<1>2. ASSUME NEW c \in Conns, KeepAliveFails(c) PROVE LinkInv'
  BY <1>2 DEF KeepAliveFails, clientVars, LinkInv, LinkTypeOK, OpenIsHeld, EntryHasHandler,
              DialsUnlocked, HeldIsOpen, ReaderHasTicker, Carries
<1>3. ASSUME NEW c \in Conns, Deregister(c) PROVE LinkInv'
  BY <1>3 DEF Deregister, clientVars, LinkInv, LinkTypeOK, OpenIsHeld, EntryHasHandler,
              DialsUnlocked, HeldIsOpen, ReaderHasTicker, Carries
<1>4. CASE StopCombiner
  BY <1>4 DEF StopCombiner, clientVars, LinkInv, LinkTypeOK, OpenIsHeld, EntryHasHandler,
              DialsUnlocked, HeldIsOpen, ReaderHasTicker, Carries
<1>5. CASE ServerRestarts
  BY <1>5 DEF ServerRestarts, clientVars, LinkInv, LinkTypeOK, OpenIsHeld, EntryHasHandler,
              DialsUnlocked, HeldIsOpen, ReaderHasTicker, Carries
<1>6. ASSUME NEW c \in Conns, HandlerFails(c) PROVE LinkInv'
  BY <1>6 DEF HandlerFails, clientVars, LinkInv, LinkTypeOK, OpenIsHeld, EntryHasHandler,
              DialsUnlocked, HeldIsOpen, ReaderHasTicker, Carries
<1>7. ASSUME NEW c \in Conns, NetBreaks(c) PROVE LinkInv'
  BY <1>7 DEF NetBreaks, clientVars, serverVars, LinkInv, LinkTypeOK, OpenIsHeld,
              EntryHasHandler, DialsUnlocked, HeldIsOpen, ReaderHasTicker, Carries
<1>8. QED BY <1>1, <1>2, <1>3, <1>4, <1>5, <1>6, <1>7 DEF Serve

LEMMA StutterStep == ASSUME LinkInv, UNCHANGED linkVars PROVE LinkInv'
  BY DEF linkVars, LinkInv, LinkTypeOK, OpenIsHeld, EntryHasHandler,
         DialsUnlocked, HeldIsOpen, ReaderHasTicker, Carries

\* LinkInv is inductive.
THEOREM LinkInductive == LinkSpec => []LinkInv
<1>1. LinkInv /\ [LinkNext]_linkVars => LinkInv'
  <2>1. SUFFICES ASSUME LinkInv, [LinkNext]_linkVars PROVE LinkInv'
    OBVIOUS
  <2>2. CASE Run
    BY <2>1, <2>2, QuietStep, ConnectStep DEF Run
  <2>3. CASE DialFails \/ WriteFails \/ Cancel \/ Close
    BY <2>1, <2>3, QuietStep, ConnectStep
  <2>4. CASE StopCombiner \/ ServerRestarts \/ \E c \in Conns : Serve(c) \/ NetBreaks(c)
    BY <2>1, <2>4, ServerStep
  <2>5. CASE \E c \in Conns : Dial(c) \/ TickerStops(c)
    BY <2>1, <2>5, DialStep, TickerStep
  <2>6. CASE UNCHANGED linkVars
    BY <2>1, <2>6, StutterStep
  <2>7. QED BY <2>1, <2>2, <2>3, <2>4, <2>5, <2>6 DEF LinkNext
<1>2. QED BY <1>1, LinkStart, PTL DEF LinkSpec

\* Whatever Close and the two halves of Connect do to each other, an open connection
\* is the one in ac.wsConn or is about to be put there.
THEOREM NoConnectionIsLost == LinkSpec => []OpenIsHeld
  BY LinkInductive, PTL DEF LinkInv

\* The combiner's entry of an artery always has a handler that will remove it.
THEOREM EntriesAreRemoved == LinkSpec => []EntryHasHandler
  BY LinkInductive, PTL DEF LinkInv

\* ReadFrameLoop does not give a working connection up.
THEOREM KeepsWorking == LinkSpec => WorkingIsKept
<1>1. LinkInv /\ [LinkNext]_linkVars =>
        (pc = "read" /\ alive /\ ~ctxDone /\ Carries(ws) => pc' = "read")
  <2>1. SUFFICES ASSUME LinkInv, [LinkNext]_linkVars,
                        pc = "read", alive, ~ctxDone, Carries(ws)
                 PROVE  pc' = "read"
    OBVIOUS
  <2>2. ~ReadBreaks
    BY <2>1 DEF ReadBreaks, LinkInv, ReaderHasTicker, HeldIsOpen, Carries
  <2>3. CASE LinkNext
    BY <2>1, <2>2, <2>3 DEF LinkNext, Run, CtxEnds, ConnectCloses, WaitEnds, Install, EnterLoop,
       ReadFails, ReadStops, DialFails, WriteFails, Cancel, Close, StopCombiner,
       ServerRestarts, Dial, DialSucceeds, DialLost, Upgrade, TickerStops, Serve, Register,
       KeepAliveFails, HandlerFails, Deregister, NetBreaks, clientVars
  <2>4. CASE UNCHANGED linkVars
    BY <2>1, <2>4 DEF linkVars
  <2>5. QED BY <2>1, <2>3, <2>4
<1>2. QED BY <1>1, LinkInductive, PTL DEF LinkSpec, WorkingIsKept
=============================================================================
