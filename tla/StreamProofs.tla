----------------------------- MODULE StreamProofs -----------------------------
(***************************************************************************)
(* What one step of a stream (NewStream, Accept, the drain, Ordered, Close *)
(* of session/stream.go) keeps, for every ReorderCap, number of frames and *)
(* set of control frames.                                                  *)
(***************************************************************************)
EXTENDS StreamFrames, TLAPS

USE DEF Seqs

(* What the steps of Accept do to each field of a stream. *)

LEMMA FrameType ==
  /\ \A i \in Seqs : Data(i) \in Frames /\ Data(i).type = "DATA" /\ Data(i).seq = i
  /\ \A f \in Frames : f.type = "DATA" => f.seq \in Seqs /\ f = Data(f.seq)
  /\ \A f \in Frames : f.type # "DATA" => f \in Controls
  /\ \A f \in Controls : f.type \in ControlTypes /\ f \in Frames
  /\ NoFrame \notin Frames
<1>1. \A f \in Controls : f.type \in ControlTypes /\ f.type # "DATA" /\ f.type # "NONE"
  BY ControlsAssumption DEF ControlTypes
<1>2. \A i \in Seqs : Data(i) \in Frames /\ Data(i).type = "DATA" /\ Data(i).seq = i
  BY DEF Frames, Data
<1>3. \A f \in Frames : f \in Controls \/ \E i \in Seqs : f = Data(i)
  BY DEF Frames
<1>4. Controls \subseteq Frames
  BY DEF Frames
<1>5. NoFrame.type = "NONE"
  BY DEF NoFrame
<1> QED BY <1>1, <1>2, <1>3, <1>4, <1>5

\* deliverLocked appends the frame when there is room, and otherwise records
\* a sequenced frame as lost; it touches nothing else.
LEMMA DeliverFields ==
  ASSUME NEW s \in Streams, NEW f \in Frames
  PROVE  LET d == deliverLocked(s, f) IN
         /\ d \in Streams
         /\ d.state = s.state /\ d.nextSeq = s.nextSeq /\ d.buf = s.buf
         /\ d.seen = s.seen /\ d.taken = s.taken /\ d.busy = s.busy
         /\ d.open = s.open
         /\ \/ /\ PendingDelivery(s) < ReorderCap
               /\ d.log = Append(s.log, f)
               /\ d.lost = s.lost
            \/ /\ ~(PendingDelivery(s) < ReorderCap)
               /\ d.log = s.log
               /\ d.lost = IF f.type = "DATA" THEN s.lost \cup {f.seq} ELSE s.lost
<1>1. CASE PendingDelivery(s) < ReorderCap
  <2>1. Append(s.log, f) \in Seq(Frames)
    BY DEF Streams
  <2> QED BY <1>1, <2>1 DEF deliverLocked, Streams
<1>2. CASE ~(PendingDelivery(s) < ReorderCap)
  <2>1. (IF f.type = "DATA" THEN s.lost \cup {f.seq} ELSE s.lost) \in SUBSET Seqs
    BY FrameType DEF Streams
  <2> QED BY <1>2, <2>1 DEF deliverLocked, Streams
<1> QED BY <1>1, <1>2

-----------------------------------------------------------------------------
(* Every step of the stream is one of four steps of its log. *)

Room(s) == PendingDelivery(s) < ReorderCap

\* How many frames may have ended the stream: two FINs, or an RST.
Rank(s) == CASE s.state = "OPEN" -> 0
             [] s.state = "HALF_CLOSED" -> 1
             [] OTHER -> 2

\* The expected frame is delivered, or lost when Ordered is full.
Emits(s, t) ==
  /\ s.nextSeq \in Seqs
  /\ t.nextSeq = s.nextSeq + 1
  /\ t.taken = s.taken
  /\ t.state = s.state
  /\ \/ Room(s) /\ t.log = Append(s.log, Data(s.nextSeq)) /\ t.lost = s.lost
     \/ ~Room(s) /\ t.log = s.log /\ t.lost = s.lost \cup {s.nextSeq}

\* The control frame f is delivered, or dropped when Ordered is full.
Puts(s, t, f) ==
  /\ t.nextSeq = s.nextSeq
  /\ t.taken = s.taken
  /\ t.lost = s.lost
  /\ \/ Room(s) /\ t.log = Append(s.log, f)
     \/ ~Room(s) /\ t.log = s.log

Signals(s, t) ==
  \E f \in Controls : Puts(s, t, f) /\ (f.type = "WINDOW" \/ Rank(t) > Rank(s))

\* The consumer receives one frame.
Reads(s, t) ==
  /\ s.taken < Len(s.log)
  /\ t.taken = s.taken + 1
  /\ t.nextSeq = s.nextSeq /\ t.log = s.log /\ t.lost = s.lost
  /\ t.state = s.state

Quiet(s, t) ==
  /\ t.nextSeq = s.nextSeq /\ t.taken = s.taken /\ t.log = s.log /\ t.lost = s.lost
  /\ Rank(t) >= Rank(s)

LogStep(s, t) == Emits(s, t) \/ Signals(s, t) \/ Reads(s, t) \/ Quiet(s, t)

\* The log agrees with NextSeq: in order, below it, complete up to what was
\* lost.
InOrder(s) ==
  \A m, n \in DOMAIN s.log :
    m < n /\ s.log[m].type = "DATA" /\ s.log[n].type = "DATA"
      => s.log[m].seq < s.log[n].seq
Below(s) ==
  \A n \in DOMAIN s.log : s.log[n].type = "DATA" => s.log[n].seq < s.nextSeq
Complete(s) ==
  \A i \in Seqs :
    i < s.nextSeq <=> (\E n \in DOMAIN s.log : s.log[n] = Data(i)) \/ i \in s.lost
Ledger(s) == InOrder(s) /\ Below(s) /\ Complete(s) /\ s.taken <= Len(s.log)

\* A step of the log keeps the ledger.
LEMMA LedgerKept ==
  ASSUME NEW s \in Streams, NEW t \in Streams, Ledger(s), LogStep(s, t)
  PROVE  Ledger(t)
<1>s. /\ s.log \in Seq(Frames) /\ t.log \in Seq(Frames)
      /\ s.nextSeq \in Int /\ t.nextSeq \in Int
      /\ s.taken \in Nat /\ t.taken \in Nat
  BY MaxSeqAssumption DEF Streams
<1>1. CASE t.log = s.log
  <2>1. t.taken <= Len(t.log)
    BY <1>s, <1>1 DEF Ledger, LogStep, Emits, Signals, Puts, Reads, Quiet
  <2>2. CASE t.nextSeq = s.nextSeq /\ t.lost = s.lost
    BY <1>1, <2>1, <2>2 DEF Ledger, InOrder, Below, Complete
  <2>3. CASE Emits(s, t)
    <3>1. ~(t.log = Append(s.log, Data(s.nextSeq)))
      BY <1>1, <1>s, <2>3, FrameType DEF Emits
    <3>2. t.lost = s.lost \cup {s.nextSeq} /\ t.nextSeq = s.nextSeq + 1
      BY <2>3, <3>1 DEF Emits
    <3>3. InOrder(t) /\ Below(t)
      <4>1. \A n \in DOMAIN s.log : s.log[n].type = "DATA" => s.log[n].seq \in Int
        BY <1>s, FrameType
      <4> QED BY <1>1, <1>s, <3>2, <4>1 DEF Ledger, InOrder, Below
    <3>4. Complete(t)
      BY <1>1, <1>s, <3>2 DEF Ledger, Complete
    <3> QED BY <2>1, <3>3, <3>4 DEF Ledger
  <2> QED BY <1>1, <2>2, <2>3 DEF LogStep, Signals, Puts, Reads, Quiet
<1>2. ASSUME NEW f \in Controls, t.log = Append(s.log, f),
             t.nextSeq = s.nextSeq, t.lost = s.lost, t.taken = s.taken
      PROVE  Ledger(t)
  <2>1. /\ Len(t.log) = Len(s.log) + 1
        /\ \A n \in DOMAIN s.log : n \in DOMAIN t.log /\ t.log[n] = s.log[n]
        /\ \A n \in DOMAIN t.log : n \in DOMAIN s.log \/ t.log[n] = f
    BY <1>2, <1>s, FrameType
  <2>2. f.type # "DATA" /\ \A i \in Seqs : f # Data(i)
    BY FrameType DEF ControlTypes
  <2>3. InOrder(t)
    BY <1>s, <2>1, <2>2 DEF Ledger, InOrder
  <2>4. Below(t)
    BY <1>2, <2>1, <2>2 DEF Ledger, Below
  <2>5. Complete(t)
    BY <1>2, <2>1, <2>2 DEF Ledger, Complete
  <2> QED BY <1>2, <1>s, <2>1, <2>3, <2>4, <2>5 DEF Ledger
<1>3. CASE Emits(s, t) /\ t.log = Append(s.log, Data(s.nextSeq)) /\ t.log # s.log
  <2> DEFINE f == Data(s.nextSeq)
  <2>0. t.nextSeq = s.nextSeq + 1 /\ t.taken = s.taken /\ t.lost = s.lost
        /\ s.nextSeq \in Seqs
    BY <1>3 DEF Emits
  <2>1. /\ Len(t.log) = Len(s.log) + 1
        /\ \A n \in DOMAIN s.log : n \in DOMAIN t.log /\ t.log[n] = s.log[n]
        /\ \A n \in DOMAIN t.log : n \in DOMAIN s.log \/ (n = Len(t.log) /\ t.log[n] = f)
        /\ Len(t.log) \in DOMAIN t.log /\ t.log[Len(t.log)] = f
    BY <1>3, <1>s, <2>0, FrameType
  <2>2. f.type = "DATA" /\ f.seq = s.nextSeq
    BY <2>0, FrameType
  <2>3. \A n \in DOMAIN s.log : s.log[n].type = "DATA" => s.log[n].seq \in Int
    BY <1>s, FrameType
  <2>4. InOrder(t)
    <3> SUFFICES ASSUME NEW m \in DOMAIN t.log, NEW n \in DOMAIN t.log, m < n,
                        t.log[m].type = "DATA", t.log[n].type = "DATA"
                 PROVE  t.log[m].seq < t.log[n].seq
      BY DEF InOrder
    <3>1. m \in DOMAIN s.log
      BY <1>s, <2>1
    <3>2. CASE n \in DOMAIN s.log
      BY <2>1, <3>1, <3>2 DEF Ledger, InOrder
    <3>3. CASE t.log[n] = f
      BY <2>1, <2>2, <3>1, <3>3 DEF Ledger, Below
    <3> QED BY <2>1, <3>2, <3>3
  <2>5. Below(t)
    BY <1>s, <2>0, <2>1, <2>2, <2>3 DEF Ledger, Below
  <2>6. Complete(t)
    <3> SUFFICES ASSUME NEW i \in Seqs
                 PROVE  i < t.nextSeq <=>
                          (\E n \in DOMAIN t.log : t.log[n] = Data(i)) \/ i \in t.lost
      BY DEF Complete
    <3>1. CASE i = s.nextSeq
      BY <1>s, <2>0, <2>1, <3>1
    <3>2. CASE i # s.nextSeq
      <4>1. f # Data(i)
        BY <2>2, <3>2, FrameType
      <4>2. (\E n \in DOMAIN t.log : t.log[n] = Data(i))
              <=> (\E n \in DOMAIN s.log : s.log[n] = Data(i))
        BY <2>1, <4>1
      <4> QED BY <1>s, <2>0, <3>2, <4>2 DEF Ledger, Complete
    <3> QED BY <3>1, <3>2
  <2> QED BY <1>s, <2>0, <2>1, <2>4, <2>5, <2>6 DEF Ledger
<1> QED BY <1>1, <1>2, <1>3 DEF LogStep, Emits, Signals, Puts, Reads, Quiet

-----------------------------------------------------------------------------
(* The inductive invariant: beside the ledger, what the lock protects.     *)

\* Buffered frames are ahead of NextSeq, strictly when no Accept is under way.
Ahead(s) ==
  \A i \in s.buf : i >= s.nextSeq /\ (~Locked(s) => i # s.nextSeq)

\* Only a stream in service is locked between two steps.
LockedInService(s) == Locked(s) => ~Terminal(s)

Good(s) == s \in Streams /\ Ledger(s) /\ Ahead(s) /\ LockedInService(s)

LEMMA QuietSame ==
  ASSUME NEW s, NEW t, t.nextSeq = s.nextSeq, t.taken = s.taken, t.log = s.log,
         t.lost = s.lost, t.state = s.state
  PROVE  Quiet(s, t)
<1>1. Rank(t) = Rank(s) /\ Rank(s) \in {0, 1, 2}
  BY DEF Rank
<1> QED BY <1>1 DEF Quiet

LEMMA NewStreamGood == Good(NewStream)
<1>1. NewStream \in Streams
  BY MaxSeqAssumption DEF NewStream, Streams, StreamStates
<1>2. Ledger(NewStream)
  BY DEF NewStream, Ledger, InOrder, Below, Complete
<1>3. Ahead(NewStream) /\ LockedInService(NewStream)
  BY DEF NewStream, Ahead, LockedInService, Locked
<1> QED BY <1>1, <1>2, <1>3 DEF Good

\* A control frame goes straight to deliverLocked.
LEMMA DeliverControl ==
  ASSUME NEW s \in Streams, NEW f \in Frames, f.type # "DATA"
  PROVE  LET d == deliverLocked(s, f) IN
         /\ f \in Controls /\ d \in Streams /\ Puts(s, d, f) /\ d.nextSeq = s.nextSeq
         /\ d.buf = s.buf /\ d.busy = s.busy /\ d.state = s.state /\ d.open = s.open
<1> DEFINE d == deliverLocked(s, f)
<1>1. f \in Controls
  BY FrameType
<1>2. /\ d \in Streams /\ d.nextSeq = s.nextSeq /\ d.taken = s.taken
      /\ d.buf = s.buf /\ d.busy = s.busy /\ d.state = s.state /\ d.open = s.open
      /\ \/ Room(s) /\ d.log = Append(s.log, f) /\ d.lost = s.lost
         \/ ~Room(s) /\ d.log = s.log /\ d.lost = s.lost
  BY DeliverFields DEF Room
<1>3. Puts(s, d, f)
  BY <1>2 DEF Puts
<1> QED BY <1>1, <1>2, <1>3

\* Accept, up to the drain.
LEMMA AcceptGood ==
  ASSUME NEW s, Good(s), ~Locked(s), NEW f \in Frames
  PROVE  LET t == Accept(s, f) IN
         Good(t) /\ LogStep(s, t) /\ t.open = s.open /\ (Terminal(s) => t = s)
<1> DEFINE t == Accept(s, f)
<1>s. s \in Streams /\ Ledger(s) /\ Ahead(s)
  BY DEF Good
<1>t. f.type \in ControlTypes \cup {"DATA"}
  BY FrameType
<1>1. CASE Terminal(s)
  <2>1. t = s
    BY <1>1 DEF Accept
  <2> QED BY <1>s, <2>1, QuietSame DEF Good, LogStep
<1>2. CASE ~Terminal(s) /\ f.type = "FIN"
  <2>1. t = [s EXCEPT !.busy = f]
    BY <1>2 DEF Accept
  <2>2. t \in Streams /\ Quiet(s, t) /\ t.buf = s.buf /\ t.state = s.state /\ t.open = s.open
        /\ t.busy = f
    BY <1>s, <2>1, QuietSame DEF Streams
  <2>3. Locked(t)
    BY <2>2, FrameType DEF Locked
  <2>4. Ahead(t) /\ LockedInService(t)
    BY <1>s, <1>2, <2>2, <2>3 DEF Ahead, LockedInService, Terminal, Quiet
  <2> QED BY <1>s, <1>2, <2>2, <2>4, LedgerKept DEF Good, LogStep
<1>3. CASE ~Terminal(s) /\ f.type = "RST"
  <2> DEFINE r == [s EXCEPT !.state = "RESET"]
  <2>1. t = deliverLocked(r, f)
    BY <1>3 DEF Accept
  <2>2. r \in Streams /\ r.nextSeq = s.nextSeq /\ r.taken = s.taken /\ r.log = s.log
        /\ r.lost = s.lost /\ r.buf = s.buf /\ r.busy = s.busy /\ r.open = s.open
        /\ r.state = "RESET"
    BY <1>s DEF Streams, StreamStates
  <2>3. t \in Streams /\ Puts(r, t, f) /\ t.buf = r.buf /\ t.busy = r.busy /\ t.open = r.open
        /\ t.nextSeq = r.nextSeq /\ t.state = r.state /\ f \in Controls
    <3> HIDE DEF r, t
    <3> QED BY <1>3, <2>1, <2>2, DeliverControl
  <2>4. Signals(s, t)
    <3>1. Puts(s, t, f)
      BY <2>2, <2>3 DEF Puts, Room, PendingDelivery
    <3>2. Rank(s) \in {0, 1} /\ Rank(t) = 2
      BY <1>s, <1>3, <2>2, <2>3 DEF Rank, Terminal, Streams, StreamStates
    <3> QED BY <2>3, <3>1, <3>2 DEF Signals
  <2>5. ~Locked(t) /\ Ahead(t) /\ LockedInService(t)
    BY <1>s, <2>2, <2>3 DEF Ahead, LockedInService, Locked
  <2> QED BY <1>s, <1>3, <2>2, <2>3, <2>4, <2>5, LedgerKept DEF Good, LogStep
<1>4. CASE ~Terminal(s) /\ f.type = "WINDOW"
  <2>1. t = deliverLocked(s, f)
    BY <1>4 DEF Accept
  <2>2. t \in Streams /\ Signals(s, t) /\ t.buf = s.buf /\ t.busy = s.busy /\ t.open = s.open
        /\ t.nextSeq = s.nextSeq
    BY <1>s, <1>4, <2>1, DeliverControl DEF Signals
  <2>3. ~Locked(t) /\ Ahead(t) /\ LockedInService(t)
    BY <1>s, <2>2 DEF Ahead, LockedInService, Locked
  <2> QED BY <1>s, <1>4, <2>2, <2>3, LedgerKept DEF Good, LogStep
<1>5. CASE ~Terminal(s) /\ f.type = "DATA"
  <2> DEFINE m == markSeen(s, f.seq)
  <2>0. f.seq \in Seqs /\ f = Data(f.seq)
    BY <1>5, FrameType
  <2>1. t = IF f.seq \in s.seen THEN s ELSE Reorder(m, f)
    BY <1>5 DEF Accept
  <2>2. m \in Streams /\ Quiet(s, m) /\ m.buf = s.buf /\ m.busy = s.busy
        /\ m.state = s.state /\ m.open = s.open
    BY <1>s, <2>0, QuietSame DEF markSeen, Streams
  <2>3. CASE t = s
    BY <1>s, <1>5, <2>3, QuietSame DEF Good, LogStep
  <2>4. CASE t = m
    <3>1. ~Locked(t) /\ Ahead(t) /\ LockedInService(t)
      BY <1>s, <2>2, <2>4 DEF Ahead, LockedInService, Locked, Quiet
    <3> QED BY <1>s, <1>5, <2>2, <2>4, <3>1, LedgerKept DEF Good, LogStep
  <2>5. CASE f.seq = s.nextSeq /\ t = DeliverNext(m, f)
    <3> DEFINE d == deliverLocked(m, f)
    <3>1. /\ d \in Streams /\ d.nextSeq = s.nextSeq /\ d.taken = s.taken
          /\ d.buf = s.buf /\ d.state = s.state /\ d.open = s.open
          /\ \/ Room(s) /\ d.log = Append(s.log, f) /\ d.lost = s.lost
             \/ ~Room(s) /\ d.log = s.log /\ d.lost = s.lost \cup {f.seq}
      BY <1>5, <2>2, DeliverFields DEF Quiet, Room, PendingDelivery
    <3>2. t = [d EXCEPT !.nextSeq = @ + 1, !.busy = f]
      BY <2>5 DEF DeliverNext
    <3>3. d.nextSeq + 1 \in 1 .. MaxSeq + 1
      BY <2>0, <2>5, <3>1, MaxSeqAssumption
    <3>4. /\ t \in Streams /\ t.nextSeq = s.nextSeq + 1 /\ t.taken = d.taken
          /\ t.buf = d.buf /\ t.state = d.state /\ t.open = d.open
          /\ t.log = d.log /\ t.lost = d.lost /\ t.busy = f
      BY <3>1, <3>2, <3>3 DEF Streams
    <3>5. Emits(s, t)
      BY <2>0, <2>5, <3>1, <3>4, <1>s DEF Emits
    <3>6. Locked(t) /\ LockedInService(t)
      BY <1>5, <3>1, <3>4, FrameType DEF Locked, LockedInService, Terminal
    <3>7. Ahead(t)
      <4>1. s.nextSeq \in Int /\ s.buf \subseteq Int
        BY <1>s, MaxSeqAssumption DEF Streams
      <4> QED BY <1>s, <3>1, <3>4, <3>6, <4>1 DEF Ahead
    <3> QED BY <1>s, <1>5, <3>1, <3>4, <3>5, <3>6, <3>7, LedgerKept DEF Good, LogStep
  <2>6. CASE f.seq > s.nextSeq /\ t = [m EXCEPT !.buf = @ \cup {f.seq}]
    <3>1. t \in Streams /\ Quiet(s, t) /\ t.buf = s.buf \cup {f.seq} /\ t.busy = s.busy
          /\ t.state = s.state /\ t.open = s.open
      BY <2>0, <2>2, <2>6, QuietSame DEF Streams, Quiet
    <3>2. ~Locked(t) /\ Ahead(t) /\ LockedInService(t)
      <4>1. s.nextSeq \in Int /\ f.seq \in Int
        BY <1>s, <2>0, MaxSeqAssumption DEF Streams
      <4> QED BY <1>s, <2>6, <3>1, <4>1 DEF Ahead, LockedInService, Locked, Quiet
    <3> QED BY <1>s, <1>5, <3>1, <3>2, LedgerKept DEF Good, LogStep
  <2>7. t = s \/ t = m \/ (f.seq = s.nextSeq /\ t = DeliverNext(m, f))
        \/ (f.seq > s.nextSeq /\ t = [m EXCEPT !.buf = @ \cup {f.seq}])
    <3>1. s.nextSeq \in Int /\ f.seq \in Int /\ m.nextSeq = s.nextSeq
      BY <1>s, <2>0, <2>2, MaxSeqAssumption DEF Streams, Quiet
    <3> HIDE DEF m
    <3> QED BY <2>1, <3>1 DEF Reorder
  <2> HIDE DEF t, m
  <2> QED BY <2>3, <2>4, <2>5, <2>6, <2>7
<1> QED BY <1>t, <1>1, <1>2, <1>3, <1>4, <1>5 DEF ControlTypes

\* A turn of the drain.
LEMMA DrainGood ==
  ASSUME NEW s, Good(s), CanDrain(s)
  PROVE  LET t == DrainStep(s) IN
         Good(t) /\ LogStep(s, t) /\ t.open = s.open /\ t.state = s.state
<1> DEFINE f == Data(s.nextSeq)
           d == deliverLocked(s, f)
           t == DrainStep(s)
<1>s. s \in Streams /\ Ledger(s) /\ Ahead(s) /\ LockedInService(s) /\ Locked(s)
      /\ s.nextSeq \in s.buf
  BY DEF Good, CanDrain
<1>0. s.nextSeq \in Seqs /\ s.nextSeq \in Int /\ s.buf \subseteq Int
  BY <1>s DEF Streams
<1>f. f \in Frames /\ f.type = "DATA" /\ f.seq = s.nextSeq
  BY <1>0, FrameType
<1>1. /\ d \in Streams /\ d.nextSeq = s.nextSeq /\ d.taken = s.taken /\ d.busy = s.busy
      /\ d.buf = s.buf /\ d.state = s.state /\ d.open = s.open
      /\ \/ Room(s) /\ d.log = Append(s.log, f) /\ d.lost = s.lost
         \/ ~Room(s) /\ d.log = s.log /\ d.lost = s.lost \cup {s.nextSeq}
  <2> HIDE DEF f
  <2> QED BY <1>s, <1>f, DeliverFields DEF Room
<1>2. t = [d EXCEPT !.buf = @ \ {s.nextSeq}, !.nextSeq = @ + 1]
  BY DEF DrainStep
<1>3. d.nextSeq + 1 \in 1 .. MaxSeq + 1
  BY <1>0, <1>1, MaxSeqAssumption
<1>4. /\ t \in Streams /\ t.nextSeq = s.nextSeq + 1 /\ t.taken = d.taken
      /\ t.buf = s.buf \ {s.nextSeq} /\ t.state = d.state /\ t.open = d.open
      /\ t.log = d.log /\ t.lost = d.lost /\ t.busy = s.busy
  <2> HIDE DEF d
  <2> QED BY <1>1, <1>2, <1>3 DEF Streams
<1>5. Emits(s, t)
  BY <1>0, <1>1, <1>4 DEF Emits
<1>6. Ahead(t) /\ LockedInService(t)
  <2>1. Locked(t)
    BY <1>s, <1>4 DEF Locked
  <2> QED BY <1>s, <1>0, <1>1, <1>4, <2>1 DEF Ahead, LockedInService, Terminal
<1> QED BY <1>s, <1>1, <1>4, <1>5, <1>6, LedgerKept DEF Good, LogStep

\* The end of Accept.
LEMMA FinishGood ==
  ASSUME NEW s, Good(s), CanFinish(s)
  PROVE  LET t == FinishAccept(s) IN
         /\ Good(t) /\ LogStep(s, t) /\ t.open = s.open /\ ~Locked(t)
<1> DEFINE t == FinishAccept(s)
<1>s. s \in Streams /\ Ledger(s) /\ Ahead(s) /\ LockedInService(s) /\ Locked(s)
      /\ s.nextSeq \notin s.buf /\ s.busy \in Frames /\ s.state \in StreamStates
  BY DEF Good, CanFinish, Locked, Streams
<1>1. CASE s.busy.type = "FIN"
  <2> DEFINE d == deliverLocked(s, s.busy)
  <2>1. /\ d \in Streams /\ Puts(s, d, s.busy) /\ d.nextSeq = s.nextSeq
        /\ s.busy \in Controls
        /\ d.buf = s.buf /\ d.busy = s.busy /\ d.state = s.state /\ d.open = s.open
    BY <1>s, <1>1, DeliverControl
  <2>2. t = [d EXCEPT !.state = IF @ = "HALF_CLOSED" THEN "CLOSED" ELSE "HALF_CLOSED",
                      !.busy = NoFrame]
    BY <1>1 DEF FinishAccept
  <2>3. t \in Streams /\ Signals(s, t) /\ t.buf = s.buf /\ t.open = s.open
        /\ t.busy = NoFrame /\ t.nextSeq = s.nextSeq
    <3> HIDE DEF d
    <3>1. /\ t \in Streams /\ Puts(s, t, s.busy) /\ t.buf = s.buf /\ t.open = s.open
          /\ t.busy = NoFrame /\ t.nextSeq = s.nextSeq
          /\ t.state = IF s.state = "HALF_CLOSED" THEN "CLOSED" ELSE "HALF_CLOSED"
      BY <2>1, <2>2 DEF Streams, StreamStates, Puts
    <3>2. Rank(t) > Rank(s)
      BY <1>s, <3>1 DEF Rank, LockedInService, Terminal, StreamStates
    <3> QED BY <2>1, <3>1, <3>2 DEF Signals
  <2>4. ~Locked(t) /\ Ahead(t) /\ LockedInService(t)
    BY <1>s, <2>3 DEF Ahead, LockedInService, Locked
  <2> QED BY <1>s, <2>3, <2>4, LedgerKept DEF Good, LogStep
<1>2. CASE s.busy.type # "FIN"
  <2>1. t = [s EXCEPT !.busy = NoFrame]
    BY <1>2 DEF FinishAccept
  <2>2. t \in Streams /\ Quiet(s, t) /\ t.buf = s.buf /\ t.open = s.open /\ t.busy = NoFrame
    BY <1>s, <2>1, QuietSame DEF Streams
  <2>3. ~Locked(t) /\ Ahead(t) /\ LockedInService(t)
    BY <1>s, <2>2 DEF Ahead, LockedInService, Locked, Quiet
  <2> QED BY <1>s, <2>2, <2>3, LedgerKept DEF Good, LogStep
<1> QED BY <1>1, <1>2

\* The consumer.
LEMMA TakeGood ==
  ASSUME NEW s, Good(s), CanTake(s)
  PROVE  LET t == Take(s) IN
         /\ Good(t) /\ LogStep(s, t) /\ t.open = s.open /\ t.state = s.state
         /\ t.busy = s.busy
<1> DEFINE t == Take(s)
<1>s. s \in Streams /\ Ledger(s) /\ Ahead(s) /\ LockedInService(s)
      /\ s.taken \in Nat /\ Len(s.log) \in Nat /\ s.taken < Len(s.log)
  BY DEF Good, CanTake, PendingDelivery, Streams
<1>1. t \in Streams /\ Reads(s, t) /\ t.buf = s.buf /\ t.open = s.open
      /\ t.busy = s.busy /\ t.state = s.state
  BY <1>s DEF Take, Streams, Reads
<1>2. Ahead(t) /\ LockedInService(t)
  BY <1>s, <1>1 DEF Ahead, LockedInService, Locked, Terminal, Reads
<1> QED BY <1>s, <1>1, <1>2, LedgerKept DEF Good, LogStep

\* The two halves of Close.
LEMMA CloseGood ==
  ASSUME NEW s, Good(s)
  PROVE  /\ ~Locked(s) => LET t == MarkClosed(s) IN
                          /\ Good(t) /\ Quiet(s, t) /\ t.open = s.open
                          /\ t.state = "CLOSED" /\ t.busy = s.busy
         /\ LET t == CloseOrdered(s) IN
            /\ Good(t) /\ Quiet(s, t) /\ t.open = FALSE /\ t.state = s.state
            /\ t.busy = s.busy
<1>s. s \in Streams /\ Ledger(s) /\ Ahead(s) /\ LockedInService(s)
  BY DEF Good
<1>1. ASSUME ~Locked(s)
      PROVE  LET t == MarkClosed(s) IN
             /\ Good(t) /\ Quiet(s, t) /\ t.open = s.open
             /\ t.state = "CLOSED" /\ t.busy = s.busy
  <2> DEFINE t == MarkClosed(s)
  <2>1. t \in Streams /\ Quiet(s, t) /\ t.buf = s.buf /\ t.open = s.open
        /\ t.busy = s.busy /\ t.state = "CLOSED"
    <3>1. t \in Streams /\ t.nextSeq = s.nextSeq /\ t.taken = s.taken /\ t.log = s.log
          /\ t.lost = s.lost /\ t.buf = s.buf /\ t.open = s.open
          /\ t.busy = s.busy /\ t.state = "CLOSED"
      BY <1>s DEF MarkClosed, Streams, StreamStates
    <3>2. Rank(t) = 2 /\ Rank(s) \in {0, 1, 2}
      BY <3>1 DEF Rank
    <3> QED BY <3>1, <3>2 DEF Quiet
  <2>2. Ahead(t) /\ LockedInService(t)
    BY <1>s, <1>1, <2>1 DEF Ahead, LockedInService, Locked, Quiet
  <2> QED BY <1>s, <2>1, <2>2, LedgerKept DEF Good, LogStep
<1>2. LET t == CloseOrdered(s) IN
      /\ Good(t) /\ Quiet(s, t) /\ t.open = FALSE /\ t.state = s.state
      /\ t.busy = s.busy
  <2> DEFINE t == CloseOrdered(s)
  <2>1. t \in Streams /\ Quiet(s, t) /\ t.buf = s.buf /\ t.open = FALSE
        /\ t.busy = s.busy /\ t.state = s.state
    <3>1. t \in Streams /\ t.nextSeq = s.nextSeq /\ t.taken = s.taken /\ t.log = s.log
          /\ t.lost = s.lost /\ t.buf = s.buf /\ t.busy = s.busy /\ t.state = s.state
      BY <1>s DEF CloseOrdered, Streams
    <3>2. t.open = FALSE
      BY <1>s, ZenonT(20) DEF CloseOrdered, Streams
    <3> QED BY <3>1, <3>2, QuietSame
  <2>2. Ahead(t) /\ LockedInService(t)
    BY <1>s, <2>1 DEF Ahead, LockedInService, Locked, Terminal, Quiet
  <2> QED BY <1>s, <2>1, <2>2, LedgerKept DEF Good, LogStep
<1> QED BY <1>1, <1>2

-----------------------------------------------------------------------------
(* A stream whose frames fit in Ordered: MaxSeq frames in sequence and the    *)
(* one FIN that may be delivered before the last of them.                    *)

Sized ==
  /\ MaxSeq + 1 <= ReorderCap
  /\ \A f \in Controls : f.type # "WINDOW"

Fits(s) == Len(s.log) <= s.nextSeq - 1 + Rank(s) /\ s.lost = {}

LEMMA FitsKept ==
  ASSUME Sized, NEW s \in Streams, NEW t \in Streams, Fits(s), LogStep(s, t),
         Terminal(s) => Reads(s, t) \/ Quiet(s, t)
  PROVE  Fits(t) /\ (~Terminal(s) /\ s.nextSeq \in Seqs => Room(s))
<1>s. /\ s.log \in Seq(Frames) /\ t.log \in Seq(Frames)
      /\ s.nextSeq \in 1 .. MaxSeq + 1 /\ t.nextSeq \in 1 .. MaxSeq + 1
      /\ s.taken \in Nat /\ MaxSeq \in Nat /\ ReorderCap \in Nat
      /\ s.state \in StreamStates
  BY MaxSeqAssumption, ReorderCapAssumption DEF Streams
<1>r. /\ Rank(s) \in {0, 1, 2} /\ Rank(t) \in {0, 1, 2}
      /\ ~Terminal(s) => Rank(s) \in {0, 1}
  BY <1>s DEF Rank, Terminal, StreamStates
<1>1. ASSUME ~Terminal(s), s.nextSeq \in Seqs PROVE Room(s)
  BY <1>s, <1>r, <1>1 DEF Fits, Sized, Room, PendingDelivery
<1>2. CASE Emits(s, t)
  <2>1. ~Terminal(s)
    BY <1>2, <1>s DEF Emits, Reads, Quiet
  <2>2. t.log = Append(s.log, Data(s.nextSeq)) /\ t.lost = s.lost
        /\ t.nextSeq = s.nextSeq + 1 /\ Rank(t) = Rank(s)
    BY <1>1, <1>2, <2>1 DEF Emits, Rank
  <2>3. Len(t.log) = Len(s.log) + 1
    BY <1>s, <1>2, <2>2, FrameType DEF Emits
  <2>4. Fits(t)
    BY <1>s, <1>r, <2>2, <2>3 DEF Fits
  <2> QED BY <1>1, <2>4
<1>3. CASE Signals(s, t) /\ ~Terminal(s)
  <2>1. PICK f \in Controls : Puts(s, t, f) /\ Rank(t) > Rank(s)
    BY <1>3 DEF Signals, Sized
  <2>2. /\ t.log = Append(s.log, f) \/ t.log = s.log
        /\ t.lost = s.lost /\ t.nextSeq = s.nextSeq
    BY <2>1 DEF Puts
  <2>3. Len(t.log) <= Len(s.log) + 1
    BY <1>s, <2>2, FrameType
  <2>4. Rank(s) \in Int /\ Rank(t) \in Int /\ Rank(s) + 1 <= Rank(t)
    BY <1>r, <2>1
  <2>5. Len(s.log) \in Int /\ Len(t.log) \in Int /\ s.nextSeq \in Int
    BY <1>s
  <2>6. Len(s.log) <= s.nextSeq - 1 + Rank(s) /\ s.lost = {}
    BY DEF Fits
  <2>7. Len(t.log) <= s.nextSeq - 1 + Rank(t)
    BY <2>3, <2>4, <2>5, <2>6
  <2>8. Fits(t)
    BY <2>2, <2>6, <2>7 DEF Fits
  <2> QED BY <1>1, <2>8
<1>4. CASE Reads(s, t) \/ Quiet(s, t)
  <2>1. t.log = s.log /\ t.lost = s.lost /\ t.nextSeq = s.nextSeq /\ Rank(t) >= Rank(s)
    BY <1>r, <1>4 DEF Reads, Quiet, Rank
  <2>2. Fits(t)
    BY <1>s, <1>r, <2>1 DEF Fits
  <2> QED BY <1>1, <2>2
<1> QED BY <1>2, <1>3, <1>4 DEF LogStep
=============================================================================
