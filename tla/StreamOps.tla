------------------------------ MODULE StreamOps ------------------------------
(***************************************************************************)
(* One bonded stream (internal/bonding/session/stream.go) as a record, and *)
(* the steps of Accept and Close as functions from record to record.       *)
(*                                                                         *)
(*   state    StreamState                                                  *)
(*   nextSeq  NextSeq                                                      *)
(*   buf      the keys of reorderBuf                                       *)
(*   seen     the keys of seenSeqs                                         *)
(*   log      every frame ever sent on the channel Ordered                 *)
(*   taken    how many of them the consumer has received, so that the      *)
(*            channel holds log[taken + 1 .. Len(log)]                     *)
(*   busy     the frame whose Accept still holds s.mu, or NoFrame          *)
(*   open     Ordered has not been closed                                  *)
(*   lost     history: sequenced frames dropped because Ordered was full   *)
(*                                                                         *)
(* OPEN and DATA frames are treated alike by Accept, which looks at their  *)
(* Seq only: both are the frame Data(seq).                                 *)
(***************************************************************************)
EXTENDS Integers, Sequences, FiniteSets

CONSTANTS
  ReorderCap,   \* reorderCap: bound of reorderBuf, of Ordered, half of seenCap
  SeqMod        \* one more than the largest sequence number (2^64 in the code)

ASSUME ReorderCapAssumption == ReorderCap \in Nat \ {0}
ASSUME SeqModAssumption == SeqMod \in Nat /\ SeqMod > ReorderCap

ControlTypes == {"FIN", "RST", "WINDOW"}
Data(seq) == [type |-> "DATA", seq |-> seq]
NoFrame == [type |-> "NONE", seq |-> 0]
StreamStates == {"OPEN", "HALF_CLOSED", "CLOSED", "RESET"}

NewStream ==
  [state |-> "OPEN", nextSeq |-> 1, buf |-> {}, seen |-> {},
   log |-> <<>>, taken |-> 0, busy |-> NoFrame, open |-> TRUE, lost |-> {}]

Terminal(s) == s.state \in {"CLOSED", "RESET"}
Locked(s) == s.busy # NoFrame

\* The number of frames waiting in Ordered.
PendingDelivery(s) == Len(s.log) - s.taken

\* deliverLocked: a full channel drops the frame.
deliverLocked(s, f) ==
  IF PendingDelivery(s) < ReorderCap
    THEN [s EXCEPT !.log = Append(@, f)]
    ELSE [s EXCEPT !.lost = IF f.type = "DATA" THEN @ \cup {f.seq} ELSE @]

\* Unsigned subtraction.
Minus(a, b) == IF a >= b THEN a - b ELSE a - b + SeqMod

\* markSeen: beyond seenCap = 2 * reorderCap, everything below NextSeq -
\* reorderCap is forgotten; that bound wraps around while NextSeq < reorderCap.
markSeen(s, seq) ==
  LET marked == s.seen \cup {seq}
      bound == Minus(s.nextSeq, ReorderCap)
  IN  [s EXCEPT !.seen = IF Cardinality(marked) > 2 * ReorderCap
                           THEN {k \in marked : k >= bound}
                           ELSE marked]

\* Mutant of DeliverNext: the buffer is not drained.
DeliverNextOnly(s, f) == [deliverLocked(s, f) EXCEPT !.nextSeq = @ + 1]

\* The frame in order: delivered, counted, and then the buffer is drained
\* (DrainStep) before the lock is released.
DeliverNext(s, f) == [deliverLocked(s, f) EXCEPT !.nextSeq = @ + 1, !.busy = f]

\* Mutants of Reorder: no check for late copies; frames delivered as they arrive;
\* NextSeq set past a frame that arrives early.
ReorderKeepsLate(s, f) ==
  CASE f.seq = s.nextSeq -> DeliverNext(s, f)
    [] f.seq # s.nextSeq /\ Cardinality(s.buf) >= ReorderCap -> s
    [] OTHER -> [s EXCEPT !.buf = @ \cup {f.seq}]
ReorderArrival(s, f) == IF f.seq >= s.nextSeq THEN DeliverNext(s, f) ELSE s
ReorderJumps(s, f) ==
  IF f.seq >= s.nextSeq
    THEN [deliverLocked(s, f) EXCEPT !.nextSeq = f.seq + 1, !.busy = f]
    ELSE s

\* The reorder pipeline behind the deduplication check.
Reorder(s, f) ==
  CASE f.seq = s.nextSeq -> DeliverNext(s, f)
    [] f.seq < s.nextSeq -> s
    [] f.seq > s.nextSeq /\ Cardinality(s.buf) >= ReorderCap -> s
    [] OTHER -> [s EXCEPT !.buf = @ \cup {f.seq}]

\* Mutant of Accept: the state is not checked.
AcceptAnyState(s, f) ==
  CASE f.type = "FIN" -> [s EXCEPT !.busy = f]
    [] f.type = "RST" -> deliverLocked([s EXCEPT !.state = "RESET"], f)
    [] f.type = "WINDOW" -> deliverLocked(s, f)
    [] f.type = "DATA" ->
         IF f.seq \in s.seen THEN s ELSE Reorder(markSeen(s, f.seq), f)

\* Accept up to the point where the buffer is drained.
Accept(s, f) ==
  CASE Terminal(s) -> s
    [] ~Terminal(s) /\ f.type = "FIN" -> [s EXCEPT !.busy = f]
    [] ~Terminal(s) /\ f.type = "RST" ->
         deliverLocked([s EXCEPT !.state = "RESET"], f)
    [] ~Terminal(s) /\ f.type = "WINDOW" -> deliverLocked(s, f)
    [] ~Terminal(s) /\ f.type = "DATA" ->
         IF f.seq \in s.seen THEN s ELSE Reorder(markSeen(s, f.seq), f)

\* Mutants of DrainStep: the frame stays in the buffer; NextSeq counts twice.
DrainStepTwice(s) ==
  [deliverLocked(s, Data(s.nextSeq)) EXCEPT
     !.buf = @ \ {s.nextSeq}, !.nextSeq = @ + 2]
DrainStepKeeps(s) ==
  [deliverLocked(s, Data(s.nextSeq)) EXCEPT !.nextSeq = @ + 1]

\* One turn of the loop of drainReorderBuf; the consumer may receive between
\* two turns.
CanDrain(s) == Locked(s) /\ s.nextSeq \in s.buf
DrainStep(s) ==
  [deliverLocked(s, Data(s.nextSeq)) EXCEPT
     !.buf = @ \ {s.nextSeq}, !.nextSeq = @ + 1]

\* The end of Accept: a FIN is delivered behind what was drained and closes
\* one more direction; the lock is released.
CanFinish(s) == Locked(s) /\ s.nextSeq \notin s.buf
FinishAccept(s) ==
  IF s.busy.type = "FIN"
    THEN [deliverLocked(s, s.busy) EXCEPT
            !.state = IF @ = "HALF_CLOSED" THEN "CLOSED" ELSE "HALF_CLOSED",
            !.busy = NoFrame]
    ELSE [s EXCEPT !.busy = NoFrame]

\* The consumer receives the oldest frame of Ordered.
CanTake(s) == PendingDelivery(s) > 0
Take(s) == [s EXCEPT !.taken = @ + 1]

\* Close: the state under the lock, then the channel without it.
MarkClosed(s) == [s EXCEPT !.state = "CLOSED"]
CloseOrdered(s) == [s EXCEPT !.open = FALSE]
=============================================================================
