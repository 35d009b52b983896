----------------------------- MODULE StreamFrames -----------------------------
(***************************************************************************)
(* The frames a peer sends on one stream, and the streams that can come of *)
(* them.                                                                   *)
(***************************************************************************)
EXTENDS StreamOps

CONSTANTS
  MaxSeq,     \* the sender's OPEN and DATA frames carry 1 .. MaxSeq
  Controls    \* the control frames it also sends

ASSUME MaxSeqAssumption == MaxSeq \in Nat \ {0} /\ MaxSeq + 1 < SeqMod
ASSUME ControlsAssumption ==
  Controls \subseteq [type : ControlTypes, seq : 1 .. MaxSeq + 1]

Seqs == 1 .. MaxSeq
Frames == {Data(i) : i \in Seqs} \cup Controls

\* A stream may have seen the number 0, with which the combiner begins.
Streams == [state : StreamStates, nextSeq : 1 .. MaxSeq + 1,
            buf : SUBSET Seqs, seen : SUBSET (0 .. MaxSeq),
            log : Seq(Frames), taken : Nat,
            busy : Frames \cup {NoFrame}, open : BOOLEAN, lost : SUBSET Seqs]
=============================================================================
