--------------------------- MODULE MCReorderStream ---------------------------
(***************************************************************************)
(* Three instances of ReorderStream for TLC, one of which a behaviour      *)
(* chooses at its start: the tight one of the configuration file, whose    *)
(* buffer and channel overflow; the sized one, in which every frame of a   *)
(* stream that nobody closes has a place; and the early one, which sees    *)
(* more frames than its deduplication set holds before it has had the      *)
(* first, so that the bound of the pruning wraps around.                   *)
(***************************************************************************)
EXTENDS ReorderStream

CONSTANT Few      \* how many frames the tight and the sized stream have
ASSUME FewAssumption == Few \in 1 .. MaxSeq

VARIABLE which    \* the instance that runs: "tight", "sized" or "early"
mcVars == <<vars, which>>

Fin == [type |-> "FIN", seq |-> MaxSeq + 1]
Rst == [type |-> "RST", seq |-> MaxSeq + 1]
Window == [type |-> "WINDOW", seq |-> 1]
AllControls == {Fin, Rst, Window}

Sized == INSTANCE ReorderStream WITH
           ReorderCap <- Few, Controls <- {}, Closes <- FALSE
Early == INSTANCE ReorderStream WITH
           ReorderCap <- 2, Controls <- {}, Closes <- FALSE

\* What the arteries bring: control frames to the tight stream only; the early
\* one gets all frames, but a single copy of most.
Brought(f) ==
  CASE which = "tight" -> IF f \in Controls \/ f.seq <= Few THEN Copies ELSE 0
    [] which = "sized" -> IF f \notin Controls /\ f.seq <= Few THEN Copies ELSE 0
    [] which = "early" -> IF f \in Controls THEN 0 ELSE IF f.seq <= Few THEN 1 ELSE Copies

MCInit ==
  /\ which \in {"tight", "sized", "early"}
  /\ stream = NewStream /\ closing = "no"
  /\ net = [f \in Frames |-> Brought(f)]

MCNext ==
  /\ UNCHANGED which
  /\ CASE which = "tight" -> Next
       [] which = "sized" -> Sized!Next
       [] which = "early" -> Early!Next

\* The fairness of ReorderStream, which only the sized stream needs.
OfSized == which = "sized" /\ UNCHANGED which
SizedFairness ==
  /\ \A f \in Frames : WF_mcVars(OfSized /\ Sized!Arrive(f))
  /\ WF_mcVars(OfSized /\ Sized!Drain)
  /\ WF_mcVars(OfSized /\ Sized!Finish)
  /\ WF_mcVars(OfSized /\ Sized!Consume)

MCSpec == MCInit /\ [][MCNext]_mcVars /\ SizedFairness
-----------------------------------------------------------------------------
\* A sized stream loses nothing on the way to the consumer ("this shouldn't happen
\* with proper sizing", deliverLocked): with fair arteries and a fair consumer
\* every frame is put in and read in the end.
SizedDeliversAll ==
  which = "sized" ~> \A i \in 1 .. Few : \E n \in 1 .. stream.taken : stream.log[n] = Data(i)
=============================================================================
