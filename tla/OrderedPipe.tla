----------------------------- MODULE OrderedPipe -----------------------------
(***************************************************************************)
(* What a bonded stream promises its consumer: the sender's frames 1, 2,   *)
(* .. in that order, control frames in between, each read at most once.    *)
(* Lossy says whether the pipe may skip a frame it has no room for.        *)
(***************************************************************************)
EXTENDS Integers, Sequences

CONSTANTS
  Last,       \* the last sequence number
  Control,    \* the control frames
  Lossy       \* frames may be skipped

VARIABLES
  next,       \* the frame the pipe expects
  out,        \* everything put in the pipe
  read        \* how much of it was read

pipe == <<next, out, read>>

InitPipe == next = 1 /\ out = <<>> /\ read = 0

PutNext ==
  /\ next <= Last
  /\ out' = Append(out, [type |-> "DATA", seq |-> next])
  /\ next' = next + 1
  /\ UNCHANGED read

Skip ==
  /\ Lossy
  /\ next <= Last
  /\ next' = next + 1
  /\ UNCHANGED <<out, read>>

PutControl ==
  /\ \E f \in Control : out' = Append(out, f)
  /\ UNCHANGED <<next, read>>

Read ==
  /\ read < Len(out)
  /\ read' = read + 1
  /\ UNCHANGED <<next, out>>

NextPipe == PutNext \/ Skip \/ PutControl \/ Read

PipeSpec == InitPipe /\ [][NextPipe]_pipe
=============================================================================
