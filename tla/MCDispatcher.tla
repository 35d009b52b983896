----------------------------- MODULE MCDispatcher -----------------------------
(***************************************************************************)
(* Two instances of Dispatcher for TLC, one of which a behaviour chooses   *)
(* at its start: the wide one of the configuration file, where two streams *)
(* share two paths, and the busy one, where three streams crowd one path.  *)
(***************************************************************************)
EXTENDS Dispatcher

CONSTANTS BusyStreams, BusyPaths, BusyCWnds

VARIABLE busy    \* which instance runs
bothVars == <<vars, busy>>

Busy == INSTANCE Dispatcher WITH
          Streams <- BusyStreams, Paths <- BusyPaths, CWnds <- BusyCWnds, Mode <- "stripe"

BothInit == (busy = FALSE /\ Init) \/ (busy = TRUE /\ Busy!Init)
BothNext == IF busy THEN Busy!Next /\ UNCHANGED busy ELSE Next /\ UNCHANGED busy

BothFairness ==
  /\ \A s \in Streams : WF_bothVars(~busy /\ Dispatch(s) /\ UNCHANGED busy)
  /\ \A s \in BusyStreams : WF_bothVars(busy /\ Busy!Dispatch(s) /\ UNCHANGED busy)
  /\ WF_bothVars(~busy /\ (WaitForUpdate \/ UpdateArteries) /\ UNCHANGED busy)
  /\ WF_bothVars(busy /\ (Busy!WaitForUpdate \/ Busy!UpdateArteries) /\ UNCHANGED busy)

BothSpec == BothInit /\ [][BothNext]_bothVars /\ BothFairness
=============================================================================
