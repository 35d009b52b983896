------------------------------ MODULE Dispatcher ------------------------------
(***************************************************************************)
(* Dispatcher.DispatchFrame (internal/bonding/client/dispatcher.go) with   *)
(* the Scheduler and the InFlight/CWnd gate of PathMetrics that it uses    *)
(* (internal/bonding/control): one goroutine per stream dispatches frames, *)
(* connections break and come back, the controller moves congestion        *)
(* windows, and replaceDeadArtery exchanges the metrics of a path.         *)
(*                                                                         *)
(* DispatchFrame holds d.mu for reading, UpdateArteries takes it for       *)
(* writing; PathMetrics has a lock per call, so that the check for         *)
(* capacity and RecordSend are two steps.                                  *)
(***************************************************************************)
EXTENDS Integers, FiniteSets

CONSTANTS
  Streams,        \* each with the goroutine of its HandleUpstream
  Paths,          \* arteries, and their metrics
  Frames,         \* frames that a stream dispatches
  CWnds,          \* congestion windows that computeCwnd may set
  FirstCWnd,      \* the one of new metrics
  Mode,           \* the configured mode of the scheduler
  MaxReplacements \* bound on the replacements

Modes == {"duplicate", "stripe", "auto"}
ASSUME DispatcherAssumption ==
  /\ IsFiniteSet(Streams)
  /\ Frames \in Nat /\ MaxReplacements \in Nat
  /\ CWnds \subseteq Nat \ {0, 1} /\ FirstCWnd \in CWnds
  /\ Mode \in Modes

VARIABLES
  alive,     \* paths whose ArteryConn is alive
  seen,      \* paths whose metrics, as the scheduler has them, say Alive
  fresh,     \* Alive of the metrics that UpdateArteries is about to bring
  inFlight, cwnd,
  task,      \* what the goroutine of each stream is doing
  upgraded,  \* streams with flowUpgraded set
  writer,    \* progress of replaceDeadArtery: [at, path]
  swaps      \* replacements done

vars == <<alive, seen, fresh, inFlight, cwnd, task, upgraded, writer, swaps>>

NoPath == [none |-> TRUE]
Idle == [at |-> "idle", todo |-> {}, path |-> NoPath, sent |-> {}, err |-> FALSE,
         left |-> Frames]
NoWriter == [at |-> "none", path |-> NoPath]

Init ==
  /\ alive \in SUBSET Paths
  /\ seen = Paths
  /\ fresh = TRUE
  /\ inFlight = [p \in Paths |-> 0]
  /\ cwnd = [p \in Paths |-> FirstCWnd]
  /\ task = [s \in Streams |-> Idle]
  /\ upgraded = {}
  /\ writer = NoWriter
  /\ swaps = 0

At(s, at) == task[s].at = at
Dispatching(s) == task[s].at \notin {"idle", "gone"}
HasCapacity(p) == inFlight[p] < cwnd[p] /\ p \in seen

Goto(s, at) == task' = [task EXCEPT ![s].at = at]
Environment == <<alive, cwnd, writer, swaps>>

\* DispatchFrame takes d.mu for reading: not while a writer waits for it.
Lock(s) ==
  /\ At(s, "idle") /\ task[s].left > 0
  /\ writer.at # "waiting"
  /\ task' = [task EXCEPT ![s] = [Idle EXCEPT !.at = "sync", !.left = task[s].left - 1]]
  /\ UNCHANGED <<seen, fresh, inFlight, upgraded>> /\ UNCHANGED Environment

\* It looks the metrics of every artery up in the shared map and updates them.
\* What replaceDeadArtery has already put there is not yet with the scheduler.
SyncLiveness(s) ==
  /\ At(s, "sync")
  /\ IF writer.at = "waiting"
       THEN /\ seen' = (alive \ {writer.path}) \cup (seen \cap {writer.path})
            /\ fresh' = (writer.path \in alive)
       ELSE seen' = alive /\ UNCHANGED fresh
  /\ Goto(s, "schedule")
  /\ UNCHANGED <<inFlight, upgraded>> /\ UNCHANGED Environment

\* selectStripePath: a path with capacity, or any when all are congested.
StripePaths ==
  LET free == {p \in seen : inFlight[p] < cwnd[p]} IN IF free = {} THEN seen ELSE free

Send(s, to) ==
  task' = [task EXCEPT ![s].at = IF to = {} THEN "return" ELSE "next", ![s].todo = to]

\* Schedule: no path, every path, or one; in auto mode a flow changes over to
\* stripes for good.
NoActiveArteries(s) ==
  /\ At(s, "schedule") /\ seen = {}
  /\ task' = [task EXCEPT ![s].at = "return", ![s].err = TRUE]
  /\ UNCHANGED <<seen, fresh, inFlight, upgraded>> /\ UNCHANGED Environment

ScheduleDuplicate(s) ==
  /\ At(s, "schedule") /\ seen # {}
  /\ Mode = "duplicate" \/ (Mode = "auto" /\ s \notin upgraded)
  /\ Send(s, seen)
  /\ UNCHANGED <<seen, fresh, inFlight, upgraded>> /\ UNCHANGED Environment

ScheduleStripe(s) ==
  /\ At(s, "schedule") /\ seen # {}
  /\ Mode \in {"stripe", "auto"}
  /\ upgraded' = IF Mode = "auto" THEN upgraded \cup {s} ELSE upgraded
  /\ \E p \in StripePaths : Send(s, {p})
  /\ UNCHANGED <<seen, fresh, inFlight>> /\ UNCHANGED Environment

\* The next selected path; one whose connection is down is skipped.
NextPath(s) ==
  /\ At(s, "next")
  /\ \E p \in task[s].todo :
       IF p \in alive
         THEN task' = [task EXCEPT ![s].at = "check", ![s].path = p, ![s].todo = @ \ {p}]
         ELSE Send(s, task[s].todo \ {p})
  /\ UNCHANGED <<seen, fresh, inFlight, upgraded>> /\ UNCHANGED Environment

\* waitForCapacity, which looks again and again ...
FindCapacity(s) ==
  /\ task[s].at \in {"check", "wait"}
  /\ HasCapacity(task[s].path)
  /\ Goto(s, "record")
  /\ UNCHANGED <<seen, fresh, inFlight, upgraded>> /\ UNCHANGED Environment

Congested(s) ==
  /\ At(s, "check")
  /\ ~HasCapacity(task[s].path)
  /\ Goto(s, "wait")
  /\ UNCHANGED <<seen, fresh, inFlight, upgraded>> /\ UNCHANGED Environment

\* Mutant of GiveUp: the deadline is for full windows only.
GiveUpFull(s) ==
  /\ At(s, "wait")
  /\ inFlight[task[s].path] >= cwnd[task[s].path]
  /\ Send(s, task[s].todo)
  /\ UNCHANGED <<seen, fresh, inFlight, upgraded>> /\ UNCHANGED Environment

\* ... and gives the path up after maxPaceWait.
GiveUp(s) ==
  /\ At(s, "wait")
  /\ Send(s, task[s].todo)
  /\ UNCHANGED <<seen, fresh, inFlight, upgraded>> /\ UNCHANGED Environment

RecordSend(s) ==
  /\ At(s, "record")
  /\ inFlight' = [inFlight EXCEPT ![task[s].path] = @ + 1]
  /\ Goto(s, "write")
  /\ UNCHANGED <<seen, fresh, upgraded>> /\ UNCHANGED Environment

\* WriteFrame succeeds, or fails and marks the connection as dead.
WriteFrame(s) ==
  /\ At(s, "write")
  /\ \/ /\ task[s].path \in alive
        /\ task' = [task EXCEPT ![s].at = "ack", ![s].sent = @ \cup {task[s].path}]
        /\ UNCHANGED alive
     \/ /\ task' = [task EXCEPT ![s].at = "ack", ![s].err = TRUE]
        /\ alive' = alive \ {task[s].path}
  /\ UNCHANGED <<seen, fresh, inFlight, upgraded, cwnd, writer, swaps>>

\* Mutant of RecordAck: only a frame that was written is acknowledged.
RecordAckWritten(s) ==
  /\ At(s, "ack")
  /\ inFlight' = [inFlight EXCEPT ![task[s].path] =
                    IF @ > 0 /\ task[s].path \in task[s].sent THEN @ - 1 ELSE @]
  /\ Send(s, task[s].todo)
  /\ UNCHANGED <<seen, fresh, upgraded>> /\ UNCHANGED Environment

\* RecordAck takes the frame out of flight, written or not.
RecordAck(s) ==
  /\ At(s, "ack")
  /\ inFlight' = [inFlight EXCEPT ![task[s].path] = IF @ > 0 THEN @ - 1 ELSE @]
  /\ Send(s, task[s].todo)
  /\ UNCHANGED <<seen, fresh, upgraded>> /\ UNCHANGED Environment

\* DispatchFrame returns and releases d.mu; behind its last frame the stream is
\* forgotten (CleanupFlow).
Return(s) ==
  /\ At(s, "return")
  /\ IF task[s].left > 0
       THEN Goto(s, "idle") /\ UNCHANGED upgraded
       ELSE Goto(s, "gone") /\ upgraded' = upgraded \ {s}
  /\ UNCHANGED <<seen, fresh, inFlight>> /\ UNCHANGED Environment

\* A connection breaks or is back.
Toggle(p) ==
  /\ alive' = IF p \in alive THEN alive \ {p} ELSE alive \cup {p}
  /\ UNCHANGED <<seen, fresh, inFlight, cwnd, task, upgraded, writer, swaps>>

\* AdaptiveController.Evaluate sets congestion windows.  (The mode it chooses
\* goes to a scheduler of its own: frames keep the configured one.)
SetCWnd(p) ==
  /\ \E w \in CWnds \ {cwnd[p]} : cwnd' = [cwnd EXCEPT ![p] = w]
  /\ UNCHANGED <<alive, seen, fresh, inFlight, task, upgraded, writer, swaps>>

\* replaceDeadArtery writes the new metrics into the shared map, which takes a
\* while, and calls UpdateArteries, which waits for d.mu.
BeginReplace(p) ==
  /\ writer = NoWriter /\ swaps < MaxReplacements
  /\ writer' = [at |-> "map", path |-> p]
  /\ fresh' = TRUE
  /\ swaps' = swaps + 1
  /\ UNCHANGED <<alive, seen, inFlight, cwnd, task, upgraded>>

WaitForUpdate ==
  /\ writer.at = "map"
  /\ writer' = [writer EXCEPT !.at = "waiting"]
  /\ UNCHANGED <<alive, seen, fresh, inFlight, cwnd, task, upgraded, swaps>>

NewMetrics(p) ==
  /\ inFlight' = [inFlight EXCEPT ![p] = 0]
  /\ cwnd' = [cwnd EXCEPT ![p] = FirstCWnd]
  /\ seen' = IF fresh THEN seen \cup {p} ELSE seen \ {p}

UpdateArteries ==
  /\ writer.at = "waiting"
  /\ \A s \in Streams : ~Dispatching(s)
  /\ NewMetrics(writer.path)
  /\ writer' = NoWriter
  /\ UNCHANGED <<alive, fresh, task, upgraded, swaps>>

Dispatch(s) ==
  \/ SyncLiveness(s) \/ NoActiveArteries(s) \/ ScheduleDuplicate(s) \/ ScheduleStripe(s)
  \/ NextPath(s) \/ FindCapacity(s) \/ Congested(s) \/ GiveUp(s)
  \/ RecordSend(s) \/ WriteFrame(s) \/ RecordAck(s) \/ Return(s)

Next ==
  \/ \E s \in Streams : Lock(s) \/ Dispatch(s)
  \/ \E p \in Paths : Toggle(p) \/ SetCWnd(p) \/ BeginReplace(p)
  \/ WaitForUpdate \/ UpdateArteries

Spec == Init /\ [][Next]_vars

\* A call of DispatchFrame goes on, the wait for capacity ends at its deadline,
\* and the goroutine of replaceDeadArtery goes on.
Fairness ==
  /\ \A s \in Streams : WF_vars(Dispatch(s))
  /\ WF_vars(WaitForUpdate) /\ WF_vars(UpdateArteries)

FairSpec == Spec /\ Fairness
-----------------------------------------------------------------------------
Writing(p) == {s \in DOMAIN task : task[s].at \in {"write", "ack"} /\ task[s].path = p}

\* InFlight is the number of frames being written on the path, whatever failed
\* and whichever metrics were exchanged: none is leaked, which would close the
\* window of the path for ever, and none is taken from other metrics.
InFlightExact == \A p \in DOMAIN inFlight : inFlight[p] = Cardinality(Writing(p))

\* UpdateArteries gets d.mu and returns, however congested and dead the paths: all
\* calls of DispatchFrame that were under way return, with new ones shut out.
UpdateReturns == writer.at = "waiting" ~> writer.at = "none"
=============================================================================
