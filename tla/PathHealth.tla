------------------------------ MODULE PathHealth ------------------------------
(***************************************************************************)
(* The health of the arteries on the client: the path state machine        *)
(* (internal/bonding/control/statemachine.go), the evaluation of every     *)
(* window (AdaptiveController.Evaluate, BondingEngine.runEvaluation), and  *)
(* the goroutines that give a dead artery another node                     *)
(* (replaceDeadArtery, refreshCandidatePool in client/engine.go).          *)
(*                                                                         *)
(* What a window measured for a path that is alive is "poor" (RTT or loss  *)
(* above the demotion thresholds), "good" (both within the promotion       *)
(* thresholds) or "fair".  Durations are counted in windows.               *)
(***************************************************************************)
EXTENDS Integers, FiniteSets

CONSTANTS
  Arteries,
  Nodes,           \* addresses of the nodes that Pebble may list
  FirstNode,       \* the node of each artery after buildActivePool
  Listings,        \* what ListClientConfigs may return: sets of nodes
  ConfirmWindows, CooldownWindows, ErrorBudget,
  MaxErrors        \* bound on the errors recorded for each path

ASSUME NodesAssumption ==
  /\ FirstNode \in [Arteries -> Nodes]
  /\ Listings \subseteq SUBSET Nodes
ASSUME ThresholdsAssumption ==
  /\ ConfirmWindows \in Nat \ {0}
  /\ CooldownWindows \in Nat
  /\ ErrorBudget \in Nat \ {0}
  /\ MaxErrors \in [Arteries -> Nat]

VARIABLES
  entry,     \* the PathEntry of each artery; age: windows since it was demoted
             \* or quarantined
  up,        \* arteries whose ArteryConn is alive
  seen,      \* arteries whose current PathMetrics say Alive
  todo,      \* entries the running Evaluate has yet to look at
  died,      \* its transitions to PathDead, not yet acted upon
  swap,      \* replaceDeadArtery of each artery: "none", "wait", "refresh", "take"
  listed,    \* the candidates its refreshCandidatePool has found
  pool,      \* candidatePool
  node,      \* activeNodes
  forsaken,  \* history: arteries whose replacement found no candidate
  good       \* history: good windows in a row, with the cooldown behind them

vars == <<entry, up, seen, todo, died, swap, listed, pool, node, forsaken, good>>

NewEntry == [state |-> "active", demote |-> 0, promote |-> 0, errors |-> 0, age |-> 0]
NoCandidates == [first |-> {}, all |-> {}]
PathStates == {"active", "shadow", "probation", "dead", "quarantined"}

Init ==
  /\ entry = [p \in Arteries |-> NewEntry]
  /\ up = Arteries
  /\ seen = Arteries
  /\ todo = {} /\ died = {}
  /\ swap = [p \in Arteries |-> "none"]
  /\ listed = [p \in Arteries |-> NoCandidates]
  /\ node = FirstNode
  /\ pool = Nodes \ {FirstNode[p] : p \in Arteries}
  /\ forsaken = {}
  /\ good = [p \in Arteries |-> 0]

\* An artery drops, or is dialled again by RunWithAutoReconnect.
Toggle(p) ==
  /\ up' = IF p \in up THEN up \ {p} ELSE up \cup {p}
  /\ UNCHANGED <<entry, seen, todo, died, swap, listed, pool, node, forsaken, good>>

\* DispatchFrame copies the liveness of the arteries into their metrics.  (A
\* PONG sets Alive too, which amounts to Toggle, SyncLiveness and Toggle.)
SyncLiveness ==
  /\ seen' = up
  /\ UNCHANGED <<entry, up, todo, died, swap, listed, pool, node, forsaken, good>>

RecordError(p) ==
  /\ entry[p].errors < MaxErrors[p]
  /\ entry' = [entry EXCEPT ![p].errors = @ + 1]
  /\ UNCHANGED <<up, seen, todo, died, swap, listed, pool, node, forsaken, good>>

Older(e) == [e EXCEPT !.age = IF @ < CooldownWindows THEN @ + 1 ELSE @]

\* runEvaluation: liveness is copied, and Evaluate gives up unless a path is
\* alive.
BeginWindow ==
  /\ todo = {} /\ died = {}
  /\ seen' = up
  /\ todo' = IF up = {} THEN {} ELSE Arteries
  /\ entry' = [p \in Arteries |-> Older(entry[p])]
  /\ UNCHANGED <<up, died, swap, listed, pool, node, forsaken, good>>

\* A transition resets the signals.
To(e, state) == [e EXCEPT !.state = state, !.demote = 0, !.promote = 0, !.age = 0]

evaluateActive(e, alive, window) ==
  LET demote == IF window = "poor" THEN e.demote + 1 ELSE 0
  IN  CASE ~alive -> To(e, "dead")
        [] alive /\ demote >= ConfirmWindows -> To(e, "shadow")
        [] alive /\ demote < ConfirmWindows /\ e.errors >= ErrorBudget -> To(e, "quarantined")
        [] OTHER -> [e EXCEPT !.demote = demote]

evaluateShadow(e, alive, window) ==
  CASE ~alive -> To(e, "dead")
    [] alive /\ e.age < CooldownWindows -> e
    [] alive /\ e.age >= CooldownWindows /\ window # "good" -> [e EXCEPT !.promote = 0]
    [] OTHER -> IF e.promote + 1 >= ConfirmWindows THEN To(e, "probation")
                                                   ELSE [e EXCEPT !.promote = @ + 1]

\* Mutant of evaluateProbation: a bad window only restarts the count.
evaluateProbationLenient(e, alive, window) ==
  CASE ~alive -> To(e, "dead")
    [] alive /\ window # "good" -> e
    [] OTHER -> IF e.promote + 1 >= ConfirmWindows
                  THEN [To(e, "active") EXCEPT !.errors = 0]
                  ELSE [e EXCEPT !.promote = @ + 1]

evaluateProbation(e, alive, window) ==
  CASE ~alive -> To(e, "dead")
    [] alive /\ window # "good" -> To(e, "shadow")
    [] OTHER -> IF e.promote + 1 >= ConfirmWindows
                  THEN [To(e, "active") EXCEPT !.errors = 0]
                  ELSE [e EXCEPT !.promote = @ + 1]

evaluateQuarantined(e) ==
  IF e.age >= CooldownWindows THEN [To(e, "dead") EXCEPT !.errors = 0] ELSE e

Evaluated(e, alive, window) ==
  CASE e.state = "active" -> evaluateActive(e, alive, window)
    [] e.state = "shadow" -> evaluateShadow(e, alive, window)
    [] e.state = "probation" -> evaluateProbation(e, alive, window)
    [] e.state = "quarantined" -> evaluateQuarantined(e)
    [] e.state = "dead" -> e

\* The transition to PathDead is an event.
Dying(old, new) == new.state = "dead" /\ old.state # "dead"

\* A window that counts towards the way back to "active".
Counts(e, window) ==
  /\ window = "good"
  /\ \/ e.state = "shadow" /\ e.age >= CooldownWindows
     \/ e.state = "probation"

\* One turn of the loop of StateMachine.Evaluate, under the lock of the entry.
\* An entry replaced meanwhile is looked at in vain: the loop holds the old,
\* dead one.
EvaluateEntry(p) ==
  /\ p \in todo
  /\ todo' = todo \ {p}
  /\ \E window \in {"good", "fair", "poor"} :
       LET e == Evaluated(entry[p], p \in seen, window) IN
         /\ entry' = [entry EXCEPT ![p] = e]
         /\ died' = IF Dying(entry[p], e) THEN died \cup {p} ELSE died
         /\ good' = [good EXCEPT ![p] =
              IF ~Counts(entry[p], window) THEN 0
              ELSE IF @ < 2 * ConfirmWindows THEN @ + 1 ELSE @]
  /\ UNCHANGED <<up, seen, swap, listed, pool, node, forsaken>>

\* runEvaluation starts replaceDeadArtery for every transition to PathDead.
EndWindow ==
  /\ todo = {} /\ died # {}
  /\ swap' = [p \in Arteries |-> IF p \in died THEN "wait" ELSE swap[p]]
  /\ died' = {}
  /\ UNCHANGED <<entry, up, seen, todo, listed, pool, node, forsaken, good>>

Replacing == {p \in Arteries : swap[p] \in {"refresh", "take"}}

\* Mutant of LockReplacing: replacements are not serialised.
LockReplacingAnyway(p) ==
  /\ swap[p] = "wait"
  /\ swap' = [swap EXCEPT ![p] = "refresh"]
  /\ UNCHANGED <<entry, up, seen, todo, died, listed, pool, node, forsaken, good>>

\* Mutant of LockReplacing: an artery that is back needs no replacement.
LockReplacingIfDown(p) ==
  /\ swap[p] = "wait"
  /\ Replacing = {}
  /\ swap' = [swap EXCEPT ![p] = IF p \in up THEN "none" ELSE "refresh"]
  /\ UNCHANGED <<entry, up, seen, todo, died, listed, pool, node, forsaken, good>>

\* replaceDeadArtery takes replacingMu.
LockReplacing(p) ==
  /\ swap[p] = "wait"
  /\ Replacing = {}
  /\ swap' = [swap EXCEPT ![p] = "refresh"]
  /\ UNCHANGED <<entry, up, seen, todo, died, listed, pool, node, forsaken, good>>

InUse == {node[p] : p \in Arteries}
Usage(n) == Cardinality({p \in Arteries : node[p] = n})
LeastUsed(nodes) == {n \in nodes : \A m \in nodes : Usage(n) <= Usage(m)}

\* The candidates for a listing, and those that latency may put first: nodes
\* that no artery uses or, when there is none, the least used ones.  Without
\* any configuration the old pool stays.
Candidates(listing) ==
  CASE listing = {} -> [first |-> pool, all |-> pool]
    [] listing # {} /\ listing \subseteq InUse ->
         [first |-> LeastUsed(listing), all |-> listing]
    [] OTHER -> [first |-> listing \ InUse, all |-> listing \ InUse]

\* refreshCandidatePool reads the active nodes.
RefreshCandidates(p) ==
  /\ swap[p] = "refresh"
  /\ \E listing \in Listings : listed' = [listed EXCEPT ![p] = Candidates(listing)]
  /\ swap' = [swap EXCEPT ![p] = "take"]
  /\ UNCHANGED <<entry, up, seen, todo, died, pool, node, forsaken, good>>

\* The rest of replaceDeadArtery: the first candidate gets the artery, with new
\* metrics and a new entry; without a candidate nothing happens.
TakeCandidate(p) ==
  /\ swap[p] = "take"
  /\ swap' = [swap EXCEPT ![p] = "none"]
  /\ listed' = [listed EXCEPT ![p] = NoCandidates]
  /\ \/ /\ listed[p].all = {}
        /\ pool' = {}
        /\ forsaken' = forsaken \cup {p}
        /\ UNCHANGED <<entry, seen, todo, node, good>>
     \/ \E n \in listed[p].first :
          /\ node' = [node EXCEPT ![p] = n]
          /\ pool' = listed[p].all \ {n}
          /\ entry' = [entry EXCEPT ![p] = NewEntry]
          /\ seen' = seen \cup {p}
          /\ todo' = todo \ {p}
          /\ forsaken' = forsaken \ {p}
          /\ good' = [good EXCEPT ![p] = 0]
  /\ UNCHANGED <<up, died>>

Next ==
  \/ \E p \in Arteries :
       \/ Toggle(p) \/ RecordError(p) \/ EvaluateEntry(p)
       \/ LockReplacing(p) \/ RefreshCandidates(p) \/ TakeCandidate(p)
  \/ SyncLiveness \/ BeginWindow \/ EndWindow

Spec == Init /\ [][Next]_vars

\* The ticker of controllerLoop, the loop of Evaluate and the goroutines of
\* replaceDeadArtery go on; replacingMu is granted to each of them.
Fairness ==
  /\ WF_vars(BeginWindow) /\ WF_vars(EndWindow)
  /\ \A p \in Arteries :
       /\ WF_vars(EvaluateEntry(p))
       /\ SF_vars(LockReplacing(p))
       /\ WF_vars(RefreshCandidates(p))
       /\ WF_vars(TakeCandidate(p))

FairSpec == Spec /\ Fairness
-----------------------------------------------------------------------------
Replaced(p) == swap[p] = "take" /\ swap'[p] = "none"

\* No flapping: a path that was demoted carries traffic again only behind the
\* cooldown and 2 * ConfirmWindows good windows in a row, counted over shadow
\* and probation, or on another node.
ReturnsProven ==
  [][\A p \in Arteries :
       entry[p].state # "active" /\ entry'[p].state = "active" /\ ~Replaced(p)
         => good'[p] >= 2 * ConfirmWindows]_vars

\* As long as there are more nodes than arteries, no two arteries are routed
\* through the same node, however many of them die together.
NodesUnique == \A p, q \in Arteries : p # q => node[p] # node[q]

\* A dead path is back in service in the end, or lacks a candidate.
DeadComesBack ==
  \A p \in Arteries :
    entry[p].state = "dead" ~> (entry[p].state = "active" \/ p \in forsaken)
=============================================================================
