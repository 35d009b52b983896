-------------------------- MODULE JobSchedulerProofs --------------------------
(***************************************************************************)
(* The rows, the entries of activeJobs and the executions of the job       *)
(* scheduler agree, for any finite set of jobs, any number of workers,     *)
(* retries, requests at once, cancellations and crashes.                   *)
(***************************************************************************)
EXTENDS JobScheduler, FiniteSetTheorems, TLAPS

-----------------------------------------------------------------------------
(* The inductive invariant. *)

Rows == [status : Statuses, retries : Nat]
Todo == [job : Jobs, retries : Nat]
Executions ==
  [at : {"free", "claimed", "handler", "returned", "write"}, job : Jobs \cup {NoJob},
   retries : Nat, ctx : {"live", "cancelled"},
   outcome : {"none", "queued", "completed", "failed", "cancelled"}]
Scans ==
  [at : {"idle", "counted", "loop", "mark"}, slots : Int, todo : SUBSET Todo,
   exec : Execs \cup {None}]
Requests ==
  [at : {"idle", "cancel", "forget", "update", "delete", "requeue"},
   job : Jobs \cup {NoJob}, exec : Execs \cup {None}]

TypeOK ==
  /\ row \in [Jobs -> Rows]
  /\ active \in [Jobs -> Execs \cup {None}]
  /\ exec \in [Execs -> Executions]
  /\ scan \in Scans
  /\ user \in [Users -> Requests]

Doing(e, j) == exec[e].at # "free" /\ exec[e].job = j

\* What the places mean: an execution that is not free has a job, one that has
\* returned an outcome, and one that is claimed is the one the scanner is about to
\* start; a request works for a job, and one that queues it again was noted.
Places ==
  /\ \A e \in Execs :
       /\ exec[e].at # "free" => exec[e].job \in Jobs
       /\ exec[e].at \in {"returned", "write"} => exec[e].outcome # "none"
       /\ exec[e].at = "claimed" <=> scan.at = "mark" /\ scan.exec = e
  /\ scan.at = "mark" => scan.exec \in Execs
  /\ \A u \in Users :
       /\ user[u].at # "idle" => user[u].job \in Jobs
       /\ user[u].at = "requeue" => user[u].job \in retried

\* A job no user has retried has one execution at most, ...
OneEach ==
  \A j \in Jobs, d, e \in Execs : NotRetried(j) /\ Doing(d, j) /\ Doing(e, j) => d = e

\* ... which is about to be started while the row says "queued", ...
QueuedIsIdle ==
  \A j \in Jobs, e \in Execs :
    NotRetried(j) /\ row[j].status \in {"none", "queued"} /\ Doing(e, j)
      => exec[e].at = "claimed"

\* ... and none at all while the scanner has the row before it, ...
TodoIsIdle ==
  \A p \in scan.todo :
    /\ \A q \in scan.todo : q.job = p.job => q = p
    /\ NotRetried(p.job) => \A e \in Execs : ~Doing(e, p.job)

\* ... and both know how often it was tried.
RetriesAreKnown ==
  \A j \in Jobs : NotRetried(j) /\ row[j].status # "deleted" =>
    /\ \A e \in Execs : Doing(e, j) => exec[e].retries = row[j].retries
    /\ \A p \in scan.todo : p.job = j => p.retries = row[j].retries

IInv ==
  /\ TypeOK /\ Places /\ SlotsAreHeld /\ RunningIsOwned
  /\ OneEach /\ QueuedIsIdle /\ TodoIsIdle /\ RetriesAreKnown

\* Executions are numbered from 1, and None is not one of them.
LEMMA ExecsAreNumbers == Execs \subseteq Nat \ {0} /\ None \notin Execs
<1>1. Cardinality(Jobs) \in Nat /\ MaxRetries \in Nat
  BY FS_CardinalityType, JobSchedulerAssumption
<1> QED BY <1>1 DEF Execs, None

\* The number of busy workers is a number.
LEMMA BusyIsNumber ==
  Cardinality({j \in Jobs : active[j] # None}) \in Nat
BY FS_Subset, FS_CardinalityType, JobSchedulerAssumption

-----------------------------------------------------------------------------
(* The steps of the scanner. *)

\* A scanner whose list is exhausted rests, and one that has more goes on.
LEMMA GoThroughScans ==
  ASSUME NEW todo \in SUBSET Todo, GoThrough(todo)
  PROVE  scan' \in Scans /\ scan'.todo = todo /\ scan'.at \in {"idle", "loop"}
<1> DEFINE at == IF todo = {} THEN "idle" ELSE "loop"
<1>1. scan' = [at |-> at, slots |-> 0, todo |-> todo, exec |-> None]
  BY DEF GoThrough, IdleScan
<1>2. at \in {"idle", "loop"}
  OBVIOUS
<1> HIDE DEF at
<1> QED BY <1>1, <1>2 DEF Scans

\* The scanner begins: it claims nothing yet.
LEMMA BeginScanStep ==
  ASSUME IInv, BeginScan
  PROVE  IInv'
<1> DEFINE busy == Cardinality({j \in Jobs : active[j] # None})
<1>1. busy \in Nat /\ Workers \in Nat
  BY BusyIsNumber, JobSchedulerAssumption
<1>2. scan' = [scan EXCEPT !.at = "counted", !.slots = Workers - busy] /\ scan.at = "idle"
  BY DEF BeginScan
<1> DEFINE slots == Workers - busy
<1>9. slots \in Int
  BY <1>1
<1>10. scan' = [scan EXCEPT !.at = "counted", !.slots = slots]
  BY <1>2
<1> HIDE DEF busy, slots
<1>3. TypeOK'
  <2>1. scan' \in Scans
    BY <1>9, <1>10 DEF IInv, TypeOK, Scans
  <2> QED BY <2>1 DEF IInv, TypeOK, BeginScan
<1>4. scan'.at = "counted" /\ scan'.todo = scan.todo
  BY <1>10 DEF IInv, TypeOK, Scans
<1>5. Places'
  BY <1>2, <1>4 DEF IInv, Places, BeginScan, bounds
<1>6. SlotsAreHeld' /\ RunningIsOwned'
  BY DEF IInv, SlotsAreHeld, RunningIsOwned, InProgress, BeginScan
<1>7. OneEach' /\ QueuedIsIdle'
  BY DEF IInv, OneEach, QueuedIsIdle, Doing, NotRetried, BeginScan, bounds
<1>8. TodoIsIdle' /\ RetriesAreKnown'
  BY <1>4 DEF IInv, TodoIsIdle, RetriesAreKnown, Doing, NotRetried, BeginScan, bounds
<1> QED BY <1>3, <1>5, <1>6, <1>7, <1>8 DEF IInv

\* What the scanner finds pending has no execution that runs.
LEMMA FindPendingStep ==
  ASSUME IInv, FindPending
  PROVE  IInv'
<1> DEFINE queued == {j \in Jobs : row[j].status = "queued"}
           n == Min({scan.slots, Cardinality(queued)})
           T(found) == {[job |-> j, retries |-> row[j].retries] : j \in found}
<1>1. PICK found \in kSubset(n, queued) : GoThrough(T(found))
  BY DEF FindPending
<1>2. found \subseteq queued
  BY DEF kSubset
<1>3. T(found) \in SUBSET Todo
  BY <1>2 DEF IInv, TypeOK, Rows, Todo
<1>4. /\ \A p \in T(found) : /\ p.job \in queued /\ p.retries = row[p.job].retries
                             /\ \A q \in T(found) : q.job = p.job => q = p
  BY <1>2
<1> HIDE DEF T
<1>5. scan' \in Scans /\ scan'.todo = T(found) /\ scan'.at \in {"idle", "loop"}
  BY <1>1, <1>3, GoThroughScans
<1>6. UNCHANGED <<row, active, exec, user, bounds>> /\ scan.at = "counted"
  BY DEF FindPending
<1>7. TypeOK'
  BY <1>5, <1>6 DEF IInv, TypeOK
<1>8. Places'
  BY <1>5, <1>6 DEF IInv, Places, bounds
<1>9. SlotsAreHeld' /\ RunningIsOwned'
  BY <1>6 DEF IInv, SlotsAreHeld, RunningIsOwned, InProgress
<1>10. OneEach' /\ QueuedIsIdle'
  BY <1>6 DEF IInv, OneEach, QueuedIsIdle, Doing, NotRetried, bounds
<1>11. \A j \in queued, e \in Execs : NotRetried(j) => ~Doing(e, j)
  BY <1>6 DEF IInv, QueuedIsIdle, Places
<1>12. TodoIsIdle'
  BY <1>4, <1>5, <1>6, <1>11 DEF TodoIsIdle, Doing, NotRetried, bounds
<1>13. RetriesAreKnown'
  BY <1>4, <1>5, <1>6 DEF IInv, RetriesAreKnown, Doing, NotRetried, bounds
<1> QED BY <1>7, <1>8, <1>9, <1>10, <1>12, <1>13 DEF IInv

\* The scanner passes over a job it found.
LEMMA PassOverStep ==
  ASSUME IInv, PassOver
  PROVE  IInv'
<1>1. PICK p \in scan.todo : GoThrough(scan.todo \ {p})
  BY DEF PassOver
<1>2. scan.todo \ {p} \in SUBSET Todo
  BY DEF IInv, TypeOK, Scans
<1>3. scan' \in Scans /\ scan'.todo = scan.todo \ {p} /\ scan'.at \in {"idle", "loop"}
  BY <1>1, <1>2, GoThroughScans
<1>4. UNCHANGED <<row, active, exec, user, bounds>> /\ scan.at = "loop"
  BY DEF PassOver
<1>5. TypeOK'
  BY <1>3, <1>4 DEF IInv, TypeOK
<1>6. Places'
  BY <1>3, <1>4 DEF IInv, Places, bounds
<1>7. SlotsAreHeld' /\ RunningIsOwned'
  BY <1>4 DEF IInv, SlotsAreHeld, RunningIsOwned, InProgress
<1>8. OneEach' /\ QueuedIsIdle'
  BY <1>4 DEF IInv, OneEach, QueuedIsIdle, Doing, NotRetried, bounds
<1>9. TodoIsIdle' /\ RetriesAreKnown'
  BY <1>3, <1>4 DEF IInv, TodoIsIdle, RetriesAreKnown, Doing, NotRetried, bounds
<1> QED BY <1>5, <1>6, <1>7, <1>8, <1>9 DEF IInv

\* The scanner takes a place in activeJobs for a job it found.
LEMMA ClaimStep ==
  ASSUME IInv, Claim
  PROVE  IInv'
<1>1. PICK p \in scan.todo, e \in Execs :
        /\ exec[e].at = "free"
        /\ active[p.job] = None
        /\ active' = [active EXCEPT ![p.job] = e]
        /\ exec' = [exec EXCEPT ![e] =
                      [Free EXCEPT !.at = "claimed", !.job = p.job, !.retries = p.retries]]
        /\ scan' = [scan EXCEPT !.at = "mark", !.todo = @ \ {p}, !.exec = e]
  BY DEF Claim
<1>2. UNCHANGED <<row, user, bounds>> /\ scan.at = "loop"
  BY DEF Claim
<1>3. p \in Todo
  BY DEF IInv, TypeOK, Scans
<1> DEFINE x == [Free EXCEPT !.at = "claimed", !.job = p.job, !.retries = p.retries]
<1>4. x \in Executions /\ x.at = "claimed" /\ x.job = p.job /\ x.retries = p.retries
  BY <1>3 DEF Free, Executions, Todo
<1> HIDE DEF x
<1>5. exec' = [exec EXCEPT ![e] = x]
  BY <1>1 DEF x
<1>6. /\ exec' \in [Execs -> Executions]
      /\ \A d \in Execs : exec'[d] = IF d = e THEN x ELSE exec[d]
  BY <1>4, <1>5 DEF IInv, TypeOK
<1>7. /\ active' \in [Jobs -> Execs \cup {None}]
      /\ \A j \in Jobs : active'[j] = IF j = p.job THEN e ELSE active[j]
  BY <1>1, <1>3 DEF IInv, TypeOK, Todo
<1>8. scan' \in Scans /\ scan'.at = "mark" /\ scan'.exec = e /\ scan'.todo = scan.todo \ {p}
  BY <1>1 DEF IInv, TypeOK, Scans
<1>9. TypeOK'
  BY <1>2, <1>6, <1>7, <1>8 DEF IInv, TypeOK
<1>10. Places'
  BY <1>2, <1>3, <1>4, <1>6, <1>8 DEF IInv, Places, bounds, Todo
<1>11. SlotsAreHeld'
  BY <1>1, <1>4, <1>6, <1>7, ExecsAreNumbers DEF IInv, SlotsAreHeld, TypeOK
<1>12. RunningIsOwned'
  BY <1>1, <1>2, <1>4, <1>6 DEF IInv, RunningIsOwned, InProgress
<1>13. OneEach'
  BY <1>1, <1>2, <1>4, <1>6 DEF IInv, OneEach, TodoIsIdle, Doing, NotRetried, bounds
<1>14. QueuedIsIdle'
  BY <1>2, <1>4, <1>6 DEF IInv, QueuedIsIdle, Doing, NotRetried, bounds
<1>15. TodoIsIdle'
  BY <1>1, <1>2, <1>4, <1>6, <1>8 DEF IInv, TodoIsIdle, Doing, NotRetried, bounds
<1>16. RetriesAreKnown'
  BY <1>1, <1>2, <1>4, <1>6, <1>8 DEF IInv, RetriesAreKnown, Doing, NotRetried, bounds
<1> QED BY <1>9, <1>10, <1>11, <1>12, <1>13, <1>14, <1>15, <1>16 DEF IInv

\* An UPDATE that finds its row changes the status of this row alone.
LEMMA StatusIsSet ==
  ASSUME row \in [Jobs -> Rows], NEW j \in Jobs, NEW s \in Statuses, SetStatus(j, s)
  PROVE  /\ row' \in [Jobs -> Rows]
         /\ \A k \in Jobs : /\ k # j => row'[k] = row[k]
                            /\ row'[k].retries = row[k].retries
         /\ row'[j].status = IF row[j].status = "deleted" THEN "deleted" ELSE s
BY DEF SetStatus, Rows

\* The scanner marks the row of the job it has claimed, and the execution begins.
LEMMA MarkRunningStep ==
  ASSUME IInv, MarkRunning
  PROVE  IInv'
<1> DEFINE e == scan.exec
           k == exec[e].job
<1>1. e \in Execs /\ scan.at = "mark" /\ exec[e].at = "claimed" /\ k \in Jobs
  BY DEF MarkRunning, IInv, Places
<1>2. SetStatus(k, "running") /\ StartGoroutine(e)
  BY DEF MarkRunning
<1>3. exec' = [exec EXCEPT ![e].at = "handler"] /\ GoThrough(scan.todo)
      /\ UNCHANGED <<active, user, bounds>>
  BY <1>2 DEF StartGoroutine
<1> HIDE DEF e
<1>4. /\ exec' \in [Execs -> Executions]
      /\ \A d \in Execs : /\ d # e => exec'[d] = exec[d]
                          /\ exec'[d].job = exec[d].job /\ exec'[d].retries = exec[d].retries
                          /\ exec'[d].outcome = exec[d].outcome
      /\ exec'[e].at = "handler"
  BY <1>1, <1>3 DEF IInv, TypeOK, Executions
<1>5. "running" \in Statuses
  BY DEF Statuses
<1>6. /\ row' \in [Jobs -> Rows]
      /\ \A j \in Jobs : /\ j # k => row'[j] = row[j]
                         /\ row'[j].retries = row[j].retries
      /\ row'[k].status = IF row[k].status = "deleted" THEN "deleted" ELSE "running"
  BY <1>1, <1>2, <1>5, StatusIsSet DEF IInv, TypeOK
<1> HIDE DEF k
<1>7. scan.todo \in SUBSET Todo
  BY DEF IInv, TypeOK, Scans
<1>8. scan' \in Scans /\ scan'.todo = scan.todo /\ scan'.at \in {"idle", "loop"}
  BY <1>3, <1>7, GoThroughScans
<1>9. TypeOK'
  BY <1>3, <1>4, <1>6, <1>8 DEF IInv, TypeOK
<1>10. Places'
  BY <1>1, <1>3, <1>4, <1>8 DEF IInv, Places, bounds, e
<1>11. SlotsAreHeld'
  BY <1>1, <1>3, <1>4, ExecsAreNumbers DEF IInv, SlotsAreHeld, TypeOK
<1>12. RunningIsOwned'
  BY <1>1, <1>4, <1>6 DEF IInv, RunningIsOwned, InProgress, k
<1>13. OneEach'
  BY <1>1, <1>3, <1>4 DEF IInv, OneEach, Doing, NotRetried, bounds
<1>14. \A d \in Execs, j \in Jobs : Doing(d, j)' <=> Doing(d, j)
  BY <1>1, <1>4 DEF Doing
<1>15. QueuedIsIdle'
  BY <1>1, <1>3, <1>4, <1>6, <1>14 DEF IInv, QueuedIsIdle, NotRetried, bounds, Doing, k
<1>16. TodoIsIdle'
  BY <1>3, <1>7, <1>8, <1>14 DEF IInv, TodoIsIdle, NotRetried, bounds, Todo
<1>17. \A j \in Jobs : row'[j].status # "deleted" => row[j].status # "deleted"
  BY <1>6
<1>18. RetriesAreKnown'
  BY <1>3, <1>4, <1>6, <1>8, <1>14, <1>17 DEF IInv, RetriesAreKnown, NotRetried, bounds
<1> QED BY <1>9, <1>10, <1>11, <1>12, <1>13, <1>15, <1>16, <1>18 DEF IInv
-----------------------------------------------------------------------------
(* What the other steps have in common. *)

\* The requests are where they may be.
Served ==
  /\ user \in [Users -> Requests]
  /\ \A u \in Users : /\ user[u].at # "idle" => user[u].job \in Jobs
                      /\ user[u].at = "requeue" => user[u].job \in retried

\* A step of requests alone.
LEMMA RequestMoves ==
  ASSUME IInv, UNCHANGED <<row, active, exec, scan>>, retried \subseteq retried', Served'
  PROVE  IInv'
<1>1. TypeOK' /\ Places'
  BY DEF IInv, TypeOK, Places, Served
<1>2. SlotsAreHeld' /\ RunningIsOwned'
  BY DEF IInv, SlotsAreHeld, RunningIsOwned, InProgress
<1>3. \A j \in Jobs : NotRetried(j)' => NotRetried(j)
  BY DEF NotRetried
<1>4. OneEach' /\ QueuedIsIdle' /\ RetriesAreKnown'
  BY <1>3 DEF IInv, OneEach, QueuedIsIdle, RetriesAreKnown, Doing
<1>5. TodoIsIdle'
  <2>1. \A p \in scan.todo : p.job \in Jobs
    BY DEF IInv, TypeOK, Scans, Todo
  <2> QED BY <1>3, <2>1 DEF IInv, TodoIsIdle, Doing
<1> QED BY <1>1, <1>2, <1>4, <1>5 DEF IInv

\* A step that leaves every execution with its job and its count of retries, and
\* those that hold an entry of activeJobs among those that may.
LEMMA ExecChanges ==
  ASSUME IInv, UNCHANGED <<row, active, scan, retried>>, Served',
         exec' \in [Execs -> Executions],
         \A d \in Execs :
           /\ exec'[d].job = exec[d].job /\ exec'[d].retries = exec[d].retries
           /\ exec'[d].at = "free" <=> exec[d].at = "free"
           /\ exec'[d].at = "claimed" <=> exec[d].at = "claimed"
           /\ exec'[d].at = "write" => exec[d].at = "write"
           /\ exec'[d].at \in {"returned", "write"} => exec'[d].outcome # "none"
  PROVE  IInv'
<1>1. TypeOK' /\ Places'
  BY DEF IInv, TypeOK, Places, Served
<1>2. SlotsAreHeld'
  <2>1. ASSUME NEW d \in Execs, exec[d].at \in {"claimed", "handler", "returned"}
        PROVE  exec'[d].at \in {"claimed", "handler", "returned"}
    <3>1. exec'[d].at \in {"free", "claimed", "handler", "returned", "write"}
      BY DEF Executions
    <3> QED BY <2>1, <3>1
  <2>2. SUFFICES ASSUME NEW j \in Jobs, active[j] # None
                 PROVE  /\ exec'[active[j]].job = j
                        /\ exec'[active[j]].at \in {"claimed", "handler", "returned"}
    BY DEF SlotsAreHeld
  <2>3. active[j] \in Execs
    BY <2>2 DEF IInv, TypeOK
  <2>4. exec[active[j]].job = j /\ exec[active[j]].at \in {"claimed", "handler", "returned"}
    BY <2>2 DEF IInv, SlotsAreHeld
  <2> QED BY <2>1, <2>3, <2>4
<1>3. RunningIsOwned'
  BY DEF IInv, RunningIsOwned, InProgress
<1>4. \A d \in Execs, j \in Jobs : Doing(d, j)' <=> Doing(d, j)
  BY DEF Doing
<1>5. \A p \in scan.todo : p.job \in Jobs
  BY DEF IInv, TypeOK, Scans, Todo
<1>6. OneEach' /\ QueuedIsIdle'
  BY <1>4 DEF IInv, OneEach, QueuedIsIdle, NotRetried
<1>7. TodoIsIdle' /\ RetriesAreKnown'
  BY <1>4, <1>5 DEF IInv, TodoIsIdle, RetriesAreKnown, NotRetried
<1> QED BY <1>1, <1>2, <1>3, <1>6, <1>7 DEF IInv

\* An UPDATE that does not start the job, and queues it only for a user.
LEMMA RowChanges ==
  ASSUME IInv, UNCHANGED <<active, exec, scan, retried>>, Served',
         row' \in [Jobs -> Rows],
         NEW j \in Jobs,
         \A k \in Jobs : k # j => row'[k] = row[k],
         row'[j].status \notin {"running", "none"},
         row'[j].status = "queued" => j \in retried,
         row'[j].status # "deleted" =>
           row[j].status # "deleted" /\ row'[j].retries = row[j].retries
  PROVE  IInv'
<1>1. TypeOK' /\ Places'
  BY DEF IInv, TypeOK, Places, Served
<1>2. SlotsAreHeld' /\ OneEach' /\ TodoIsIdle'
  BY DEF IInv, SlotsAreHeld, OneEach, TodoIsIdle, Doing, NotRetried
<1>3. RunningIsOwned'
  BY DEF IInv, RunningIsOwned, InProgress
<1>4. QueuedIsIdle'
  BY DEF IInv, QueuedIsIdle, Doing, NotRetried
<1>5. RetriesAreKnown'
  BY DEF IInv, RetriesAreKnown, Doing, NotRetried
<1> QED BY <1>1, <1>2, <1>3, <1>4, <1>5 DEF IInv

\* An entry of activeJobs is deleted.
LEMMA EntryGoes ==
  ASSUME IInv, UNCHANGED <<row, exec, scan, retried>>, Served',
         NEW j \in Jobs, active' = [active EXCEPT ![j] = None]
  PROVE  IInv'
<1>1. TypeOK' /\ Places'
  BY DEF IInv, TypeOK, Places, Served
<1>2. SlotsAreHeld'
  BY DEF IInv, SlotsAreHeld, TypeOK
<1>3. RunningIsOwned' /\ OneEach' /\ QueuedIsIdle' /\ TodoIsIdle' /\ RetriesAreKnown'
  BY DEF IInv, RunningIsOwned, InProgress, OneEach, QueuedIsIdle, TodoIsIdle,
         RetriesAreKnown, Doing, NotRetried
<1> QED BY <1>1, <1>2, <1>3 DEF IInv

\* A request of a user at one of its steps.
LEMMA ServedNow ==
  ASSUME IInv
  PROVE  /\ Served
         /\ UNCHANGED <<user, retried>> => Served'
BY DEF IInv, TypeOK, Places, Served

-----------------------------------------------------------------------------
(* The steps of executions. *)

\* A handler returns, with the outcomes its context allows.
LEMMA HandlerReturnsStep ==
  ASSUME IInv, NEW e \in Execs, HandlerReturns(e)
  PROVE  IInv'
<1>1. PICK outcome \in Outcomes(e) :
        exec' = [exec EXCEPT ![e].at = "returned", ![e].ctx = "live", ![e].outcome = outcome]
  BY DEF HandlerReturns
<1>2. outcome \in {"completed", "failed", "cancelled", "queued"}
  BY DEF Outcomes
<1>3. /\ exec' \in [Execs -> Executions]
      /\ \A d \in Execs : d # e => exec'[d] = exec[d]
      /\ exec'[e].job = exec[e].job /\ exec'[e].retries = exec[e].retries
      /\ exec'[e].at = "returned" /\ exec'[e].outcome = outcome
  BY <1>1, <1>2 DEF IInv, TypeOK, Executions
<1>4. exec[e].at = "handler" /\ UNCHANGED <<row, active, scan, user, retried>>
  BY DEF HandlerReturns, bounds
<1>5. \A d \in Execs : exec[d].at \in {"returned", "write"} => exec[d].outcome # "none"
  BY DEF IInv, Places
<1> QED BY <1>2, <1>3, <1>4, <1>5, ServedNow, ExecChanges

\* An execution removes its entry of activeJobs.
LEMMA CleanUpStep ==
  ASSUME IInv, NEW e \in Execs, CleanUp(e)
  PROVE  IInv'
<1> DEFINE j == exec[e].job
<1>1. /\ exec[e].at = "returned" /\ active' = [active EXCEPT ![j] = None]
      /\ exec' = [exec EXCEPT ![e].at = "write"]
      /\ UNCHANGED <<row, scan, user, retried>>
  BY DEF CleanUp, bounds
<1>2. j \in Jobs /\ exec[e].outcome # "none"
  BY <1>1 DEF IInv, Places
<1>3. /\ exec' \in [Execs -> Executions]
      /\ \A d \in Execs : d # e => exec'[d] = exec[d]
      /\ exec'[e].job = j /\ exec'[e].retries = exec[e].retries
      /\ exec'[e].at = "write" /\ exec'[e].outcome = exec[e].outcome
  BY <1>1 DEF IInv, TypeOK, Executions
<1>4. /\ active' \in [Jobs -> Execs \cup {None}]
      /\ \A k \in Jobs : active'[k] = IF k = j THEN None ELSE active[k]
  BY <1>1, <1>2 DEF IInv, TypeOK
<1>5. TypeOK' /\ Places'
  BY <1>1, <1>2, <1>3, <1>4 DEF IInv, TypeOK, Places
<1>6. SlotsAreHeld'
  BY <1>1, <1>3, <1>4, ExecsAreNumbers DEF IInv, SlotsAreHeld, TypeOK
<1>7. \A d \in Execs, k \in Jobs : Doing(d, k)' <=> Doing(d, k)
  BY <1>1, <1>3 DEF Doing
<1>8. RunningIsOwned'
  BY <1>1, <1>3 DEF IInv, RunningIsOwned, InProgress
<1>9. OneEach' /\ QueuedIsIdle'
  BY <1>1, <1>3, <1>7 DEF IInv, OneEach, QueuedIsIdle, NotRetried
<1>10. \A p \in scan.todo : p.job \in Jobs
  BY DEF IInv, TypeOK, Scans, Todo
<1>11. TodoIsIdle' /\ RetriesAreKnown'
  BY <1>1, <1>3, <1>7, <1>10 DEF IInv, TodoIsIdle, RetriesAreKnown, NotRetried
<1> QED BY <1>5, <1>6, <1>8, <1>9, <1>11 DEF IInv

\* What an execution writes is no longer running, and counts the retry.
LEMMA EndedIsRow ==
  ASSUME IInv, NEW e \in Execs, exec[e].at = "write", exec[e].job \in Jobs
  PROVE  /\ Ended(e) \in Rows /\ Ended(e).status = exec[e].outcome
         /\ exec[e].outcome \in {"queued", "completed", "failed", "cancelled"}
         /\ exec[e].outcome = "queued" => Ended(e).retries = exec[e].retries + 1
         /\ exec[e].outcome # "queued" => Ended(e).retries = row[exec[e].job].retries
<1>1. exec[e].outcome \in {"queued", "completed", "failed", "cancelled"}
  BY DEF IInv, Places, TypeOK, Executions
<1>2. exec[e].retries + 1 \in Nat /\ row[exec[e].job].retries \in Nat
  BY DEF IInv, TypeOK, Executions, Rows
<1> QED BY <1>1, <1>2 DEF Ended, Rows, Statuses, Finished

\* An execution writes its end into the row.
LEMMA WriteOutcomeStep ==
  ASSUME IInv, NEW e \in Execs, WriteOutcome(e)
  PROVE  IInv'
<1> DEFINE j == exec[e].job
<1>1. /\ exec[e].at = "write" /\ exec' = [exec EXCEPT ![e] = Free]
      /\ row' = IF row[j].status = "deleted" THEN row ELSE [row EXCEPT ![j] = Ended(e)]
      /\ UNCHANGED <<active, scan, user, retried>>
  BY DEF WriteOutcome, bounds
<1>2. j \in Jobs
  BY <1>1 DEF IInv, Places
<1>3. /\ exec' \in [Execs -> Executions]
      /\ \A d \in Execs : d # e => exec'[d] = exec[d]
      /\ exec'[e].at = "free"
  BY <1>1 DEF IInv, TypeOK, Executions, Free
<1>4. /\ row' \in [Jobs -> Rows]
      /\ \A k \in Jobs : k # j => row'[k] = row[k]
      /\ row'[j] = IF row[j].status = "deleted" THEN row[j] ELSE Ended(e)
  BY <1>1, <1>2, EndedIsRow DEF IInv, TypeOK
<1>5. row'[j].status # "running" /\ (row'[j].status = "deleted" <=> row[j].status = "deleted")
  BY <1>1, <1>2, <1>4, EndedIsRow
<1>6. \A d \in Execs, k \in Jobs : Doing(d, k)' <=> Doing(d, k) /\ d # e
  BY <1>3 DEF Doing
<1>7. \A p \in scan.todo : p.job \in Jobs
  BY DEF IInv, TypeOK, Scans, Todo
<1>8. Doing(e, j)
  BY <1>1 DEF Doing
<1>9. TypeOK'
  BY <1>1, <1>3, <1>4 DEF IInv, TypeOK
<1>10. Places'
  BY <1>1, <1>3 DEF IInv, Places
<1>11. SlotsAreHeld'
  BY <1>1, <1>3, ExecsAreNumbers DEF IInv, SlotsAreHeld, TypeOK
<1>12. RunningIsOwned'
  BY <1>3, <1>4, <1>5 DEF IInv, RunningIsOwned, InProgress
<1>13. OneEach'
  BY <1>1, <1>6 DEF IInv, OneEach, NotRetried
<1>14. QueuedIsIdle'
  BY <1>1, <1>3, <1>4, <1>6, <1>8 DEF IInv, QueuedIsIdle, OneEach, NotRetried
<1>15. TodoIsIdle'
  BY <1>1, <1>6, <1>7 DEF IInv, TodoIsIdle, NotRetried
<1>16. RetriesAreKnown'
  BY <1>1, <1>2, <1>3, <1>4, <1>5, <1>6, <1>7, <1>8
     DEF IInv, RetriesAreKnown, OneEach, TodoIsIdle, NotRetried
<1> QED BY <1>9, <1>10, <1>11, <1>12, <1>13, <1>14, <1>15, <1>16 DEF IInv

-----------------------------------------------------------------------------
(* The steps of users. *)

\* A job is submitted.
LEMMA SubmitJobStep ==
  ASSUME IInv, NEW j \in Jobs, SubmitJob(j)
  PROVE  IInv'
<1>1. /\ row[j].status = "none" /\ row' = [row EXCEPT ![j].status = "queued"]
      /\ UNCHANGED <<active, exec, scan, user, retried>>
  BY DEF SubmitJob, bounds
<1>2. /\ row' \in [Jobs -> Rows]
      /\ \A k \in Jobs : k # j => row'[k] = row[k]
      /\ row'[j].status = "queued" /\ row'[j].retries = row[j].retries
  BY <1>1 DEF IInv, TypeOK, Rows, Statuses
<1>3. TypeOK' /\ Places'
  BY <1>1, <1>2 DEF IInv, TypeOK, Places
<1>4. SlotsAreHeld' /\ OneEach' /\ TodoIsIdle'
  BY <1>1 DEF IInv, SlotsAreHeld, OneEach, TodoIsIdle, Doing, NotRetried
<1>5. RunningIsOwned'
  BY <1>1, <1>2 DEF IInv, RunningIsOwned, InProgress
<1>6. QueuedIsIdle' /\ RetriesAreKnown'
  BY <1>1, <1>2 DEF IInv, QueuedIsIdle, RetriesAreKnown, Doing, NotRetried
<1> QED BY <1>3, <1>4, <1>5, <1>6 DEF IInv

\* A cancellation begins.
LEMMA CancelJobStep ==
  ASSUME IInv, NEW u \in Users, NEW j \in Jobs, CancelJob(u, j)
  PROVE  IInv'
<1> DEFINE at == IF active[j] # None THEN "cancel" ELSE "update"
<1>1. /\ user' = [user EXCEPT ![u] = [at |-> at, job |-> j, exec |-> active[j]]]
      /\ UNCHANGED <<row, active, exec, scan, retried>>
  BY DEF CancelJob
<1>2. at \in {"cancel", "update"} /\ active[j] \in Execs \cup {None}
  BY DEF IInv, TypeOK
<1> HIDE DEF at
<1>3. [at |-> at, job |-> j, exec |-> active[j]] \in Requests
  BY <1>2 DEF Requests
<1>4. Served'
  BY <1>1, <1>2, <1>3, ServedNow DEF Served
<1> QED BY <1>1, <1>4, RequestMoves

\* A request that goes on, or ends.
LEMMA ServeServes ==
  ASSUME IInv, NEW u \in Users, UNCHANGED retried,
         \/ /\ user' = [user EXCEPT ![u] = IdleUser]
         \/ /\ user[u].at # "idle"
            /\ \E at \in {"update", "delete"} : Serve(u, at)
         \/ /\ user[u].at # "idle"
            /\ user' = [user EXCEPT ![u].at = "forget", ![u].exec = None]
  PROVE  Served'
<1>1. IdleUser \in Requests /\ IdleUser.at = "idle"
  BY DEF IdleUser, Requests
<1>2. Served
  BY ServedNow
<1>3. CASE user' = [user EXCEPT ![u] = IdleUser]
  BY <1>1, <1>2, <1>3 DEF Served
<1>4. CASE user[u].at # "idle" /\ \E at \in {"update", "delete"} : Serve(u, at)
  BY <1>2, <1>4 DEF Served, Serve, Requests
<1>5. CASE user[u].at # "idle" /\ user' = [user EXCEPT ![u].at = "forget", ![u].exec = None]
  BY <1>2, <1>5 DEF Served, Requests
<1> QED BY <1>3, <1>4, <1>5

\* CancelJob cancels the context.
LEMMA CancelContextStep ==
  ASSUME IInv, NEW u \in Users, CancelContext(u)
  PROVE  IInv'
<1> DEFINE e == user[u].exec
<1>1. /\ user[u].at = "cancel"
      /\ user' = [user EXCEPT ![u].at = "forget", ![u].exec = None]
      /\ UNCHANGED <<row, active, scan, retried>>
      /\ exec' = [exec EXCEPT ![e].ctx = "cancelled"] \/ exec' = exec
  BY DEF CancelContext, bounds
<1>2. Served'
  BY <1>1, ServeServes
<1> HIDE DEF e
<1>3. /\ exec' \in [Execs -> Executions]
      /\ \A d \in Execs : /\ exec'[d].at = exec[d].at /\ exec'[d].job = exec[d].job
                          /\ exec'[d].retries = exec[d].retries
                          /\ exec'[d].outcome = exec[d].outcome
  BY <1>1 DEF IInv, TypeOK, Executions
<1>4. \A d \in Execs : exec[d].at \in {"returned", "write"} => exec[d].outcome # "none"
  BY DEF IInv, Places
<1> QED BY <1>1, <1>2, <1>3, <1>4, ExecChanges

\* CancelJob deletes whichever entry there is.
LEMMA ForgetActiveStep ==
  ASSUME IInv, NEW u \in Users, ForgetActive(u)
  PROVE  IInv'
<1>1. /\ user[u].at = "forget" /\ Serve(u, "update")
      /\ active' = [active EXCEPT ![user[u].job] = None]
      /\ UNCHANGED <<row, exec, scan, retried>>
  BY DEF ForgetActive, bounds
<1>2. user[u].job \in Jobs
  BY <1>1, ServedNow DEF Served
<1> QED BY <1>1, <1>2, ServeServes, EntryGoes

\* CancelJob writes the row.
LEMMA MarkCancelledStep ==
  ASSUME IInv, NEW u \in Users, MarkCancelled(u)
  PROVE  IInv'
<1> DEFINE j == user[u].job
<1>1. /\ user[u].at = "update" /\ (Serve(u, "delete") \/ user' = [user EXCEPT ![u] = IdleUser])
      /\ row' = IF Cancellable(j) THEN [row EXCEPT ![j].status = "cancelled"] ELSE row
      /\ UNCHANGED <<active, exec, scan, retried>>
  BY DEF MarkCancelled, bounds
<1>2. j \in Jobs
  BY <1>1, ServedNow DEF Served
<1>3. Served'
  BY <1>1, ServeServes
<1> HIDE DEF j
<1>4. CASE Cancellable(j)
  <2>1. /\ row' \in [Jobs -> Rows]
        /\ \A k \in Jobs : k # j => row'[k] = row[k]
        /\ row'[j].status = "cancelled" /\ row'[j].retries = row[j].retries
        /\ row[j].status # "deleted"
    BY <1>1, <1>2, <1>4 DEF IInv, TypeOK, Rows, Statuses, Finished, Cancellable
  <2> QED BY <1>1, <1>2, <1>3, <2>1, RowChanges
<1>5. CASE ~Cancellable(j)
  BY <1>1, <1>3, <1>5, RequestMoves
<1> QED BY <1>4, <1>5

\* DeleteJob deletes the row.
LEMMA DeleteRowStep ==
  ASSUME IInv, NEW u \in Users, DeleteRow(u)
  PROVE  IInv'
<1> DEFINE j == user[u].job
<1>1. /\ user[u].at = "delete" /\ user' = [user EXCEPT ![u] = IdleUser]
      /\ row' = [row EXCEPT ![j] = [status |-> "deleted", retries |-> 0]]
      /\ UNCHANGED <<active, exec, scan, retried>>
  BY DEF DeleteRow, bounds
<1>2. j \in Jobs
  BY <1>1, ServedNow DEF Served
<1>3. Served'
  BY <1>1, ServeServes
<1> HIDE DEF j
<1>4. /\ row' \in [Jobs -> Rows]
      /\ \A k \in Jobs : k # j => row'[k] = row[k]
      /\ row'[j].status = "deleted"
  BY <1>1, <1>2 DEF IInv, TypeOK, Rows, Statuses
<1> QED BY <1>1, <1>2, <1>3, <1>4, RowChanges

\* A retry by a user begins.
LEMMA RetryJobStep ==
  ASSUME IInv, NEW u \in Users, NEW j \in Jobs, RetryJob(u, j)
  PROVE  IInv'
<1> DEFINE r == [IdleUser EXCEPT !.at = "requeue", !.job = j]
<1>1. /\ user' = [user EXCEPT ![u] = r] /\ retried' = retried \cup {j}
      /\ UNCHANGED <<row, active, exec, scan>>
  BY DEF RetryJob
<1>2. r \in Requests /\ r.at = "requeue" /\ r.job = j
  BY DEF IdleUser, Requests
<1> HIDE DEF r
<1>3. Served'
  BY <1>1, <1>2, ServedNow DEF Served
<1> QED BY <1>1, <1>3, RequestMoves

\* RetryJob queues the row.
LEMMA RequeueStep ==
  ASSUME IInv, NEW u \in Users, Requeue(u)
  PROVE  IInv'
<1> DEFINE j == user[u].job
<1>1. /\ user[u].at = "requeue" /\ user' = [user EXCEPT ![u] = IdleUser]
      /\ SetStatus(j, "queued")
      /\ UNCHANGED <<active, exec, scan, retried>>
  BY DEF Requeue, bounds
<1>2. j \in Jobs /\ j \in retried
  BY <1>1, ServedNow DEF Served
<1>3. Served'
  BY <1>1, ServeServes
<1> HIDE DEF j
<1>4. "queued" \in Statuses
  BY DEF Statuses
<1>5. /\ row' \in [Jobs -> Rows]
      /\ \A k \in Jobs : /\ k # j => row'[k] = row[k]
                         /\ row'[k].retries = row[k].retries
      /\ row'[j].status = IF row[j].status = "deleted" THEN "deleted" ELSE "queued"
  BY <1>1, <1>2, <1>4, StatusIsSet DEF IInv, TypeOK
<1> QED BY <1>1, <1>2, <1>3, <1>5, RowChanges

\* A crash and the restart.
LEMMA RestartStep ==
  ASSUME IInv, Restart
  PROVE  IInv'
<1>1. /\ row' = Reset /\ active' = [j \in Jobs |-> None] /\ exec' = [e \in Execs |-> Free]
      /\ scan' = IdleScan /\ user' = [u \in Users |-> IdleUser] /\ UNCHANGED retried
  BY DEF Restart
<1>2. /\ row' \in [Jobs -> Rows] /\ \A j \in Jobs : row'[j].status # "running"
  BY <1>1 DEF IInv, TypeOK, Rows, Statuses, Reset
<1>3. Free \in Executions /\ Free.at = "free"
  BY DEF Free, Executions
<1>4. IdleScan \in Scans /\ IdleScan.at = "idle" /\ IdleScan.todo = {}
  BY DEF IdleScan, Scans
<1>5. IdleUser \in Requests /\ IdleUser.at = "idle"
  BY DEF IdleUser, Requests
<1>6. TypeOK' /\ Places'
  BY <1>1, <1>2, <1>3, <1>4, <1>5 DEF TypeOK, Places
<1>7. SlotsAreHeld' /\ RunningIsOwned'
  BY <1>1, <1>2 DEF SlotsAreHeld, RunningIsOwned
<1>8. OneEach' /\ QueuedIsIdle' /\ TodoIsIdle' /\ RetriesAreKnown'
  BY <1>1, <1>3, <1>4 DEF OneEach, QueuedIsIdle, TodoIsIdle, RetriesAreKnown, Doing
<1> QED BY <1>6, <1>7, <1>8 DEF IInv

-----------------------------------------------------------------------------
\* The invariant holds at the start.
LEMMA InitInv == Init => IInv
<1> SUFFICES ASSUME Init PROVE IInv
  OBVIOUS
<1>1. [status |-> "none", retries |-> 0] \in Rows
  BY DEF Rows, Statuses
<1>2. Free \in Executions /\ Free.at = "free"
  BY DEF Free, Executions
<1>3. IdleScan \in Scans /\ IdleScan.at = "idle" /\ IdleScan.todo = {}
  BY DEF IdleScan, Scans
<1>4. IdleUser \in Requests /\ IdleUser.at = "idle"
  BY DEF IdleUser, Requests
<1>5. TypeOK /\ Places
  BY <1>1, <1>2, <1>3, <1>4 DEF Init, TypeOK, Places
<1>6. SlotsAreHeld /\ RunningIsOwned
  BY DEF Init, SlotsAreHeld, RunningIsOwned
<1>7. OneEach /\ QueuedIsIdle /\ TodoIsIdle /\ RetriesAreKnown
  BY <1>2, <1>3 DEF Init, OneEach, QueuedIsIdle, TodoIsIdle, RetriesAreKnown, Doing
<1> QED BY <1>5, <1>6, <1>7 DEF IInv

\* A stuttering step keeps the invariant.
LEMMA Stutters ==
  ASSUME IInv, UNCHANGED vars
  PROVE  IInv'
<1>1. UNCHANGED <<row, active, exec, scan, user, retried>>
  BY DEF vars, bounds
<1> QED BY <1>1, ServedNow, RequestMoves

\* Every step keeps the invariant.
LEMMA NextInv == IInv /\ [Next]_vars => IInv'
<1> SUFFICES ASSUME IInv, [Next]_vars PROVE IInv'
  OBVIOUS
<1>1. CASE Scanner
  BY <1>1, BeginScanStep, FindPendingStep, PassOverStep, ClaimStep, MarkRunningStep DEF Scanner
<1>2. CASE \E e \in Execs : Execution(e)
  BY <1>2, HandlerReturnsStep, CleanUpStep, WriteOutcomeStep DEF Execution
<1>3. CASE \E u \in Users : Request(u)
  BY <1>3, CancelContextStep, ForgetActiveStep, MarkCancelledStep, DeleteRowStep, RequeueStep
     DEF Request
<1>4. CASE \E j \in Jobs : SubmitJob(j) \/ \E u \in Users : CancelJob(u, j) \/ RetryJob(u, j)
  BY <1>4, SubmitJobStep, CancelJobStep, RetryJobStep
<1>5. CASE Restart \/ UNCHANGED vars
  BY <1>5, RestartStep, Stutters
<1> QED BY <1>1, <1>2, <1>3, <1>4, <1>5 DEF Next

\* The invariant of all the steps of the scanner, the executions and the users.
THEOREM Inductive == Spec => []IInv
BY InitInv, NextInv, PTL DEF Spec

\* No entry of activeJobs is left behind that would keep a worker for ever.
THEOREM EveryEntryIsHeld == Spec => []SlotsAreHeld
<1>1. IInv => SlotsAreHeld
  BY DEF IInv
<1> QED BY <1>1, Inductive, PTL

\* Every row that says "running" has an execution that will write its end.
THEOREM EveryRunHasAnOwner == Spec => []RunningIsOwned
<1>1. IInv => RunningIsOwned
  BY DEF IInv
<1> QED BY <1>1, Inductive, PTL

\* Nothing is executed twice at a time unless a user asks for it.
THEOREM StartedOnce == Spec => []OneExecution
<1>1. ASSUME IInv, NEW j \in Jobs, NotRetried(j)
      PROVE  Cardinality(InProgress(j)) <= 1
  <2>1. \A d, e \in InProgress(j) : d = e
    BY <1>1 DEF IInv, OneEach, Doing, InProgress
  <2>2. CASE InProgress(j) = {}
    <3>1. Cardinality(InProgress(j)) = 0
      BY <2>2, FS_EmptySet
    <3> QED BY <3>1
  <2>3. CASE InProgress(j) # {}
    <3>1. PICK e \in InProgress(j) : TRUE
      BY <2>3
    <3>2. InProgress(j) = {e}
      BY <2>1, <3>1
    <3>3. Cardinality(InProgress(j)) = 1
      BY <3>2, FS_Singleton
    <3> QED BY <3>3
  <2> QED BY <2>2, <2>3
<1>2. IInv => OneExecution
  BY <1>1 DEF OneExecution
<1> QED BY <1>2, Inductive, PTL

-----------------------------------------------------------------------------
(* Every job goes through the life cycle of JobLifeCycle. *)

\* No row and no execution that has yet to write counts beyond RetryLimit.
WithinLimit ==
  /\ \A j \in Jobs : row[j].retries <= RetryLimit
  /\ \A e \in Execs :
       exec[e].at \in {"returned", "write"} /\ exec[e].outcome = "queued" =>
         exec[e].retries < RetryLimit

\* Nobody works for a job before it is submitted.
Untouched ==
  \A j \in Jobs : row[j].status = "none" =>
    /\ j \notin retried
    /\ \A u \in Users : user[u].at # "idle" => user[u].job # j

\* The row of a job that no user has had retried is where the scanner and the
\* executions believe it to be, unless a user has cancelled or deleted it.
Pending == {"queued", "cancelled", "deleted"}
Started == {"running", "cancelled", "deleted"}
InStep ==
  \A j \in Jobs : NotRetried(j) =>
    /\ \A p \in scan.todo : p.job = j => row[j].status \in Pending
    /\ \A e \in Execs : Doing(e, j) =>
         row[j].status \in (IF exec[e].at = "claimed" THEN Pending ELSE Started)

LifeInv == WithinLimit /\ Untouched /\ InStep

\* A step of the scheduler is one of the life cycle of j, or nothing to it.
Moves(j) == [JobOf(j)!NextOfJob]_(JobOf(j)!job)

\* A step that leaves the rows alone is nothing to them.
LEMMA NothingMoves ==
  ASSUME UNCHANGED <<row, retried, crashes>>
  PROVE  \A j \in Jobs : Moves(j)
BY DEF Moves, JobOf!job

\* A step on one row is nothing to the others.
LEMMA OneRowMoves ==
  ASSUME NEW j \in Jobs, JobOf(j)!NextOfJob \/ row'[j] = row[j],
         \A k \in Jobs : k # j => row'[k] = row[k], UNCHANGED <<retried, crashes>>
  PROVE  \A k \in Jobs : Moves(k)
BY DEF Moves, JobOf!job

\* Steps of requests alone, which take on no job but one that was submitted.
LEMMA RequestsKeep ==
  ASSUME IInv, LifeInv, UNCHANGED <<row, exec, scan>>,
         retried \subseteq retried',
         \A j \in Jobs : j \in retried' \ retried => row[j].status # "none",
         \A u \in Users : user'[u].at # "idle" =>
           \/ user[u].at # "idle" /\ user'[u].job = user[u].job
           \/ user'[u].job \in Jobs /\ row[user'[u].job].status # "none"
  PROVE  LifeInv'
<1>1. WithinLimit'
  BY DEF LifeInv, WithinLimit
<1>2. Untouched'
  BY DEF LifeInv, Untouched
<1>3. InStep'
  BY DEF LifeInv, InStep, Doing, NotRetried
<1> QED BY <1>1, <1>2, <1>3 DEF LifeInv

\* Steps of requests on one row.
LEMMA RowKeeps ==
  ASSUME IInv, LifeInv, UNCHANGED <<exec, scan, retried>>,
         row' \in [Jobs -> Rows],
         NEW j \in Jobs, \A k \in Jobs : k # j => row'[k] = row[k],
         row'[j].status # "none", row'[j].retries <= RetryLimit,
         \A u \in Users : user'[u].at # "idle" => user[u].at # "idle" /\ user'[u].job = user[u].job,
         \/ row'[j].status \in {"cancelled", "deleted"} \/ row'[j].status = row[j].status
         \/ j \in retried \/ row[j].status = "none"
  PROVE  LifeInv'
<1>1. WithinLimit'
  BY DEF LifeInv, WithinLimit
<1>2. Untouched'
  BY DEF LifeInv, Untouched
<1>3. InStep'
  BY DEF LifeInv, InStep, Doing, NotRetried, Pending, Started
<1> QED BY <1>1, <1>2, <1>3 DEF LifeInv

-----------------------------------------------------------------------------
\* The scanner before it claims: what it finds is queued.
LEMMA ScanMoves ==
  ASSUME IInv, LifeInv, BeginScan \/ FindPending \/ PassOver
  PROVE  LifeInv' /\ \A j \in Jobs : Moves(j)
<1>1. UNCHANGED <<row, active, exec, user, bounds>>
  BY DEF BeginScan, FindPending, PassOver
<1>2. \A j \in Jobs : Moves(j)
  BY <1>1, NothingMoves DEF bounds
<1>3. \A p \in scan'.todo : p \in scan.todo \/ row[p.job].status = "queued"
  <2>1. CASE BeginScan
    BY <2>1 DEF BeginScan, IInv, TypeOK, Scans
  <2>2. CASE FindPending
    <3> DEFINE queued == {j \in Jobs : row[j].status = "queued"}
               n == Min({scan.slots, Cardinality(queued)})
               T(found) == {[job |-> j, retries |-> row[j].retries] : j \in found}
    <3>1. PICK found \in kSubset(n, queued) : GoThrough(T(found))
      BY <2>2 DEF FindPending
    <3>2. found \subseteq queued
      BY DEF kSubset
    <3>3. \A p \in T(found) : row[p.job].status = "queued"
      BY <3>2
    <3>4. T(found) \in SUBSET Todo
      BY <3>2 DEF IInv, TypeOK, Rows, Todo
    <3> HIDE DEF T
    <3>5. scan'.todo = T(found)
      BY <3>1, <3>4, GoThroughScans
    <3> QED BY <3>3, <3>5
  <2>3. CASE PassOver
    <3>1. PICK p \in scan.todo : GoThrough(scan.todo \ {p})
      BY <2>3 DEF PassOver
    <3>2. scan.todo \ {p} \in SUBSET Todo
      BY DEF IInv, TypeOK, Scans
    <3> QED BY <3>1, <3>2, GoThroughScans
  <2> QED BY <2>1, <2>2, <2>3
<1>4. WithinLimit' /\ Untouched'
  BY <1>1 DEF LifeInv, WithinLimit, Untouched, bounds
<1>5. InStep'
  BY <1>1, <1>3 DEF LifeInv, InStep, Doing, NotRetried, Pending, Started, bounds
<1> QED BY <1>2, <1>4, <1>5 DEF LifeInv

\* It claims a job it found.
LEMMA ClaimMoves ==
  ASSUME IInv, LifeInv, Claim
  PROVE  LifeInv' /\ \A j \in Jobs : Moves(j)
<1>1. PICK p \in scan.todo, e \in Execs :
        /\ exec' = [exec EXCEPT ![e] =
                      [Free EXCEPT !.at = "claimed", !.job = p.job, !.retries = p.retries]]
        /\ scan' = [scan EXCEPT !.at = "mark", !.todo = @ \ {p}, !.exec = e]
  BY DEF Claim
<1>2. UNCHANGED <<row, user, retried, crashes>>
  BY DEF Claim, bounds
<1>3. /\ \A d \in Execs : d # e => exec'[d] = exec[d]
      /\ exec'[e].at = "claimed" /\ exec'[e].job = p.job
      /\ scan'.todo \subseteq scan.todo
  BY <1>1 DEF IInv, TypeOK, Free, Scans
<1>4. WithinLimit' /\ Untouched'
  BY <1>2, <1>3 DEF LifeInv, WithinLimit, Untouched
<1>5. InStep'
  BY <1>2, <1>3 DEF LifeInv, InStep, Doing, NotRetried
<1> QED BY <1>2, <1>4, <1>5, NothingMoves DEF LifeInv

\* It starts the job.
LEMMA MarkRunningMoves ==
  ASSUME IInv, LifeInv, MarkRunning
  PROVE  LifeInv' /\ \A j \in Jobs : Moves(j)
<1>0. PICK e \in Execs, j \in Jobs : e = scan.exec /\ j = exec[e].job
  BY DEF MarkRunning, IInv, Places
<1>1. scan.at = "mark" /\ exec[e].at = "claimed"
  BY <1>0 DEF MarkRunning, IInv, Places
<1>2. SetStatus(j, "running") /\ StartGoroutine(e)
  BY <1>0 DEF MarkRunning
<1>3. exec' = [exec EXCEPT ![e].at = "handler"] /\ GoThrough(scan.todo)
      /\ UNCHANGED <<user, retried, crashes>>
  BY <1>2 DEF StartGoroutine, bounds
<1>4. /\ \A d \in Execs : d # e => exec'[d] = exec[d]
      /\ exec'[e].at = "handler" /\ exec'[e].job = j
  BY <1>0, <1>1, <1>3 DEF IInv, TypeOK, Executions
<1>5. "running" \in Statuses /\ row \in [Jobs -> Rows]
  BY DEF Statuses, IInv, TypeOK
<1>6. /\ row' \in [Jobs -> Rows]
      /\ \A k \in Jobs : /\ k # j => row'[k] = row[k]
                         /\ row'[k].retries = row[k].retries
      /\ row'[j].status = IF row[j].status = "deleted" THEN "deleted" ELSE "running"
  BY <1>1, <1>2, <1>5, StatusIsSet
<1>7. scan.todo \in SUBSET Todo
  BY DEF IInv, TypeOK, Scans
<1>8. scan'.todo = scan.todo
  BY <1>3, <1>7, GoThroughScans
<1>9. Doing(e, j)
  BY <1>0, <1>1 DEF Doing
<1>10. \A p \in scan.todo : p.job = j => j \in retried
  BY <1>1, <1>9 DEF IInv, TodoIsIdle, NotRetried
<1>11. WithinLimit'
  BY <1>1, <1>4, <1>6 DEF LifeInv, WithinLimit
<1>12. row[j].status # "none"
  BY <1>1, <1>9 DEF LifeInv, Untouched, InStep, NotRetried, Pending
<1>13. Untouched'
  BY <1>1, <1>3, <1>6, <1>12 DEF LifeInv, Untouched
<1>14. InStep'
  BY <1>1, <1>3, <1>4, <1>6, <1>8, <1>9, <1>10
     DEF LifeInv, InStep, IInv, OneEach, Doing, NotRetried, Pending, Started
<1>15. JobOf(j)!NextOfJob \/ row'[j] = row[j]
  <2>1. CASE row[j].status = "deleted"
    BY <1>1, <1>2, <2>1 DEF SetStatus
  <2>2. CASE row[j].status # "deleted" /\ j \notin retried
    <3>1. row[j].status \in {"queued", "cancelled"}
      BY <1>1, <1>9, <2>2 DEF LifeInv, InStep, NotRetried, Pending
    <3> QED BY <1>1, <1>3, <1>6, <2>2, <3>1 DEF JobOf!NextOfJob, JobOf!Start, JobOf!Move
  <2>3. CASE row[j].status # "deleted" /\ j \in retried
    <3>1. row'[j].retries \in 0 .. RetryLimit
      BY <1>1, <1>5, <1>6, JobSchedulerAssumption DEF LifeInv, WithinLimit, Rows
    <3> QED BY <1>1, <1>3, <1>6, <1>12, <2>3, <3>1 DEF JobOf!NextOfJob, JobOf!Contend
  <2> QED BY <2>1, <2>2, <2>3
<1> QED BY <1>1, <1>3, <1>6, <1>11, <1>13, <1>14, <1>15, OneRowMoves DEF LifeInv

\* A handler returns, to be tried again only if its retries are not used up, or
\* its execution gives the worker back.
LEMMA ReturnMoves ==
  ASSUME IInv, LifeInv, NEW e \in Execs, HandlerReturns(e) \/ CleanUp(e)
  PROVE  LifeInv' /\ \A j \in Jobs : Moves(j)
<1>1. UNCHANGED <<row, scan, user, retried, crashes>> /\ exec[e].at \in {"handler", "returned"}
  BY DEF HandlerReturns, CleanUp, bounds
<1>2. /\ \A d \in Execs : d # e => exec'[d] = exec[d]
      /\ exec'[e].job = exec[e].job /\ exec'[e].at \in {"returned", "write"}
      /\ exec'[e].outcome = "queued" => exec'[e].retries < RetryLimit
  <2>1. CASE HandlerReturns(e)
    <3>1. PICK outcome \in Outcomes(e) :
            exec' = [exec EXCEPT ![e].at = "returned", ![e].ctx = "live", ![e].outcome = outcome]
      BY <2>1 DEF HandlerReturns
    <3>2. outcome = "queued" => exec[e].retries < RetryLimit
      BY DEF Outcomes
    <3> QED BY <3>1, <3>2 DEF IInv, TypeOK, Executions
  <2>2. CASE CleanUp(e)
    <3>1. exec' = [exec EXCEPT ![e].at = "write"] /\ exec[e].at = "returned"
      BY <2>2 DEF CleanUp
    <3>2. exec[e].outcome = "queued" => exec[e].retries < RetryLimit
      BY <3>1 DEF LifeInv, WithinLimit
    <3> QED BY <3>1, <3>2 DEF IInv, TypeOK, Executions
  <2> QED BY <2>1, <2>2
<1>3. WithinLimit' /\ Untouched'
  BY <1>1, <1>2 DEF LifeInv, WithinLimit, Untouched
<1>4. InStep'
  BY <1>1, <1>2 DEF LifeInv, InStep, Doing, NotRetried
<1> QED BY <1>1, <1>3, <1>4, NothingMoves DEF LifeInv

\* An execution writes how it ended.
LEMMA WriteOutcomeMoves ==
  ASSUME IInv, LifeInv, NEW e \in Execs, WriteOutcome(e)
  PROVE  LifeInv' /\ \A j \in Jobs : Moves(j)
<1>1. exec[e].at = "write" /\ exec' = [exec EXCEPT ![e] = Free]
      /\ UNCHANGED <<scan, user, retried, crashes>>
  BY DEF WriteOutcome, bounds
<1>2. PICK j \in Jobs : j = exec[e].job
  BY <1>1 DEF IInv, Places
<1>3. row' = IF row[j].status = "deleted" THEN row ELSE [row EXCEPT ![j] = Ended(e)]
  BY <1>2 DEF WriteOutcome
<1>4. /\ Ended(e).status = exec[e].outcome
      /\ exec[e].outcome \in {"queued", "completed", "failed", "cancelled"}
      /\ exec[e].outcome = "queued" => Ended(e).retries = exec[e].retries + 1
      /\ exec[e].outcome # "queued" => Ended(e).retries = row[j].retries
      /\ Ended(e) \in Rows
  BY <1>1, <1>2, EndedIsRow
<1>5. Doing(e, j)
  BY <1>1, <1>2 DEF Doing
<1>6. \A k \in Jobs : k # j => row'[k] = row[k]
  BY <1>3
<1>7. row[j].status # "deleted" => row'[j] = Ended(e)
  BY <1>3 DEF IInv, TypeOK
<1>8. \A d \in Execs : d # e => exec'[d] = exec[d]
  BY <1>1
<1>9. exec'[e].at = "free"
  BY <1>1 DEF Free, IInv, TypeOK
<1>10. /\ row[j].retries \in Nat /\ row[j].retries <= RetryLimit
       /\ exec[e].retries \in Nat
       /\ exec[e].outcome = "queued" => exec[e].retries < RetryLimit
  BY <1>1 DEF IInv, TypeOK, Rows, Executions, LifeInv, WithinLimit
<1>11. RetryLimit \in Nat
  BY JobSchedulerAssumption
<1>12. row'[j].retries <= RetryLimit /\ row'[j].retries \in Nat
  BY <1>3, <1>4, <1>7, <1>10, <1>11
<1>13. row[j].status # "none" /\ (NotRetried(j) => row[j].status \in Started)
  BY <1>1, <1>5 DEF LifeInv, Untouched, InStep, NotRetried, Started
<1>14. row[j].status = "deleted" \/ row'[j].status = exec[e].outcome
  BY <1>4, <1>7
<1>15. row'[j].status # "none"
  BY <1>3, <1>4, <1>13, <1>14
<1>16. WithinLimit'
  BY <1>6, <1>8, <1>9, <1>12 DEF LifeInv, WithinLimit
<1>17. Untouched'
  BY <1>1, <1>6, <1>15 DEF LifeInv, Untouched
<1>18. InStep'
  <2>1. \A d \in Execs, k \in Jobs : Doing(d, k)' => Doing(d, k) /\ exec'[d].at = exec[d].at /\ d # e
    BY <1>8, <1>9 DEF Doing
  <2>2. NotRetried(j) => \A d \in Execs : Doing(d, j) => d = e
    BY <1>5 DEF IInv, OneEach
  <2>3. NotRetried(j) => \A p \in scan.todo : p.job # j
    BY <1>5 DEF IInv, TodoIsIdle
  <2>4. \A k \in Jobs : NotRetried(k)' <=> NotRetried(k)
    BY <1>1 DEF NotRetried
  <2> QED BY <1>1, <1>6, <2>1, <2>2, <2>3, <2>4 DEF LifeInv, InStep
<1>19. JobOf(j)!NextOfJob \/ row'[j] = row[j]
  <2>1. CASE row[j].status = "deleted"
    BY <1>3, <2>1
  <2>2. CASE row[j].status # "deleted" /\ j \notin retried
    <3>1. row[j].status \in {"running", "cancelled"}
      BY <1>13, <2>2 DEF NotRetried, Started
    <3>2. CASE exec[e].outcome = "queued"
      <4>1. exec[e].retries = row[j].retries
        BY <1>5, <2>2 DEF IInv, RetriesAreKnown, NotRetried
      <4> QED BY <1>1, <1>4, <1>7, <1>10, <2>2, <3>1, <3>2, <4>1 DEF JobOf!NextOfJob, JobOf!TryAgain
    <3>3. CASE exec[e].outcome # "queued"
      BY <1>1, <1>4, <1>7, <2>2, <3>1, <3>3 DEF JobOf!NextOfJob, JobOf!Finish, JobOf!Move
    <3> QED BY <3>2, <3>3
  <2>3. CASE row[j].status # "deleted" /\ j \in retried
    <3>1. row'[j].retries \in 0 .. RetryLimit
      BY <1>11, <1>12
    <3> QED BY <1>1, <1>13, <1>15, <2>3, <3>1 DEF JobOf!NextOfJob, JobOf!Contend
  <2> QED BY <2>1, <2>2, <2>3
<1> QED BY <1>1, <1>6, <1>16, <1>17, <1>18, <1>19, OneRowMoves DEF LifeInv
-----------------------------------------------------------------------------
\* A job is submitted.
LEMMA SubmitMoves ==
  ASSUME IInv, LifeInv, NEW j \in Jobs, SubmitJob(j)
  PROVE  LifeInv' /\ \A k \in Jobs : Moves(k)
<1>1. /\ row[j].status = "none" /\ row' = [row EXCEPT ![j].status = "queued"]
      /\ UNCHANGED <<exec, scan, user, retried, crashes>>
  BY DEF SubmitJob, bounds
<1>2. /\ row' \in [Jobs -> Rows]
      /\ \A k \in Jobs : k # j => row'[k] = row[k]
      /\ row'[j].status = "queued" /\ row'[j].retries = row[j].retries
  BY <1>1 DEF IInv, TypeOK, Rows, Statuses
<1>3. row'[j].retries <= RetryLimit
  BY <1>2 DEF LifeInv, WithinLimit
<1>4. LifeInv'
  BY <1>1, <1>2, <1>3, RowKeeps
<1>5. JobOf(j)!NextOfJob
  BY <1>1, <1>2 DEF JobOf!NextOfJob, JobOf!Submit, JobOf!Move
<1> QED BY <1>1, <1>2, <1>4, <1>5, OneRowMoves

\* A request begins, or goes on without writing a row.
LEMMA RequestMovesNothing ==
  ASSUME IInv, LifeInv, NEW u \in Users,
         (\E j \in Jobs : CancelJob(u, j)) \/ CancelContext(u) \/ ForgetActive(u)
  PROVE  LifeInv' /\ \A k \in Jobs : Moves(k)
<1>1. UNCHANGED <<row, scan, retried, crashes>>
  BY DEF CancelJob, CancelContext, ForgetActive, bounds
<1>2. \A k \in Jobs : Moves(k)
  BY <1>1, NothingMoves
<1>3. CASE \E j \in Jobs : CancelJob(u, j)
  <2>1. PICK j \in Jobs : CancelJob(u, j)
    BY <1>3
  <2>2. /\ row[j].status # "none" /\ exec' = exec
        /\ user' = [user EXCEPT ![u] = [at |-> IF active[j] # None THEN "cancel" ELSE "update",
                                        job |-> j, exec |-> active[j]]]
    BY <2>1 DEF CancelJob
  <2>3. \A v \in Users : user'[v] = user[v] \/ user'[v].job = j
    BY <2>2 DEF IInv, TypeOK
  <2> QED BY <1>1, <1>2, <2>2, <2>3, RequestsKeep
<1>4. CASE CancelContext(u)
  <2>1. /\ user[u].at = "cancel" /\ user' = [user EXCEPT ![u].at = "forget", ![u].exec = None]
        /\ \/ exec' = [exec EXCEPT ![user[u].exec].ctx = "cancelled"]
           \/ exec' = exec
    BY <1>4 DEF CancelContext
  <2>2. \A v \in Users : user'[v].at # "idle" => user[v].at # "idle" /\ user'[v].job = user[v].job
    BY <2>1 DEF IInv, TypeOK, Requests
  <2>3. \A d \in Execs : /\ exec'[d].at = exec[d].at /\ exec'[d].job = exec[d].job
                         /\ exec'[d].outcome = exec[d].outcome
                         /\ exec'[d].retries = exec[d].retries
    BY <2>1 DEF IInv, TypeOK, Executions
  <2>4. WithinLimit' /\ Untouched'
    BY <1>1, <2>2, <2>3 DEF LifeInv, WithinLimit, Untouched
  <2>5. InStep'
    BY <1>1, <2>3 DEF LifeInv, InStep, Doing, NotRetried
  <2> QED BY <1>2, <2>4, <2>5 DEF LifeInv
<1>5. CASE ForgetActive(u)
  <2>1. user[u].at = "forget" /\ user' = [user EXCEPT ![u].at = "update"] /\ exec' = exec
    BY <1>5 DEF ForgetActive, Serve
  <2>2. \A v \in Users : user'[v].at # "idle" => user[v].at # "idle" /\ user'[v].job = user[v].job
    BY <2>1 DEF IInv, TypeOK, Requests
  <2> QED BY <1>1, <1>2, <2>1, <2>2, RequestsKeep
<1> QED BY <1>3, <1>4, <1>5

\* A user asks for a retry.
LEMMA RetryJobMoves ==
  ASSUME IInv, LifeInv, NEW u \in Users, NEW j \in Jobs, RetryJob(u, j)
  PROVE  LifeInv' /\ \A k \in Jobs : Moves(k)
<1>1. /\ row[j].status \in {"failed", "cancelled"} /\ j \notin retried
      /\ user' = [user EXCEPT ![u] = [IdleUser EXCEPT !.at = "requeue", !.job = j]]
      /\ retried' = retried \cup {j}
      /\ UNCHANGED <<row, exec, scan, crashes>>
  BY DEF RetryJob
<1>2. \A v \in Users : user'[v] = user[v] \/ user'[v].job = j
  BY <1>1 DEF IInv, TypeOK, IdleUser
<1>3. LifeInv'
  BY <1>1, <1>2, RequestsKeep
<1>4. JobOf(j)!NextOfJob
  BY <1>1 DEF JobOf!NextOfJob, JobOf!AskForRetry
<1>5. \A k \in Jobs : k # j => Moves(k)
  BY <1>1 DEF Moves, JobOf!job
<1> QED BY <1>3, <1>4, <1>5 DEF Moves

\* A request writes the row of its job.
LEMMA RequestMovesRow ==
  ASSUME IInv, LifeInv, NEW u \in Users, MarkCancelled(u) \/ DeleteRow(u) \/ Requeue(u)
  PROVE  LifeInv' /\ \A k \in Jobs : Moves(k)
<1>1. /\ user[u].at # "idle" /\ UNCHANGED <<exec, scan, retried, crashes>>
      /\ user' = [user EXCEPT ![u] = IdleUser] \/ Serve(u, "delete")
  BY DEF MarkCancelled, DeleteRow, Requeue, bounds
<1>2. PICK j \in Jobs : j = user[u].job
  BY <1>1, ServedNow DEF Served
<1>3. \A v \in Users : user'[v].at # "idle" => user[v].at # "idle" /\ user'[v].job = user[v].job
  BY <1>1 DEF IInv, TypeOK, Requests, Serve, IdleUser
<1>4. row[j].status # "none" /\ row[j] \in Rows /\ row[j].retries <= RetryLimit
  BY <1>1, <1>2 DEF LifeInv, Untouched, WithinLimit, IInv, TypeOK
<1>5. RetryLimit \in Nat
  BY JobSchedulerAssumption
<1>6. CASE MarkCancelled(u) /\ Cancellable(j)
  <2>1. row' = [row EXCEPT ![j].status = "cancelled"] /\ row[j].status \in {"queued", "running"}
    BY <1>2, <1>6 DEF MarkCancelled, Cancellable
  <2>2. /\ row' \in [Jobs -> Rows] /\ \A k \in Jobs : k # j => row'[k] = row[k]
        /\ row'[j].status = "cancelled" /\ row'[j].retries = row[j].retries
    BY <2>1 DEF IInv, TypeOK, Rows, Statuses, Finished
  <2>3. LifeInv'
    BY <1>1, <1>3, <1>4, <2>2, RowKeeps
  <2>4. JobOf(j)!NextOfJob
    BY <1>1, <2>1, <2>2 DEF JobOf!NextOfJob, JobOf!Cancel, JobOf!Move
  <2> QED BY <1>1, <2>2, <2>3, <2>4, OneRowMoves
<1>7. CASE MarkCancelled(u) /\ ~Cancellable(j)
  <2>1. row' = row
    BY <1>2, <1>7 DEF MarkCancelled
  <2> QED BY <1>1, <1>3, <2>1, RequestsKeep, NothingMoves
<1>8. CASE DeleteRow(u)
  <2>1. row' = [row EXCEPT ![j] = [status |-> "deleted", retries |-> 0]]
    BY <1>2, <1>8 DEF DeleteRow
  <2>2. /\ row' \in [Jobs -> Rows] /\ \A k \in Jobs : k # j => row'[k] = row[k]
        /\ row'[j].status = "deleted" /\ row'[j].retries = 0
    BY <2>1 DEF IInv, TypeOK, Rows, Statuses
  <2>3. LifeInv'
    BY <1>1, <1>3, <1>5, <2>2, RowKeeps
  <2>4. JobOf(j)!NextOfJob
    BY <1>1, <1>4, <2>2 DEF JobOf!NextOfJob, JobOf!Delete
  <2> QED BY <1>1, <2>2, <2>3, <2>4, OneRowMoves
<1>9. CASE Requeue(u)
  <2>1. SetStatus(j, "queued") /\ j \in retried /\ "queued" \in Statuses
    BY <1>2, <1>9, ServedNow DEF Requeue, Served, Statuses
  <2>2. /\ row' \in [Jobs -> Rows]
        /\ \A k \in Jobs : /\ k # j => row'[k] = row[k]
                           /\ row'[k].retries = row[k].retries
        /\ row'[j].status = IF row[j].status = "deleted" THEN "deleted" ELSE "queued"
    BY <2>1, StatusIsSet DEF IInv, TypeOK
  <2>3. LifeInv'
    BY <1>1, <1>3, <1>4, <2>1, <2>2, RowKeeps
  <2>4. CASE row[j].status = "deleted"
    BY <1>1, <2>1, <2>3, <2>4, OneRowMoves DEF SetStatus
  <2>5. CASE row[j].status # "deleted"
    <3>1. row'[j].retries \in 0 .. RetryLimit
      BY <1>4, <1>5, <2>2 DEF Rows
    <3>2. JobOf(j)!NextOfJob
      BY <1>1, <1>4, <2>1, <2>2, <2>5, <3>1 DEF JobOf!NextOfJob, JobOf!Contend
    <3> QED BY <1>1, <2>2, <2>3, <3>2, OneRowMoves
  <2> QED BY <2>4, <2>5
<1> QED BY <1>6, <1>7, <1>8, <1>9

\* A crash and the restart: nothing is in progress.
LEMMA RestartMoves ==
  ASSUME IInv, LifeInv, Restart
  PROVE  LifeInv' /\ \A j \in Jobs : Moves(j)
<1>1. /\ row' = Reset /\ exec' = [e \in Execs |-> Free]
      /\ scan' = IdleScan /\ user' = [u \in Users |-> IdleUser]
      /\ crashes' = crashes + 1 /\ retried' = retried
  BY DEF Restart
<1>2. \A j \in Jobs :
        /\ row'[j].retries = row[j].retries
        /\ row'[j].status = IF row[j].status = "running" THEN "queued" ELSE row[j].status
  BY <1>1 DEF Reset, IInv, TypeOK, Rows
<1>3. WithinLimit' /\ Untouched'
  BY <1>1, <1>2 DEF LifeInv, WithinLimit, Untouched, Free, IdleUser
<1>4. InStep'
  BY <1>1 DEF InStep, Doing, Free, IdleScan
<1>5. ASSUME NEW j \in Jobs
      PROVE  JobOf(j)!NextOfJob
  BY <1>1, <1>2 DEF JobOf!NextOfJob, JobOf!Crash
<1> QED BY <1>3, <1>4, <1>5 DEF LifeInv, Moves

\* Every step of the scheduler is one of the life cycle of each job.
LEMMA StepMoves ==
  ASSUME IInv, LifeInv, [Next]_vars
  PROVE  LifeInv' /\ \A j \in Jobs : Moves(j)
<1>1. CASE Scanner
  BY <1>1, ScanMoves, ClaimMoves, MarkRunningMoves DEF Scanner
<1>2. CASE \E e \in Execs : Execution(e)
  BY <1>2, ReturnMoves, WriteOutcomeMoves DEF Execution
<1>3. CASE \E u \in Users : Request(u)
  BY <1>3, RequestMovesNothing, RequestMovesRow DEF Request
<1>4. CASE \E j \in Jobs : SubmitJob(j) \/ \E u \in Users : CancelJob(u, j) \/ RetryJob(u, j)
  BY <1>4, SubmitMoves, RequestMovesNothing, RetryJobMoves
<1>5. CASE Restart
  BY <1>5, RestartMoves
<1>6. CASE UNCHANGED vars
  BY <1>6, RequestsKeep, NothingMoves DEF vars, bounds
<1> QED BY <1>1, <1>2, <1>3, <1>4, <1>5, <1>6 DEF Next

\* The rows at the start.
LEMMA InitLife == Init => LifeInv /\ \A j \in Jobs : JobOf(j)!NewJob
<1> SUFFICES ASSUME Init PROVE LifeInv /\ \A j \in Jobs : JobOf(j)!NewJob
  OBVIOUS
<1>1. RetryLimit \in Nat
  BY JobSchedulerAssumption
<1>2. WithinLimit /\ Untouched /\ InStep
  BY <1>1 DEF Init, WithinLimit, Untouched, InStep, Doing, Free, IdleScan, IdleUser
<1>3. \A j \in Jobs : JobOf(j)!NewJob
  BY DEF Init, JobOf!NewJob
<1> QED BY <1>2, <1>3 DEF LifeInv

\* No row counts beyond RetryLimit, nothing is done for a job that was not
\* submitted, and rows and executions are in step.
THEOREM RowsAreInStep == Spec => []LifeInv
<1>1. IInv /\ LifeInv /\ [Next]_vars => LifeInv'
  BY StepMoves
<1> QED BY <1>1, InitLife, Inductive, PTL DEF Spec

\* The scheduler implements the life cycle of its jobs, however the scanner, the
\* executions, the requests of users and crashes interleave.
THEOREM ImplementsLifeCycle == Spec => JobsImplementLifeCycle
<1> DEFINE Steps == \A j \in Jobs : [JobOf(j)!NextOfJob]_(JobOf(j)!job)
<1>1. IInv /\ LifeInv /\ [Next]_vars => [Steps]_vars
  BY StepMoves DEF Moves
<1>2. Init => \A j \in Jobs : JobOf(j)!NewJob
  BY InitLife
<1> HIDE DEF Steps
<1>3. Spec => (\A j \in Jobs : JobOf(j)!NewJob) /\ [][Steps]_vars
  BY <1>1, <1>2, Inductive, RowsAreInStep, PTL DEF Spec
<1> QED BY <1>3 DEF Steps, JobsImplementLifeCycle

\* The same of one job, as an implementation of its own life cycle.
THEOREM EveryJobIsALifeCycle == ASSUME NEW j \in Jobs PROVE Spec => JobOf(j)!LifeCycle
<1>1. Init => JobOf(j)!NewJob
  BY InitLife
<1>2. IInv /\ LifeInv /\ [Next]_vars => [JobOf(j)!NextOfJob]_(JobOf(j)!job)
  BY StepMoves DEF Moves
<1> QED BY <1>1, <1>2, Inductive, RowsAreInStep, PTL DEF Spec, JobOf!LifeCycle
-----------------------------------------------------------------------------
(* What the life cycle says of the rows. *)

\* The count of crashes never goes back.
LEMMA CrashesCount == Spec => [](crashes \in Nat)
<1>1. Init => crashes \in Nat
  BY DEF Init
<1>2. IInv /\ LifeInv /\ crashes \in Nat /\ [Next]_vars => (crashes \in Nat)'
  <2> SUFFICES ASSUME crashes \in Nat, [Next]_vars PROVE crashes' \in Nat
    OBVIOUS
  <2>1. crashes' = crashes \/ crashes' = crashes + 1
    BY DEF Next, Scanner, Execution, Request, SubmitJob, CancelJob, RetryJob, BeginScan,
           FindPending, PassOver, Claim, MarkRunning, StartGoroutine, HandlerReturns,
           CleanUp, WriteOutcome, CancelContext, ForgetActive, MarkCancelled, DeleteRow,
           Requeue, Restart, bounds, vars
  <2> QED BY <2>1
<1> QED BY <1>1, <1>2, Inductive, RowsAreInStep, PTL DEF Spec

\* A job that is queued again without a user has used up a retry, or the process
\* has crashed: it is tried 1 + RetryLimit times and once more per crash.
RetriesUsedUp ==
  [][\A j \in Jobs :
       row[j].status \notin {"none", "queued"} /\ row'[j].status = "queued" /\ j \notin retried
       => row'[j].retries > row[j].retries \/ crashes' > crashes]_vars

\* What has completed or failed stays so, unless a user has had it retried or
\* deletes it.
EndsAreFinal ==
  [][\A j \in Jobs :
       row[j].status \in {"completed", "failed"} /\ row'[j].status # row[j].status
       => j \in retried \/ row'[j].status = "deleted"]_vars

\* Retries are counted, whatever has happened to the row since it was read.
THEOREM RetriesCount == Spec => RetriesUsedUp
<1> DEFINE A == \A j \in Jobs :
                  row[j].status \notin {"none", "queued"} /\ row'[j].status = "queued" /\ j \notin retried
                  => row'[j].retries > row[j].retries \/ crashes' > crashes
<1>1. ASSUME IInv, LifeInv, crashes \in Nat, [Next]_vars, NEW j \in Jobs,
             row[j].status \notin {"none", "queued"}, row'[j].status = "queued", j \notin retried
      PROVE  row'[j].retries > row[j].retries \/ crashes' > crashes
  <2>1. JobOf(j)!NextOfJob
    BY <1>1, StepMoves DEF Moves, JobOf!job
  <2>2. row[j].retries \in Nat
    BY <1>1 DEF IInv, TypeOK, Rows
  <2> QED
    BY <1>1, <2>1, <2>2
       DEF JobOf!NextOfJob, JobOf!Submit, JobOf!Start, JobOf!Finish, JobOf!TryAgain, JobOf!Cancel,
           JobOf!Delete, JobOf!Crash, JobOf!AskForRetry, JobOf!Contend, JobOf!Move
<1>2. IInv /\ LifeInv /\ crashes \in Nat /\ [Next]_vars => [A]_vars
  BY <1>1
<1> QED BY <1>2, CrashesCount, Inductive, RowsAreInStep, PTL DEF Spec, RetriesUsedUp

\* No late writer changes how a job ended.
THEOREM EndsStay == Spec => EndsAreFinal
<1> DEFINE A == \A j \in Jobs :
                  row[j].status \in {"completed", "failed"} /\ row'[j].status # row[j].status
                  => j \in retried \/ row'[j].status = "deleted"
<1>1. ASSUME IInv, LifeInv, [Next]_vars, NEW j \in Jobs,
             row[j].status \in {"completed", "failed"}, row'[j].status # row[j].status,
             j \notin retried
      PROVE  row'[j].status = "deleted"
  <2>1. JobOf(j)!NextOfJob
    BY <1>1, StepMoves DEF Moves, JobOf!job
  <2> QED
    BY <1>1, <2>1
       DEF JobOf!NextOfJob, JobOf!Submit, JobOf!Start, JobOf!Finish, JobOf!TryAgain, JobOf!Cancel,
           JobOf!Delete, JobOf!Crash, JobOf!AskForRetry, JobOf!Contend, JobOf!Move
<1>2. IInv /\ LifeInv /\ [Next]_vars => [A]_vars
  BY <1>1
<1> QED BY <1>2, Inductive, RowsAreInStep, PTL DEF Spec, EndsAreFinal
=============================================================================
