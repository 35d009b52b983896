----------------------------- MODULE JobScheduler -----------------------------
(***************************************************************************)
(* The job scheduler (internal/scheduler/engine.go): one queue scanner     *)
(* claims queued rows of the database and starts a goroutine for each; an  *)
(* execution calls its handler, gives its worker back and writes how it    *)
(* ended; users submit, cancel, retry and delete jobs while all this goes  *)
(* on; the process may crash and start again over the same rows.           *)
(*                                                                         *)
(* Scheduler.mu guards activeJobs only.  Every statement on the database   *)
(* is a step of its own and nothing ties a row to activeJobs: what a       *)
(* goroutine has read may be old when it writes.  Statements succeed; the  *)
(* code ignores the error of one that fails.                               *)
(***************************************************************************)
EXTENDS Integers, FiniteSets, FiniteSetsExt

CONSTANTS
  Jobs,         \* identifiers of rows, never used twice
  Workers,      \* workerCount
  RetryLimit,   \* of the configuration
  Users,        \* handlers of HTTP requests that may be served at once
  MaxCancels, MaxRetries, MaxCrashes  \* bounds: calls of users, crashes

ASSUME JobSchedulerAssumption ==
  /\ IsFiniteSet(Jobs)
  /\ Workers \in Nat \ {0} /\ RetryLimit \in Nat
  /\ {MaxCancels, MaxRetries, MaxCrashes} \subseteq Nat

VARIABLES
  row,        \* the table of jobs: [status, retries]
  active,     \* activeJobs: the execution whose CancelFunc is stored
  exec,       \* executions that have not ended
  scan,       \* the goroutine of queueScanner
  user,       \* requests in progress
  cancels, crashes,  \* counted for the bounds
  retried            \* jobs a user has had retried, once each (bound)

bounds == <<cancels, crashes, retried>>
vars == <<row, active, exec, scan, user, bounds>>

\* As many executions as can be in progress: a job has a second one only when a
\* user has retried it.
Execs == 1 .. Cardinality(Jobs) + MaxRetries
None == 0
NoJob == [no |-> "job"]

Finished == {"completed", "failed", "cancelled"}
Statuses == {"none", "queued", "running", "deleted"} \cup Finished

Free == [at |-> "free", job |-> NoJob, retries |-> 0, ctx |-> "live", outcome |-> "none"]
IdleScan == [at |-> "idle", slots |-> 0, todo |-> {}, exec |-> None]
IdleUser == [at |-> "idle", job |-> NoJob, exec |-> None]

Init ==
  /\ row = [j \in Jobs |-> [status |-> "none", retries |-> 0]]
  /\ active = [j \in Jobs |-> None]
  /\ exec = [e \in Execs |-> Free]
  /\ scan = IdleScan
  /\ user = [u \in Users |-> IdleUser]
  /\ cancels = 0 /\ crashes = 0 /\ retried = {}

\* An UPDATE of a row: of nothing, when the row has been deleted.
SetStatus(j, s) ==
  row' = IF row[j].status = "deleted" THEN row ELSE [row EXCEPT ![j].status = s]
-----------------------------------------------------------------------------
SubmitJob(j) ==
  /\ row[j].status = "none"
  /\ row' = [row EXCEPT ![j].status = "queued"]
  /\ UNCHANGED <<active, exec, scan, user, bounds>>

\* dispatchJobs, at a tick or a wake-up: count the free workers ...
BeginScan ==
  LET busy == Cardinality({j \in Jobs : active[j] # None})
  IN /\ scan.at = "idle" /\ busy < Workers
     /\ scan' = [scan EXCEPT !.at = "counted", !.slots = Workers - busy]
     /\ UNCHANGED <<row, active, exec, user, bounds>>

GoThrough(todo) ==
  scan' = [IdleScan EXCEPT !.at = IF todo = {} THEN "idle" ELSE "loop", !.todo = todo]

\* ... read that many queued rows, by priority, which users may change ...
FindPending ==
  LET queued == {j \in Jobs : row[j].status = "queued"}
      n == Min({scan.slots, Cardinality(queued)})
  IN /\ scan.at = "counted"
     /\ \E found \in kSubset(n, queued) :
          GoThrough({[job |-> j, retries |-> row[j].retries] : j \in found})
     /\ UNCHANGED <<row, active, exec, user, bounds>>

\* ... and take one after the other: pass over it when it is active ...
PassOver ==
  /\ scan.at = "loop"
  /\ \E p \in scan.todo :
       /\ active[p.job] # None
       /\ GoThrough(scan.todo \ {p})
  /\ UNCHANGED <<row, active, exec, user, bounds>>

\* ... or store its CancelFunc ...
Claim ==
  /\ scan.at = "loop"
  /\ \E p \in scan.todo, e \in Execs :
       /\ exec[e].at = "free" /\ \A d \in Execs : d < e => exec[d].at # "free"
       /\ active[p.job] = None
       /\ active' = [active EXCEPT ![p.job] = e]
       /\ exec' = [exec EXCEPT ![e] =
                     [Free EXCEPT !.at = "claimed", !.job = p.job, !.retries = p.retries]]
       /\ scan' = [scan EXCEPT !.at = "mark", !.todo = @ \ {p}, !.exec = e]
  /\ UNCHANGED <<row, user, bounds>>

StartGoroutine(e) ==
  /\ exec' = [exec EXCEPT ![e].at = "handler"]
  /\ GoThrough(scan.todo)
  /\ UNCHANGED <<active, user, bounds>>

\* Mutant of MarkRunning: the goroutine starts before its row says so.
MarkNothing ==
  /\ scan.at = "mark"
  /\ StartGoroutine(scan.exec)
  /\ UNCHANGED row

\* ... mark its row, whatever the row says by now, and start the goroutine.
MarkRunning ==
  /\ scan.at = "mark"
  /\ SetStatus(exec[scan.exec].job, "running")
  /\ StartGoroutine(scan.exec)
-----------------------------------------------------------------------------
\* The handler returns nil or an error.  ctx.Err() says which error: the
\* cancellation, the deadline JobTimeoutSeconds, whichever came first, or one of
\* its own, which queues the job again until its retries, as counted when the job
\* was read, are used up.
Outcomes(e) ==
  {"completed", "failed"}
    \cup (IF exec[e].ctx = "cancelled" THEN {"cancelled"}
          ELSE IF exec[e].retries < RetryLimit THEN {"queued"} ELSE {})

\* The context is not looked at again.
HandlerReturns(e) ==
  /\ exec[e].at = "handler"
  /\ \E outcome \in Outcomes(e) :
       exec' = [exec EXCEPT ![e].at = "returned", ![e].ctx = "live", ![e].outcome = outcome]
  /\ UNCHANGED <<row, active, scan, user, bounds>>

\* Mutant of CleanUp: only an execution that was not cancelled has an entry.
CleanUpUncancelled(e) ==
  /\ exec[e].at = "returned"
  /\ active' = IF exec[e].outcome = "cancelled" THEN active ELSE [active EXCEPT ![exec[e].job] = None]
  /\ exec' = [exec EXCEPT ![e].at = "write"]
  /\ UNCHANGED <<row, scan, user, bounds>>

\* It deletes the entry of its job, whichever execution that belongs to.
CleanUp(e) ==
  /\ exec[e].at = "returned"
  /\ active' = [active EXCEPT ![exec[e].job] = None]
  /\ exec' = [exec EXCEPT ![e].at = "write"]
  /\ UNCHANGED <<row, scan, user, bounds>>

\* Mutants of Ended: a retry does not queue the job, or does not count.
EndedUnqueued(e) ==
  LET r == row[exec[e].job]
  IN IF exec[e].outcome = "queued" THEN [r EXCEPT !.retries = exec[e].retries + 1]
     ELSE [r EXCEPT !.status = exec[e].outcome]

EndedUncounted(e) == [row[exec[e].job] EXCEPT !.status = exec[e].outcome]

\* What an execution writes at its end.
Ended(e) ==
  [status |-> exec[e].outcome,
   retries |-> IF exec[e].outcome = "queued" THEN exec[e].retries + 1
               ELSE row[exec[e].job].retries]

WriteOutcome(e) ==
  /\ exec[e].at = "write"
  /\ row' = IF row[exec[e].job].status = "deleted" THEN row
            ELSE [row EXCEPT ![exec[e].job] = Ended(e)]
  /\ exec' = [exec EXCEPT ![e] = Free]
  /\ UNCHANGED <<active, scan, user, bounds>>
-----------------------------------------------------------------------------
Serve(u, at) == user' = [user EXCEPT ![u].at = at]

\* CancelJob, also as the first part of DeleteJob: look activeJobs up ...
CancelJob(u, j) ==
  /\ user[u].at = "idle" /\ cancels < MaxCancels
  /\ row[j].status \notin {"none", "deleted"}
  /\ user' = [user EXCEPT ![u] = [at |-> IF active[j] # None THEN "cancel" ELSE "update",
                                  job |-> j, exec |-> active[j]]]
  /\ cancels' = cancels + 1
  /\ UNCHANGED <<row, active, exec, scan, crashes, retried>>

\* ... cancel the context, of an execution that may have ended since ...
CancelContext(u) ==
  LET e == user[u].exec
  IN /\ user[u].at = "cancel"
     /\ exec' = IF exec[e].at \in {"claimed", "handler"} /\ exec[e].job = user[u].job
                     /\ exec[e].ctx = "live"
                  THEN [exec EXCEPT ![e].ctx = "cancelled"] ELSE exec
     /\ user' = [user EXCEPT ![u].at = "forget", ![u].exec = None]
     /\ UNCHANGED <<row, active, scan, bounds>>

\* ... delete the entry ...
ForgetActive(u) ==
  /\ user[u].at = "forget"
  /\ active' = [active EXCEPT ![user[u].job] = None]
  /\ Serve(u, "update")
  /\ UNCHANGED <<row, exec, scan, bounds>>

Cancellable(j) == row[j].status \in {"queued", "running"}

\* ... and update the row, if it can still be cancelled.  DeleteJob goes on.
MarkCancelled(u) ==
  /\ user[u].at = "update"
  /\ row' = IF Cancellable(user[u].job)
              THEN [row EXCEPT ![user[u].job].status = "cancelled"] ELSE row
  /\ Serve(u, "delete") \/ user' = [user EXCEPT ![u] = IdleUser]
  /\ UNCHANGED <<active, exec, scan, bounds>>

\* DeleteJob deletes the row, whatever an execution is still doing for it.
DeleteRow(u) ==
  /\ user[u].at = "delete"
  /\ row' = [row EXCEPT ![user[u].job] = [status |-> "deleted", retries |-> 0]]
  /\ user' = [user EXCEPT ![u] = IdleUser]
  /\ UNCHANGED <<active, exec, scan, bounds>>

\* RetryJob reads the row and checks its status ...
RetryJob(u, j) ==
  /\ user[u].at = "idle" /\ Cardinality(retried) < MaxRetries /\ j \notin retried
  /\ row[j].status \in {"failed", "cancelled"}
  /\ user' = [user EXCEPT ![u] = [IdleUser EXCEPT !.at = "requeue", !.job = j]]
  /\ retried' = retried \cup {j}
  /\ UNCHANGED <<row, active, exec, scan, cancels, crashes>>

\* ... and updates it, without resetting its retries.
Requeue(u) ==
  /\ user[u].at = "requeue"
  /\ SetStatus(user[u].job, "queued")
  /\ user' = [user EXCEPT ![u] = IdleUser]
  /\ UNCHANGED <<active, exec, scan, bounds>>
-----------------------------------------------------------------------------
\* Mutant of Reset: what was running stays so.
ResetNothing == row

Reset == [j \in Jobs |-> IF row[j].status = "running" THEN [row[j] EXCEPT !.status = "queued"]
                         ELSE row[j]]

\* The process crashes, and Init queues what was running.
Restart ==
  /\ crashes < MaxCrashes
  /\ row' = Reset
  /\ active' = [j \in Jobs |-> None]
  /\ exec' = [e \in Execs |-> Free]
  /\ scan' = IdleScan
  /\ user' = [u \in Users |-> IdleUser]
  /\ crashes' = crashes + 1
  /\ UNCHANGED <<cancels, retried>>

Scanner == BeginScan \/ FindPending \/ PassOver \/ Claim \/ MarkRunning
Execution(e) == HandlerReturns(e) \/ CleanUp(e) \/ WriteOutcome(e)
Request(u) ==
  CancelContext(u) \/ ForgetActive(u) \/ MarkCancelled(u) \/ DeleteRow(u) \/ Requeue(u)

Next ==
  \/ \E j \in Jobs : SubmitJob(j) \/ \E u \in Users : CancelJob(u, j) \/ RetryJob(u, j)
  \/ Scanner
  \/ \E e \in Execs : Execution(e)
  \/ \E u \in Users : Request(u)
  \/ Restart

Spec == Init /\ [][Next]_vars

\* The ticker of queueScanner never stops, a handler returns (its context has a
\* deadline), and a goroutine or a request goes on.
Fairness ==
  /\ WF_vars(Scanner)
  /\ \A e \in Execs : WF_vars(Execution(e))
  /\ \A u \in Users : WF_vars(Request(u))

FairSpec == Spec /\ Fairness
-----------------------------------------------------------------------------
InProgress(j) == {e \in Execs : exec[e].at # "free" /\ exec[e].job = j}
NotRetried(j) == j \notin retried

\* activeJobs holds no entry whose execution is over, whichever execution, request
\* or crash came in between: it would keep a worker and its job for ever.
SlotsAreHeld ==
  \A j \in Jobs : active[j] # None =>
    exec[active[j]].job = j /\ exec[active[j]].at \in {"claimed", "handler", "returned"}

\* A row that says "running" has an execution which will write how it ended:
\* none is left behind by a cancellation, an old execution or a crash.
RunningIsOwned ==
  \A j \in Jobs : row[j].status = "running" => \E e \in InProgress(j) : exec[e].at # "claimed"

\* The scanner does not start a job twice: only a user who has it retried can
\* make two executions of it overlap.
OneExecution == \A j \in Jobs : NotRetried(j) => Cardinality(InProgress(j)) <= 1

\* Each job goes through the life cycle of JobLifeCycle, whatever has happened to
\* its row between the scan, the execution and the requests that write it: it is
\* queued again only for a retry that counts, or after a crash, and what has
\* completed or failed is final, unless a user has it retried.
JobOf(j) == INSTANCE JobLifeCycle WITH
  status <- row[j].status, retries <- row[j].retries, retried <- j \in retried
JobsImplementLifeCycle ==
  /\ \A j \in Jobs : JobOf(j)!NewJob
  /\ [][\A j \in Jobs : [JobOf(j)!NextOfJob]_(JobOf(j)!job)]_vars

\* Every job that is queued or running comes to an end, cancelled, retried and
\* restarted as it may be.
EveryJobEnds ==
  \A j \in Jobs : row[j].status \in {"queued", "running"} ~>
                    row[j].status \in Finished \cup {"deleted"}
=============================================================================
