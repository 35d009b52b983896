----------------------------- MODULE JobLifeCycle -----------------------------
(***************************************************************************)
(* What the job scheduler promises of one job, seen through its row: it is *)
(* started, ends, and is queued again at most RetryLimit times and once    *)
(* per crash; "completed" and "failed" are final.  A user may cancel or    *)
(* delete it at any time.  Once a user has had it retried, two executions  *)
(* may be writing its row, and little is left of the promise.              *)
(***************************************************************************)
EXTENDS Integers

CONSTANT RetryLimit

VARIABLES
  status,
  retries,
  retried,   \* a user has had it retried
  crashes    \* of the process, so far

job == <<status, retries, retried, crashes>>

NewJob == status = "none" /\ retries = 0 /\ ~retried /\ crashes = 0

Move(from, to) ==
  /\ status \in from /\ status' \in to
  /\ UNCHANGED <<retries, retried, crashes>>

Submit == Move({"none"}, {"queued"})

\* "cancelled" is not the end: the scanner may have read the row before, ...
Start == Move({"queued", "cancelled"}, {"running"})

\* ... and the execution has the last word.
Finish == Move({"running", "cancelled"}, {"completed", "failed", "cancelled"})

TryAgain ==
  /\ status \in {"running", "cancelled"} /\ status' = "queued"
  /\ retries < RetryLimit /\ retries' = retries + 1
  /\ UNCHANGED <<retried, crashes>>

Cancel == Move({"queued", "running"}, {"cancelled"})

Delete ==
  /\ status # "none"
  /\ status' = "deleted" /\ retries' = 0
  /\ UNCHANGED <<retried, crashes>>

Crash ==
  /\ crashes' = crashes + 1
  /\ status' = IF status = "running" THEN "queued" ELSE status
  /\ UNCHANGED <<retries, retried>>

AskForRetry ==
  /\ status \in {"failed", "cancelled"} /\ ~retried
  /\ retried' = TRUE
  /\ UNCHANGED <<status, retries, crashes>>

\* The old execution and the new one write as they please, but neither brings a
\* deleted row back, nor counts beyond the limit.
Contend ==
  /\ retried /\ status \notin {"none", "deleted"}
  /\ status' # "none" /\ retries' \in 0 .. RetryLimit
  /\ UNCHANGED <<retried, crashes>>

NextOfJob ==
  \/ Submit \/ Start \/ Finish \/ TryAgain \/ Cancel \/ Delete \/ Crash
  \/ AskForRetry \/ Contend

LifeCycle == NewJob /\ [][NextOfJob]_job
=============================================================================
