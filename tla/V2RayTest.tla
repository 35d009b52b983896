------------------------------ MODULE V2RayTest ------------------------------
(***************************************************************************)
(* The test of proxy profiles (web/client/src/pages/V2RayClientPage.tsx):  *)
(* each start opens a WebSocket of its own, over which the server tests    *)
(* and reports.  A start closes the socket that wsRef holds, whose onclose *)
(* runs later and knows nothing of its successor.                          *)
(***************************************************************************)
EXTENDS PanelPage

CONSTANT TestSockets

EndStatuses == {"completed", "stopped", "error"}

VARIABLES
  here,
  testing,   \* testingStatus
  wsRef,     \* None or a socket
  tests      \* socket -> "none", "connecting", "open", "closing" or "aborted"

testVars == <<here, testing, wsRef, tests>>

TestInit ==
  /\ here = TRUE /\ testing = "idle" /\ wsRef = None
  /\ tests = [s \in TestSockets |-> "none"]

\* What ws.close() leaves to the socket's events: a connection that is still
\* being made fails.
Closing(s) ==
  [tests EXCEPT ![s] = CASE @ = "connecting" -> "aborted"
                         [] @ = "open" -> "closing"
                         [] OTHER -> @]

RefClosed == IF wsRef = None THEN tests ELSE Closing(wsRef)

\* startAdvancedTest, for all profiles or for one, also while a test runs.
StartTest ==
  /\ here
  /\ \E s \in TestSockets :
       /\ tests[s] = "none"
       /\ wsRef' = s
       /\ tests' = [RefClosed EXCEPT ![s] = "connecting"]
  /\ testing' = "running"
  /\ UNCHANGED here

\* onopen asks the server to start.
TestOpens(s) ==
  /\ tests[s] = "connecting"
  /\ tests' = [tests EXCEPT ![s] = "open"]
  /\ UNCHANGED <<here, testing, wsRef>>

\* A status message, of whichever test.
Status(s, status) ==
  /\ here /\ tests[s] = "open"
  /\ testing' = status
  /\ tests' = IF status \in EndStatuses THEN Closing(s) ELSE tests
  /\ UNCHANGED <<here, wsRef>>

\* onclose, of whichever socket.
TestCloses(s) ==
  /\ tests[s] \in {"open", "closing"}
  /\ tests' = [tests EXCEPT ![s] = "none"]
  /\ testing' = IF here /\ testing = "running" THEN "stopped" ELSE testing
  /\ wsRef' = None
  /\ UNCHANGED here

\* A connection is refused, aborted or broken: onerror, and then onclose.
TestFails(s) ==
  /\ tests[s] # "none"
  /\ tests' = [tests EXCEPT ![s] = "none"]
  /\ testing' = IF here THEN "error" ELSE testing
  /\ wsRef' = None
  /\ UNCHANGED here

\* stopAdvancedTest: the server is asked to stop if the socket is known and open.
Stop ==
  /\ here /\ testing = "running"
  /\ testing' = "stopped"
  /\ UNCHANGED <<here, wsRef, tests>>

Leave ==
  /\ here
  /\ here' = FALSE /\ tests' = RefClosed
  /\ UNCHANGED <<testing, wsRef>>

TestNext ==
  \/ StartTest \/ Stop \/ Leave
  \/ \E s \in TestSockets :
       \/ TestOpens(s) \/ TestFails(s) \/ TestCloses(s)
       \/ \E status \in {"running"} \cup EndStatuses : Status(s, status)

\* Sockets open or fail, and the server ends each test or its connection.
TestSpec ==
  /\ TestInit /\ [][TestNext]_testVars
  /\ \A s \in TestSockets : WF_testVars(TestOpens(s) \/ TestFails(s) \/ TestCloses(s))
-----------------------------------------------------------------------------
\* The page shows a test that runs: this ends when its socket has gone, however
\* tests are started over one another and in whatever order sockets report.
Running == here /\ testing = "running"
=============================================================================
