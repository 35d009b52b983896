------------------------------ MODULE JobsStore ------------------------------
(***************************************************************************)
(* The store behind the pages that list downloads                          *)
(* (web/client/src/store/jobsStore.ts): one WebSocket over which the       *)
(* server pushes its rows, opened by the effect of the page that is        *)
(* mounted and opened again three seconds after it closes.  ws and         *)
(* reconnectTimeout are shared by all pages and by all calls.              *)
(***************************************************************************)
EXTENDS PanelPage, FiniteSets

CONSTANTS
  Sockets,   \* sockets, used again when they are closed
  Jobs       \* info hashes

VARIABLES
  mounted,   \* a page that uses the store is shown
  ws,        \* None or the socket the store holds, which may be closed
  timer,     \* a reconnection is due
  socket,    \* socket -> "closed", "connecting" or "open"
  rows,      \* the torrents of the server
  torrents   \* those the store has been told of

storeVars == <<mounted, ws, timer, socket, rows, torrents>>

StoreInit ==
  /\ mounted = FALSE /\ ws = None /\ timer = FALSE
  /\ socket = [s \in Sockets |-> "closed"]
  /\ rows = {} /\ torrents = {}

\* The socket the store holds, if it is open: without it, sendAction does
\* nothing.
Open == ws # None /\ socket[ws] = "open"

\* connect.
Connect(open) ==
  \E s \in Sockets :
    /\ open[s] = "closed"
    /\ ws' = s /\ socket' = [open EXCEPT ![s] = "connecting"]

\* Mutant of Released: the socket is left to itself, which the
\* onclose it keeps opens again.
StillOpen == socket

\* The cleanup takes onclose away, closes the socket and cancels the timer.
Released ==
  IF ws = None THEN socket ELSE [socket EXCEPT ![ws] = "closed"]

MountStore ==
  /\ ~mounted
  /\ mounted' = TRUE
  /\ Connect(socket)
  /\ UNCHANGED <<timer, rows, torrents>>

CleanUp ==
  /\ mounted
  /\ mounted' = FALSE
  /\ ws' = None /\ timer' = FALSE /\ socket' = Released
  /\ UNCHANGED <<rows, torrents>>

\* A new token: the effect is cleaned up and run again.
Renew ==
  /\ mounted
  /\ Connect(Released)
  /\ timer' = FALSE
  /\ UNCHANGED <<mounted, rows, torrents>>

Opens(s) ==
  /\ socket[s] = "connecting"
  /\ socket' = [socket EXCEPT ![s] = "open"]
  /\ UNCHANGED <<mounted, ws, timer, rows, torrents>>

\* Mutant of Closes: nothing is tried again.
ClosesForGood(s) ==
  /\ socket[s] # "closed"
  /\ socket' = [socket EXCEPT ![s] = "closed"]
  /\ UNCHANGED <<mounted, ws, timer, rows, torrents>>

\* onclose, after a refused connection too.
Closes(s) ==
  /\ socket[s] # "closed"
  /\ socket' = [socket EXCEPT ![s] = "closed"]
  /\ timer' = TRUE
  /\ UNCHANGED <<mounted, ws, rows, torrents>>

TimerFires ==
  /\ timer
  /\ timer' = FALSE
  /\ Connect(socket)
  /\ UNCHANGED <<mounted, rows, torrents>>

\* Downloads that are added or removed elsewhere.
RowsChange(t) ==
  /\ rows' = (rows \ {t}) \cup ({t} \ rows)
  /\ UNCHANGED <<mounted, ws, timer, socket, torrents>>

\* Timers fire, and a connection that is tried for ever is made some time.
StoreFairness ==
  /\ WF_storeVars(TimerFires)
  /\ \A s \in Sockets : SF_storeVars(Opens(s))
-----------------------------------------------------------------------------
\* While a page is shown, the store has one connection or one timer that will
\* make one, however often effects are cleaned up and run again; and when none
\* is shown it has neither, so that nothing reconnects behind the user's back.
OneSocket ==
  LET live == {s \in Sockets : socket[s] # "closed"} IN
    /\ live = IF mounted /\ ~timer THEN {ws} ELSE {}
    /\ timer => mounted

\* A page is shown without a connection: this always ends while the page stays.
Disconnected == mounted /\ ~Open
=============================================================================
