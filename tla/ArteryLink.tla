------------------------------ MODULE ArteryLink ------------------------------
(***************************************************************************)
(* One artery from end to end: the client's ArteryConn                     *)
(* (internal/bonding/client/artery_conn.go) with the goroutine of          *)
(* RunWithAutoReconnect, its ping tickers and StopEngine's Close, and the  *)
(* handlers and the table of the server's combiner                         *)
(* (internal/bonding/combiner/combiner.go), over WebSockets that may break *)
(* without either end hearing of it.                                       *)
(*                                                                         *)
(* ac.mu and c.mu are released between the steps here, never within one.   *)
(***************************************************************************)
EXTENDS Naturals, FiniteSets

CONSTANTS
  Conns,    \* WebSockets that exist at one time; one that is gone is used again
  None      \* no connection
ASSUME LinkAssumption == None \notin Conns

VARIABLES
  pc,       \* where RunWithAutoReconnect is
  mine,     \* the connection in the local variable of Connect or ReadFrameLoop
  ws,       \* ac.wsConn
  alive,    \* ac.alive
  tickers,  \* connections whose ReadFrameLoop left a ping ticker running
  ctxDone,  \* the engine's context is cancelled
  closed,   \* StopEngine has called Close
  client,   \* the client's end of each connection: "open", "closed"
  up,       \* the network still carries it
  server,   \* the handler of each: "none", "upgraded", "reading", "leaving"
  open,     \* the server's end
  table     \* c.arteries[arteryID]

linkVars == <<pc, mine, ws, alive, tickers, ctxDone, closed, client, up, server, open, table>>
clientVars == <<pc, mine, ws, alive, tickers, ctxDone, closed>>
serverVars == <<server, open, table>>

LinkInit ==
  /\ pc = "connect" /\ mine = None /\ ws = None /\ alive = FALSE
  /\ tickers = {} /\ ctxDone = FALSE /\ closed = FALSE
  /\ client = [c \in Conns |-> "closed"] /\ up = [c \in Conns |-> FALSE]
  /\ server = [c \in Conns |-> "none"] /\ open = [c \in Conns |-> FALSE]
  /\ table = None

\* Nobody holds anything of the connection.
Gone(c) == client[c] = "closed" /\ server[c] = "none" /\ c \notin tickers \cup {ws, mine}
\* A connection that is there and carries what is written into it.
Carries(c) == c # None /\ up[c] /\ open[c]
-----------------------------------------------------------------------------
(* The client. *)

\* The checks of the context: at the head of the loops and in their selects.
CtxEnds ==
  /\ ctxDone /\ pc \in {"connect", "backoff", "pause"}
  /\ pc' = "ended"
  /\ UNCHANGED <<mine, ws, alive, tickers, ctxDone, closed, client, up, serverVars>>

\* Mutant of ConnectCloses: what it finds is dropped without being closed.
ConnectForgets ==
  /\ pc = "connect" /\ ~ctxDone
  /\ ws' = None
  /\ pc' = "dialing"
  /\ UNCHANGED <<mine, alive, tickers, ctxDone, closed, client, up, serverVars>>

\* Connect closes what it finds and goes to dial without the lock.
ConnectCloses ==
  /\ pc = "connect" /\ ~ctxDone
  /\ client' = [c \in Conns |-> IF c = ws THEN "closed" ELSE client[c]]
  /\ ws' = None
  /\ pc' = "dialing"
  /\ UNCHANGED <<mine, alive, tickers, ctxDone, closed, up, serverVars>>

\* The server upgrades the connection, and the client may hear of it or not.
Upgrade(c) ==
  /\ pc = "dialing" /\ Gone(c)
  /\ server' = [server EXCEPT ![c] = "upgraded"]
  /\ open' = [open EXCEPT ![c] = TRUE]
  /\ UNCHANGED <<table, ws, tickers, ctxDone, closed>>

DialSucceeds(c) ==
  /\ Upgrade(c)
  /\ client' = [client EXCEPT ![c] = "open"]
  /\ up' = [up EXCEPT ![c] = TRUE]
  /\ mine' = c
  /\ pc' = "install"
  /\ UNCHANGED alive

DialLost(c) ==
  /\ Upgrade(c)
  /\ up' = [up EXCEPT ![c] = FALSE]
  /\ alive' = FALSE
  /\ pc' = "backoff"
  /\ UNCHANGED <<client, mine>>

DialFails ==
  /\ pc = "dialing"
  /\ alive' = FALSE
  /\ pc' = "backoff"
  /\ UNCHANGED <<mine, ws, tickers, ctxDone, closed, client, up, serverVars>>

\* ConnectWithBackoff, or the pause behind a read loop, has waited.
WaitEnds ==
  /\ pc \in {"backoff", "pause"} /\ ~ctxDone
  /\ pc' = "connect"
  /\ UNCHANGED <<mine, ws, alive, tickers, ctxDone, closed, client, up, serverVars>>

\* The end of Connect: whatever happened since it released the lock.
Install ==
  /\ pc = "install"
  /\ ws' = mine /\ alive' = TRUE
  /\ pc' = "enter"
  /\ UNCHANGED <<mine, tickers, ctxDone, closed, client, up, serverVars>>

\* ReadFrameLoop takes the connection and starts the ping ticker.
EnterLoop ==
  /\ pc = "enter"
  /\ mine' = ws
  /\ tickers' = IF ws = None THEN tickers ELSE tickers \cup {ws}
  /\ pc' = IF ws = None THEN "pause" ELSE IF ctxDone THEN "ended" ELSE "read"
  /\ UNCHANGED <<ws, alive, ctxDone, closed, client, up, serverVars>>

\* Mutants of ReadBreaks: without a read deadline; without the pong handler that
\* extends it.
ReadBreaksLate == client[mine] = "closed" \/ (up[mine] /\ ~open[mine])
ReadBreaksAnyway == mine # None

\* ReadMessage has an error: the connection is closed at either end, or no pong has
\* extended the deadline, since the pings do not arrive or no ticker sends any.
ReadBreaks == client[mine] = "closed" \/ ~Carries(mine) \/ tickers = {}

ReadFails ==
  /\ pc = "read" /\ ReadBreaks
  /\ alive' = FALSE
  /\ mine' = None
  /\ pc' = "pause"
  /\ UNCHANGED <<ws, tickers, ctxDone, closed, client, up, serverVars>>

\* A message arrives, and the loop sees the context before the next one.
ReadStops ==
  /\ pc = "read" /\ ctxDone
  /\ client[mine] = "open" /\ Carries(mine)
  /\ pc' = "ended"
  /\ UNCHANGED <<mine, ws, alive, tickers, ctxDone, closed, client, up, serverVars>>

\* A ticker pings ac.wsConn, whichever that is, until it finds it dead.
TickerStops(t) ==
  /\ t \in tickers
  /\ ctxDone \/ ~alive \/ ~Carries(ws)
  /\ tickers' = tickers \ {t}
  /\ UNCHANGED <<pc, mine, ws, alive, ctxDone, closed, client, up, serverVars>>

\* WriteFrame has an error or meets its deadline, which the reader does not hear of.
WriteFails ==
  /\ ws # None /\ alive
  /\ alive' = FALSE
  /\ UNCHANGED <<pc, mine, ws, tickers, ctxDone, closed, client, up, serverVars>>

\* StopEngine cancels the context, and closes the arteries some time later.
Cancel ==
  /\ ~ctxDone
  /\ ctxDone' = TRUE
  /\ UNCHANGED <<pc, mine, ws, alive, tickers, closed, client, up, serverVars>>

Close ==
  /\ ctxDone /\ ~closed
  /\ closed' = TRUE
  /\ alive' = FALSE
  /\ client' = [c \in Conns |-> IF c = ws THEN "closed" ELSE client[c]]
  /\ ws' = None
  /\ UNCHANGED <<pc, mine, tickers, ctxDone, up, serverVars>>
-----------------------------------------------------------------------------
(* The server. *)

\* HandleWebSocket registers the connection and closes the one it finds.
Register(c) ==
  /\ server[c] = "upgraded"
  /\ open' = [d \in Conns |-> IF d = table THEN FALSE ELSE open[d]]
  /\ table' = c
  /\ server' = [server EXCEPT ![c] = "reading"]
  /\ UNCHANGED <<clientVars, client, up>>

\* Mutant of KeepAliveFails: the goroutine returns without closing the connection.
KeepAliveReturns(c) ==
  /\ server[c] # "none" /\ open[c] /\ ~up[c]
  /\ UNCHANGED linkVars

\* The keep-alive goroutine fails to write and closes the connection.
KeepAliveFails(c) ==
  /\ server[c] # "none" /\ open[c] /\ ~up[c]
  /\ open' = [open EXCEPT ![c] = FALSE]
  /\ UNCHANGED <<clientVars, client, up, server, table>>

\* The read loop ends: a close message or the end of the stream, or its own end is
\* closed.  There is no read deadline.
HandlerFails(c) ==
  /\ server[c] = "reading"
  /\ ~open[c] \/ (up[c] /\ client[c] = "closed")
  /\ server' = [server EXCEPT ![c] = "leaving"]
  /\ UNCHANGED <<clientVars, client, up, open, table>>

\* Mutant of Deregister: the entry is left in the table.
DeregisterNothing(c) ==
  /\ server[c] = "leaving"
  /\ open' = [open EXCEPT ![c] = FALSE]
  /\ server' = [server EXCEPT ![c] = "none"]
  /\ UNCHANGED <<clientVars, client, up, table>>

\* The deferred function: it deletes what is under the artery's identifier.
Deregister(c) ==
  /\ server[c] = "leaving"
  /\ table' = None
  /\ open' = [open EXCEPT ![c] = FALSE]
  /\ server' = [server EXCEPT ![c] = "none"]
  /\ UNCHANGED <<clientVars, client, up>>

\* Stop closes the connections of the table; the handlers see it later.
StopCombiner ==
  /\ table # None
  /\ open' = [open EXCEPT ![table] = FALSE]
  /\ table' = None
  /\ UNCHANGED <<clientVars, client, up, server>>

\* The server restarts.
ServerRestarts ==
  /\ \E c \in Conns : server[c] # "none"
  /\ server' = [c \in Conns |-> "none"]
  /\ open' = [c \in Conns |-> FALSE]
  /\ table' = None
  /\ UNCHANGED <<clientVars, client, up>>

\* The network drops a connection; neither end hears of it.
NetBreaks(c) ==
  /\ up[c] /\ (client[c] = "open" \/ server[c] # "none")
  /\ up' = [up EXCEPT ![c] = FALSE]
  /\ UNCHANGED <<clientVars, client, serverVars>>
-----------------------------------------------------------------------------
Run == CtxEnds \/ ConnectCloses \/ WaitEnds \/ Install \/ EnterLoop \/ ReadFails \/ ReadStops
Serve(c) == Register(c) \/ KeepAliveFails(c) \/ HandlerFails(c) \/ Deregister(c)
Dial(c) == DialSucceeds(c) \/ DialLost(c)

LinkNext ==
  \/ Run \/ DialFails \/ WriteFails \/ Cancel \/ Close \/ StopCombiner \/ ServerRestarts
  \/ \E c \in Conns : Dial(c) \/ TickerStops(c) \/ Serve(c) \/ NetBreaks(c)

LinkSpec == LinkInit /\ [][LinkNext]_linkVars

\* Goroutines go on, a dial has a deadline, and of dials without end one succeeds.
LinkFairness ==
  /\ WF_linkVars(Run) /\ WF_linkVars(DialFails)
  /\ SF_linkVars(\E c \in Conns : DialSucceeds(c))
  /\ \A c \in Conns : WF_linkVars(TickerStops(c)) /\ WF_linkVars(Serve(c))

FairLinkSpec == LinkSpec /\ LinkFairness
-----------------------------------------------------------------------------
\* Every variable has its type.
LinkTypeOK ==
  /\ pc \in {"connect", "dialing", "backoff", "install", "enter", "read", "pause", "ended"}
  /\ {mine, ws, table} \subseteq Conns \cup {None}
  /\ tickers \subseteq Conns
  /\ alive \in BOOLEAN /\ ctxDone \in BOOLEAN /\ closed \in BOOLEAN
  /\ client \in [Conns -> {"open", "closed"}] /\ up \in [Conns -> BOOLEAN]
  /\ server \in [Conns -> {"none", "upgraded", "reading", "leaving"}]
  /\ open \in [Conns -> BOOLEAN]

\* No reconnection, and no Close between the two halves of Connect, loses track of
\* a connection: the client's open ends are the one in ac.wsConn, if any, and the
\* one that Connect is about to put there.
OpenIsHeld ==
  \A c \in Conns : client[c] = "open" => c = ws \/ (pc = "install" /\ c = mine)

\* What the combiner keeps for an artery always has a handler that will remove it:
\* the table cannot hold a dead connection for good, in whatever order an artery's
\* old and new handlers register and clean up.
EntryHasHandler == table # None => server[table] \in {"reading", "leaving"}

\* ReadFrameLoop never gives a connection up that works at both ends while the
\* artery counts as alive: stale tickers of earlier connections, which share
\* ac.wsConn, cannot leave the present one without pings.
WorkingIsKept ==
  [][pc = "read" /\ alive /\ ~ctxDone /\ Carries(ws) => pc' = "read"]_linkVars

\* "Keeps this artery alive indefinitely": while the engine runs, an artery that is
\* not alive becomes alive again, also when only a writer has noticed.
Reconnects == ~alive ~> (alive \/ ctxDone)

\* A connection that the network has dropped leaves the table: frames are not sent
\* into it for ever, although the handler reads without a deadline.
DeadLeavesTable == \A c \in Conns : (table = c /\ ~up[c]) ~> table # c
=============================================================================
