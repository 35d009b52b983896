---------------------------- MODULE CombinerRelay ----------------------------
(***************************************************************************)
(* The server's combiner (internal/bonding/combiner/combiner.go) from the  *)
(* read loops of the arteries to the connections to the targets.  A read   *)
(* loop dispatches each frame into the session and then starts a           *)
(* handleStreamOpen for every OPEN it has read, whatever Dispatch made of  *)
(* it.  The handler dials the target, looks the stream up, copies frames   *)
(* from Ordered to the connection and closes the stream at the end.  Stop  *)
(* closes the session.                                                     *)
(***************************************************************************)
EXTENDS BondingSession

CONSTANT DialsMayFail    \* whether a target may be unreachable
ASSUME DialsAssumption == DialsMayFail \in BOOLEAN

VARIABLE handler      \* every handleStreamOpen: [id, at, obj, conn]
relayVars == <<vars, handler>>

\* A handler waiting for its target.
NewHandler(i) == [id |-> i, at |-> "dial", obj |-> 0, conn |-> "none"]

RelayInit == Init /\ handler = <<>>

\* The read loop goes on with the next frame; behind an OPEN it first starts a
\* handler.
ReadOn(f) ==
  handler' = IF f.type = "OPEN" THEN Append(handler, NewHandler(f.id)) ELSE handler

\* Dispatch, as far as the stream's Accept.
BeginDispatch(a, f) ==
  /\ DispatchKnown(a, f) \/ DispatchCreates(a, f)
  /\ UNCHANGED handler

\* Dispatch fails, which the read loop ignores.
FailDispatch(a, f) == DispatchFails(a, f) /\ ReadOn(f)

ContinueAccept(a) ==
  /\ AcceptFrame(a) \/ DrainBuffer(a) \/ EndAccept(a)
  /\ IF loop'[a] = Idle THEN ReadOn(loop[a].frame) ELSE UNCHANGED handler

Handler(h, at) == h \in DOMAIN handler /\ handler[h].at = at

\* The target answers.
DialTarget(h) ==
  /\ Handler(h, "dial")
  /\ handler' = [handler EXCEPT ![h].at = "lookup", ![h].conn = "open"]
  /\ UNCHANGED vars

\* It does not: an RST goes to the client and the handler returns.
DialFailed(h) ==
  /\ DialsMayFail
  /\ Handler(h, "dial")
  /\ handler' = [handler EXCEPT ![h].at = "done"]
  /\ UNCHANGED vars

\* GetStream; without a stream the connection is closed again.
FindStream(h) ==
  /\ Handler(h, "lookup")
  /\ Unlocked
  /\ LET o == table[handler[h].id] IN
       handler' = [handler EXCEPT ![h] =
         IF o = 0 THEN [@ EXCEPT !.at = "done", !.conn = "closed"]
                  ELSE [@ EXCEPT !.at = "relay", !.obj = o]]
  /\ UNCHANGED vars

\* What a handler does with a frame: data it writes to the target, the OPEN it
\* passes over, FIN and RST end the loop.
After(f) ==
  IF f.type \in {"FIN", "RST"} THEN "close" ELSE IF f.seq > 1 THEN "write" ELSE "relay"

\* The next frame of Ordered.
RelayFrame(h) ==
  /\ Handler(h, "relay")
  /\ LET s == objs[handler[h].obj].s IN
       /\ CanTake(s)
       /\ Update(handler[h].obj, Take(s))
       /\ handler' = [handler EXCEPT ![h].at = After(s.log[s.taken + 1])]
  /\ UNCHANGED <<net, table, closed, loop, closing>>

\* The write to the target returns; an error ends the loop.
WriteReturns(h) ==
  /\ Handler(h, "write")
  /\ \E at \in {"relay", "close"} : handler' = [handler EXCEPT ![h].at = at]
  /\ UNCHANGED vars

\* Ordered is closed and empty: the loop ends.
RangeEnds(h) ==
  /\ Handler(h, "relay")
  /\ ~objs[handler[h].obj].s.open
  /\ ~CanTake(objs[handler[h].obj].s)
  /\ handler' = [handler EXCEPT ![h].at = "close"]
  /\ UNCHANGED vars

\* Mutant of CloseRelay: the stream is left to the session.
CloseRelayLeaves(h) ==
  /\ Handler(h, "close")
  /\ handler' = [handler EXCEPT ![h].at = "done", ![h].conn = "closed"]
  /\ UNCHANGED vars

\* CloseStream, and the connection with the handler's return.
CloseRelay(h) ==
  /\ Handler(h, "close")
  /\ Unlocked
  /\ CloseStream(handler[h].id) \/ (table[handler[h].id] = 0 /\ UNCHANGED vars)
  /\ handler' = [handler EXCEPT ![h].at = "done", ![h].conn = "closed"]

\* Stop closes the session; the holder of Session.mu works its way through the
\* streams.
StopCombiner == Close /\ UNCHANGED handler
CloseOne(i) == (MarkStream(i) \/ RemoveStream(i)) /\ UNCHANGED handler

RelayNext ==
  \/ \E a \in Arteries, f \in Sent : BeginDispatch(a, f) \/ FailDispatch(a, f)
  \/ \E a \in Arteries : ContinueAccept(a)
  \/ \E h \in DOMAIN handler :
       \/ DialTarget(h) \/ DialFailed(h) \/ FindStream(h)
       \/ RelayFrame(h) \/ WriteReturns(h) \/ RangeEnds(h) \/ CloseRelay(h)
  \/ \E i \in Ids : CloseOne(i)
  \/ StopCombiner

RelaySpec == RelayInit /\ [][RelayNext]_relayVars

\* Read loops, handlers and the holder of a lock keep running; a dial ends.  A
\* write to a target that does not read may never return: it has no deadline,
\* and nobody else closes the connection.
RelayFairness ==
  /\ \A a \in Arteries : WF_relayVars(ContinueAccept(a))
  /\ \A i \in Ids : WF_relayVars(CloseOne(i))
  /\ WF_relayVars(\E h \in DOMAIN handler : RelayFrame(h))
  /\ WF_relayVars(\E h \in DOMAIN handler :
       DialTarget(h) \/ FindStream(h) \/ RangeEnds(h) \/ CloseRelay(h))

FairRelaySpec == RelaySpec /\ RelayFairness
-----------------------------------------------------------------------------
Live(h) == handler[h].at # "done"
Unreachable(h) == handler[h].at = "done" /\ handler[h].conn = "none"

\* A stream of the session has a handler that will close it, or is being
\* dispatched its OPEN: nothing in the table is abandoned, except by a handler
\* whose dial failed, which never closes the stream.
StreamHasHandler ==
  \A i \in Ids :
    table[i] # 0 /\ Unlocked =>
      \/ \E h \in DOMAIN handler : handler[h].id = i /\ (Live(h) \/ Unreachable(h))
      \/ \E a \in Arteries : loop[a].frame.type = "OPEN" /\ loop[a].frame.id = i

\* A stream has one connection to its target, which all its data goes to: no two
\* handlers write what they have read from the same stream.
OneConnection ==
  \A g, h \in DOMAIN handler :
    g # h /\ Handler(g, "write") /\ Handler(h, "write") => handler[g].obj # handler[h].obj

\* When the combiner is stopped, every handler ends and closes its connection,
\* whichever copy of an OPEN started it and wherever it was, except one whose
\* write to the target does not return.
StopEndsHandlers ==
  closed ~> [](\A h \in DOMAIN handler : Live(h) => Handler(h, "write"))
=============================================================================
