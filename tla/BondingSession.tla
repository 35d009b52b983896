---------------------------- MODULE BondingSession ----------------------------
(***************************************************************************)
(* The session multiplexer (internal/bonding/session/session.go): a table  *)
(* of streams guarded by Session.mu, the read loops of the arteries that   *)
(* Dispatch into it, the consumers of the streams and the callers of       *)
(* OpenStream, CloseStream and Close.  A read loop looks the stream up     *)
(* under Session.mu, releases it, and only then takes the lock of the      *)
(* stream: by that time the stream may have been closed and removed.       *)
(***************************************************************************)
EXTENDS StreamFrames

CONSTANTS
  Ids,         \* stream identifiers
  Local,       \* those the owner of the session opens itself
  Arteries,    \* read loops calling Dispatch
  Sent,        \* the frames [id, type, seq] the peer sends
  Copies       \* how many copies of each frame the arteries bring

\* What Accept sees of a frame.
Payload(f) == IF f.type = "OPEN" THEN Data(f.seq)
                                 ELSE [type |-> f.type, seq |-> f.seq]

ASSUME SentAssumption == \A f \in Sent : f.id \in Ids /\ Payload(f) \in Frames
ASSUME LocalAssumption == Local \subseteq Ids
ASSUME CopiesAssumption == Copies \in [Sent -> Nat]

VARIABLES
  net,       \* copies of each frame still on the arteries
  objs,      \* every stream ever created: [id, s]
  table,     \* Session.streams: the index in objs, 0 for none
  closed,    \* Session.closed
  loop,      \* each read loop: [at, frame, obj]
  closing    \* streams the holder of Session.mu has yet to close, and to remove

vars == <<net, objs, table, closed, loop, closing>>

None == [id |-> 0, type |-> "NONE", seq |-> 0]
Idle == [at |-> "idle", frame |-> None, obj |-> 0]
NotClosing == [todo |-> {}, marked |-> {}]

\* Session.mu is held only while streams are closed; the other critical
\* sections are single steps.
Unlocked == closing = NotClosing

Init ==
  /\ net = Copies
  /\ objs = <<>>
  /\ table = [i \in Ids |-> 0]
  /\ closed = FALSE
  /\ loop = [a \in Arteries |-> Idle]
  /\ closing = NotClosing

Receive(a, f) ==
  /\ loop[a] = Idle
  /\ net[f] > 0
  /\ net' = [net EXCEPT ![f] = @ - 1]
  /\ Unlocked

GoAccept(a, f, o) == loop' = [loop EXCEPT ![a] = [at |-> "accept", frame |-> f, obj |-> o]]

\* Dispatch of a frame whose stream exists (GetStream, GetOrCreateStream).
DispatchKnown(a, f) ==
  /\ Receive(a, f)
  /\ f.type = "OPEN" => ~closed
  /\ table[f.id] # 0
  /\ GoAccept(a, f, table[f.id])
  /\ UNCHANGED <<objs, table, closed, closing>>

\* A stream that does not exist, in a session that is not closed.
Create(i) ==
  /\ Unlocked
  /\ ~closed
  /\ table[i] = 0
  /\ objs' = Append(objs, [id |-> i, s |-> NewStream])
  /\ table' = [table EXCEPT ![i] = Len(objs) + 1]
  /\ UNCHANGED <<closed, closing>>

\* OpenStream; the frontend never asks for an identifier twice.
OpenStream(i) ==
  /\ i \in Local
  /\ \A o \in DOMAIN objs : objs[o].id # i
  /\ Create(i)
  /\ UNCHANGED <<net, loop>>

\* Dispatch of an OPEN whose stream does not exist (GetOrCreateStream).
DispatchCreates(a, f) ==
  /\ Receive(a, f)
  /\ f.type = "OPEN"
  /\ Create(f.id)
  /\ GoAccept(a, f, Len(objs) + 1)

\* Dispatch returns an error: the session is closed, or ErrStreamNotFound.
DispatchFails(a, f) ==
  /\ Receive(a, f)
  /\ IF f.type = "OPEN" THEN closed ELSE table[f.id] = 0
  /\ UNCHANGED <<objs, table, closed, loop, closing>>

Update(o, s) == objs' = [objs EXCEPT ![o].s = s]

AcceptFrame(a) ==
  LET o == loop[a].obj IN
  /\ loop[a].at = "accept"
  /\ ~Locked(objs[o].s)
  /\ LET s == Accept(objs[o].s, Payload(loop[a].frame)) IN
       /\ Update(o, s)
       /\ loop' = [loop EXCEPT ![a] = IF Locked(s) THEN [@ EXCEPT !.at = "drain"] ELSE Idle]
  /\ UNCHANGED <<net, table, closed, closing>>

DrainBuffer(a) ==
  LET o == loop[a].obj IN
  /\ loop[a].at = "drain"
  /\ CanDrain(objs[o].s)
  /\ Update(o, DrainStep(objs[o].s))
  /\ UNCHANGED <<net, table, closed, loop, closing>>

\* Mutant of EndAccept: it takes Session.mu while it holds the stream's lock.
EndAcceptUnderSession(a) ==
  LET o == loop[a].obj IN
  /\ loop[a].at = "drain"
  /\ Unlocked
  /\ CanFinish(objs[o].s)
  /\ Update(o, FinishAccept(objs[o].s))
  /\ loop' = [loop EXCEPT ![a] = Idle]
  /\ UNCHANGED <<net, table, closed, closing>>

EndAccept(a) ==
  LET o == loop[a].obj IN
  /\ loop[a].at = "drain"
  /\ CanFinish(objs[o].s)
  /\ Update(o, FinishAccept(objs[o].s))
  /\ loop' = [loop EXCEPT ![a] = Idle]
  /\ UNCHANGED <<net, table, closed, closing>>

\* A consumer receives from Ordered: HandleDownstream, or one or more handlers of
\* the combiner.  They may stop at any time, at a FIN, an RST or a failed write.
Consume(o) ==
  /\ CanTake(objs[o].s)
  /\ Update(o, Take(objs[o].s))
  /\ UNCHANGED <<net, table, closed, loop, closing>>

\* CloseStream of a stream that exists.
CloseStream(i) ==
  /\ Unlocked
  /\ table[i] # 0
  /\ closing' = [todo |-> {i}, marked |-> {}]
  /\ UNCHANGED <<net, objs, table, closed, loop>>

\* Close of the whole session, once.
Close ==
  /\ Unlocked
  /\ ~closed
  /\ closed' = TRUE
  /\ closing' = [todo |-> {i \in Ids : table[i] # 0}, marked |-> {}]
  /\ UNCHANGED <<net, objs, table, loop>>

\* Stream.Close under Session.mu: wait for the stream's lock, set its state, ...
MarkStream(i) ==
  /\ i \in closing.todo
  /\ closing.marked = {}
  /\ ~Locked(objs[table[i]].s)
  /\ Update(table[i], MarkClosed(objs[table[i]].s))
  /\ closing' = [todo |-> closing.todo \ {i}, marked |-> {i}]
  /\ UNCHANGED <<net, table, closed, loop>>

\* Mutant of RemoveStream: the entry stays in the table.
RemoveStreamKeeps(i) ==
  /\ i \in closing.marked
  /\ Update(table[i], CloseOrdered(objs[table[i]].s))
  /\ closing' = [closing EXCEPT !.marked = {}]
  /\ UNCHANGED <<net, table, closed, loop>>

\* Mutant of RemoveStream: the channel stays open.
RemoveStreamSilently(i) ==
  /\ i \in closing.marked
  /\ table' = [table EXCEPT ![i] = 0]
  /\ closing' = [closing EXCEPT !.marked = {}]
  /\ UNCHANGED <<net, objs, closed, loop>>

\* ... close the channel, and delete the stream from the table.
RemoveStream(i) ==
  /\ i \in closing.marked
  /\ Update(table[i], CloseOrdered(objs[table[i]].s))
  /\ table' = [table EXCEPT ![i] = 0]
  /\ closing' = [closing EXCEPT !.marked = {}]
  /\ UNCHANGED <<net, closed, loop>>

Next ==
  \/ \E a \in Arteries, f \in Sent :
       DispatchKnown(a, f) \/ DispatchCreates(a, f) \/ DispatchFails(a, f)
  \/ \E a \in Arteries : AcceptFrame(a) \/ DrainBuffer(a) \/ EndAccept(a)
  \/ \E o \in DOMAIN objs : Consume(o)
  \/ \E i \in Ids : OpenStream(i) \/ CloseStream(i) \/ MarkStream(i) \/ RemoveStream(i)
  \/ Close

Spec == Init /\ [][Next]_vars

\* Read loops and the holder of a lock keep running; nothing is expected of a
\* consumer.
Fairness ==
  /\ \A a \in Arteries : WF_vars(AcceptFrame(a) \/ DrainBuffer(a) \/ EndAccept(a))
  /\ \A i \in Ids : WF_vars(MarkStream(i)) /\ WF_vars(RemoveStream(i))

FairSpec == Spec /\ Fairness
-----------------------------------------------------------------------------
\* The o-th stream, as it is before its creation too.
Object(o) == IF o \in DOMAIN objs THEN objs[o].s ELSE NewStream

\* The channel of a stream is open exactly while the table leads to the
\* stream: no consumer is left on a channel nobody will close, and CloseStream
\* and Close never close a channel twice.  A closed session has none, and no
\* late OPEN gives it one.
OpenIffInTable ==
  /\ \A o \in DOMAIN objs : objs[o].s.open <=> table[objs[o].id] = o
  /\ closed /\ Unlocked => \A i \in Ids : table[i] = 0

\* However long ago a read loop looked its stream up, its Accept never sends on
\* a channel that CloseStream or Close has closed meanwhile.
SendsOnOpenChannels ==
  [][\A o \in DOMAIN objs : objs'[o].s.log # objs[o].s.log => objs[o].s.open]_vars

\* A call of CloseStream or Close returns: no read loop holds a stream's lock
\* and waits for Session.mu, or for a consumer that has stopped.
CloseReturns == ~Unlocked ~> Unlocked

\* Each of the first streams is an ordered pipe, from before its creation to
\* after its removal.
FirstPipe == INSTANCE OrderedPipe WITH
  Last <- MaxSeq, Lossy <- TRUE, Control <- Controls,
  next <- Object(1).nextSeq, out <- Object(1).log, read <- Object(1).taken
SecondPipe == INSTANCE OrderedPipe WITH
  Last <- MaxSeq, Lossy <- TRUE, Control <- Controls,
  next <- Object(2).nextSeq, out <- Object(2).log, read <- Object(2).taken

StreamsArePipes == FirstPipe!PipeSpec /\ SecondPipe!PipeSpec
=============================================================================
