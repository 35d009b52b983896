---------------------------- MODULE SessionProofs -----------------------------
(***************************************************************************)
(* The table of the session multiplexer agrees with its streams, and each  *)
(* stream is an ordered pipe, for every set of identifiers, of arteries    *)
(* and of frames, any number of copies and every size of the buffers.  The *)
(* combiner uses its session as BondingSession says, and leaves no stream  *)
(* in the table without a handler, for any number of handlers.             *)
(***************************************************************************)
EXTENDS CombinerRelay, StreamProofs, SequenceTheorems

-----------------------------------------------------------------------------
(* The session: the inductive invariant. *)

StreamObjects == [id : Ids, s : Streams]

SessionType ==
  /\ objs \in Seq(StreamObjects)
  /\ table \in [Ids -> Nat]
  /\ closed \in BOOLEAN
  /\ closing \in [todo : SUBSET Ids, marked : SUBSET Ids]
  /\ loop \in [Arteries -> [at : {"idle", "accept", "drain"}, frame : Sent \cup {None},
                            obj : Nat]]

\* Every stream ever created is what StreamProofs says of one stream, and
\* nobody sends any more on a channel that was closed.
StreamsAreGood ==
  \A o \in DOMAIN objs :
    /\ Good(objs[o].s)
    /\ ~objs[o].s.open => Terminal(objs[o].s)

\* The table leads to streams, and precisely to those whose channel is open.
TableLeads ==
  \A i \in Ids : table[i] # 0 => table[i] \in DOMAIN objs /\ objs[table[i]].id = i
OpenIsInTable == \A o \in DOMAIN objs : objs[o].s.open <=> table[objs[o].id] = o

\* A read loop past Dispatch has a frame and a stream.
LoopsLead ==
  \A a \in Arteries :
    loop[a].at # "idle" => loop[a].frame \in Sent /\ loop[a].obj \in DOMAIN objs

\* The holder of Session.mu has its streams still in the table; the one it has
\* marked is closed.
ClosingLeads ==
  /\ \A i \in closing.todo \cup closing.marked : table[i] # 0
  /\ closing.todo \cap closing.marked = {}
  /\ \A i \in closing.marked : Terminal(objs[table[i]].s)
  /\ \A i, j \in closing.marked : i = j

\* Of a closed session only what is about to be removed is in the table.
ClosedIsEmptying ==
  closed => \A i \in Ids : table[i] # 0 => i \in closing.todo \cup closing.marked

IInv ==
  /\ SessionType /\ StreamsAreGood /\ TableLeads /\ OpenIsInTable
  /\ LoopsLead /\ ClosingLeads /\ ClosedIsEmptying

\* What a step does to the o-th stream: it stays, and takes one step of its log,
\* none after its channel was closed.
StepOf(o) ==
  /\ o \in DOMAIN objs => o \in DOMAIN objs'
  /\ LogStep(Object(o), Object(o)')
  /\ ~Object(o).open => Object(o)'.log = Object(o).log

Advances == IInv' /\ \A o \in Nat : StepOf(o)

-----------------------------------------------------------------------------
(* The steps of one stream. *)

\* A step of one stream, apart from the closing of its channel.
Continues(s, t) ==
  /\ Good(t) /\ LogStep(s, t) /\ t.open = s.open
  /\ Terminal(s) => Terminal(t) /\ t.log = s.log

LEMMA AcceptContinues ==
  ASSUME NEW s, Good(s), ~Locked(s), NEW f \in Frames
  PROVE  Continues(s, Accept(s, f))
BY AcceptGood DEF Continues

LEMMA DrainContinues ==
  ASSUME NEW s, Good(s), CanDrain(s)
  PROVE  Continues(s, DrainStep(s))
BY DrainGood DEF Continues, Good, LockedInService, CanDrain

LEMMA FinishContinues ==
  ASSUME NEW s, Good(s), CanFinish(s)
  PROVE  Continues(s, FinishAccept(s))
BY FinishGood DEF Continues, Good, LockedInService, CanFinish

LEMMA TakeContinues ==
  ASSUME NEW s, Good(s), CanTake(s)
  PROVE  Continues(s, Take(s))
<1>1. Take(s).log = s.log
  BY DEF Good, Streams, Take
<1> QED BY <1>1, TakeGood DEF Continues, Terminal

LEMMA MarkContinues ==
  ASSUME NEW s, Good(s), ~Locked(s)
  PROVE  Continues(s, MarkClosed(s)) /\ Terminal(MarkClosed(s))
<1>1. /\ Good(MarkClosed(s)) /\ Quiet(s, MarkClosed(s))
      /\ MarkClosed(s).open = s.open /\ MarkClosed(s).state = "CLOSED"
  BY CloseGood
<1> QED BY <1>1 DEF Continues, Terminal, LogStep, Quiet

LEMMA CloseOrderedStep ==
  ASSUME NEW s, Good(s)
  PROVE  /\ Good(CloseOrdered(s)) /\ LogStep(s, CloseOrdered(s))
         /\ ~CloseOrdered(s).open /\ CloseOrdered(s).log = s.log
         /\ Terminal(s) => Terminal(CloseOrdered(s))
<1>1. /\ Good(CloseOrdered(s)) /\ Quiet(s, CloseOrdered(s))
      /\ CloseOrdered(s).open = FALSE /\ CloseOrdered(s).state = s.state
  BY CloseGood
<1> QED BY <1>1 DEF Terminal, LogStep, Quiet

LEMMA Stutters == \A s : LogStep(s, s)
BY QuietSame DEF LogStep

-----------------------------------------------------------------------------
(* The steps of the session. *)

LEMMA ObjectsAre ==
  ASSUME SessionType
  PROVE  /\ Len(objs) \in Nat /\ DOMAIN objs = 1 .. Len(objs)
         /\ \A o \in DOMAIN objs : objs[o] \in StreamObjects /\ objs[o].id \in Ids
<1>1. objs \in Seq(StreamObjects)
  BY DEF SessionType
<1>2. Len(objs) \in Nat /\ DOMAIN objs = 1 .. Len(objs)
  BY <1>1, LenProperties
<1>3. \A o \in DOMAIN objs : objs[o] \in StreamObjects
  BY <1>1, <1>2, ElementOfSeq
<1> QED BY <1>2, <1>3 DEF StreamObjects

\* A step that leaves the streams alone moves none of their logs.
LEMMA NoStreamMoves ==
  ASSUME UNCHANGED objs
  PROVE  \A o \in Nat : StepOf(o)
BY Stutters DEF StepOf, Object

\* What replacing the o-th stream does to the others.
LEMMA UpdateStep ==
  ASSUME IInv, NEW o \in DOMAIN objs, NEW t \in Streams, Update(o, t)
  PROVE  /\ objs' \in Seq(StreamObjects) /\ DOMAIN objs' = DOMAIN objs
         /\ \A p \in DOMAIN objs : /\ objs'[p].id = objs[p].id
                                   /\ objs'[p].s = IF p = o THEN t ELSE objs[p].s
<1> DEFINE e == [objs[o] EXCEPT !.s = t]
<1>1. o \in 1 .. Len(objs) /\ objs \in Seq(StreamObjects)
  BY ObjectsAre DEF IInv, SessionType
<1>2. e \in StreamObjects /\ e.id = objs[o].id /\ e.s = t
  BY <1>1, ObjectsAre DEF StreamObjects, IInv
<1>3. objs' = [objs EXCEPT ![o] = e]
  BY DEF Update
<1>4. /\ objs' \in Seq(StreamObjects) /\ Len(objs') = Len(objs)
      /\ \A p \in 1 .. Len(objs) : objs'[p] = IF p = o THEN e ELSE objs[p]
  <2> HIDE DEF e
  <2> QED BY <1>1, <1>2, <1>3, ExceptSeq
<1>5. DOMAIN objs' = DOMAIN objs
  BY <1>1, <1>4, LenProperties
<1> HIDE DEF e
<1> QED BY <1>1, <1>2, <1>4, <1>5, LenProperties

LEMMA StreamMoves ==
  ASSUME IInv, NEW o \in DOMAIN objs, NEW t, Update(o, t), LogStep(objs[o].s, t),
         t \in Streams, ~objs[o].s.open => t.log = objs[o].s.log
  PROVE  \A p \in Nat : StepOf(p)
<1> TAKE p \in Nat
<1>1. CASE p \in DOMAIN objs
  BY <1>1, UpdateStep, Stutters DEF StepOf, Object
<1>2. CASE p \notin DOMAIN objs
  BY <1>2, UpdateStep, Stutters DEF StepOf, Object
<1> QED BY <1>1, <1>2

\* A stream goes on while the table and the holder of Session.mu stand still.
LEMMA ContinuesKeeps ==
  ASSUME IInv, NEW o \in DOMAIN objs, NEW t, Continues(objs[o].s, t), Update(o, t),
         UNCHANGED <<table, closed>>,
         closing' = closing, SessionType', LoopsLead'
  PROVE  Advances
<1>0. t \in Streams
  BY DEF Continues, Good
<1>1. /\ DOMAIN objs' = DOMAIN objs
      /\ \A p \in DOMAIN objs : /\ objs'[p].id = objs[p].id
                                /\ objs'[p].s = IF p = o THEN t ELSE objs[p].s
  BY <1>0, UpdateStep
<1>2. StreamsAreGood'
  BY <1>1 DEF IInv, StreamsAreGood, Continues
<1>3. TableLeads' /\ OpenIsInTable'
  BY <1>1 DEF IInv, TableLeads, OpenIsInTable, Continues
<1>4. ClosingLeads'
  BY <1>1 DEF IInv, SessionType, TableLeads, ClosingLeads, Continues
<1>5. ClosedIsEmptying'
  BY DEF IInv, ClosedIsEmptying
<1>6. \A p \in Nat : StepOf(p)
  BY <1>0, StreamMoves DEF Continues, IInv, StreamsAreGood
<1> QED BY <1>2, <1>3, <1>4, <1>5, <1>6 DEF Advances, IInv

\* Dispatch of a frame whose stream exists, or none that it may have.
LEMMA DispatchKnownStep ==
  ASSUME IInv, NEW a \in Arteries, NEW f \in Sent, DispatchKnown(a, f)
  PROVE  Advances
<1>1. /\ f.id \in Ids /\ table[f.id] # 0
      /\ loop' = [loop EXCEPT ![a] = [at |-> "accept", frame |-> f, obj |-> table[f.id]]]
      /\ UNCHANGED <<objs, table, closed, closing>>
  BY SentAssumption DEF DispatchKnown, GoAccept
<1>2. table[f.id] \in Nat /\ table[f.id] \in DOMAIN objs
  BY <1>1 DEF IInv, SessionType, TableLeads
<1>3. SessionType' /\ LoopsLead'
  BY <1>1, <1>2 DEF IInv, SessionType, LoopsLead
<1>4. /\ StreamsAreGood' /\ TableLeads' /\ OpenIsInTable' /\ ClosingLeads'
      /\ ClosedIsEmptying'
  BY <1>1 DEF IInv, StreamsAreGood, TableLeads, OpenIsInTable, ClosingLeads,
              ClosedIsEmptying
<1> QED BY <1>1, <1>3, <1>4, NoStreamMoves DEF Advances, IInv

LEMMA DispatchFailsStep ==
  ASSUME IInv, NEW a \in Arteries, NEW f \in Sent, DispatchFails(a, f)
  PROVE  Advances
<1>1. UNCHANGED <<objs, table, closed, closing, loop>>
  BY DEF DispatchFails
<1>2. IInv'
  BY <1>1 DEF IInv, SessionType, StreamsAreGood, TableLeads, OpenIsInTable, LoopsLead,
              ClosingLeads, ClosedIsEmptying
<1> QED BY <1>1, <1>2, NoStreamMoves DEF Advances

\* A stream is created; Session.mu is free.
LoopStates == [at : {"idle", "accept", "drain"}, frame : Sent \cup {None}, obj : Nat]

LEMMA CreateStep ==
  ASSUME IInv, NEW i \in Ids, Create(i), loop' \in [Arteries -> LoopStates],
         \A a \in Arteries : loop'[a].at # "idle" =>
           /\ loop'[a].frame \in Sent
           /\ loop'[a].obj \in DOMAIN objs \cup {Len(objs) + 1}
  PROVE  Advances
<1> DEFINE n == Len(objs) + 1
           new == [id |-> i, s |-> NewStream]
<1>1. /\ table[i] = 0 /\ ~closed /\ Unlocked
      /\ objs' = Append(objs, new)
      /\ table' = [table EXCEPT ![i] = n]
      /\ UNCHANGED <<closed, closing>>
  BY DEF Create
<1>2. /\ Len(objs) \in Nat /\ DOMAIN objs = 1 .. Len(objs)
      /\ \A o \in DOMAIN objs : objs[o].id \in Ids
  BY ObjectsAre DEF IInv
<1>3. Good(NewStream) /\ NewStream.open /\ new \in StreamObjects
  BY <1>1, NewStreamGood DEF NewStream, StreamObjects, Good
<1>4. /\ objs' \in Seq(StreamObjects) /\ DOMAIN objs' = 1 .. n
      /\ \A o \in DOMAIN objs : objs'[o] = objs[o]
      /\ objs'[n] = new
  <2>1. objs \in Seq(StreamObjects)
    BY DEF IInv, SessionType
  <2>2. /\ objs' \in Seq(StreamObjects) /\ Len(objs') = n
        /\ \A o \in 1 .. Len(objs) : objs'[o] = objs[o]
        /\ objs'[n] = new
    <3> HIDE DEF new
    <3> QED BY <1>1, <1>3, <2>1, AppendProperties
  <2> HIDE DEF new
  <2> QED BY <1>2, <2>2, LenProperties
<1>5. new.id = i /\ new.s = NewStream
  OBVIOUS
<1>6. n \in Nat \ {0} /\ n \notin DOMAIN objs
  BY <1>2
<1>7. \A o \in DOMAIN objs' : o \in DOMAIN objs \/ o = n
  BY <1>2, <1>4
<1> HIDE DEF n, new
<1>8. SessionType' /\ LoopsLead'
  <2>1. SessionType'
    BY <1>1, <1>4, <1>6 DEF IInv, SessionType, LoopStates
  <2>2. \A o \in DOMAIN objs : o \in DOMAIN objs'
    BY <1>2, <1>4, <1>6 DEF n
  <2>3. n \in DOMAIN objs'
    BY <1>4, <1>6
  <2>4. LoopsLead'
    BY <2>2, <2>3 DEF LoopsLead, n
  <2> QED BY <2>1, <2>4
<1>9. StreamsAreGood'
  BY <1>3, <1>4, <1>5, <1>7 DEF IInv, StreamsAreGood
<1>10. TableLeads'
  <2> SUFFICES ASSUME NEW j \in Ids, table'[j] # 0
               PROVE  table'[j] \in DOMAIN objs' /\ objs'[table'[j]].id = j
    BY DEF TableLeads
  <2>1. CASE j = i
    BY <1>1, <1>4, <1>5, <1>6, <2>1 DEF IInv, SessionType
  <2>2. CASE j # i
    <3>1. table'[j] = table[j] /\ table[j] \in DOMAIN objs /\ objs[table[j]].id = j
      BY <1>1, <2>2 DEF IInv, SessionType, TableLeads
    <3>2. table[j] \in DOMAIN objs'
      BY <1>2, <1>4, <3>1 DEF n
    <3> QED BY <1>4, <3>1, <3>2
  <2> QED BY <2>1, <2>2
<1>11. OpenIsInTable'
  <2> SUFFICES ASSUME NEW o \in DOMAIN objs'
               PROVE  objs'[o].s.open <=> table'[objs'[o].id] = o
    BY DEF OpenIsInTable
  <2>1. CASE o = n
    BY <1>1, <1>3, <1>4, <1>5, <2>1 DEF IInv, SessionType
  <2>2. CASE o \in DOMAIN objs
    <3>1. objs'[o] = objs[o] /\ objs[o].id \in Ids /\ o # n /\ o # 0
      BY <1>2, <1>4, <1>6, <2>2
    <3>2. objs[o].s.open <=> table[objs[o].id] = o
      BY <2>2 DEF IInv, OpenIsInTable
    <3>3. CASE objs[o].id = i
      BY <1>1, <3>1, <3>2, <3>3 DEF IInv, SessionType
    <3>4. CASE objs[o].id # i
      BY <1>1, <3>1, <3>2, <3>4 DEF IInv, SessionType
    <3> QED BY <3>3, <3>4
  <2> QED BY <1>7, <2>1, <2>2
<1>12. ClosingLeads' /\ ClosedIsEmptying'
  BY <1>1 DEF ClosingLeads, ClosedIsEmptying, Unlocked, NotClosing
<1>13. \A o \in Nat : StepOf(o)
  <2> TAKE o \in Nat
  <2>1. CASE o \in DOMAIN objs
    <3>1. o \in DOMAIN objs'
      BY <1>2, <1>4, <2>1 DEF n
    <3> QED BY <1>4, <2>1, <3>1, Stutters DEF StepOf, Object
  <2>2. CASE o \notin DOMAIN objs
    <3>1. Object(o) = NewStream /\ Object(o)' = NewStream
      BY <1>4, <1>5, <1>7, <2>2 DEF Object
    <3> QED BY <2>2, <3>1, Stutters DEF StepOf
  <2> QED BY <2>1, <2>2
<1> QED BY <1>8, <1>9, <1>10, <1>11, <1>12, <1>13 DEF Advances, IInv

LEMMA DispatchCreatesStep ==
  ASSUME IInv, NEW a \in Arteries, NEW f \in Sent, DispatchCreates(a, f)
  PROVE  Advances
<1>1. /\ f.id \in Ids /\ Create(f.id)
      /\ loop' = [loop EXCEPT ![a] = [at |-> "accept", frame |-> f, obj |-> Len(objs) + 1]]
  BY SentAssumption DEF DispatchCreates, GoAccept
<1>2. Len(objs) \in Nat
  BY ObjectsAre DEF IInv
<1>3. /\ loop' \in [Arteries -> LoopStates]
      /\ \A b \in Arteries : loop'[b].at # "idle" =>
           loop'[b].frame \in Sent /\ loop'[b].obj \in DOMAIN objs \cup {Len(objs) + 1}
  BY <1>1, <1>2 DEF IInv, SessionType, LoopsLead, LoopStates
<1> QED BY <1>1, <1>3, CreateStep

LEMMA OpenStreamStep ==
  ASSUME IInv, NEW i \in Ids, OpenStream(i)
  PROVE  Advances
<1>1. Create(i) /\ loop' = loop
  BY DEF OpenStream
<1>2. loop' \in [Arteries -> LoopStates] /\ LoopsLead
  BY <1>1 DEF IInv, SessionType, LoopStates
<1> QED BY <1>1, <1>2, CreateStep DEF LoopsLead

\* The read loops and the consumers move a stream with the lock they hold.
LEMMA LoopGoesOn ==
  ASSUME IInv, NEW a \in Arteries, NEW f \in Sent \cup {None},
         loop[a].at # "idle",
         loop' = [loop EXCEPT ![a].at = "drain"] \/ loop' = [loop EXCEPT ![a] = Idle],
         NEW t \in Streams, Update(loop[a].obj, t),
         UNCHANGED <<table, closed, closing>>
  PROVE  /\ loop[a].obj \in DOMAIN objs /\ loop[a].frame \in Sent
         /\ SessionType' /\ LoopsLead'
<1>1. loop[a].obj \in DOMAIN objs /\ loop[a].frame \in Sent
  BY DEF IInv, LoopsLead
<1>2. objs' \in Seq(StreamObjects) /\ DOMAIN objs' = DOMAIN objs
  BY <1>1, UpdateStep
<1>3. /\ loop' \in [Arteries -> [at : {"idle", "accept", "drain"},
                                 frame : Sent \cup {None}, obj : Nat]]
      /\ \A b \in Arteries : loop'[b].at # "idle" =>
           loop[b].at # "idle" /\ loop'[b].frame = loop[b].frame
                               /\ loop'[b].obj = loop[b].obj
  <2>1. loop \in [Arteries -> [at : {"idle", "accept", "drain"},
                              frame : Sent \cup {None}, obj : Nat]]
    BY DEF IInv, SessionType
  <2>2. CASE loop' = [loop EXCEPT ![a].at = "drain"]
    BY <2>1, <2>2
  <2>3. CASE loop' = [loop EXCEPT ![a] = Idle]
    BY <2>1, <2>3 DEF Idle
  <2> QED BY <2>2, <2>3
<1>4. LoopsLead'
  BY <1>2, <1>3 DEF IInv, LoopsLead
<1> QED BY <1>1, <1>2, <1>3, <1>4 DEF IInv, SessionType

LEMMA AcceptFrameStep ==
  ASSUME IInv, NEW a \in Arteries, AcceptFrame(a)
  PROVE  Advances
<1> DEFINE o == loop[a].obj
           f == Payload(loop[a].frame)
<1>1. o \in DOMAIN objs /\ f \in Frames /\ Good(objs[o].s) /\ loop[a].at = "accept"
  BY SentAssumption DEF AcceptFrame, IInv, LoopsLead, StreamsAreGood
<1>2. /\ ~Locked(objs[o].s) /\ Update(o, Accept(objs[o].s, f))
      /\ loop' = [loop EXCEPT ![a].at = "drain"] \/ loop' = [loop EXCEPT ![a] = Idle]
      /\ UNCHANGED <<table, closed, closing>>
  BY DEF AcceptFrame
<1>3. Continues(objs[o].s, Accept(objs[o].s, f))
  BY <1>1, <1>2, AcceptContinues
<1>4. SessionType' /\ LoopsLead'
  BY <1>1, <1>2, <1>3, LoopGoesOn DEF Continues, Good
<1> QED BY <1>1, <1>2, <1>3, <1>4, ContinuesKeeps

LEMMA DrainBufferStep ==
  ASSUME IInv, NEW a \in Arteries, DrainBuffer(a)
  PROVE  Advances
<1> DEFINE o == loop[a].obj
<1>1. o \in DOMAIN objs /\ Good(objs[o].s)
  BY DEF DrainBuffer, IInv, LoopsLead, StreamsAreGood
<1>2. /\ CanDrain(objs[o].s) /\ Update(o, DrainStep(objs[o].s))
      /\ UNCHANGED <<table, closed, loop, closing>>
  BY DEF DrainBuffer
<1>3. Continues(objs[o].s, DrainStep(objs[o].s))
  BY <1>1, <1>2, DrainContinues
<1>4. objs' \in Seq(StreamObjects) /\ DOMAIN objs' = DOMAIN objs
  BY <1>1, <1>2, <1>3, UpdateStep DEF Continues, Good
<1>5. SessionType' /\ LoopsLead'
  BY <1>2, <1>4 DEF IInv, SessionType, LoopsLead
<1> QED BY <1>1, <1>2, <1>3, <1>5, ContinuesKeeps

LEMMA EndAcceptStep ==
  ASSUME IInv, NEW a \in Arteries, EndAccept(a)
  PROVE  Advances
<1> DEFINE o == loop[a].obj
<1>1. o \in DOMAIN objs /\ Good(objs[o].s) /\ loop[a].at = "drain"
  BY DEF EndAccept, IInv, LoopsLead, StreamsAreGood
<1>2. /\ CanFinish(objs[o].s) /\ Update(o, FinishAccept(objs[o].s))
      /\ loop' = [loop EXCEPT ![a] = Idle]
      /\ UNCHANGED <<table, closed, closing>>
  BY DEF EndAccept
<1>3. Continues(objs[o].s, FinishAccept(objs[o].s))
  BY <1>1, <1>2, FinishContinues
<1>4. SessionType' /\ LoopsLead'
  BY <1>1, <1>2, <1>3, LoopGoesOn DEF Continues, Good
<1> QED BY <1>1, <1>2, <1>3, <1>4, ContinuesKeeps

LEMMA ConsumeStep ==
  ASSUME IInv, NEW o \in DOMAIN objs, Consume(o)
  PROVE  Advances
<1>1. Good(objs[o].s)
  BY DEF IInv, StreamsAreGood
<1>2. /\ CanTake(objs[o].s) /\ Update(o, Take(objs[o].s))
      /\ UNCHANGED <<table, closed, loop, closing>>
  BY DEF Consume
<1>3. Continues(objs[o].s, Take(objs[o].s))
  BY <1>1, <1>2, TakeContinues
<1>4. objs' \in Seq(StreamObjects) /\ DOMAIN objs' = DOMAIN objs
  BY <1>2, <1>3, UpdateStep DEF Continues, Good
<1>5. SessionType' /\ LoopsLead'
  BY <1>2, <1>4 DEF IInv, SessionType, LoopsLead
<1> QED BY <1>2, <1>3, <1>5, ContinuesKeeps

\* CloseStream and Close take Session.mu and note what they have to close.
LEMMA BeginCloseStep ==
  ASSUME IInv, Close \/ \E i \in Ids : CloseStream(i)
  PROVE  Advances
<1>1. UNCHANGED <<objs, table, loop>> /\ Unlocked
  BY DEF Close, CloseStream
<1>2. closing' \in [todo : SUBSET Ids, marked : SUBSET Ids] /\ closed' \in BOOLEAN
  <2>1. closed \in BOOLEAN
    BY DEF IInv, SessionType
  <2>2. CASE Close
    BY <2>2 DEF Close
  <2>3. CASE \E i \in Ids : CloseStream(i)
    BY <2>1, <2>3 DEF CloseStream
  <2> QED BY <2>2, <2>3
<1>3. ClosingLeads'
  BY DEF Close, CloseStream, ClosingLeads
<1>4. ClosedIsEmptying'
  <2>1. CASE Close
    BY <2>1 DEF Close, ClosedIsEmptying
  <2>2. CASE \E i \in Ids : CloseStream(i)
    BY <2>2 DEF CloseStream, IInv, ClosedIsEmptying, Unlocked, NotClosing
  <2> QED BY <2>1, <2>2
<1>5. SessionType' /\ StreamsAreGood' /\ TableLeads' /\ OpenIsInTable' /\ LoopsLead'
  BY <1>1, <1>2 DEF IInv, SessionType, StreamsAreGood, TableLeads, OpenIsInTable, LoopsLead
<1> QED BY <1>1, <1>3, <1>4, <1>5, NoStreamMoves DEF Advances, IInv

LEMMA MarkStreamStep ==
  ASSUME IInv, NEW i \in Ids, MarkStream(i)
  PROVE  Advances
<1> DEFINE o == table[i]
           t == MarkClosed(objs[o].s)
<1>1. o \in DOMAIN objs /\ objs[o].id = i /\ Good(objs[o].s)
  BY DEF MarkStream, IInv, ClosingLeads, TableLeads, StreamsAreGood
<1>2. /\ i \in closing.todo /\ closing.marked = {}
      /\ ~Locked(objs[o].s) /\ Update(o, t)
      /\ closing' = [todo |-> closing.todo \ {i}, marked |-> {i}]
      /\ UNCHANGED <<table, closed, loop>>
  BY DEF MarkStream
<1>3. Continues(objs[o].s, t) /\ Terminal(t) /\ t \in Streams
  BY <1>1, <1>2, MarkContinues DEF Continues, Good
<1> HIDE DEF t
<1>4. /\ objs' \in Seq(StreamObjects) /\ DOMAIN objs' = DOMAIN objs
      /\ \A p \in DOMAIN objs : /\ objs'[p].id = objs[p].id
                                /\ objs'[p].s = IF p = o THEN t ELSE objs[p].s
  BY <1>1, <1>2, <1>3, UpdateStep
<1>5. SessionType' /\ LoopsLead'
  BY <1>2, <1>4 DEF IInv, SessionType, LoopsLead
<1>6. StreamsAreGood'
  BY <1>3, <1>4 DEF IInv, StreamsAreGood, Continues
<1>7. TableLeads' /\ OpenIsInTable'
  BY <1>2, <1>3, <1>4 DEF IInv, TableLeads, OpenIsInTable, Continues
<1>8. ClosingLeads'
  BY <1>1, <1>2, <1>3, <1>4 DEF IInv, ClosingLeads
<1>9. ClosedIsEmptying'
  BY <1>2 DEF IInv, ClosedIsEmptying
<1>10. \A p \in Nat : StepOf(p)
  BY <1>1, <1>2, <1>3, StreamMoves DEF Continues, IInv, StreamsAreGood
<1> QED BY <1>5, <1>6, <1>7, <1>8, <1>9, <1>10 DEF Advances, IInv

LEMMA RemoveStreamStep ==
  ASSUME IInv, NEW i \in Ids, RemoveStream(i)
  PROVE  Advances
<1> DEFINE o == table[i]
           t == CloseOrdered(objs[o].s)
<1>1. /\ o \in DOMAIN objs /\ objs[o].id = i /\ o # 0
      /\ Good(objs[o].s) /\ Terminal(objs[o].s)
  BY DEF RemoveStream, IInv, ClosingLeads, TableLeads, StreamsAreGood
<1>2. /\ i \in closing.marked /\ Update(o, t)
      /\ table' = [table EXCEPT ![i] = 0]
      /\ closing' = [closing EXCEPT !.marked = {}]
      /\ UNCHANGED <<closed, loop>>
  BY DEF RemoveStream
<1>3. /\ Good(t) /\ LogStep(objs[o].s, t) /\ ~t.open /\ t.log = objs[o].s.log
      /\ Terminal(t) /\ t \in Streams
  BY <1>1, CloseOrderedStep DEF Good
<1> HIDE DEF t
<1>4. /\ objs' \in Seq(StreamObjects) /\ DOMAIN objs' = DOMAIN objs
      /\ \A p \in DOMAIN objs : /\ objs'[p].id = objs[p].id
                                /\ objs'[p].s = IF p = o THEN t ELSE objs[p].s
  BY <1>1, <1>2, <1>3, UpdateStep
<1>5. SessionType' /\ LoopsLead'
  BY <1>2, <1>4 DEF IInv, SessionType, LoopsLead
<1>6. StreamsAreGood'
  BY <1>3, <1>4 DEF IInv, StreamsAreGood
<1>7. TableLeads'
  BY <1>2, <1>4 DEF IInv, SessionType, TableLeads
<1>8. OpenIsInTable'
  <2> SUFFICES ASSUME NEW p \in DOMAIN objs
               PROVE  objs'[p].s.open <=> table'[objs[p].id] = p
    BY <1>4 DEF OpenIsInTable
  <2>0. objs[p].id \in Ids /\ p # 0 /\ (objs[p].s.open <=> table[objs[p].id] = p)
    BY ObjectsAre DEF IInv, OpenIsInTable
  <2>1. CASE p = o
    BY <1>1, <1>2, <1>3, <1>4, <2>0, <2>1 DEF IInv, SessionType
  <2>2. CASE p # o
    BY <1>1, <1>2, <1>4, <2>0, <2>2 DEF IInv, SessionType
  <2> QED BY <2>1, <2>2
<1>9. ClosingLeads'
  <2>1. closing'.todo = closing.todo /\ closing'.marked = {}
    BY <1>2 DEF IInv, SessionType
  <2>2. \A j \in closing.todo : j # i /\ table'[j] # 0
    BY <1>2 DEF IInv, SessionType, ClosingLeads
  <2> QED BY <2>1, <2>2 DEF ClosingLeads
<1>10. ClosedIsEmptying'
  BY <1>2 DEF IInv, SessionType, ClosingLeads, ClosedIsEmptying
<1>11. \A p \in Nat : StepOf(p)
  BY <1>1, <1>2, <1>3, StreamMoves
<1> QED BY <1>5, <1>6, <1>7, <1>8, <1>9, <1>10, <1>11 DEF Advances, IInv

LEMMA NextStep == IInv /\ [Next]_vars => Advances
<1> SUFFICES ASSUME IInv, [Next]_vars PROVE Advances
  OBVIOUS
<1>1. CASE UNCHANGED vars
  <2>1. IInv'
    BY <1>1 DEF vars, IInv, SessionType, StreamsAreGood, TableLeads, OpenIsInTable,
                LoopsLead, ClosingLeads, ClosedIsEmptying
  <2> QED BY <1>1, <2>1, NoStreamMoves DEF vars, Advances
<1>2. CASE \E a \in Arteries, f \in Sent :
             DispatchKnown(a, f) \/ DispatchCreates(a, f) \/ DispatchFails(a, f)
  BY <1>2, DispatchKnownStep, DispatchCreatesStep, DispatchFailsStep
<1>3. CASE \E a \in Arteries : AcceptFrame(a) \/ DrainBuffer(a) \/ EndAccept(a)
  BY <1>3, AcceptFrameStep, DrainBufferStep, EndAcceptStep
<1>4. CASE \E o \in DOMAIN objs : Consume(o)
  BY <1>4, ConsumeStep
<1>5. CASE Close \/ \E i \in Ids : CloseStream(i)
  BY <1>5, BeginCloseStep
<1>6. CASE \E i \in Ids : MarkStream(i) \/ RemoveStream(i)
  BY <1>6, MarkStreamStep, RemoveStreamStep
<1>7. CASE \E i \in Ids : OpenStream(i)
  BY <1>7, OpenStreamStep
<1> QED BY <1>1, <1>2, <1>3, <1>4, <1>5, <1>6, <1>7 DEF Next

LEMMA InitInv == Init => IInv
<1> SUFFICES ASSUME Init PROVE IInv
  OBVIOUS
<1>1. objs = <<>> /\ objs \in Seq(StreamObjects) /\ DOMAIN objs = {}
  BY EmptySeq DEF Init
<1>2. SessionType
  BY <1>1 DEF Init, SessionType, Idle, NotClosing
<1>3. StreamsAreGood /\ TableLeads /\ OpenIsInTable
  BY <1>1 DEF Init, StreamsAreGood, TableLeads, OpenIsInTable
<1>4. LoopsLead /\ ClosingLeads /\ ClosedIsEmptying
  BY DEF Init, Idle, NotClosing, LoopsLead, ClosingLeads, ClosedIsEmptying
<1> QED BY <1>2, <1>3, <1>4 DEF IInv

-----------------------------------------------------------------------------
(* What follows. *)

\* The inductive invariant of the session.
THEOREM Inductive == Spec => []IInv
<1>1. IInv /\ [Next]_vars => IInv'
  BY NextStep DEF Advances
<1> QED BY InitInv, <1>1, PTL DEF Spec

\* The channel of a stream is open exactly while the table leads to it, and a
\* closed session has none (GetOrCreateStream, CloseStream, Close).
THEOREM TableHoldsTheOpen == Spec => []OpenIffInTable
<1>1. IInv => OpenIffInTable
  BY DEF IInv, OpenIsInTable, ClosedIsEmptying, OpenIffInTable, Unlocked, NotClosing
<1> QED BY Inductive, <1>1, PTL

\* No Accept sends on a channel that CloseStream or Close has closed, however
\* long ago Dispatch looked the stream up.
THEOREM NoSendAfterClose == Spec => SendsOnOpenChannels
<1>1. IInv /\ [Next]_vars =>
        [\A o \in DOMAIN objs : objs'[o].s.log # objs[o].s.log => objs[o].s.open]_vars
  <2> SUFFICES ASSUME IInv, [Next]_vars, NEW o \in DOMAIN objs, ~objs[o].s.open
               PROVE  objs'[o].s.log = objs[o].s.log
    OBVIOUS
  <2>1. o \in Nat
    BY ObjectsAre DEF IInv
  <2>2. StepOf(o)
    BY <2>1, NextStep DEF Advances
  <2> QED BY <2>2 DEF StepOf, Object
<1> QED BY Inductive, <1>1, PTL DEF Spec, SendsOnOpenChannels

\* Each of the first streams is an ordered pipe that may skip frames, from before
\* its creation to after its removal (Dispatch, Accept, CloseStream, Close).
THEOREM StreamsImplementPipes == Spec => StreamsArePipes
<1>1. Init => FirstPipe!InitPipe /\ SecondPipe!InitPipe
  BY DEF Init, Object, NewStream, FirstPipe!InitPipe, SecondPipe!InitPipe
<1>2. IInv /\ [Next]_vars => [FirstPipe!NextPipe]_FirstPipe!pipe
  <2> SUFFICES ASSUME IInv, [Next]_vars PROVE [FirstPipe!NextPipe]_FirstPipe!pipe
    OBVIOUS
  <2>1. LogStep(Object(1), Object(1)')
    BY NextStep DEF Advances, StepOf
  <2> QED BY <2>1 DEF LogStep, Emits, Signals, Puts, Reads, Quiet, Data, Seqs,
       FirstPipe!NextPipe, FirstPipe!PutNext, FirstPipe!Skip, FirstPipe!PutControl,
       FirstPipe!Read, FirstPipe!pipe
<1>3. IInv /\ [Next]_vars => [SecondPipe!NextPipe]_SecondPipe!pipe
  <2> SUFFICES ASSUME IInv, [Next]_vars PROVE [SecondPipe!NextPipe]_SecondPipe!pipe
    OBVIOUS
  <2>1. LogStep(Object(2), Object(2)')
    BY NextStep DEF Advances, StepOf
  <2> QED BY <2>1 DEF LogStep, Emits, Signals, Puts, Reads, Quiet, Data, Seqs,
       SecondPipe!NextPipe, SecondPipe!PutNext, SecondPipe!Skip, SecondPipe!PutControl,
       SecondPipe!Read, SecondPipe!pipe
<1> QED BY Inductive, <1>1, <1>2, <1>3, PTL
        DEF Spec, StreamsArePipes, FirstPipe!PipeSpec, SecondPipe!PipeSpec

\* ... and so is every stream that a session ever creates, however many that are.
PipeOf(o) == INSTANCE OrderedPipe WITH
  Last <- MaxSeq, Lossy <- TRUE, Control <- Controls,
  next <- Object(o).nextSeq, out <- Object(o).log, read <- Object(o).taken

THEOREM EveryStreamIsAPipe == ASSUME NEW o \in Nat PROVE Spec => PipeOf(o)!PipeSpec
<1>1. Init => PipeOf(o)!InitPipe
  BY DEF Init, Object, NewStream, PipeOf!InitPipe
<1>2. IInv /\ [Next]_vars => [PipeOf(o)!NextPipe]_(PipeOf(o)!pipe)
  <2> SUFFICES ASSUME IInv, [Next]_vars PROVE [PipeOf(o)!NextPipe]_(PipeOf(o)!pipe)
    OBVIOUS
  <2>1. LogStep(Object(o), Object(o)')
    BY NextStep DEF Advances, StepOf
  <2> QED BY <2>1 DEF LogStep, Emits, Signals, Puts, Reads, Quiet, Data, Seqs,
       PipeOf!NextPipe, PipeOf!PutNext, PipeOf!Skip, PipeOf!PutControl,
       PipeOf!Read, PipeOf!pipe
<1> QED BY Inductive, <1>1, <1>2, PTL DEF Spec, PipeOf!PipeSpec

-----------------------------------------------------------------------------
(* The combiner: what its handlers add to the session. *)

Handlers ==
  [id : Ids, at : {"dial", "lookup", "relay", "write", "close", "done"}, obj : Nat,
   conn : {"none", "open", "closed"}]

\* A handler has no connection before its target answers, and a stream while it
\* relays.
HandlersLead ==
  /\ handler \in Seq(Handlers)
  /\ \A h \in DOMAIN handler :
       /\ handler[h].at = "dial" => handler[h].conn = "none"
       /\ handler[h].at \in {"relay", "write"} => handler[h].obj \in DOMAIN objs

\* Somebody will close the i-th stream, or has given it up after a failed dial.
Attended(i) ==
  \/ \E h \in DOMAIN handler : handler[h].id = i /\ (Live(h) \/ Unreachable(h))
  \/ \E a \in Arteries : loop[a].frame.type = "OPEN" /\ loop[a].frame.id = i

\* Nobody need do so any more when the holder of Session.mu is about to.
StreamsAttended ==
  \A i \in Ids : table[i] # 0 => i \in closing.todo \cup closing.marked \/ Attended(i)

RelayInv == IInv /\ HandlersLead /\ StreamsAttended

LEMMA HandlersAre ==
  ASSUME HandlersLead
  PROVE  /\ Len(handler) \in Nat /\ DOMAIN handler = 1 .. Len(handler)
         /\ \A h \in DOMAIN handler : handler[h] \in Handlers
<1>1. handler \in Seq(Handlers)
  BY DEF HandlersLead
<1>2. Len(handler) \in Nat /\ DOMAIN handler = 1 .. Len(handler)
  BY <1>1, LenProperties
<1> QED BY <1>1, <1>2, ElementOfSeq

-----------------------------------------------------------------------------
(* Every step of the combiner is a step of its session, or none. *)

LEMMA SessionStep ==
  ASSUME RelayInv, [RelayNext]_relayVars
  PROVE  [Next]_vars
<1>1. CASE UNCHANGED relayVars
  BY <1>1 DEF relayVars
<1>2. CASE \E a \in Arteries, f \in Sent : BeginDispatch(a, f) \/ FailDispatch(a, f)
  BY <1>2 DEF BeginDispatch, FailDispatch, Next
<1>3. CASE \E a \in Arteries : ContinueAccept(a)
  BY <1>3 DEF ContinueAccept, Next
<1>4. CASE \E h \in DOMAIN handler :
             DialTarget(h) \/ DialFailed(h) \/ FindStream(h) \/ RangeEnds(h)
               \/ WriteReturns(h)
  BY <1>4 DEF DialTarget, DialFailed, FindStream, RangeEnds, WriteReturns
<1>5. CASE \E h \in DOMAIN handler : RelayFrame(h)
  <2>1. PICK h \in DOMAIN handler : RelayFrame(h)
    BY <1>5
  <2>2. handler[h].obj \in DOMAIN objs /\ Consume(handler[h].obj)
    BY <2>1 DEF RelayFrame, Handler, Consume, RelayInv, HandlersLead
  <2> QED BY <2>2 DEF Next
<1>6. CASE \E h \in DOMAIN handler : CloseRelay(h)
  <2>1. PICK h \in DOMAIN handler : CloseRelay(h)
    BY <1>6
  <2>2. handler[h].id \in Ids
    BY HandlersAre DEF RelayInv, Handlers
  <2> QED BY <2>1, <2>2 DEF CloseRelay, Next
<1>7. CASE StopCombiner \/ \E i \in Ids : CloseOne(i)
  BY <1>7 DEF StopCombiner, CloseOne, Next
<1> QED BY <1>1, <1>2, <1>3, <1>4, <1>5, <1>6, <1>7 DEF RelayNext

LEMMA SessionKept ==
  ASSUME RelayInv, [RelayNext]_relayVars
  PROVE  /\ IInv'
         /\ \A o \in DOMAIN objs : o \in DOMAIN objs'
<1>1. Advances
  BY SessionStep, NextStep DEF RelayInv
<1>2. \A o \in DOMAIN objs : o \in Nat
  BY ObjectsAre DEF RelayInv, IInv
<1> QED BY <1>1, <1>2 DEF Advances, StepOf

-----------------------------------------------------------------------------
(* The handlers. *)

\* The h-th handler is x from now on, in the step of its own that it takes.
Becomes(h, x) ==
  /\ x \in Handlers /\ x.id = handler[h].id
  /\ handler' = [handler EXCEPT ![h] = x]

LEMMA HandlerMoves ==
  ASSUME HandlersLead, NEW h \in DOMAIN handler, NEW x, Becomes(h, x)
  PROVE  /\ handler' \in Seq(Handlers) /\ DOMAIN handler' = DOMAIN handler
         /\ \A g \in DOMAIN handler : handler'[g] = IF g = h THEN x ELSE handler[g]
<1>1. handler \in Seq(Handlers) /\ h \in 1 .. Len(handler) /\ x \in Handlers
  BY HandlersAre DEF HandlersLead, Becomes
<1>2. /\ handler' \in Seq(Handlers) /\ Len(handler') = Len(handler)
      /\ \A g \in 1 .. Len(handler) : handler'[g] = IF g = h THEN x ELSE handler[g]
  BY <1>1, ExceptSeq DEF Becomes
<1> QED BY <1>1, <1>2, LenProperties

\* As long as it does not end, or ends without a connection, it attends to its
\* stream; the others do anyway.
LEMMA HandlerAttends ==
  ASSUME HandlersLead, NEW h \in DOMAIN handler, NEW x, Becomes(h, x),
         x.at = "dial" => x.conn = "none", x.at \in {"relay", "write"} => x.obj \in DOMAIN objs',
         \A o \in DOMAIN objs : o \in DOMAIN objs', loop' = loop
  PROVE  /\ HandlersLead'
         /\ \A i \in Ids : Attended(i) =>
              Attended(i)' \/ (i = x.id /\ x.at = "done" /\ x.conn # "none")
<1>1. /\ handler' \in Seq(Handlers) /\ DOMAIN handler' = DOMAIN handler
      /\ \A g \in DOMAIN handler : handler'[g] = IF g = h THEN x ELSE handler[g]
  BY HandlerMoves
<1>2. HandlersLead'
  BY <1>1 DEF HandlersLead
<1>3. ASSUME NEW i \in Ids, Attended(i), ~(i = x.id /\ x.at = "done" /\ x.conn # "none")
      PROVE  Attended(i)'
  <2>1. CASE \E a \in Arteries : loop[a].frame.type = "OPEN" /\ loop[a].frame.id = i
    BY <2>1 DEF Attended
  <2>2. CASE \E g \in DOMAIN handler : handler[g].id = i /\ (Live(g) \/ Unreachable(g))
    BY <1>1, <1>3, <2>2 DEF Attended, Live, Unreachable, Becomes
  <2> QED BY <1>3, <2>1, <2>2 DEF Attended
<1> QED BY <1>2, <1>3

\* The read loop goes on: behind an OPEN there is a handler.
LEMMA ReadOnAttends ==
  ASSUME HandlersLead, NEW f \in Sent, ReadOn(f),
         \A o \in DOMAIN objs : o \in DOMAIN objs'
  PROVE  /\ HandlersLead'
         /\ \A h \in DOMAIN handler : h \in DOMAIN handler' /\ handler'[h] = handler[h]
         /\ f.type = "OPEN" =>
              \E h \in DOMAIN handler' : handler'[h].id = f.id /\ handler'[h].at # "done"
<1>1. CASE f.type # "OPEN"
  BY <1>1 DEF ReadOn, HandlersLead
<1>2. CASE f.type = "OPEN"
  <2> DEFINE n == Len(handler) + 1
             new == NewHandler(f.id)
  <2>1. new \in Handlers /\ new.at = "dial" /\ new.conn = "none" /\ new.id = f.id
    BY SentAssumption DEF NewHandler, Handlers
  <2>2. handler \in Seq(Handlers) /\ handler' = Append(handler, new)
    BY <1>2 DEF ReadOn, HandlersLead
  <2> HIDE DEF new
  <2>3. /\ handler' \in Seq(Handlers) /\ Len(handler') = n
        /\ \A h \in 1 .. Len(handler) : handler'[h] = handler[h]
        /\ handler'[n] = new
    BY <2>1, <2>2, AppendProperties
  <2>4. /\ DOMAIN handler = 1 .. Len(handler) /\ Len(handler) \in Nat
        /\ DOMAIN handler' = 1 .. n
    BY <2>2, <2>3, LenProperties
  <2>5. /\ \A h \in DOMAIN handler : h \in DOMAIN handler' /\ handler'[h] = handler[h]
        /\ \A h \in DOMAIN handler' : h \in DOMAIN handler \/ h = n
        /\ n \in DOMAIN handler'
    BY <2>3, <2>4
  <2> HIDE DEF n
  <2>6. HandlersLead'
    BY <2>1, <2>3, <2>5 DEF HandlersLead
  <2> QED BY <2>1, <2>3, <2>5, <2>6
<1> QED BY <1>1, <1>2

-----------------------------------------------------------------------------
(* The steps of the combiner. *)

Attends == HandlersLead' /\ StreamsAttended'

LEMMA BeginDispatchStep ==
  ASSUME RelayInv, \A o \in DOMAIN objs : o \in DOMAIN objs',
         NEW a \in Arteries, NEW f \in Sent, BeginDispatch(a, f)
  PROVE  Attends
<1>1. /\ handler' = handler /\ closing' = closing /\ f.id \in Ids
      /\ loop[a] = Idle
      /\ \E o : loop' = [loop EXCEPT ![a] = [at |-> "accept", frame |-> f, obj |-> o]]
      /\ \/ table' = table
         \/ f.type = "OPEN" /\ \E o : table' = [table EXCEPT ![f.id] = o]
  BY SentAssumption DEF BeginDispatch, DispatchKnown, DispatchCreates, Create, Receive,
                        GoAccept
<1>2. HandlersLead'
  BY <1>1 DEF RelayInv, HandlersLead
<1>3. /\ loop'[a].frame = f
      /\ \A b \in Arteries : loop[b].frame.type = "OPEN" => loop'[b].frame = loop[b].frame
  BY <1>1 DEF RelayInv, IInv, SessionType, Idle, None
<1>4. \A i \in Ids : Attended(i) => Attended(i)'
  BY <1>1, <1>3 DEF Attended, Live, Unreachable
<1>5. \A i \in Ids : table'[i] = table[i] \/ (i = f.id /\ f.type = "OPEN")
  BY <1>1 DEF RelayInv, IInv, SessionType
<1>6. f.type = "OPEN" => Attended(f.id)'
  BY <1>3 DEF Attended
<1>7. StreamsAttended'
  BY <1>1, <1>4, <1>5, <1>6 DEF RelayInv, StreamsAttended
<1> QED BY <1>2, <1>7 DEF Attends

LEMMA FailDispatchStep ==
  ASSUME RelayInv, \A o \in DOMAIN objs : o \in DOMAIN objs',
         NEW a \in Arteries, NEW f \in Sent, FailDispatch(a, f)
  PROVE  Attends
<1>1. UNCHANGED <<table, closing, loop>> /\ ReadOn(f)
  BY DEF FailDispatch, DispatchFails
<1>2. /\ HandlersLead'
      /\ \A h \in DOMAIN handler : h \in DOMAIN handler' /\ handler'[h] = handler[h]
  BY <1>1, ReadOnAttends DEF RelayInv
<1>3. StreamsAttended'
  BY <1>1, <1>2 DEF RelayInv, StreamsAttended, Attended, Live, Unreachable
<1> QED BY <1>2, <1>3 DEF Attends

LEMMA ContinueAcceptStep ==
  ASSUME RelayInv, \A o \in DOMAIN objs : o \in DOMAIN objs',
         NEW a \in Arteries, ContinueAccept(a)
  PROVE  Attends
<1>1. /\ UNCHANGED <<table, closing>> /\ loop[a].at # "idle"
      /\ \/ loop' = [loop EXCEPT ![a].at = "drain"]
         \/ loop' = [loop EXCEPT ![a] = Idle]
         \/ loop' = loop
  BY DEF ContinueAccept, AcceptFrame, DrainBuffer, EndAccept
<1>2. loop[a].frame \in Sent
  BY <1>1 DEF RelayInv, IInv, LoopsLead
<1>3. /\ \A b \in Arteries \ {a} : loop'[b] = loop[b]
      /\ loop'[a] = Idle \/ loop'[a].frame = loop[a].frame
  BY <1>1 DEF RelayInv, IInv, SessionType
<1>4. CASE loop'[a] = Idle
  <2>1. ReadOn(loop[a].frame)
    BY <1>4 DEF ContinueAccept
  <2>2. /\ HandlersLead'
        /\ \A h \in DOMAIN handler : h \in DOMAIN handler' /\ handler'[h] = handler[h]
        /\ loop[a].frame.type = "OPEN" =>
             \E h \in DOMAIN handler' :
               handler'[h].id = loop[a].frame.id /\ handler'[h].at # "done"
    BY <1>2, <2>1, ReadOnAttends DEF RelayInv
  <2>3. \A i \in Ids : Attended(i) => Attended(i)'
    BY <1>3, <2>2 DEF Attended, Live, Unreachable
  <2> QED BY <1>1, <2>2, <2>3 DEF Attends, RelayInv, StreamsAttended
<1>5. CASE loop'[a] # Idle
  <2>1. handler' = handler
    BY <1>5 DEF ContinueAccept
  <2>2. \A i \in Ids : Attended(i) => Attended(i)'
    BY <1>3, <1>5, <2>1 DEF Attended, Live, Unreachable
  <2>3. HandlersLead'
    BY <2>1 DEF RelayInv, HandlersLead
  <2> QED BY <1>1, <2>2, <2>3 DEF Attends, RelayInv, StreamsAttended
<1> QED BY <1>4, <1>5

\* A handler goes on without the session; it ends without a connection or finds
\* no stream.
GoesOn(h, x) ==
  /\ Becomes(h, x)
  /\ x.at # "dial"
  /\ x.at \in {"relay", "write"} => x.obj \in DOMAIN objs
  /\ x.at = "done" => x.conn = "none" \/ table[x.id] = 0

LEMMA HandlerStep ==
  ASSUME RelayInv, NEW h \in DOMAIN handler,
         DialTarget(h) \/ DialFailed(h) \/ FindStream(h) \/ RangeEnds(h) \/ WriteReturns(h)
  PROVE  Attends
<1>0. handler[h] \in Handlers /\ UNCHANGED <<objs, table, closing, loop>>
  BY HandlersAre DEF RelayInv, DialTarget, DialFailed, FindStream, RangeEnds, WriteReturns,
                     vars
<1>1. \E x : GoesOn(h, x)
  <2>1. CASE DialTarget(h)
    <3>1. GoesOn(h, [handler[h] EXCEPT !.at = "lookup", !.conn = "open"])
      BY <1>0, <2>1 DEF DialTarget, GoesOn, Becomes, Handlers
    <3> QED BY <3>1
  <2>2. CASE DialFailed(h)
    <3>1. handler[h].conn = "none"
      BY <2>2 DEF DialFailed, Handler, RelayInv, HandlersLead
    <3>2. GoesOn(h, [handler[h] EXCEPT !.at = "done"])
      BY <1>0, <2>2, <3>1 DEF DialFailed, GoesOn, Becomes, Handlers
    <3> QED BY <3>2
  <2>3. CASE FindStream(h)
    <3> DEFINE o == table[handler[h].id]
               gone == [handler[h] EXCEPT !.at = "done", !.conn = "closed"]
               found == [handler[h] EXCEPT !.at = "relay", !.obj = o]
    <3>1. handler' = [handler EXCEPT ![h] = IF o = 0 THEN gone ELSE found]
      BY <2>3 DEF FindStream
    <3>2. o \in Nat /\ (o # 0 => o \in DOMAIN objs)
      BY <1>0 DEF RelayInv, IInv, SessionType, TableLeads, Handlers
    <3>3. CASE o = 0
      <4>1. GoesOn(h, gone)
        BY <1>0, <3>1, <3>3 DEF GoesOn, Becomes, Handlers
      <4> QED BY <4>1
    <3>4. CASE o # 0
      <4>1. GoesOn(h, found)
        BY <1>0, <3>1, <3>2, <3>4 DEF GoesOn, Becomes, Handlers
      <4> QED BY <4>1
    <3> QED BY <3>3, <3>4
  <2>4. CASE RangeEnds(h)
    <3>1. GoesOn(h, [handler[h] EXCEPT !.at = "close"])
      BY <1>0, <2>4 DEF RangeEnds, GoesOn, Becomes, Handlers
    <3> QED BY <3>1
  <2>5. CASE WriteReturns(h)
    <3>1. PICK at \in {"relay", "close"} : handler' = [handler EXCEPT ![h].at = at]
      BY <2>5 DEF WriteReturns
    <3>2. handler[h].obj \in DOMAIN objs
      BY <2>5 DEF WriteReturns, Handler, RelayInv, HandlersLead
    <3>3. GoesOn(h, [handler[h] EXCEPT !.at = at])
      BY <1>0, <3>1, <3>2 DEF GoesOn, Becomes, Handlers
    <3> QED BY <3>3
  <2> QED BY <2>1, <2>2, <2>3, <2>4, <2>5
<1>2. PICK x : GoesOn(h, x)
  BY <1>1
<1>3. /\ HandlersLead'
      /\ \A i \in Ids : Attended(i) =>
           Attended(i)' \/ (i = x.id /\ x.at = "done" /\ x.conn # "none")
  BY <1>0, <1>2, HandlerAttends DEF RelayInv, GoesOn
<1> QED BY <1>0, <1>2, <1>3 DEF Attends, RelayInv, StreamsAttended, GoesOn

LEMMA RelayFrameStep ==
  ASSUME RelayInv, \A o \in DOMAIN objs : o \in DOMAIN objs',
         NEW h \in DOMAIN handler, RelayFrame(h)
  PROVE  Attends
<1>0. handler[h] \in Handlers /\ UNCHANGED <<table, closing, loop>>
  BY HandlersAre DEF RelayInv, RelayFrame
<1>1. PICK at \in {"relay", "write", "close"} : handler' = [handler EXCEPT ![h].at = at]
  BY DEF RelayFrame, After
<1> DEFINE x == [handler[h] EXCEPT !.at = at]
<1>2. Becomes(h, x) /\ x.at = at /\ x.obj \in DOMAIN objs'
  BY <1>0, <1>1 DEF Becomes, Handlers, RelayFrame, Handler, RelayInv, HandlersLead
<1> HIDE DEF x
<1>3. HandlersLead' /\ \A i \in Ids : Attended(i) => Attended(i)'
  BY <1>0, <1>1, <1>2, HandlerAttends DEF RelayInv
<1> QED BY <1>0, <1>3 DEF Attends, RelayInv, StreamsAttended

\* A handler that closes its stream leaves it to the holder of Session.mu, or has
\* found it gone.
LEMMA CloseRelayStep ==
  ASSUME RelayInv, NEW h \in DOMAIN handler, CloseRelay(h)
  PROVE  Attends
<1> DEFINE x == [handler[h] EXCEPT !.at = "done", !.conn = "closed"]
<1>0. handler[h] \in Handlers /\ UNCHANGED <<objs, table, loop>>
  BY HandlersAre DEF RelayInv, CloseRelay, CloseStream, vars
<1>1. Becomes(h, x) /\ x.at = "done" /\ x.id = handler[h].id
  BY <1>0 DEF CloseRelay, Becomes, Handlers
<1> HIDE DEF x
<1>2. /\ HandlersLead'
      /\ \A i \in Ids : Attended(i) => Attended(i)' \/ i = handler[h].id
  BY <1>0, <1>1, HandlerAttends DEF RelayInv
<1>3. \A i \in Ids : table[i] # 0 => Attended(i)
  BY DEF CloseRelay, Unlocked, NotClosing, RelayInv, StreamsAttended
<1>4. table[handler[h].id] = 0 \/ handler[h].id \in closing'.todo
  BY DEF CloseRelay, CloseStream
<1>5. StreamsAttended'
  BY <1>0, <1>2, <1>3, <1>4 DEF StreamsAttended
<1> QED BY <1>2, <1>5 DEF Attends

\* Stop, and the streams it works through.
LEMMA StopStep ==
  ASSUME RelayInv, \A o \in DOMAIN objs : o \in DOMAIN objs',
         StopCombiner \/ \E i \in Ids : CloseOne(i)
  PROVE  Attends
<1>1. UNCHANGED <<handler, loop>>
  BY DEF StopCombiner, CloseOne, Close, MarkStream, RemoveStream
<1>2. HandlersLead' /\ \A i \in Ids : Attended(i) => Attended(i)'
  BY <1>1 DEF RelayInv, HandlersLead, Attended, Live, Unreachable
<1>3. CASE StopCombiner
  BY <1>2, <1>3 DEF StopCombiner, Close, Attends, StreamsAttended
<1>4. CASE \E i \in Ids : MarkStream(i)
  <2>1. PICK i \in Ids : MarkStream(i)
    BY <1>4
  <2>2. table' = table
        /\ closing'.todo \cup closing'.marked = closing.todo \cup closing.marked
    BY <2>1 DEF MarkStream
  <2> QED BY <1>2, <2>2 DEF RelayInv, Attends, StreamsAttended
<1>5. CASE \E i \in Ids : RemoveStream(i)
  <2>1. PICK i \in Ids : RemoveStream(i)
    BY <1>5
  <2>2. /\ i \in closing.marked /\ \A j \in closing.marked : j = i
        /\ closing'.todo = closing.todo
    BY <2>1 DEF RemoveStream, RelayInv, IInv, SessionType, ClosingLeads
  <2>3. \A j \in Ids : table'[j] = IF j = i THEN 0 ELSE table[j]
    BY <2>1 DEF RemoveStream, RelayInv, IInv, SessionType
  <2>4. StreamsAttended'
    BY <1>2, <2>2, <2>3 DEF RelayInv, StreamsAttended
  <2> QED BY <1>2, <2>4 DEF Attends
<1> QED BY <1>3, <1>4, <1>5 DEF CloseOne

LEMMA RelayStep == RelayInv /\ [RelayNext]_relayVars => RelayInv'
<1> SUFFICES ASSUME RelayInv, [RelayNext]_relayVars PROVE RelayInv'
  OBVIOUS
<1>0. IInv' /\ \A o \in DOMAIN objs : o \in DOMAIN objs'
  BY SessionKept
<1>1. Attends
  <2>1. CASE UNCHANGED relayVars
    BY <2>1 DEF relayVars, vars, Attends, RelayInv, HandlersLead, StreamsAttended,
                Attended, Live, Unreachable
  <2>2. CASE \E a \in Arteries, f \in Sent : BeginDispatch(a, f) \/ FailDispatch(a, f)
    BY <1>0, <2>2, BeginDispatchStep, FailDispatchStep
  <2>3. CASE \E a \in Arteries : ContinueAccept(a)
    BY <1>0, <2>3, ContinueAcceptStep
  <2>4. CASE \E h \in DOMAIN handler :
               DialTarget(h) \/ DialFailed(h) \/ FindStream(h) \/ RangeEnds(h)
                 \/ WriteReturns(h)
    BY <2>4, HandlerStep
  <2>5. CASE \E h \in DOMAIN handler : RelayFrame(h) \/ CloseRelay(h)
    BY <1>0, <2>5, RelayFrameStep, CloseRelayStep
  <2>6. CASE StopCombiner \/ \E i \in Ids : CloseOne(i)
    BY <1>0, <2>6, StopStep
  <2> QED BY <2>1, <2>2, <2>3, <2>4, <2>5, <2>6 DEF RelayNext
<1> QED BY <1>0, <1>1 DEF Attends, RelayInv

LEMMA InitRelay == RelayInit => RelayInv
<1> SUFFICES ASSUME RelayInit PROVE RelayInv
  OBVIOUS
<1>1. IInv
  BY InitInv DEF RelayInit
<1>2. handler = <<>> /\ handler \in Seq(Handlers)
  BY EmptySeq DEF RelayInit
<1>3. HandlersLead
  BY <1>2 DEF HandlersLead
<1>4. StreamsAttended
  BY DEF RelayInit, Init, StreamsAttended
<1> QED BY <1>1, <1>3, <1>4 DEF RelayInv

THEOREM RelayInductive == RelaySpec => []RelayInv
BY InitRelay, RelayStep, PTL DEF RelaySpec

-----------------------------------------------------------------------------
(* What follows. *)

\* Whatever the handlers do to it, the combiner's session is a session: the
\* theorems about Spec hold of it too.
THEOREM RelayIsSession == RelaySpec => Spec
<1>1. RelayInv /\ [RelayNext]_relayVars => [Next]_vars
  BY SessionStep
<1>2. RelayInit => Init
  BY DEF RelayInit
<1> QED BY RelayInductive, <1>1, <1>2, PTL DEF RelaySpec, Spec

\* No stream of the combiner's session is abandoned, except by a handler whose
\* dial failed (handleStreamOpen, HandleWebSocket, Stop).
THEOREM NothingIsAbandoned == RelaySpec => []StreamHasHandler
<1>1. RelayInv => StreamHasHandler
  BY DEF RelayInv, StreamsAttended, Attended, StreamHasHandler, Unlocked, NotClosing
<1> QED BY RelayInductive, <1>1, PTL
=============================================================================
