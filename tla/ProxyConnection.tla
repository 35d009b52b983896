--------------------------- MODULE ProxyConnection ---------------------------
(***************************************************************************)
(* One user connection from end to end: an HTTP CONNECT at the frontend    *)
(* (internal/bonding/client/frontend.go) with its HandleUpstream and       *)
(* HandleDownstream (client/framer.go), and the handleStreamOpen that the  *)
(* combiner (combiner/combiner.go) starts for every copy of its OPEN, each *)
(* with a connection of its own to the target and a goroutine reading it.  *)
(*                                                                         *)
(* A direction of the stream between them hands over its frames in order   *)
(* until it loses one; behind a lost chunk the request ends or breaks off. *)
(* Why this is all that the arteries can do is in ArteryFanout.            *)
(***************************************************************************)
EXTENDS Integers, Sequences, FiniteSets

CONSTANTS
  Request,   \* chunks the user may send
  Response,  \* chunks the target answers with
  Opens      \* copies of the OPEN, one for every artery

ASSUME ProxyAssumption ==
  Request \in Nat /\ Response \in Nat \ {0} /\ IsFiniteSet(Opens)

VARIABLES
  user,      \* the user: "open", "eof" (closed for writing), "gone"
  wrote,     \* chunks written by the user
  upstream,  \* HandleUpstream: "open", "read", "done"
  taken,     \* chunks it has read
  sent,      \* copies of the OPEN on their way
  up,        \* frames behind the OPEN on their way to a handler
  lost,      \* the directions in which a frame was lost: "up", "down"
  stream,    \* the combiner's: "none", "open", "closed", "again" (a late copy
             \* of the OPEN has created another one)
  relay,     \* each handleStreamOpen: "none", "dial", "relay", "write",
             \* "again" (it reads the other stream), "done"
  reader,    \* its goroutine reading the target: "none", "read", "done"
  target,    \* its connection: "none", "open", "closed" by the target, "cut"
  received,  \* chunks the targets have received from the stream
  relayed,   \* chunks each reader has relayed, which is the number of the next
  next,      \* the number the client's stream expects
  down,      \* frames on their way to HandleDownstream
  downstream,\* HandleDownstream: "read", "write", "done"; at the end it closes
             \* the connection of the user
  got        \* chunks the user was sent

proxyVars == <<user, wrote, upstream, taken, sent, up, lost, stream, relay, reader,
               target, received, relayed, next, down, downstream, got>>
userVars == <<user, wrote>>
upVars == <<upstream, taken, sent>>
handlerVars == <<stream, relay, reader, target, received, relayed>>
downVars == <<downstream, got>>

ProxyInit ==
  /\ user = "open" /\ wrote = 0
  /\ upstream = "open" /\ taken = 0 /\ sent = {}
  /\ up = <<>> /\ down = <<>> /\ lost = {}
  /\ stream = "none" /\ received = 0
  /\ relay = [o \in Opens |-> "none"] /\ reader = [o \in Opens |-> "none"]
  /\ target = [o \in Opens |-> "none"] /\ relayed = [o \in Opens |-> 0]
  /\ next = 1
  /\ downstream = "read" /\ got = 0

UserWrites ==
  /\ user = "open" /\ wrote < Request
  /\ wrote' = wrote + 1
  /\ UNCHANGED <<user, upVars, up, lost, handlerVars, next, down, downVars>>

\* The user closes the connection for writing, or altogether.
UserCloses ==
  /\ user = "open" /\ user' \in {"eof", "gone"}
  /\ UNCHANGED <<wrote, upVars, up, lost, handlerVars, next, down, downVars>>

\* A frame arrives in its order, or not at all.
Arrives(f, pipe, dir) ==
  \/ pipe' = Append(pipe, f) /\ UNCHANGED lost
  \/ lost' = lost \cup {dir} /\ UNCHANGED pipe

\* HandleUpstream: OPEN, some copies of which arrive.  When sending it fails,
\* HandleUpstream returns, without a FIN or an RST and without closing anything.
SendOpen ==
  /\ upstream = "open"
  /\ sent' \in SUBSET Opens
  /\ upstream' \in {"read", "done"}
  /\ lost' = IF sent' = {} \/ upstream' = "done" THEN {"up"} \cup lost ELSE lost
  /\ UNCHANGED <<userVars, taken, up, handlerVars, next, down, downVars>>

\* Then a frame for every chunk; nobody reads those behind a lost one, ...
ReadChunk ==
  /\ upstream = "read" /\ downstream # "done" /\ taken < wrote
  /\ taken' = taken + 1
  /\ IF "up" \in lost THEN UNCHANGED <<up, lost>> ELSE Arrives("DATA", up, "up")
  /\ UNCHANGED <<userVars, upstream, sent, handlerVars, next, down, downVars>>

UpstreamEnds(f) ==
  /\ upstream = "read"
  /\ Arrives(f, up, "up")
  /\ upstream' = "done"
  /\ UNCHANGED <<userVars, taken, sent, handlerVars, next, down, downVars>>

\* Mutant of ReadEnd: what was read together with the end is not sent.
ReadEndEarly == downstream # "done" /\ user # "open" /\ UpstreamEnds("FIN")

\* ... FIN at the end, ...
ReadEnd ==
  downstream # "done" /\ user # "open" /\ taken = wrote /\ UpstreamEnds("FIN")

\* Mutant of ReadFails: nothing is sent.
ReadFailsSilently ==
  /\ upstream = "read" /\ (downstream = "done" \/ user = "gone")
  /\ upstream' = "done"
  /\ UNCHANGED <<userVars, taken, sent, up, lost, handlerVars, next, down, downVars>>

\* ... RST when reading fails: HandleDownstream has closed the connection, or
\* the user has reset it.
ReadFails == (downstream = "done" \/ user = "gone") /\ UpstreamEnds("RST")

\* A read loop of the combiner dispatches a copy of the OPEN, which creates the
\* stream if there is none, and starts a handler whether it did or not.
StartHandler(o) ==
  /\ o \in sent /\ relay[o] = "none"
  /\ relay' = [relay EXCEPT ![o] = "dial"]
  /\ stream' = CASE stream = "none" -> "open" [] stream = "closed" -> "again" [] OTHER -> stream
  /\ UNCHANGED <<userVars, upVars, up, lost, reader, target, received, relayed, next, down, downVars>>

\* The stream is left as it is.
DialFails(o) ==
  /\ relay[o] = "dial"
  /\ relay' = [relay EXCEPT ![o] = "done"]
  /\ Arrives("RST", down, "down")
  /\ UNCHANGED <<userVars, upVars, up, stream, reader, target, received, relayed, next, downVars>>

\* GetStream finds the stream, another one in its place, or none.
DialSucceeds(o) ==
  /\ relay[o] = "dial"
  /\ IF stream = "closed"
       THEN /\ relay' = [relay EXCEPT ![o] = "done"]
            /\ target' = [target EXCEPT ![o] = "cut"]
            /\ UNCHANGED reader
       ELSE /\ relay' = [relay EXCEPT ![o] = IF stream = "open" THEN "relay" ELSE "again"]
            /\ target' = [target EXCEPT ![o] = "open"]
            /\ reader' = [reader EXCEPT ![o] = "read"]
  /\ UNCHANGED <<userVars, upVars, up, lost, stream, received, relayed, next, down, downVars>>

\* The end of handleStreamOpen, which closes the stream and the connection.
HandlerEnds(o) ==
  /\ relay' = [relay EXCEPT ![o] = "done"]
  /\ target' = [target EXCEPT ![o] = IF @ = "open" THEN "cut" ELSE @]
  /\ stream' = "closed"

\* The next frame of Ordered, which the handlers take turns at: data is written
\* to the connection of the one that has it, FIN and RST end its loop.
TakeFrame(o) ==
  /\ relay[o] = "relay" /\ up # <<>>
  /\ up' = Tail(up)
  /\ IF Head(up) = "DATA"
       THEN relay' = [relay EXCEPT ![o] = "write"] /\ UNCHANGED <<target, stream>>
       ELSE HandlerEnds(o)
  /\ UNCHANGED <<userVars, upVars, lost, reader, received, relayed, next, down, downVars>>

\* The write returns; to a target that has closed it fails or is lost.
WriteTarget(o) ==
  /\ relay[o] = "write"
  /\ received' = IF target[o] = "open" THEN received + 1 ELSE received
  /\ \/ relay' = [relay EXCEPT ![o] = "relay"] /\ UNCHANGED <<target, stream>>
     \/ target[o] = "closed" /\ HandlerEnds(o)
  /\ UNCHANGED <<userVars, upVars, up, lost, reader, relayed, next, down, downVars>>

\* Another handler has closed the stream, and no frame is left in Ordered.
OrderedCloses(o) ==
  /\ relay[o] = "relay" /\ stream # "open"
  /\ HandlerEnds(o)
  /\ UNCHANGED <<userVars, upVars, up, lost, reader, received, relayed, next, down, downVars>>

\* What a handler on the other stream meets is not followed further.
AgainEnds(o) ==
  /\ relay[o] = "again"
  /\ HandlerEnds(o)
  /\ UNCHANGED <<userVars, upVars, up, lost, reader, received, relayed, next, down, downVars>>

\* A target closes its connection behind its answer, the rest of which can still
\* be read.
TargetCloses(o) ==
  /\ target[o] = "open"
  /\ target' = [target EXCEPT ![o] = "closed"]
  /\ UNCHANGED <<userVars, upVars, up, lost, stream, relay, reader, received, relayed, next, down, downVars>>

\* The goroutine reading a target numbers what it reads from 0 and relays it.
\* The client's stream takes the number it expects, which is never 0, and passes
\* over those it has had from another reader; behind a loss it may take any.
ReadTarget(o) ==
  /\ reader[o] = "read" /\ relay[o] # "done" /\ relayed[o] < Response
  /\ relayed' = [relayed EXCEPT ![o] = @ + 1]
  /\ \/ /\ relayed[o] = next \/ "down" \in lost
        /\ next' = next + 1 /\ down' = Append(down, "DATA")
        /\ UNCHANGED lost
     \/ /\ lost' = IF relayed[o] = next THEN lost \cup {"down"} ELSE lost
        /\ UNCHANGED <<next, down>>
  /\ UNCHANGED <<userVars, upVars, up, stream, relay, reader, target, received, downVars>>

ReaderEnds(o) ==
  /\ reader[o] = "read"
  /\ reader' = [reader EXCEPT ![o] = "done"]
  /\ Arrives("FIN", down, "down")
  /\ UNCHANGED <<userVars, upVars, up, stream, relay, target, received, relayed, next, downVars>>

\* Mutant of ReadTargetEnd: what was read together with the end is not relayed.
ReadTargetEndEarly(o) == (relay[o] = "done" \/ target[o] = "closed") /\ ReaderEnds(o)

\* It sends a FIN at the end of the answer, or when the handler has closed the
\* connection.
ReadTargetEnd(o) ==
  /\ relay[o] = "done" \/ (target[o] = "closed" /\ relayed[o] = Response)
  /\ ReaderEnds(o)

\* HandleDownstream reads the next frame of Ordered, ends at a FIN or an RST, ...
ReadFrame ==
  /\ downstream = "read" /\ down # <<>>
  /\ down' = Tail(down)
  /\ downstream' = IF Head(down) = "DATA" THEN "write" ELSE "done"
  /\ UNCHANGED <<userVars, upVars, up, lost, handlerVars, next, got>>

\* ... and writes data to the user, which may fail when he has gone.
WriteUser ==
  /\ downstream = "write"
  /\ \/ user # "gone" /\ downstream' = "read" /\ got' = got + 1
     \/ user = "gone" /\ downstream' \in {"read", "done"} /\ UNCHANGED got
  /\ UNCHANGED <<userVars, upVars, up, lost, handlerVars, next, down>>

Upstream == SendOpen \/ ReadChunk \/ ReadEnd \/ ReadFails
ProxyHandler(o) ==
  \/ StartHandler(o) \/ DialFails(o) \/ DialSucceeds(o)
  \/ TakeFrame(o) \/ WriteTarget(o) \/ OrderedCloses(o)
Reader(o) == ReadTarget(o) \/ ReadTargetEnd(o)
Downstream == ReadFrame \/ WriteUser

ProxyNext ==
  \/ UserWrites \/ UserCloses \/ Upstream \/ Downstream
  \/ \E o \in Opens : ProxyHandler(o) \/ Reader(o) \/ AgainEnds(o) \/ TargetCloses(o)

ProxySpec == ProxyInit /\ [][ProxyNext]_proxyVars

\* Nothing is expected of the user and of a target: what is written to one that
\* is there may wait for ever, and so may what is read from it.
WritesInTime(o) == relay[o] = "write" => target[o] = "closed"
ReadsInTime(o) == relay[o] = "done" \/ target[o] = "closed"
AnswersInTime == downstream = "write" => user = "gone"

\* Otherwise all goroutines keep running, and a dial ends one way or the other.
ProxyFairness ==
  /\ WF_proxyVars(Upstream)
  /\ \A o \in Opens : WF_proxyVars(WritesInTime(o) /\ ProxyHandler(o))
  /\ \A o \in Opens : WF_proxyVars(ReadsInTime(o) /\ Reader(o))
  /\ WF_proxyVars(AnswersInTime /\ Downstream)

FairProxySpec == ProxySpec /\ ProxyFairness
-----------------------------------------------------------------------------
Writers == {o \in Opens : relay[o] = "write"}
Late == {o \in Opens : relay[o] = "again"}

\* HandleUpstream, HandleDownstream, and the handlers and readers of the stream.
Ended ==
  /\ upstream = "done" /\ downstream = "done"
  /\ \A o \in Opens \ Late : relay[o] \in {"none", "done"} /\ reader[o] # "read"

\* A write that need not return.
Blocked == ~AnswersInTime \/ \E o \in Opens : ~WritesInTime(o)

\* When the user or a target closes, or a dial fails, all goroutines of the
\* stream and all its connections end, whatever the order of the closes, however
\* many handlers there are and wherever the frames are, unless a frame was lost
\* or a write never returns.  (A handler that a late copy of the OPEN started has
\* a stream of its own, which nobody ends.)
EverythingEnds ==
  (user # "open" \/ "RST" \in {down[i] : i \in DOMAIN down}
     \/ \E o \in Opens : target[o] \in {"closed", "cut"})
    ~> (Ended \/ lost # {} \/ []Blocked)

\* No frame of the request was lost, and no target has closed.
Orderly == "up" \notin lost /\ \A o \in Opens : target[o] # "closed"

\* A request that ended in order has been taken by the targets, or is with a
\* handler that is writing it, before any of their connections is cut: between
\* them the handlers lose nothing, though each has a part of it.
RequestIntact ==
  (\E o \in Opens : target[o] = "cut") /\ user = "eof" /\ downstream # "done" /\ Orderly
    => received + Cardinality(Writers) = wrote

Alone(o) == \A p \in Opens \ {o} : relay[p] = "none"

\* With one handler, a user who has not closed is sent the whole answer but for
\* its first chunk before his connection is closed, if the target has received
\* everything he sent.  (A write that fails ends the handler and cuts the answer
\* off; so does the user's own FIN, which is no half-close.)
RestOfAnswer ==
  \A o \in Opens :
    Alone(o) /\ target[o] # "none" /\ downstream = "done" /\ user = "open" /\ "down" \notin lost
      => got = Response - 1 \/ received < taken
=============================================================================
