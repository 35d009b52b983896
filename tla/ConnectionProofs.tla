---------------------------- MODULE ConnectionProofs ----------------------------
(***************************************************************************)
(* Proofs about the two modules of a user's connection: ProxyConnection,   *)
(* which follows its bytes from the user to the targets and back, and      *)
(* Dispatcher, through which its frames go to the arteries.                *)
(***************************************************************************)
EXTENDS ProxyConnection, Dispatcher, FiniteSetTheorems, SequenceTheorems, TLAPS

(***************************************************************************)
(* ProxyConnection: the inductive invariant is what the frames under way   *)
(* say of both ends.                                                       *)
(***************************************************************************)
FrameTypes == {"DATA", "FIN", "RST"}

\* The state of a connection is typed.
ProxyTypeOK ==
  /\ user \in {"open", "eof", "gone"} /\ wrote \in Nat
  /\ upstream \in {"open", "read", "done"} /\ taken \in Nat /\ taken <= wrote
  /\ sent \in SUBSET Opens /\ up \in Seq(FrameTypes) /\ lost \in SUBSET {"up", "down"}
  /\ stream \in {"none", "open", "closed", "again"}
  /\ relay \in [Opens -> {"none", "dial", "relay", "write", "again", "done"}]
  /\ reader \in [Opens -> {"none", "read", "done"}]
  /\ target \in [Opens -> {"none", "open", "closed", "cut"}]
  /\ received \in Nat /\ relayed \in [Opens -> Nat]
  /\ next \in Nat /\ down \in Seq(FrameTypes)
  /\ downstream \in {"read", "write", "done"} /\ got \in Nat

\* A handler has its connection from its dial to its end, and has seen its stream
\* created; the other stream comes behind the end of that one.
HandlerShape ==
  \A o \in Opens :
    /\ relay[o] # "none" => stream # "none"
    /\ relay[o] = "again" => stream \in {"closed", "again"}
    /\ relay[o] \in {"none", "dial"} => target[o] = "none"
    /\ relay[o] \in {"relay", "write"} => target[o] \in {"open", "closed"}
    /\ reader[o] # "none" => target[o] # "none"

\* DATA, then FIN or RST, which ends the upstream.  FIN stands for a request that
\* was read to its end, RST for a connection that was closed under the reader.
UpShape ==
  \A i \in 1 .. Len(up) : up[i] # "DATA" =>
    /\ i = Len(up) /\ upstream = "done"
    /\ up[i] = "FIN" => taken = wrote /\ user # "open"
    /\ up[i] = "RST" => downstream = "done" \/ user = "gone"

\* Every chunk taken from the user is under way, with a handler that writes it,
\* or with a target, unless one was lost.
InUp == Len(up) - (IF up # <<>> /\ up[Len(up)] # "DATA" THEN 1 ELSE 0)

UpCount ==
  /\ received + Cardinality(Writers) + InUp <= taken
  /\ Orderly => received + Cardinality(Writers) + InUp = taken

\* The stream is closed behind the whole request, or the user is done with it.
RequestEnded ==
  \/ up = <<>> /\ upstream = "done" /\ taken = wrote /\ user # "open"
  \/ downstream = "done" \/ user = "gone"

CutBehind ==
  /\ \A o \in Opens : target[o] = "cut" => stream \in {"closed", "again"}
  /\ stream \in {"closed", "again"} /\ Orderly => RequestEnded

\* A handler without others: DATA, then the FIN of its reader.  The answer ends
\* before the connection of the user does, and short only behind a write to the
\* target that failed.
Answer(o) ==
  /\ relayed[o] <= Response /\ next = IF relayed[o] = 0 THEN 1 ELSE relayed[o]
  /\ relay[o] \in {"none", "dial"} =>
       down = <<>> /\ downstream = "read" /\ got = 0 /\ relayed[o] = 0
  /\ target[o] # "none" =>
       /\ reader[o] # "none"
       /\ \A i \in 1 .. Len(down) :
            down[i] # "DATA" => i = Len(down) /\ down[i] = "FIN" /\ reader[o] = "done"
       /\ downstream # "done" =>
            /\ reader[o] = "done" => down # <<>> /\ down[Len(down)] = "FIN"
            /\ got + (IF downstream = "write" THEN 1 ELSE 0) + Len(down)
                   - (IF reader[o] = "done" THEN 1 ELSE 0) = next - 1
       /\ downstream = "done" => reader[o] = "done" /\ got = next - 1
       /\ reader[o] = "done" => relayed[o] = Response \/ (relay[o] = "done" /\ received < taken)
       /\ relay[o] = "done" => reader[o] = "done" \/ received < taken

Solo(o) ==
  /\ relay[o] # "again"
  /\ relay[o] = "none" => stream = "none"
  /\ relay[o] \in {"dial", "relay", "write"} => stream = "open"
  /\ user = "open" /\ "down" \notin lost => Answer(o)

AnswerEnds == \A o \in Opens : Alone(o) => Solo(o)

ProxyInv ==
  /\ ProxyTypeOK /\ HandlerShape /\ UpShape /\ UpCount /\ CutBehind /\ AnswerEnds

-----------------------------------------------------------------------------
LEMMA AppendFacts ==
  ASSUME NEW S, NEW s \in Seq(S), NEW e \in S
  PROVE  /\ Append(s, e) \in Seq(S) /\ Len(s) \in Nat
         /\ Len(Append(s, e)) = Len(s) + 1
         /\ \A i \in 1 .. Len(s) : Append(s, e)[i] = s[i]
         /\ Append(s, e)[Len(s) + 1] = e
         /\ Append(s, e) # <<>>
  OBVIOUS

LEMMA TailFacts ==
  ASSUME NEW S, NEW s \in Seq(S), s # <<>>
  PROVE  /\ Tail(s) \in Seq(S) /\ Len(s) \in Nat \ {0}
         /\ Len(Tail(s)) = Len(s) - 1
         /\ \A i \in 1 .. Len(s) - 1 : Tail(s)[i] = s[i + 1]
         /\ Head(s) = s[1] /\ s[1] \in S
         /\ (Tail(s) # <<>>) <=> (Len(s) > 1)
         /\ 1 \in 1 .. Len(s) /\ Len(s) \in 1 .. Len(s)
         /\ \A i \in 1 .. Len(Tail(s)) : i + 1 \in 1 .. Len(s)
<1>1. Tail(s) \in Seq(S) /\ Len(s) \in Nat \ {0} /\ Len(Tail(s)) = Len(s) - 1
  BY HeadTailProperties, EmptySeq
<1>2. \A i \in 1 .. Len(s) - 1 : Tail(s)[i] = s[i + 1]
  BY <1>1, HeadTailProperties
<1>3. Head(s) = s[1] /\ s[1] \in S
  BY <1>1
<1>4. (Tail(s) = <<>>) <=> (Len(Tail(s)) = 0)
  BY <1>1, EmptySeq
<1>. QED  BY <1>1, <1>2, <1>3, <1>4

LEMMA StartProxy == ProxyInit => ProxyInv
<1>. SUFFICES ASSUME ProxyInit PROVE ProxyInv
  OBVIOUS
<1>. USE ProxyAssumption DEF ProxyInit
<1>1. ProxyTypeOK
  BY DEF ProxyTypeOK, FrameTypes
<1>2. HandlerShape /\ UpShape /\ CutBehind
  BY DEF HandlerShape, UpShape, CutBehind
<1>3. UpCount
  <2>1. Writers = {}
    BY DEF Writers
  <2>. QED  BY <2>1, FS_EmptySet DEF UpCount, InUp
<1>4. AnswerEnds
  BY DEF AnswerEnds, Solo, Answer
<1>. QED  BY <1>1, <1>2, <1>3, <1>4 DEF ProxyInv

LEMMA WritersNumber == IsFiniteSet(Writers) /\ Cardinality(Writers) \in Nat
  BY ProxyAssumption, FS_Subset, FS_CardinalityType DEF Writers

\* A handler that begins or ends a write.
LEMMA WritersChange ==
  ASSUME ProxyTypeOK, NEW o \in Opens, NEW r, relay' = [relay EXCEPT ![o] = r]
  PROVE  /\ r # "write" /\ relay[o] # "write" => Cardinality(Writers)' = Cardinality(Writers)
         /\ r = "write" /\ relay[o] # "write" => Cardinality(Writers)' = Cardinality(Writers) + 1
         /\ r # "write" /\ relay[o] = "write" =>
              Cardinality(Writers)' = Cardinality(Writers) - 1 /\ Cardinality(Writers) >= 1
<1>1. \A p \in Opens : relay'[p] = IF p = o THEN r ELSE relay[p]
  BY DEF ProxyTypeOK
<1>2. CASE r # "write" /\ relay[o] # "write"
  BY <1>1, <1>2 DEF Writers
<1>3. CASE r = "write" /\ relay[o] # "write"
  <2>1. Writers' = Writers \cup {o} /\ o \notin Writers
    BY <1>1, <1>3 DEF Writers
  <2>. QED  BY <2>1, <1>3, FS_AddElement, WritersNumber
<1>4. CASE r # "write" /\ relay[o] = "write"
  <2>1. Writers' = Writers \ {o} /\ o \in Writers
    BY <1>1, <1>4 DEF Writers
  <2>2. Cardinality(Writers)' = Cardinality(Writers) - 1
    BY <2>1, FS_RemoveElement, WritersNumber
  <2>3. Cardinality(Writers)' \in Nat
    BY <2>1, FS_RemoveElement, WritersNumber, FS_CardinalityType
  <2>. QED  BY <2>2, <2>3, <1>4, WritersNumber
<1>. QED  BY <1>2, <1>3, <1>4

\* A step of a handler that others have not joined leaves it alone.
LEMMA StaysAlone ==
  ASSUME ProxyTypeOK, NEW p \in Opens, NEW r, r # "none", relay' = [relay EXCEPT ![p] = r],
         NEW o \in Opens, Alone(o)'
  PROVE  o = p /\ Alone(o)
  BY DEF Alone, ProxyTypeOK

\* A step that leaves the handlers' frames and the writes as they are.
LEMMA UserStep ==
  ASSUME ProxyInv, UserWrites \/ UserCloses
  PROVE  ProxyInv'
<1>. USE DEF ProxyInv, UserWrites, UserCloses, userVars, upVars, handlerVars, downVars
<1>1. ProxyTypeOK'
  <2>1. user' \in {"open", "eof", "gone"} /\ wrote' \in Nat /\ taken <= wrote'
    BY DEF ProxyTypeOK
  <2>. QED  BY <2>1 DEF ProxyTypeOK
<1>2. HandlerShape' /\ UpShape'
  BY DEF HandlerShape, UpShape, ProxyTypeOK
<1>3. UpCount'
  BY DEF UpCount, InUp, Orderly, Writers
<1>4. CutBehind'
  BY DEF CutBehind, RequestEnded, Orderly
<1>5. AnswerEnds'
  BY DEF AnswerEnds, Alone, Solo, Answer
<1>. QED  BY <1>1, <1>2, <1>3, <1>4, <1>5

\* What appending a frame to a request that has not ended makes of it.
LEMMA AppendUp ==
  ASSUME up \in Seq(FrameTypes), \A i \in 1 .. Len(up) : up[i] = "DATA",
         NEW f \in FrameTypes, up' = Append(up, f)
  PROVE  /\ up' \in Seq(FrameTypes)
         /\ \A i \in 1 .. Len(up') : up'[i] # "DATA" => i = Len(up') /\ up'[i] = f
         /\ InUp' = IF f = "DATA" THEN Len(up) + 1 ELSE Len(up)
<1>1. /\ up' \in Seq(FrameTypes) /\ Len(up) \in Nat /\ Len(up') = Len(up) + 1
      /\ \A i \in 1 .. Len(up) : up'[i] = up[i]
      /\ up'[Len(up')] = f /\ up' # <<>>
  BY AppendFacts
<1>2. \A i \in 1 .. Len(up') : i # Len(up') => up'[i] = "DATA"
  BY <1>1
<1>3. CASE f = "DATA"
  <2>1. ~(up' # <<>> /\ up'[Len(up')] # "DATA")
    BY <1>1, <1>3
  <2>. QED  BY <1>1, <1>2, <1>3, <2>1 DEF InUp
<1>4. CASE f # "DATA"
  <2>1. up' # <<>> /\ up'[Len(up')] # "DATA"
    BY <1>1, <1>4
  <2>. QED  BY <1>1, <1>2, <1>4, <2>1 DEF InUp
<1>. QED  BY <1>3, <1>4

\* HandleUpstream: nothing is behind an end that has been appended.
LEMMA UpstreamStep ==
  ASSUME ProxyInv, Upstream
  PROVE  ProxyInv'
<1>. USE DEF ProxyInv, userVars, handlerVars, downVars
<1>1. CASE SendOpen
  <2>. USE <1>1 DEF SendOpen
  <2>1. ProxyTypeOK' /\ HandlerShape'
    BY DEF ProxyTypeOK, HandlerShape
  <2>2. UpShape'
    BY DEF UpShape
  <2>3. UpCount' /\ CutBehind'
    <3>1. lost \subseteq lost'
      OBVIOUS
    <3>2. (Orderly' => Orderly) /\ InUp' = InUp /\ Writers' = Writers /\ (RequestEnded => RequestEnded')
      BY <3>1, EmptySeq DEF Orderly, InUp, Writers, RequestEnded
    <3>. QED  BY <3>2 DEF UpCount, CutBehind
  <2>4. AnswerEnds'
    BY DEF AnswerEnds, Alone, Solo, Answer
  <2>. QED  BY <2>1, <2>2, <2>3, <2>4
<1>2. CASE ReadChunk \/ ReadEnd \/ ReadFails
  <2>. USE DEF ReadChunk, ReadEnd, ReadFails, UpstreamEnds, Arrives
  <2>0. /\ upstream = "read"
        /\ UNCHANGED <<userVars, sent, handlerVars, next, down, downVars>>
        /\ lost' \in SUBSET {"up", "down"} /\ lost \subseteq lost' /\ lost' \ lost \subseteq {"up"}
        /\ taken' \in Nat /\ taken' <= wrote /\ taken <= taken'
        /\ upstream' \in {"read", "done"}
    <3>1. lost \in SUBSET {"up", "down"} /\ wrote \in Nat /\ taken \in Nat /\ taken <= wrote
      BY DEF ProxyTypeOK
    <3>2. lost' = lost \/ lost' = lost \cup {"up"}
      BY <1>2
    <3>3. lost' \in SUBSET {"up", "down"} /\ lost \subseteq lost' /\ lost' \ lost \subseteq {"up"}
      BY <3>1, <3>2
    <3>4. taken' = taken \/ (taken < wrote /\ taken' = taken + 1)
      BY <1>2
    <3>5. taken' \in Nat /\ taken' <= wrote /\ taken <= taken'
      BY <3>1, <3>4
    <3>6. /\ upstream = "read" /\ upstream' \in {"read", "done"}
          /\ UNCHANGED <<userVars, sent, handlerVars, next, down, downVars>>
      BY <1>2
    <3>. QED  BY <3>3, <3>5, <3>6
  <2>1. \/ up' = up /\ ("up" \in lost' \/ taken' = taken)
        \/ up' = Append(up, "DATA") /\ taken' = taken + 1 /\ upstream' = "read" /\ lost' = lost
        \/ \E f \in {"FIN", "RST"} :
             /\ up' = Append(up, f) /\ taken' = taken /\ upstream' = "done" /\ lost' = lost
             /\ f = "FIN" => taken = wrote /\ user # "open"
             /\ f = "RST" => downstream = "done" \/ user = "gone"
    BY <1>2
  <2>2. \A i \in 1 .. Len(up) : up[i] = "DATA"
    BY <2>0 DEF UpShape
  <2>3. InUp = Len(up) /\ Len(up) \in Nat
    <3>1. Len(up) \in Nat /\ (up # <<>> => Len(up) > 0)
      BY EmptySeq DEF ProxyTypeOK
    <3>. QED  BY <3>1, <2>2 DEF InUp
  <2>4. /\ up' \in Seq(FrameTypes)
        /\ \A i \in 1 .. Len(up') : up'[i] # "DATA" =>
             /\ i = Len(up') /\ upstream' = "done"
             /\ up'[i] = "FIN" => taken' = wrote /\ user # "open"
             /\ up'[i] = "RST" => downstream = "done" \/ user = "gone"
        /\ InUp' <= Len(up) + (taken' - taken) /\ InUp' \in Nat
        /\ "up" \notin lost' => InUp' = Len(up) + (taken' - taken)
    <3>1. CASE up' = up /\ ("up" \in lost' \/ taken' = taken)
      <4>1. InUp' = Len(up) /\ up' \in Seq(FrameTypes)
        BY <3>1, <2>3 DEF InUp, ProxyTypeOK
      <4>2. taken \in Nat
        BY DEF ProxyTypeOK
      <4>. HIDE DEF ProxyInv, ReadChunk, ReadEnd, ReadFails
      <4>. QED  BY <3>1, <4>1, <4>2, <2>0, <2>2, <2>3
    <3>2. ASSUME NEW f \in FrameTypes, up' = Append(up, f), lost' = lost,
                 taken' = IF f = "DATA" THEN taken + 1 ELSE taken,
                 f # "DATA" => upstream' = "done",
                 f = "FIN" => taken = wrote /\ user # "open",
                 f = "RST" => downstream = "done" \/ user = "gone"
          PROVE <2>4
      <4>1. /\ up' \in Seq(FrameTypes)
            /\ \A i \in 1 .. Len(up') : up'[i] # "DATA" => i = Len(up') /\ up'[i] = f
            /\ InUp' = IF f = "DATA" THEN Len(up) + 1 ELSE Len(up)
        BY <2>2, <3>2, AppendUp DEF ProxyTypeOK
      <4>5. taken \in Nat
        BY DEF ProxyTypeOK
      <4>. HIDE DEF ProxyInv, ReadChunk, ReadEnd, ReadFails
      <4>6. InUp' \in Nat /\ InUp' = Len(up) + (taken' - taken)
        BY <2>3, <3>2, <4>1, <4>5
      <4>7. \A i \in 1 .. Len(up') : up'[i] # "DATA" =>
              /\ i = Len(up') /\ upstream' = "done"
              /\ up'[i] = "FIN" => taken' = wrote /\ user # "open"
              /\ up'[i] = "RST" => downstream = "done" \/ user = "gone"
        BY <3>2, <4>1
      <4>. QED  BY <4>1, <4>6, <4>7
    <3>. QED  BY <3>1, <3>2, <2>1 DEF FrameTypes
  <2>5. ProxyTypeOK' /\ HandlerShape'
    BY <2>0, <2>4 DEF ProxyTypeOK, HandlerShape
  <2>6. UpShape'
    BY <2>0, <2>4 DEF UpShape
  <2>7. UpCount'
    <3>1. Cardinality(Writers)' = Cardinality(Writers) /\ Cardinality(Writers) \in Nat
      BY <2>0, WritersNumber DEF Writers
    <3>2. Orderly' => Orderly /\ "up" \notin lost'
      BY <2>0 DEF Orderly
    <3>3. received \in Nat /\ received' = received /\ taken \in Nat
      BY <2>0 DEF ProxyTypeOK
    <3>4. /\ received + Cardinality(Writers) + Len(up) <= taken
          /\ Orderly => received + Cardinality(Writers) + Len(up) = taken
      BY <2>3 DEF UpCount
    <3>. HIDE DEF ProxyInv, ReadChunk, ReadEnd, ReadFails
    <3>5. taken' \in Nat /\ Len(up) \in Nat /\ InUp' \in Nat
      BY <2>0, <2>2, <2>3, <2>4, <3>3
    <3>6. received' + Cardinality(Writers)' + InUp' <= taken'
      BY ONLY <2>4, <3>1, <3>3, <3>4, <3>5
    <3>7. Orderly' => received' + Cardinality(Writers)' + InUp' = taken'
      BY ONLY <2>4, <3>1, <3>2, <3>3, <3>4, <3>5
    <3>. QED  BY ONLY <3>6, <3>7 DEF UpCount
  <2>8. CutBehind'
    BY <2>0 DEF CutBehind, RequestEnded, Orderly
  <2>9. AnswerEnds'
    BY <2>0 DEF AnswerEnds, Alone, Solo, Answer, ProxyTypeOK
  <2>. QED  BY <2>5, <2>6, <2>7, <2>8, <2>9
<1>. QED  BY <1>1, <1>2 DEF Upstream

\* A step of a handler with its own frames only.
LEMMA StartStep ==
  ASSUME ProxyInv, NEW p \in Opens, StartHandler(p)
  PROVE  ProxyInv'
<1>. USE DEF ProxyInv, StartHandler, userVars, upVars, downVars
<1>1. relay' = [relay EXCEPT ![p] = "dial"] /\ relay \in [Opens -> {"none", "dial", "relay", "write", "again", "done"}]
  BY DEF ProxyTypeOK
<1>2. ProxyTypeOK'
  BY DEF ProxyTypeOK
<1>3. HandlerShape' /\ UpShape'
  BY <1>1 DEF HandlerShape, UpShape
<1>4. UpCount'
  <2>1. Cardinality(Writers)' = Cardinality(Writers) /\ InUp' = InUp /\ (Orderly' => Orderly)
    BY <1>1, WritersChange DEF InUp, Orderly
  <2>. QED  BY <2>1 DEF UpCount
<1>5. CutBehind'
  BY DEF CutBehind, RequestEnded, Orderly, ProxyTypeOK
<1>6. AnswerEnds'
  <2>. SUFFICES ASSUME NEW o \in Opens, Alone(o)' PROVE Solo(o)'
    BY DEF AnswerEnds
  <2>1. o = p /\ Solo(o)
    BY StaysAlone DEF AnswerEnds
  <2>2. relay[o] = "none" /\ relay'[o] = "dial" /\ target[o] = "none"
    BY <1>1, <2>1 DEF HandlerShape
  <2>3. stream' = "open"
    BY <2>1, <2>2 DEF Solo
  <2>4. Answer(o) => Answer(o)'
    BY <2>2 DEF Answer
  <2>. QED  BY <2>1, <2>2, <2>3, <2>4 DEF Solo
<1>. QED  BY <1>2, <1>3, <1>4, <1>5, <1>6

LEMMA DialStep ==
  ASSUME ProxyInv, NEW p \in Opens, DialFails(p) \/ DialSucceeds(p)
  PROVE  ProxyInv'
<1>. USE DEF ProxyInv, userVars, upVars, downVars
<1>0. PICK r \in {"relay", "again", "done"} :
        /\ relay' = [relay EXCEPT ![p] = r]
        /\ r = "relay" => target' = [target EXCEPT ![p] = "open"] /\ stream = "open"
        /\ r = "again" => stream # "open" /\ stream # "closed" /\ DialSucceeds(p)
        /\ DialSucceeds(p) => r = "relay" \/ stream # "open"
  BY DEF DialFails, DialSucceeds
<1>1. /\ relay[p] = "dial" /\ target[p] = "none" /\ reader[p] = "none"
      /\ UNCHANGED <<userVars, upVars, up, stream, received, relayed, next, downVars>>
      /\ relay \in [Opens -> {"none", "dial", "relay", "write", "again", "done"}]
  BY DEF DialFails, DialSucceeds, HandlerShape, ProxyTypeOK
<1>2. \/ /\ DialFails(p) /\ target' = target /\ reader' = reader /\ r = "done"
         /\ (down' = Append(down, "RST") /\ lost' = lost) \/ (lost' = lost \cup {"down"} /\ down' = down)
      \/ /\ DialSucceeds(p) /\ lost' = lost /\ down' = down
         /\ target' = [target EXCEPT ![p] = IF stream = "closed" THEN "cut" ELSE "open"]
         /\ IF stream = "closed" THEN reader' = reader
                                 ELSE reader' = [reader EXCEPT ![p] = "read"]
  BY <1>0, <1>1 DEF DialFails, DialSucceeds, Arrives, ProxyTypeOK
<1>3. ProxyTypeOK'
  <2>1. down' \in Seq(FrameTypes) /\ lost' \in SUBSET {"up", "down"}
    <3>1. down \in Seq(FrameTypes) /\ Append(down, "RST") \in Seq(FrameTypes)
      BY AppendFacts DEF ProxyTypeOK, FrameTypes
    <3>2. lost \in SUBSET {"up", "down"} /\ (lost' = lost \/ lost' = lost \cup {"down"})
      BY <1>2 DEF ProxyTypeOK
    <3>. QED  BY <1>2, <3>1, <3>2
  <2>. QED  BY <1>0, <1>1, <1>2, <2>1 DEF ProxyTypeOK
<1>4. HandlerShape' /\ UpShape'
  BY <1>0, <1>1, <1>2 DEF HandlerShape, UpShape, ProxyTypeOK
<1>5. (Orderly' => Orderly) /\ InUp' = InUp
  BY <1>1, <1>2 DEF Orderly, InUp, ProxyTypeOK
<1>6. UpCount' /\ CutBehind'
  <2>1. Cardinality(Writers)' = Cardinality(Writers)
    BY <1>0, <1>1, WritersChange
  <2>. QED  BY <1>0, <1>1, <1>2, <1>5, <2>1 DEF UpCount, CutBehind, RequestEnded, ProxyTypeOK
<1>7. AnswerEnds'
  <2>. SUFFICES ASSUME NEW o \in Opens, Alone(o)' PROVE Solo(o)'
    BY DEF AnswerEnds
  <2>1. o = p /\ Solo(o) /\ stream = "open"
    BY <1>0, <1>1, StaysAlone DEF AnswerEnds, Solo
  <2>2. r # "again" /\ relay'[o] = r
    BY <1>0, <1>1, <2>1
  <2>3. ASSUME user' = "open", "down" \notin lost' PROVE Answer(o)'
    <3>1. user = "open" /\ "down" \notin lost /\ Answer(o)
      BY <1>1, <1>2, <2>1, <2>3 DEF Solo
    <3>2. /\ down = <<>> /\ downstream = "read" /\ got = 0 /\ relayed[o] = 0 /\ next = 1
      BY <1>1, <2>1, <3>1 DEF Answer
    <3>3. CASE target' = target /\ r = "done"
      <4>1. target'[o] = "none" /\ relay'[o] = "done" /\ relayed' = relayed /\ next' = next
        BY <1>1, <2>1, <2>2, <3>3
      <4>. QED  BY <3>1, <4>1 DEF Answer
    <3>4. CASE DialSucceeds(p)
      <4>1. down' = <<>> /\ Len(down') = 0 /\ r = "relay" /\ reader'[o] = "read"
        BY <1>0, <1>2, <2>1, <3>2, <3>4 DEF DialSucceeds, ProxyTypeOK, DialFails
      <4>. QED  BY <1>1, <2>2, <3>1, <3>2, <4>1 DEF Answer
    <3>. QED  BY <1>2, <3>3, <3>4
  <2>. QED  BY <1>0, <1>1, <2>1, <2>2, <2>3 DEF Solo
<1>. QED  BY <1>3, <1>4, <1>6, <1>7

\* The handler takes the first frame: its state is that of the frame behind it.
LEMMA TakeUp ==
  ASSUME ProxyInv, up # <<>>, up' = Tail(up)
  PROVE  /\ up' \in Seq(FrameTypes) /\ Len(up) \in Nat \ {0} /\ Len(up') = Len(up) - 1
         /\ \A i \in 1 .. Len(up') : i + 1 \in 1 .. Len(up) /\ up'[i] = up[i + 1]
         /\ Head(up) = up[1] /\ up[1] \in FrameTypes
         /\ InUp \in Nat /\ InUp' \in Nat
         /\ InUp' = IF up[1] = "DATA" THEN InUp - 1 ELSE InUp
         /\ up[1] # "DATA" => up' = <<>> /\ InUp = 0
<1>1. /\ up' \in Seq(FrameTypes) /\ Len(up) \in Nat \ {0} /\ Len(up') = Len(up) - 1
      /\ \A i \in 1 .. Len(up') : i + 1 \in 1 .. Len(up) /\ up'[i] = up[i + 1]
      /\ Head(up) = up[1] /\ up[1] \in FrameTypes
      /\ (up' # <<>>) <=> (Len(up) > 1)
      /\ 1 \in 1 .. Len(up)
  BY TailFacts DEF ProxyInv, ProxyTypeOK
<1>2. \A i \in 1 .. Len(up) : up[i] # "DATA" => i = Len(up)
  BY DEF ProxyInv, UpShape
<1>3. CASE Len(up) = 1
  BY <1>1, <1>3 DEF InUp
<1>4. CASE Len(up) > 1
  <2>1. up[1] = "DATA" /\ up' # <<>> /\ up'[Len(up')] = up[Len(up)]
    <3>0. 1 # Len(up) /\ 1 \in 1 .. Len(up)
      BY <1>1, <1>4
    <3>1. up[1] = "DATA" /\ up' # <<>>
      BY <3>0, <1>1, <1>2, <1>4, Zenon
    <3>2. Len(up') \in 1 .. Len(up') /\ Len(up') + 1 = Len(up)
      BY <1>1, <1>4
    <3>. QED  BY <1>1, <3>1, <3>2
  <2>. QED  BY <1>1, <1>4, <2>1 DEF InUp
<1>. QED  BY <1>1, <1>3, <1>4

\* A handler that ends where the request has.
LEMMA TakeStep ==
  ASSUME ProxyInv, NEW p \in Opens, TakeFrame(p)
  PROVE  ProxyInv'
<1>. USE DEF ProxyInv, userVars, upVars, downVars
<1>1. /\ relay[p] = "relay" /\ target[p] \in {"open", "closed"} /\ up' = Tail(up) /\ up # <<>>
      /\ UNCHANGED <<userVars, upVars, lost, reader, received, relayed, next, down, downVars>>
      /\ relay \in [Opens -> {"none", "dial", "relay", "write", "again", "done"}]
  BY DEF TakeFrame, HandlerShape, ProxyTypeOK
<1>2. \/ /\ up[1] = "DATA" /\ target' = target /\ stream' = stream
         /\ relay' = [relay EXCEPT ![p] = "write"]
      \/ /\ up[1] # "DATA" /\ stream' = "closed"
         /\ relay' = [relay EXCEPT ![p] = "done"]
         /\ target' = [target EXCEPT ![p] = IF @ = "open" THEN "cut" ELSE @]
  BY <1>1, TakeUp DEF TakeFrame, HandlerEnds
<1>3. ProxyTypeOK'
  <2>1. up' \in Seq(FrameTypes)
    BY <1>1, TakeUp
  <2>. QED  BY <1>1, <1>2, <2>1 DEF ProxyTypeOK
<1>4. HandlerShape'
  BY <1>1, <1>2 DEF HandlerShape, ProxyTypeOK
<1>5. UpShape'
  BY <1>1, TakeUp DEF UpShape
<1>6. Orderly' <=> Orderly
  BY <1>1, <1>2 DEF Orderly, ProxyTypeOK
<1>7. UpCount'
  <2>1. /\ up[1] = "DATA" => Cardinality(Writers)' = Cardinality(Writers) + 1
        /\ up[1] # "DATA" => Cardinality(Writers)' = Cardinality(Writers)
    BY <1>1, <1>2, WritersChange
  <2>2. /\ InUp \in Nat /\ InUp' = IF up[1] = "DATA" THEN InUp - 1 ELSE InUp
        /\ Cardinality(Writers) \in Nat /\ received \in Nat /\ taken \in Nat
    BY <1>1, TakeUp, WritersNumber DEF ProxyTypeOK
  <2>3. /\ received + Cardinality(Writers) + InUp <= taken
        /\ Orderly => received + Cardinality(Writers) + InUp = taken
        /\ received' = received /\ taken' = taken
    BY <1>1 DEF UpCount
  <2>. HIDE DEF ProxyInv
  <2>. QED  BY <1>6, <2>1, <2>2, <2>3 DEF UpCount
<1>8. up[1] # "DATA" => RequestEnded' /\ (up[1] = "FIN" => user # "open")
                        /\ (up[1] = "RST" => downstream = "done" \/ user = "gone")
  BY <1>1, TakeUp DEF UpShape, RequestEnded, FrameTypes
<1>9. CutBehind'
  <2>1. stream \in {"closed", "again"} /\ Orderly => RequestEnded'
    BY <1>1 DEF CutBehind, RequestEnded
  <2>. QED  BY <1>1, <1>2, <1>6, <1>8, <2>1 DEF CutBehind, ProxyTypeOK
<1>10. AnswerEnds'
  <2>. SUFFICES ASSUME NEW o \in Opens, Alone(o)' PROVE Solo(o)'
    BY DEF AnswerEnds
  <2>1. o = p /\ Solo(o) /\ relay'[o] \in {"write", "done"}
    BY <1>1, <1>2, StaysAlone DEF AnswerEnds
  <2>2. relay'[o] = "write" => stream' = "open"
    BY <1>1, <1>2, <2>1 DEF Solo
  <2>3. ASSUME user = "open", "down" \notin lost PROVE Answer(o)'
    <3>1. Answer(o) /\ target[o] # "none" /\ target'[o] # "none" /\ relay[o] = "relay"
      BY <1>1, <1>2, <2>1, <2>3 DEF Solo, ProxyTypeOK
    <3>2. relay'[o] = "done" => downstream = "done"
      BY <1>1, <1>2, <1>8, <2>1, <2>3, TakeUp DEF FrameTypes
    <3>. QED  BY <1>1, <2>1, <3>1, <3>2 DEF Answer
  <2>. QED  BY <1>1, <2>1, <2>2, <2>3 DEF Solo
<1>. QED  BY <1>3, <1>4, <1>5, <1>7, <1>9, <1>10

\* A write that fails has left a chunk behind.
LEMMA WriteTargetStep ==
  ASSUME ProxyInv, NEW p \in Opens, WriteTarget(p)
  PROVE  ProxyInv'
<1>. USE DEF ProxyInv, userVars, upVars, downVars
<1>1. /\ relay[p] = "write" /\ target[p] \in {"open", "closed"}
      /\ UNCHANGED <<userVars, upVars, up, lost, reader, relayed, next, down, downVars>>
      /\ relay \in [Opens -> {"none", "dial", "relay", "write", "again", "done"}]
      /\ target \in [Opens -> {"none", "open", "closed", "cut"}]
  BY DEF WriteTarget, HandlerShape, ProxyTypeOK
<1>2. PICK r \in {"relay", "done"} :
        /\ relay' = [relay EXCEPT ![p] = r] /\ target' = target
        /\ received' = IF target[p] = "open" THEN received + 1 ELSE received
        /\ stream' = IF r = "done" THEN "closed" ELSE stream
        /\ r = "done" => target[p] = "closed"
  BY <1>1 DEF WriteTarget, HandlerEnds
<1>3. ProxyTypeOK'
  <2>1. received' \in Nat
    BY <1>2 DEF ProxyTypeOK
  <2>. QED  BY <1>1, <1>2, <2>1 DEF ProxyTypeOK
<1>4. HandlerShape' /\ UpShape'
  BY <1>1, <1>2 DEF HandlerShape, UpShape
<1>5. Orderly' <=> Orderly
  BY <1>1, <1>2 DEF Orderly
<1>6. /\ Cardinality(Writers)' = Cardinality(Writers) - 1 /\ Cardinality(Writers) >= 1
      /\ Cardinality(Writers) \in Nat
  BY <1>1, <1>2, WritersChange, WritersNumber
<1>7. /\ InUp' = InUp /\ InUp \in Nat /\ received \in Nat /\ taken \in Nat
      /\ received + Cardinality(Writers) + InUp <= taken
      /\ Orderly => received + Cardinality(Writers) + InUp = taken
  <2>1. Len(up) \in Nat /\ (up # <<>> => Len(up) > 0)
    BY EmptySeq DEF ProxyTypeOK
  <2>2. InUp \in Nat
    BY <2>1 DEF InUp
  <2>. QED  BY <1>1, <2>2 DEF InUp, UpCount, ProxyTypeOK
<1>8. UpCount'
  <2>1. taken' = taken /\ (target[p] = "closed" => ~Orderly)
    BY <1>1 DEF Orderly
  <2>. HIDE DEF ProxyInv
  <2>. QED  BY <1>1, <1>2, <1>5, <1>6, <1>7, <2>1 DEF UpCount
<1>9. received < taken
  <2>. HIDE DEF ProxyInv
  <2>. QED  BY <1>6, <1>7
<1>10. CutBehind'
  BY <1>1, <1>2, <1>5 DEF CutBehind, RequestEnded, Orderly, ProxyTypeOK
<1>11. AnswerEnds'
  <2>. SUFFICES ASSUME NEW o \in Opens, Alone(o)' PROVE Solo(o)'
    BY DEF AnswerEnds
  <2>1. o = p /\ Solo(o) /\ relay'[o] = r
    BY <1>1, <1>2, StaysAlone DEF AnswerEnds
  <2>2. r = "relay" => stream' = "open"
    BY <1>1, <1>2, <2>1 DEF Solo
  <2>3. r = "done" => received' < taken'
    BY <1>1, <1>2, <1>9
  <2>4. ASSUME user = "open", "down" \notin lost PROVE Answer(o)'
    <3>1. Answer(o) /\ relay[o] = "write" /\ target' = target
      BY <1>1, <1>2, <2>1, <2>4 DEF Solo
    <3>. QED  BY <1>1, <1>2, <2>1, <2>3, <3>1 DEF Answer
  <2>. QED  BY <1>1, <1>2, <2>1, <2>2, <2>4 DEF Solo
<1>. QED  BY <1>3, <1>4, <1>8, <1>10, <1>11

\* A handler that ends because another has closed the stream was not alone.
LEMMA CloseStep ==
  ASSUME ProxyInv, NEW p \in Opens, OrderedCloses(p) \/ AgainEnds(p)
  PROVE  ProxyInv'
<1>. USE DEF ProxyInv, userVars, upVars, downVars
<1>1. /\ relay[p] \in {"relay", "again"} /\ stream \in {"closed", "again"}
      /\ relay' = [relay EXCEPT ![p] = "done"] /\ stream' = "closed"
      /\ target' = [target EXCEPT ![p] = IF @ = "open" THEN "cut" ELSE @]
      /\ UNCHANGED <<userVars, upVars, up, lost, reader, received, relayed, next, down, downVars>>
      /\ relay \in [Opens -> {"none", "dial", "relay", "write", "again", "done"}]
      /\ target \in [Opens -> {"none", "open", "closed", "cut"}]
  BY DEF OrderedCloses, AgainEnds, HandlerEnds, HandlerShape, ProxyTypeOK
<1>2. ProxyTypeOK'
  BY <1>1 DEF ProxyTypeOK
<1>3. HandlerShape' /\ UpShape'
  BY <1>1 DEF HandlerShape, UpShape
<1>4. (Orderly' <=> Orderly) /\ InUp' = InUp /\ (RequestEnded' <=> RequestEnded)
  BY <1>1 DEF Orderly, InUp, RequestEnded
<1>5. UpCount'
  BY <1>1, <1>4, WritersChange DEF UpCount
<1>6. CutBehind'
  BY <1>1, <1>4 DEF CutBehind
<1>7. AnswerEnds'
  BY <1>1, StaysAlone DEF AnswerEnds, Solo
<1>. QED  BY <1>2, <1>3, <1>5, <1>6, <1>7

LEMMA TargetStep ==
  ASSUME ProxyInv, NEW p \in Opens, TargetCloses(p)
  PROVE  ProxyInv'
<1>. USE DEF ProxyInv, TargetCloses, userVars, upVars, downVars
<1>1. ~Orderly' /\ target' = [target EXCEPT ![p] = "closed"] /\ target[p] = "open"
      /\ target \in [Opens -> {"none", "open", "closed", "cut"}]
  BY DEF Orderly, ProxyTypeOK
<1>2. ProxyTypeOK'
  BY DEF ProxyTypeOK
<1>3. HandlerShape' /\ UpShape'
  BY <1>1 DEF HandlerShape, UpShape
<1>4. UpCount' /\ CutBehind'
  BY <1>1 DEF UpCount, InUp, Writers, CutBehind
<1>5. AnswerEnds'
  BY <1>1 DEF AnswerEnds, Alone, Solo, Answer
<1>. QED  BY <1>2, <1>3, <1>4, <1>5

\* The reader appends what it relays, in the order of its numbers, and its FIN.
LEMMA ReaderStep ==
  ASSUME ProxyInv, NEW p \in Opens, Reader(p)
  PROVE  ProxyInv'
<1>. USE DEF ProxyInv, userVars, upVars, downVars
<1>1. /\ reader[p] = "read" /\ target[p] # "none" /\ relay[p] # "none"
      /\ UNCHANGED <<userVars, upVars, up, stream, relay, target, received, downVars>>
      /\ reader \in [Opens -> {"none", "read", "done"}] /\ relayed \in [Opens -> Nat]
      /\ next \in Nat /\ down \in Seq(FrameTypes) /\ lost \in SUBSET {"up", "down"}
  BY DEF Reader, ReadTarget, ReadTargetEnd, ReaderEnds, HandlerShape, ProxyTypeOK
<1>2. \/ /\ reader' = reader /\ relayed' = [relayed EXCEPT ![p] = @ + 1]
         /\ relayed[p] < Response /\ relay[p] # "done"
         /\ \/ /\ relayed[p] = next \/ "down" \in lost
               /\ down' = Append(down, "DATA") /\ next' = next + 1 /\ lost' = lost
            \/ /\ down' = down /\ next' = next /\ relayed[p] # next /\ lost' = lost
            \/ /\ down' = down /\ next' = next /\ lost' = lost \cup {"down"}
      \/ /\ reader' = [reader EXCEPT ![p] = "done"] /\ relayed' = relayed /\ next' = next
         /\ relay[p] = "done" \/ relayed[p] = Response
         /\ \/ down' = Append(down, "FIN") /\ lost' = lost
            \/ down' = down /\ lost' = lost \cup {"down"}
  BY DEF Reader, ReadTarget, ReadTargetEnd, ReaderEnds, Arrives
<1>3. /\ Len(down) \in Nat
      /\ \A f \in {"DATA", "FIN"} :
           /\ Append(down, f) \in Seq(FrameTypes) /\ Len(Append(down, f)) = Len(down) + 1
           /\ \A i \in 1 .. Len(down) : Append(down, f)[i] = down[i]
           /\ Append(down, f)[Len(down) + 1] = f /\ Append(down, f) # <<>>
  <2>1. down \in Seq(FrameTypes) /\ {"DATA", "FIN"} \subseteq FrameTypes
    BY <1>1 DEF FrameTypes
  <2>. QED  BY <2>1, AppendFacts
<1>4. ProxyTypeOK'
  <2>1. down' \in Seq(FrameTypes)
    BY <1>1, <1>2, <1>3
  <2>2. lost' \in SUBSET {"up", "down"}
    BY <1>1, <1>2
  <2>3. next' \in Nat /\ reader' \in [Opens -> {"none", "read", "done"}] /\ relayed' \in [Opens -> Nat]
    BY <1>1, <1>2
  <2>. QED  BY <1>1, <2>1, <2>2, <2>3 DEF ProxyTypeOK
<1>5. HandlerShape' /\ UpShape'
  BY <1>1, <1>2 DEF HandlerShape, UpShape
<1>6. "up" \in lost' <=> "up" \in lost
  BY <1>2
<1>7. UpCount' /\ CutBehind'
  <2>1. (Orderly' <=> Orderly) /\ InUp' = InUp /\ (RequestEnded' <=> RequestEnded) /\ Writers' = Writers
    BY <1>1, <1>6 DEF Orderly, InUp, RequestEnded, Writers
  <2>. QED  BY <1>1, <2>1 DEF UpCount, CutBehind
<1>8. AnswerEnds'
  <2>. SUFFICES ASSUME NEW o \in Opens, Alone(o)' PROVE Solo(o)'
    BY DEF AnswerEnds
  <2>1. Alone(o) /\ o = p /\ Solo(o)
    BY <1>1 DEF Alone, AnswerEnds
  <2>2. ASSUME user = "open", "down" \notin lost' PROVE Answer(o)'
    <3>1. "down" \notin lost /\ Answer(o)
      BY <1>2, <2>1, <2>2 DEF Solo
    <3>2. /\ downstream # "done" /\ reader[o] = "read" /\ target[o] # "none"
          /\ relay[o] \notin {"none", "dial"}
          /\ \A i \in 1 .. Len(down) : down[i] = "DATA"
          /\ got + (IF downstream = "write" THEN 1 ELSE 0) + Len(down) = next - 1
          /\ next = IF relayed[o] = 0 THEN 1 ELSE relayed[o]
          /\ relayed[o] \in Nat /\ relayed[o] <= Response /\ got \in Nat
          /\ relay[o] = "done" => received < taken
      <4>1. relay[o] \notin {"none", "dial"} /\ reader[o] = "read" /\ target[o] # "none"
        BY <1>1, <2>1 DEF HandlerShape
      <4>. QED  BY <1>1, <2>1, <3>1, <4>1 DEF Answer, ProxyTypeOK
    <3>3. CASE /\ reader' = reader /\ relayed' = [relayed EXCEPT ![o] = @ + 1]
               /\ down' = Append(down, "DATA") /\ next' = next + 1 /\ relayed[o] = next
               /\ relayed[o] < Response /\ relay[o] # "done"
      <4>1. /\ Len(down') = Len(down) + 1
            /\ \A i \in 1 .. Len(down') : down'[i] = "DATA"
        <5>1. /\ Len(down') = Len(down) + 1 /\ down'[Len(down) + 1] = "DATA"
              /\ \A i \in 1 .. Len(down) : down'[i] = down[i]
          BY <1>3, <3>3
        <5>. QED  BY <1>3, <3>2, <5>1
      <4>2. relayed'[o] = relayed[o] + 1 /\ next' = relayed'[o] /\ relayed'[o] <= Response /\ relayed'[o] # 0
        BY <1>1, <3>2, <3>3, ProxyAssumption
      <4>3. /\ reader'[o] = "read" /\ relay'[o] \notin {"none", "dial", "done"}
            /\ downstream' = downstream /\ downstream # "done" /\ got' = got
        BY <1>1, <3>2, <3>3
      <4>4. got' + (IF downstream' = "write" THEN 1 ELSE 0) + Len(down')
                 - (IF reader'[o] = "done" THEN 1 ELSE 0) = next' - 1
        <5>1. next \in Nat /\ next' = next + 1 /\ Len(down) \in Nat /\ got \in Nat
          BY <1>1, <1>3, <3>2, <3>3
        <5>2. got + (IF downstream = "write" THEN 1 ELSE 0) + Len(down) = next - 1
          BY <3>2
        <5>. QED  BY ONLY <4>1, <4>3, <5>1, <5>2
      <4>5. /\ relayed'[o] <= Response /\ next' = IF relayed'[o] = 0 THEN 1 ELSE relayed'[o]
            /\ reader'[o] # "none" /\ reader'[o] # "done" /\ downstream' # "done"
            /\ relay'[o] # "done" /\ relay'[o] \notin {"none", "dial"}
        BY <4>2, <4>3
      <4>6. \A i \in 1 .. Len(down') :
              down'[i] # "DATA" => i = Len(down') /\ down'[i] = "FIN" /\ reader'[o] = "done"
        BY <4>1
      <4>. QED  BY ONLY <4>4, <4>5, <4>6 DEF Answer
    <3>4. CASE /\ reader' = reader /\ relayed' = [relayed EXCEPT ![o] = @ + 1]
               /\ down' = down /\ next' = next /\ relayed[o] # next
               /\ relayed[o] < Response /\ relay[o] # "done"
      <4>1. relayed[o] = 0 /\ relayed'[o] = 1 /\ next' = 1 /\ 1 <= Response
        BY <1>1, <3>2, <3>4, ProxyAssumption
      <4>. QED  BY <1>1, <3>2, <3>4, <4>1 DEF Answer
    <3>5. CASE /\ reader' = [reader EXCEPT ![o] = "done"] /\ relayed' = relayed /\ next' = next
               /\ relay[o] = "done" \/ relayed[o] = Response
               /\ down' = Append(down, "FIN")
      <4>1. /\ Len(down') = Len(down) + 1 /\ down' # <<>> /\ down'[Len(down')] = "FIN"
            /\ \A i \in 1 .. Len(down') : i # Len(down') => down'[i] = "DATA"
        <5>1. /\ Len(down') = Len(down) + 1 /\ down'[Len(down) + 1] = "FIN" /\ down' # <<>>
              /\ \A i \in 1 .. Len(down) : down'[i] = down[i]
          BY <1>3, <3>5
        <5>. QED  BY <1>3, <3>2, <5>1
      <4>2. reader'[o] = "done"
        BY <1>1, <3>5
      <4>3. /\ relayed' = relayed /\ next' = next /\ relay' = relay
            /\ received' = received /\ taken' = taken
            /\ downstream' = downstream /\ got' = got
        BY <1>1, <3>5
      <4>4. got' + (IF downstream' = "write" THEN 1 ELSE 0) + Len(down')
                 - (IF reader'[o] = "done" THEN 1 ELSE 0) = next' - 1
        <5>1. next \in Nat /\ next' = next /\ Len(down) \in Nat /\ got \in Nat
          BY <1>1, <1>3, <3>2, <3>5
        <5>2. got + (IF downstream = "write" THEN 1 ELSE 0) + Len(down) = next - 1
          BY <3>2
        <5>. QED  BY ONLY <4>1, <4>2, <4>3, <5>1, <5>2
      <4>5. /\ relayed'[o] <= Response /\ next' = IF relayed'[o] = 0 THEN 1 ELSE relayed'[o]
            /\ relay'[o] \notin {"none", "dial"} /\ downstream' # "done"
            /\ relayed'[o] = Response \/ (relay'[o] = "done" /\ received' < taken')
        BY <3>2, <3>5, <4>3
      <4>6. \A i \in 1 .. Len(down') :
              down'[i] # "DATA" => i = Len(down') /\ down'[i] = "FIN" /\ reader'[o] = "done"
        BY <4>1, <4>2
      <4>. QED  BY ONLY <4>1, <4>2, <4>4, <4>5, <4>6 DEF Answer
    <3>. QED  BY <1>2, <2>1, <2>2, <3>1, <3>3, <3>4, <3>5
  <2>. QED  BY <1>1, <2>1, <2>2 DEF Solo
<1>. QED  BY <1>4, <1>5, <1>7, <1>8

\* HandleDownstream takes the first frame, or has written it.
LEMMA DownstreamStep ==
  ASSUME ProxyInv, Downstream
  PROVE  ProxyInv'
<1>. USE DEF ProxyInv, userVars, upVars
<1>1. /\ UNCHANGED <<userVars, upVars, up, lost, handlerVars, next>>
      /\ downstream # "done"
      /\ \/ down # <<>> /\ down' = Tail(down) /\ got' = got /\ downstream = "read"
            /\ downstream' = IF Head(down) = "DATA" THEN "write" ELSE "done"
         \/ /\ down' = down /\ downstream = "write"
            /\ \/ user # "gone" /\ got' = got + 1 /\ downstream' = "read"
               \/ user = "gone" /\ got' = got /\ downstream' \in {"read", "done"}
  BY DEF Downstream, ReadFrame, WriteUser
<1>2. ASSUME down # <<>>
      PROVE  /\ Tail(down) \in Seq(FrameTypes) /\ Len(down) \in Nat \ {0}
             /\ Len(Tail(down)) = Len(down) - 1
             /\ \A i \in 1 .. Len(down) - 1 : i + 1 \in 1 .. Len(down) /\ Tail(down)[i] = down[i + 1]
             /\ Head(down) = down[1] /\ down[1] \in FrameTypes
             /\ (Tail(down) # <<>>) <=> (Len(down) > 1)
  <2>1. down \in Seq(FrameTypes)
    BY DEF ProxyTypeOK
  <2>. QED  BY <2>1, <1>2, TailFacts
<1>3. ProxyTypeOK'
  <2>0. down \in Seq(FrameTypes) /\ got \in Nat
    BY DEF ProxyTypeOK
  <2>1. down' \in Seq(FrameTypes) /\ got' \in Nat /\ downstream' \in {"read", "write", "done"}
    <3>. HIDE DEF ProxyInv
    <3>1. down' \in Seq(FrameTypes)
      BY <1>1, <1>2, <2>0
    <3>2. got' \in Nat /\ downstream' \in {"read", "write", "done"}
      BY <1>1, <2>0
    <3>. QED  BY <3>1, <3>2
  <2>. QED  BY <1>1, <2>1 DEF ProxyTypeOK, handlerVars
<1>4. HandlerShape' /\ UpShape'
  BY <1>1 DEF HandlerShape, UpShape, handlerVars
<1>5. UpCount' /\ CutBehind'
  <2>1. (Orderly' <=> Orderly) /\ InUp' = InUp /\ (RequestEnded => RequestEnded') /\ Writers' = Writers
    BY <1>1 DEF Orderly, InUp, RequestEnded, Writers, handlerVars
  <2>. QED  BY <1>1, <2>1 DEF UpCount, CutBehind, handlerVars
<1>6. AnswerEnds'
  <2>. SUFFICES ASSUME NEW o \in Opens, Alone(o)' PROVE Solo(o)'
    BY DEF AnswerEnds
  <2>1. Alone(o) /\ Solo(o)
    BY <1>1 DEF Alone, AnswerEnds, handlerVars
  <2>2. ASSUME user = "open", "down" \notin lost PROVE Answer(o)'
    <3>1. Answer(o)
      BY <2>1, <2>2 DEF Solo
    <3>2. got \in Nat /\ next \in Nat
      BY DEF ProxyTypeOK
    <3>3. relay[o] \in {"none", "dial"} => down = <<>> /\ downstream = "read"
      BY <3>1 DEF Answer
    <3>4. CASE down' = down
      BY <1>1, <2>2, <3>1, <3>2, <3>3, <3>4 DEF Answer, handlerVars
    <3>5. ASSUME downstream = "read", target[o] # "none"
          PROVE  /\ \A i \in 1 .. Len(down) :
                      down[i] # "DATA" => i = Len(down) /\ down[i] = "FIN" /\ reader[o] = "done"
                 /\ reader[o] = "done" => down[Len(down)] = "FIN"
                 /\ got + Len(down) - (IF reader[o] = "done" THEN 1 ELSE 0) = next - 1
      <4>1. got + 0 + Len(down) - (IF reader[o] = "done" THEN 1 ELSE 0) = next - 1
        BY <3>1, <3>5 DEF Answer
      <4>. QED  BY <3>1, <3>2, <3>5, <4>1 DEF Answer
    <3>6. CASE down # <<>> /\ down' = Tail(down) /\ downstream = "read" /\ got' = got
               /\ downstream' = IF Head(down) = "DATA" THEN "write" ELSE "done"
      <4>1. relay[o] \notin {"none", "dial"}
        BY <3>3, <3>6
      <4>2. ASSUME target[o] # "none", down[1] = "DATA"
            PROVE  /\ \A i \in 1 .. Len(down') :
                        down'[i] # "DATA" => i = Len(down') /\ down'[i] = "FIN" /\ reader[o] = "done"
                   /\ reader[o] = "done" => down' # <<>> /\ down'[Len(down')] = "FIN"
                   /\ got + 1 + Len(down') - (IF reader[o] = "done" THEN 1 ELSE 0) = next - 1
        <5>1. /\ \A i \in 1 .. Len(down) :
                   down[i] # "DATA" => i = Len(down) /\ down[i] = "FIN" /\ reader[o] = "done"
              /\ reader[o] = "done" => down[Len(down)] = "FIN"
              /\ got + Len(down) - (IF reader[o] = "done" THEN 1 ELSE 0) = next - 1
          BY <3>6, <3>5, <4>2
        <5>. HIDE DEF ProxyInv
        <5>2. \A i \in 1 .. Len(down') :
                 down'[i] # "DATA" => i = Len(down') /\ down'[i] = "FIN" /\ reader[o] = "done"
          BY <1>2, <3>6, <5>1
        <5>3. ASSUME reader[o] = "done" PROVE down' # <<>> /\ down'[Len(down')] = "FIN"
          <6>1. Len(down) # 1 /\ Len(down) > 1
            BY <1>2, <3>6, <4>2, <5>1, <5>3
          <6>2. Len(down') \in 1 .. Len(down) - 1 /\ Len(down') + 1 = Len(down)
            BY <1>2, <3>6, <6>1
          <6>. QED  BY <1>2, <3>6, <5>1, <5>3, <6>1, <6>2
        <5>4. got + 1 + Len(down') - (IF reader[o] = "done" THEN 1 ELSE 0) = next - 1
          BY <1>2, <3>2, <3>6, <5>1
        <5>. QED  BY <5>2, <5>3, <5>4
      <4>3. ASSUME target[o] # "none", down[1] # "DATA"
            PROVE  Len(down) = 1 /\ down' = <<>> /\ reader[o] = "done" /\ got = next - 1
        <5>1. Len(down) = 1 /\ reader[o] = "done"
          <6>. HIDE DEF ProxyInv
          <6>1. 1 \in 1 .. Len(down)
            BY <1>2, <3>6
          <6>. QED  BY <3>6, <3>5, <4>3, <6>1
        <5>2. got + Len(down) - 1 = next - 1
          BY <3>6, <3>5, <4>3, <5>1
        <5>. HIDE DEF ProxyInv
        <5>. QED  BY <1>2, <3>2, <3>6, <5>1, <5>2
      <4>4. /\ relay' = relay /\ reader' = reader /\ target' = target /\ relayed' = relayed
            /\ next' = next /\ received' = received /\ taken' = taken
            /\ Head(down) = down[1]
        BY <1>1, <1>2, <3>6 DEF handlerVars
      <4>. HIDE DEF ProxyInv
      <4>5. CASE down[1] = "DATA"
        BY <3>1, <3>6, <4>1, <4>2, <4>4, <4>5 DEF Answer
      <4>6. CASE down[1] # "DATA"
        <5>1. target[o] # "none" => \A i \in 1 .. Len(down') : FALSE
          BY <4>3, <4>6
        <5>. QED  BY <3>1, <3>6, <4>1, <4>3, <4>4, <4>6, <5>1 DEF Answer
      <4>. QED  BY <4>5, <4>6
    <3>. QED  BY <1>1, <3>4, <3>6
  <2>. QED  BY <1>1, <2>1, <2>2 DEF Solo, handlerVars
<1>. QED  BY <1>3, <1>4, <1>5, <1>6

LEMMA ProxyStep == ProxyInv /\ [ProxyNext]_proxyVars => ProxyInv'
<1>. SUFFICES ASSUME ProxyInv, [ProxyNext]_proxyVars PROVE ProxyInv'
  OBVIOUS
<1>1. CASE ProxyNext
  BY <1>1, UserStep, UpstreamStep, StartStep, DialStep, TakeStep, WriteTargetStep, CloseStep,
     TargetStep, ReaderStep, DownstreamStep DEF ProxyNext, ProxyHandler
<1>2. CASE UNCHANGED proxyVars
  <2>. USE <1>2 DEF proxyVars, ProxyInv
  <2>1. ProxyTypeOK' /\ HandlerShape' /\ UpShape'
    BY DEF ProxyTypeOK, HandlerShape, UpShape
  <2>2. UpCount' /\ CutBehind'
    BY DEF UpCount, InUp, Writers, Orderly, CutBehind, RequestEnded
  <2>3. AnswerEnds'
    BY DEF AnswerEnds, Alone, Solo, Answer
  <2>. QED  BY <2>1, <2>2, <2>3
<1>. QED  BY <1>1, <1>2

-----------------------------------------------------------------------------
\* The state of a connection is typed in every behaviour.
THEOREM ProxyTyped == ProxySpec => []ProxyTypeOK
<1>1. ProxyInv => ProxyTypeOK
  BY DEF ProxyInv
<1>. QED  BY <1>1, StartProxy, ProxyStep, PTL DEF ProxySpec

\* However many copies of the OPEN have started a handler: a request that lost no
\* frame and ended in order has been written to the targets that stay, or is being
\* written, before a handler cuts any of their connections.
THEOREM RequestReachesTargets == ProxySpec => []RequestIntact
<1>1. ProxyInv => RequestIntact
  <2>. SUFFICES ASSUME ProxyInv, NEW o \in Opens, target[o] = "cut",
                       user = "eof", downstream # "done", Orderly
                PROVE  received + Cardinality(Writers) = wrote
    BY DEF RequestIntact
  <2>1. up = <<>> /\ taken = wrote
    BY DEF ProxyInv, CutBehind, RequestEnded
  <2>2. InUp = 0
    BY <2>1 DEF InUp
  <2>3. received + Cardinality(Writers) + InUp = taken
    BY DEF ProxyInv, UpCount
  <2>. QED  BY <2>1, <2>2, <2>3, WritersNumber DEF ProxyInv, ProxyTypeOK
<1>. QED  BY <1>1, StartProxy, ProxyStep, PTL DEF ProxySpec

\* With one handler, a user who stays and whose answer loses no frame is sent all
\* of it but its first chunk before HandleDownstream closes his connection, if the
\* target has received everything he sent.
THEOREM RestReachesUser == ProxySpec => []RestOfAnswer
<1>1. ProxyInv => RestOfAnswer
  <2>. SUFFICES ASSUME ProxyInv, NEW o \in Opens, Alone(o), target[o] # "none",
                       downstream = "done", user = "open", "down" \notin lost
                PROVE  got = Response - 1 \/ received < taken
    BY DEF RestOfAnswer
  <2>1. Answer(o)
    BY DEF ProxyInv, AnswerEnds, Solo
  <2>2. /\ got = next - 1 /\ next = IF relayed[o] = 0 THEN 1 ELSE relayed[o]
        /\ relayed[o] = Response \/ received < taken
    BY <2>1 DEF Answer
  <2>. QED  BY <2>2, ProxyAssumption
<1>. QED  BY <1>1, StartProxy, ProxyStep, PTL DEF ProxySpec

-----------------------------------------------------------------------------
(***************************************************************************)
(* Dispatcher: InFlightExact is inductive with the types.                  *)
(***************************************************************************)
Steps == {"idle", "sync", "schedule", "next", "check", "wait", "record", "write",
          "ack", "return", "gone"}
OnPath == {"check", "wait", "record", "write", "ack"}
InWrite == {"write", "ack"}

Tasks == {t \in [at : Steps, todo : SUBSET Paths, path : Paths \cup {NoPath},
                 sent : SUBSET Paths, err : BOOLEAN, left : Nat] :
            t.at \in OnPath => t.path \in Paths}

\* The state of the dispatcher is typed, and a goroutine that waits for a path,
\* counts on it or writes to it has one.
DispatcherTypeOK ==
  /\ alive \in SUBSET Paths /\ seen \in SUBSET Paths /\ fresh \in BOOLEAN
  /\ inFlight \in [Paths -> Nat] /\ cwnd \in [Paths -> CWnds]
  /\ task \in [Streams -> Tasks]
  /\ upgraded \in SUBSET Streams
  /\ writer \in [at : {"none", "map", "waiting"}, path : Paths \cup {NoPath}]
  /\ writer.at # "none" => writer.path \in Paths
  /\ swaps \in Nat

\* A goroutine behind RecordSend: RecordAck finds the frame it takes out, and its
\* test for zero never decides anything.
AckFindsFrame == \A s \in Streams : At(s, "ack") => inFlight[task[s].path] > 0

-----------------------------------------------------------------------------
LEMMA IdleIsTask == Idle \in Tasks
  BY DispatcherAssumption DEF Idle, Tasks, Steps, OnPath, NoPath

\* A step of one goroutine that is not writing before and behind it leaves the
\* frames being written as they are.
LEMMA QuietTask ==
  ASSUME NEW s \in Streams, NEW t \in Tasks, task \in [Streams -> Tasks],
         task' = [task EXCEPT ![s] = t],
         task[s].at \notin InWrite, t.at \notin InWrite, inFlight' = inFlight,
         InFlightExact
  PROVE  InFlightExact' /\ task' \in [Streams -> Tasks]
<1>1. task' \in [Streams -> Tasks]
  OBVIOUS
<1>2. \A p : Writing(p)' = Writing(p)
  BY DEF Writing, InWrite
<1>. QED  BY <1>1, <1>2 DEF InFlightExact

\* The rest of the state, which a step of a goroutine changes little.
LEMMA QuietStep ==
  ASSUME DispatcherTypeOK, InFlightExact, NEW s \in Streams, NEW t \in Tasks,
         task' = [task EXCEPT ![s] = t],
         task[s].at \notin InWrite, t.at \notin InWrite,
         seen' \in SUBSET Paths, fresh' \in BOOLEAN, upgraded' \in SUBSET Streams,
         UNCHANGED <<inFlight, alive, cwnd, writer, swaps>>
  PROVE  DispatcherTypeOK' /\ InFlightExact'
  BY QuietTask DEF DispatcherTypeOK

LEMMA StartDispatcher == Init => DispatcherTypeOK /\ InFlightExact
<1>. SUFFICES ASSUME Init PROVE DispatcherTypeOK /\ InFlightExact
  OBVIOUS
<1>1. DispatcherTypeOK
  BY DispatcherAssumption, IdleIsTask DEF Init, DispatcherTypeOK, NoWriter
<1>2. \A p : Writing(p) = {}
  BY DEF Init, Writing, Idle
<1>. QED  BY <1>1, <1>2, FS_EmptySet DEF Init, InFlightExact

LEMMA CallStep ==
  ASSUME DispatcherTypeOK, InFlightExact, NEW s \in Streams,
         \/ Lock(s) \/ SyncLiveness(s) \/ NoActiveArteries(s) \/ ScheduleDuplicate(s)
         \/ ScheduleStripe(s) \/ Return(s)
  PROVE  DispatcherTypeOK' /\ InFlightExact'
<1>. USE DEF At, Environment
<1>0. task[s] \in Tasks
  BY DEF DispatcherTypeOK
<1>1. CASE Lock(s)
  <2>. DEFINE t == [Idle EXCEPT !.at = "sync", !.left = task[s].left - 1]
  <2>1. task[s].left - 1 \in Nat
    BY <1>0, <1>1 DEF Lock, Tasks
  <2>3. t \in Tasks /\ t.at = "sync"
    BY <2>1 DEF Idle, Tasks, Steps, OnPath
  <2>2. task' = [task EXCEPT ![s] = t]
    BY <1>1 DEF Lock
  <2>. HIDE DEF t
  <2>. QED  BY <1>1, <2>2, <2>3, QuietStep DEF Lock, InWrite, DispatcherTypeOK
<1>2. CASE SyncLiveness(s)
  <2>. DEFINE t == [task[s] EXCEPT !.at = "schedule"]
  <2>1. t \in Tasks /\ t.at = "schedule"
    BY <1>0 DEF Tasks, Steps, OnPath
  <2>2. task' = [task EXCEPT ![s] = t]
    BY <1>2 DEF SyncLiveness, Goto
  <2>3. seen' \in SUBSET Paths
    BY <1>2 DEF SyncLiveness, DispatcherTypeOK
  <2>4. fresh' = (writer.path \in alive) \/ fresh' = fresh
    BY <1>2 DEF SyncLiveness
  <2>5. fresh' \in BOOLEAN
    <3>1. ASSUME fresh' = (writer.path \in alive) PROVE fresh' \in BOOLEAN
      <4>1. CASE writer.path \in alive
        BY <3>1, <4>1, Zenon
      <4>2. CASE ~(writer.path \in alive)
        <5>1. ~fresh'
          BY <3>1, <4>2
        <5>2. fresh' = FALSE
          BY <3>1, <5>1, SMT
        <5>. QED  BY <5>2
      <4>. QED  BY <4>1, <4>2
    <3>. QED  BY <2>4, <3>1 DEF DispatcherTypeOK
  <2>. HIDE DEF t
  <2>. QED  BY <1>2, <2>1, <2>2, <2>3, <2>5, QuietStep
        DEF SyncLiveness, InWrite, DispatcherTypeOK
<1>3. CASE NoActiveArteries(s)
  <2>. DEFINE t == [task[s] EXCEPT !.at = "return", !.err = TRUE]
  <2>1. t \in Tasks /\ t.at = "return"
    BY <1>0 DEF Tasks, Steps, OnPath
  <2>2. task' = [task EXCEPT ![s] = t]
    BY <1>3 DEF NoActiveArteries
  <2>. HIDE DEF t
  <2>. QED  BY <1>3, <2>1, <2>2, QuietStep DEF NoActiveArteries, InWrite, DispatcherTypeOK
<1>4. ASSUME NEW to \in SUBSET Paths, Send(s, to), task[s].at \notin InWrite,
             upgraded' \in SUBSET Streams,
             UNCHANGED <<seen, fresh, inFlight, alive, cwnd, writer, swaps>>
      PROVE  DispatcherTypeOK' /\ InFlightExact'
  <2>. DEFINE t == [task[s] EXCEPT !.at = IF to = {} THEN "return" ELSE "next", !.todo = to]
  <2>1. t \in Tasks /\ t.at \in {"return", "next"}
    BY <1>0 DEF Tasks, Steps, OnPath
  <2>2. task' = [task EXCEPT ![s] = t]
    BY <1>4 DEF Send
  <2>. HIDE DEF t
  <2>. QED  BY <1>4, <2>1, <2>2, QuietStep DEF InWrite, DispatcherTypeOK
<1>5. CASE ScheduleDuplicate(s)
  BY <1>4, <1>5 DEF ScheduleDuplicate, DispatcherTypeOK, InWrite
<1>6. CASE ScheduleStripe(s)
  <2>1. PICK p \in StripePaths : Send(s, {p})
    BY <1>6 DEF ScheduleStripe
  <2>2. p \in Paths
    BY DEF StripePaths, DispatcherTypeOK
  <2>. QED  BY <1>4, <1>6, <2>1, <2>2 DEF ScheduleStripe, DispatcherTypeOK, InWrite
<1>7. CASE Return(s)
  <2>1. PICK at \in {"idle", "gone"} : Goto(s, at)
    BY <1>7 DEF Return
  <2>. DEFINE t == [task[s] EXCEPT !.at = at]
  <2>2. t \in Tasks /\ t.at = at
    BY <1>0 DEF Tasks, Steps, OnPath
  <2>3. task' = [task EXCEPT ![s] = t]
    BY <2>1 DEF Goto
  <2>. HIDE DEF t
  <2>. QED  BY <1>7, <2>2, <2>3, QuietStep DEF Return, InWrite, DispatcherTypeOK
<1>. QED  BY <1>1, <1>2, <1>3, <1>5, <1>6, <1>7

\* The steps of one path, before its write.
LEMMA PathStep ==
  ASSUME DispatcherTypeOK, InFlightExact, NEW s \in Streams,
         NextPath(s) \/ FindCapacity(s) \/ Congested(s) \/ GiveUp(s)
  PROVE  DispatcherTypeOK' /\ InFlightExact'
<1>. USE DEF At, Environment
<1>0. task[s] \in Tasks
  BY DEF DispatcherTypeOK
<1>1. ASSUME NEW to \in SUBSET Paths, Send(s, to), task[s].at \notin InWrite,
             UNCHANGED <<seen, fresh, inFlight, upgraded, alive, cwnd, writer, swaps>>
      PROVE  DispatcherTypeOK' /\ InFlightExact'
  <2>. DEFINE t == [task[s] EXCEPT !.at = IF to = {} THEN "return" ELSE "next", !.todo = to]
  <2>1. t \in Tasks /\ t.at \in {"return", "next"}
    BY <1>0 DEF Tasks, Steps, OnPath
  <2>2. task' = [task EXCEPT ![s] = t]
    BY <1>1 DEF Send
  <2>. HIDE DEF t
  <2>. QED  BY <1>1, <2>1, <2>2, QuietStep DEF InWrite, DispatcherTypeOK
<1>2. ASSUME NEW at \in {"record", "wait"}, Goto(s, at), task[s].at \in {"check", "wait"},
             UNCHANGED <<seen, fresh, inFlight, upgraded, alive, cwnd, writer, swaps>>
      PROVE  DispatcherTypeOK' /\ InFlightExact'
  <2>. DEFINE t == [task[s] EXCEPT !.at = at]
  <2>1. task[s].path \in Paths
    BY <1>0, <1>2 DEF Tasks, OnPath
  <2>2. t \in Tasks /\ t.at = at
    BY <1>0, <2>1 DEF Tasks, Steps, OnPath
  <2>3. task' = [task EXCEPT ![s] = t]
    BY <1>2 DEF Goto
  <2>. HIDE DEF t
  <2>. QED  BY <1>2, <2>2, <2>3, QuietStep DEF InWrite, DispatcherTypeOK
<1>3. CASE NextPath(s)
  <2>0. task[s].todo \in SUBSET Paths
    BY <1>0 DEF Tasks
  <2>1. PICK p \in task[s].todo :
          IF p \in alive
            THEN task' = [task EXCEPT ![s].at = "check", ![s].path = p, ![s].todo = @ \ {p}]
            ELSE Send(s, task[s].todo \ {p})
    BY <1>3 DEF NextPath
  <2>2. CASE p \notin alive
    BY <1>1, <1>3, <2>0, <2>1, <2>2 DEF NextPath, InWrite
  <2>3. CASE p \in alive
    <3>. DEFINE t == [task[s] EXCEPT !.at = "check", !.path = p, !.todo = @ \ {p}]
    <3>1. t \in Tasks /\ t.at = "check"
      BY <1>0, <2>0 DEF Tasks, Steps, OnPath
    <3>2. task' = [task EXCEPT ![s] = t]
      BY <2>1, <2>3, <1>0 DEF Tasks, DispatcherTypeOK
    <3>. HIDE DEF t
    <3>. QED  BY <1>3, <3>1, <3>2, QuietStep DEF NextPath, InWrite, DispatcherTypeOK
  <2>. QED  BY <2>2, <2>3
<1>4. CASE FindCapacity(s)
  BY <1>2, <1>4 DEF FindCapacity
<1>5. CASE Congested(s)
  BY <1>2, <1>5 DEF Congested
<1>6. CASE GiveUp(s)
  BY <1>0, <1>1, <1>6 DEF GiveUp, Tasks, InWrite
<1>. QED  BY <1>3, <1>4, <1>5, <1>6

\* The frames being written on a path are finitely many.
LEMMA WritersFinite ==
  ASSUME DispatcherTypeOK, NEW p
  PROVE  IsFiniteSet(Writing(p)) /\ Cardinality(Writing(p)) \in Nat
<1>1. Writing(p) \subseteq Streams
  BY DEF Writing, DispatcherTypeOK
<1>2. IsFiniteSet(Writing(p))
  BY <1>1, DispatcherAssumption, FS_Subset
<1>. QED  BY <1>2, FS_CardinalityType

\* What counts and takes out of the count is at its own path.
LEMMA RecordSendStep ==
  ASSUME DispatcherTypeOK, InFlightExact, NEW s \in Streams, RecordSend(s)
  PROVE  DispatcherTypeOK' /\ InFlightExact'
<1>. DEFINE t == [task[s] EXCEPT !.at = "write"]
<1>0. task[s] \in Tasks /\ task[s].at = "record"
  BY DEF DispatcherTypeOK, RecordSend, At
<1>. PICK q \in Paths : q = task[s].path
  BY <1>0 DEF Tasks, OnPath
<1>1. t \in Tasks /\ t.at = "write" /\ t.path = q /\ q \in Paths
  BY <1>0 DEF Tasks, Steps, OnPath
<1>2. task' = [task EXCEPT ![s] = t]
  BY DEF RecordSend, Goto
<1>. HIDE DEF t
<1>3. /\ inFlight' = [inFlight EXCEPT ![q] = inFlight[q] + 1]
      /\ UNCHANGED <<seen, fresh, upgraded, alive, cwnd, writer, swaps>>
  BY DEF RecordSend, Environment
<1>4. DispatcherTypeOK'
  BY <1>1, <1>2, <1>3 DEF DispatcherTypeOK
<1>5. Writing(q)' = Writing(q) \cup {s} /\ s \notin Writing(q)
  BY <1>0, <1>1, <1>2 DEF Writing, DispatcherTypeOK
<1>6. \A p \in Paths : p # q => Writing(p)' = Writing(p)
  BY <1>0, <1>1, <1>2 DEF Writing, DispatcherTypeOK
<1>7. Cardinality(Writing(q)') = Cardinality(Writing(q)) + 1
  BY <1>5, WritersFinite, FS_AddElement
<1>8. inFlight'[q] = Cardinality(Writing(q)')
  BY <1>1, <1>3, <1>7 DEF InFlightExact, DispatcherTypeOK
<1>9. \A p \in Paths : p # q => inFlight'[p] = Cardinality(Writing(p)')
  BY <1>3, <1>6 DEF InFlightExact, DispatcherTypeOK
<1>10. DOMAIN inFlight' = Paths
  BY <1>4 DEF DispatcherTypeOK
<1>. QED  BY <1>4, <1>8, <1>9, <1>10 DEF InFlightExact

LEMMA WriteStep ==
  ASSUME DispatcherTypeOK, InFlightExact, NEW s \in Streams, WriteFrame(s)
  PROVE  DispatcherTypeOK' /\ InFlightExact'
<1>. DEFINE q == task[s].path
<1>0. task[s] \in Tasks /\ task[s].at = "write" /\ q \in Paths
  BY DEF DispatcherTypeOK, WriteFrame, At, Tasks, OnPath
<1>1. PICK t \in Tasks :
        /\ task' = [task EXCEPT ![s] = t]
        /\ t.at = "ack" /\ t.path = q
  <2>1. CASE task' = [task EXCEPT ![s].at = "ack", ![s].sent = @ \cup {q}]
    <3>. DEFINE t == [task[s] EXCEPT !.at = "ack", !.sent = @ \cup {q}]
    <3>1. t \in Tasks /\ t.at = "ack" /\ t.path = q
      BY <1>0 DEF Tasks, Steps, OnPath
    <3>2. task' = [task EXCEPT ![s] = t]
      BY <2>1, <1>0 DEF Tasks, DispatcherTypeOK
    <3>. HIDE DEF t
    <3>. QED  BY <3>1, <3>2
  <2>2. CASE task' = [task EXCEPT ![s].at = "ack", ![s].err = TRUE]
    <3>. DEFINE t == [task[s] EXCEPT !.at = "ack", !.err = TRUE]
    <3>1. t \in Tasks /\ t.at = "ack" /\ t.path = q
      BY <1>0 DEF Tasks, Steps, OnPath
    <3>2. task' = [task EXCEPT ![s] = t]
      BY <2>2
    <3>. HIDE DEF t
    <3>. QED  BY <3>1, <3>2
  <2>. QED  BY <2>1, <2>2 DEF WriteFrame
<1>2. /\ alive' \in SUBSET Paths
      /\ UNCHANGED <<seen, fresh, inFlight, upgraded, cwnd, writer, swaps>>
  BY DEF WriteFrame, DispatcherTypeOK
<1>3. DispatcherTypeOK'
  BY <1>1, <1>2 DEF DispatcherTypeOK
<1>4. \A p : Writing(p)' = Writing(p)
  BY <1>0, <1>1 DEF Writing, DispatcherTypeOK
<1>. QED  BY <1>2, <1>3, <1>4 DEF InFlightExact

\* A frame that is acknowledged was counted, and no exchange of metrics came
\* between: the count is above zero.
LEMMA AckIsCounted ==
  ASSUME DispatcherTypeOK, InFlightExact, NEW s \in Streams, At(s, "ack")
  PROVE  inFlight[task[s].path] > 0 /\ s \in Writing(task[s].path)
<1>. DEFINE q == task[s].path
<1>1. q \in Paths /\ s \in Writing(q)
  BY DEF DispatcherTypeOK, At, Tasks, OnPath, Writing
<1>2. Cardinality(Writing(q)) # 0
  BY <1>1, WritersFinite, FS_EmptySet
<1>. QED  BY <1>1, <1>2, WritersFinite DEF InFlightExact, DispatcherTypeOK

LEMMA RecordAckStep ==
  ASSUME DispatcherTypeOK, InFlightExact, NEW s \in Streams, RecordAck(s)
  PROVE  DispatcherTypeOK' /\ InFlightExact'
<1>. DEFINE t == [task[s] EXCEPT !.at = IF task[s].todo = {} THEN "return" ELSE "next",
                                 !.todo = task[s].todo]
<1>0. task[s] \in Tasks /\ task[s].at = "ack" /\ task[s].path \in Paths
  BY DEF DispatcherTypeOK, RecordAck, At, Tasks, OnPath
<1>. PICK q \in Paths : q = task[s].path
  BY <1>0
<1>1. t \in Tasks /\ t.at \in {"return", "next"}
  BY <1>0 DEF Tasks, Steps, OnPath
<1>2. task' = [task EXCEPT ![s] = t]
  BY DEF RecordAck, Send
<1>. HIDE DEF t
<1>3. inFlight[q] > 0 /\ s \in Writing(q)
  BY AckIsCounted DEF RecordAck
<1>4. /\ inFlight' = [inFlight EXCEPT ![q] = inFlight[q] - 1]
      /\ UNCHANGED <<seen, fresh, upgraded, alive, cwnd, writer, swaps>>
  BY <1>3 DEF RecordAck, Environment
<1>5. inFlight[q] \in Nat /\ inFlight[q] - 1 \in Nat
  BY <1>0, <1>3 DEF DispatcherTypeOK
<1>6. DispatcherTypeOK'
  BY <1>0, <1>1, <1>2, <1>4, <1>5 DEF DispatcherTypeOK
<1>7. Writing(q)' = Writing(q) \ {s}
  BY <1>0, <1>1, <1>2 DEF Writing, DispatcherTypeOK
<1>8. \A p \in Paths : p # q => Writing(p)' = Writing(p)
  BY <1>0, <1>1, <1>2 DEF Writing, DispatcherTypeOK
<1>9. Cardinality(Writing(q)') = Cardinality(Writing(q)) - 1
  <2>1. IsFiniteSet(Writing(q))
    BY WritersFinite
  <2>. HIDE DEF Writing
  <2>2. Cardinality(Writing(q) \ {s}) = Cardinality(Writing(q)) - 1
    BY ONLY <1>3, <2>1, FS_RemoveElement
  <2>. QED  BY <1>7, <2>2
<1>10. inFlight'[q] = Cardinality(Writing(q)')
  BY <1>0, <1>4, <1>9 DEF InFlightExact, DispatcherTypeOK
<1>11. \A p \in Paths : p # q => inFlight'[p] = Cardinality(Writing(p)')
  BY <1>4, <1>8 DEF InFlightExact, DispatcherTypeOK
<1>12. DOMAIN inFlight' = Paths
  BY <1>6 DEF DispatcherTypeOK
<1>. QED  BY <1>6, <1>10, <1>11, <1>12 DEF InFlightExact

\* What happens around the calls; the metrics of a path are exchanged while no
\* call is under way, so that the new count of zero is right.
LEMMA AroundStep ==
  ASSUME DispatcherTypeOK, InFlightExact,
         \/ \E p \in Paths : Toggle(p) \/ SetCWnd(p) \/ BeginReplace(p)
         \/ WaitForUpdate \/ UpdateArteries
  PROVE  DispatcherTypeOK' /\ InFlightExact'
<1>1. ASSUME UNCHANGED <<inFlight, task>> PROVE InFlightExact'
  BY <1>1 DEF InFlightExact, Writing
<1>2. ASSUME NEW p \in Paths, Toggle(p) PROVE DispatcherTypeOK'
  BY <1>2 DEF Toggle, DispatcherTypeOK
<1>3. ASSUME NEW p \in Paths, SetCWnd(p) PROVE DispatcherTypeOK'
  BY <1>3 DEF SetCWnd, DispatcherTypeOK
<1>4. ASSUME NEW p \in Paths, BeginReplace(p) PROVE DispatcherTypeOK'
  <2>1. writer' \in [at : {"none", "map", "waiting"}, path : Paths \cup {NoPath}]
        /\ writer'.path \in Paths
    BY <1>4 DEF BeginReplace
  <2>. QED  BY <1>4, <2>1 DEF BeginReplace, DispatcherTypeOK
<1>5. ASSUME WaitForUpdate PROVE DispatcherTypeOK'
  <2>1. writer' \in [at : {"none", "map", "waiting"}, path : Paths \cup {NoPath}]
        /\ writer'.path \in Paths
    BY <1>5 DEF WaitForUpdate, DispatcherTypeOK
  <2>. QED  BY <1>5, <2>1 DEF WaitForUpdate, DispatcherTypeOK
<1>6. ASSUME UpdateArteries PROVE DispatcherTypeOK' /\ InFlightExact'
  <2>. DEFINE q == writer.path
  <2>1. q \in Paths
    BY <1>6 DEF UpdateArteries, DispatcherTypeOK
  <2>2. /\ inFlight' = [inFlight EXCEPT ![q] = 0]
        /\ cwnd' = [cwnd EXCEPT ![q] = FirstCWnd]
        /\ seen' \in SUBSET (seen \cup {q})
        /\ writer' = NoWriter /\ UNCHANGED <<alive, fresh, task, upgraded, swaps>>
    BY <1>6 DEF UpdateArteries, NewMetrics
  <2>. HIDE DEF q
  <2>3. DispatcherTypeOK'
    BY <2>1, <2>2, DispatcherAssumption DEF DispatcherTypeOK, NoWriter
  <2>4. \A p : Writing(p) = {} /\ Writing(p)' = {}
    BY <1>6, <2>2 DEF UpdateArteries, Dispatching, Writing, DispatcherTypeOK
  <2>5. Cardinality({}) = 0
    BY FS_EmptySet
  <2>6. \A p \in Paths : inFlight'[p] = 0
    BY <2>2, <2>4, <2>5 DEF InFlightExact, DispatcherTypeOK
  <2>7. DOMAIN inFlight' = Paths
    BY <2>3 DEF DispatcherTypeOK
  <2>. QED  BY <2>3, <2>4, <2>5, <2>6, <2>7 DEF InFlightExact
<1>. QED  BY <1>1, <1>2, <1>3, <1>4, <1>5, <1>6
          DEF Toggle, SetCWnd, BeginReplace, WaitForUpdate

LEMMA DispatcherStep ==
  DispatcherTypeOK /\ InFlightExact /\ [Next]_vars => DispatcherTypeOK' /\ InFlightExact'
<1>. SUFFICES ASSUME DispatcherTypeOK, InFlightExact, [Next]_vars
              PROVE  DispatcherTypeOK' /\ InFlightExact'
  OBVIOUS
<1>1. ASSUME NEW s \in Streams, Lock(s) \/ Dispatch(s)
      PROVE  DispatcherTypeOK' /\ InFlightExact'
  BY <1>1, CallStep, PathStep, RecordSendStep, WriteStep, RecordAckStep DEF Dispatch
<1>2. CASE UNCHANGED vars
  BY <1>2 DEF vars, DispatcherTypeOK, InFlightExact, Writing
<1>. QED  BY <1>1, <1>2, AroundStep DEF Next

-----------------------------------------------------------------------------
\* The state of the dispatcher is typed in every behaviour.
THEOREM DispatcherTyped == Spec => []DispatcherTypeOK
<1>. QED  BY StartDispatcher, DispatcherStep, PTL DEF Spec

\* Whatever breaks, fails or is exchanged, InFlight of a path is the number of
\* frames being written on it: no count is leaked that would close the window.
THEOREM InFlightIsExact == Spec => []InFlightExact
<1>. QED  BY StartDispatcher, DispatcherStep, PTL DEF Spec

\* RecordAck never meets a count of zero: the new metrics that UpdateArteries
\* brings are never charged with a frame of the old ones.
THEOREM AckNeverUnderflows == Spec => []AckFindsFrame
<1>1. DispatcherTypeOK /\ InFlightExact => AckFindsFrame
  BY AckIsCounted DEF AckFindsFrame
<1>. QED  BY <1>1, StartDispatcher, DispatcherStep, PTL DEF Spec
=============================================================================
