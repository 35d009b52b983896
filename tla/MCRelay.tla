------------------------------- MODULE MCRelay -------------------------------
(***************************************************************************)
(* The relay for TLC from two sides, one of which a behaviour chooses at   *)
(* its start: the handlers of a session and what the arteries do to them   *)
(* (CombinerRelay), or one user's connection from end to end               *)
(* (ProxyConnection).                                                      *)
(***************************************************************************)
EXTENDS MCCombinerRelay, ProxyConnection

VARIABLE proxied   \* which side a behaviour is about

bothVars == <<proxied, relayVars, proxyVars>>

BothInit == proxied \in BOOLEAN /\ RelayInit /\ ProxyInit

OfSession == ~proxied /\ UNCHANGED <<proxied, proxyVars>>
OfProxy == proxied /\ UNCHANGED <<proxied, relayVars>>

BothNext == (OfSession /\ RelayNext) \/ (OfProxy /\ ProxyNext)

\* The fairness of the two modules, each for its side.
BothFairness ==
  /\ \A a \in Arteries : WF_bothVars(OfSession /\ ContinueAccept(a))
  /\ \A i \in Ids : WF_bothVars(OfSession /\ CloseOne(i))
  /\ WF_bothVars(OfSession /\ \E h \in DOMAIN handler : RelayFrame(h))
  /\ WF_bothVars(OfSession /\ \E h \in DOMAIN handler :
       DialTarget(h) \/ FindStream(h) \/ RangeEnds(h) \/ CloseRelay(h))
  /\ WF_bothVars(OfProxy /\ Upstream)
  /\ \A o \in Opens : WF_bothVars(OfProxy /\ WritesInTime(o) /\ ProxyHandler(o))
  /\ \A o \in Opens : WF_bothVars(OfProxy /\ ReadsInTime(o) /\ Reader(o))
  /\ WF_bothVars(OfProxy /\ AnswersInTime /\ Downstream)

BothSpec == BothInit /\ [][BothNext]_bothVars /\ BothFairness
=============================================================================
