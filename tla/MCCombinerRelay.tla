---------------------------- MODULE MCCombinerRelay ----------------------------
(* Instances of CombinerRelay for TLC. *)
EXTENDS CombinerRelay

F(t, n) == [id |-> 1, type |-> t, seq |-> n]

\* One stream: opened, used, ended by the client.
Exchange == {F("OPEN", 1), F("DATA", 2), F("FIN", 3)}
TwoChunks == {F("OPEN", 1), F("DATA", 2), F("DATA", 3)}

\* The control frames among them.
Fins == {[type |-> f.type, seq |-> f.seq] : f \in {g \in Sent : g.type = "FIN"}}

OpenTwice == [f \in Sent |-> IF f.type = "OPEN" THEN 2 ELSE 1]
=============================================================================
