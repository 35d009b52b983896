--------------------------- MODULE MCBondingSession ---------------------------
(* Instances of BondingSession for TLC. *)
EXTENDS BondingSession

F(i, t, n) == [id |-> i, type |-> t, seq |-> n]

\* A stream the peer opens and sends data on, and the answer to one that is
\* opened here.
TwoStreams == {F(1, "OPEN", 1), F(1, "DATA", 2), F(2, "DATA", 1)}

\* The OPEN of the first stream comes over two arteries.
OpenTwice == [f \in Sent |-> IF f = F(1, "OPEN", 1) THEN 2 ELSE 1]
=============================================================================
