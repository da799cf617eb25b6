---------------------------- MODULE MCConnections ----------------------------
(* Three streams, two of them of the same target.                            *)
EXTENDS Connections

CONSTANTS a, b, c, t1, t2

TwoOfOneTarget == [s \in Streams |-> IF s = c THEN t2 ELSE t1]
=============================================================================
