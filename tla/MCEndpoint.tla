----------------------------- MODULE MCEndpoint -----------------------------
(* Small instances of Endpoint. The names of the messages end in their QoS.  *)
EXTENDS Endpoint, TLC
CONSTANTS a1, b1, c2, d2, x2, y2, z1
Levels == [m \in Msgs \cup InMsgs |-> IF m \in {a1, b1, z1} THEN 1 ELSE 2]
Symmetric == Permutations({a1, b1}) \cup Permutations({c2, d2}) \cup Permutations({x2, y2})
=============================================================================
