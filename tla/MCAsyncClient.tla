--------------------------- MODULE MCAsyncClient ---------------------------
(* Small instances of AsyncClient. Messages have one or two bytes in turn.   *)
EXTENDS AsyncClient
Sizes == [n \in 1..MaxPubs |-> 1 + (n % 2)]
=============================================================================
