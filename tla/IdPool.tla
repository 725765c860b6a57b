------------------------------- MODULE IdPool -------------------------------
(***************************************************************************)
(* What a packet id manager promises: a set of free ids, of which the      *)
(* lowest is handed out next.                                              *)
(***************************************************************************)
EXTENDS Integers

CONSTANTS Lowest, Highest

Values == Lowest..Highest

VARIABLES
  free,    \* the ids nobody holds
  last     \* the last operation, its argument and what it returned

poolVars == <<free, last>>

Init == free = Values /\ last = <<"clear">>

Allocate ==
  \/ free = {} /\ last' = <<"allocate">> /\ UNCHANGED free
  \/ \E v \in free :
       /\ \A w \in free : v <= w
       /\ last' = <<"allocate", v>>
       /\ free' = free \ {v}

Deallocate(v) == free' = free \cup {v} /\ last' = <<"deallocate", v>>

Use(v) == free' = free \ {v} /\ last' = <<"use", v, v \in free>>

Clear == free' = Values /\ last' = <<"clear">>

Next == Allocate \/ (\E v \in Values : Deallocate(v) \/ Use(v)) \/ Clear

Spec == Init /\ [][Next]_poolVars
=============================================================================
