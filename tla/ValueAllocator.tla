--------------------------- MODULE ValueAllocator ---------------------------
(***************************************************************************)
(* The packet id pool of src/vrpc/mqtt/value_allocator.hpp, used through   *)
(* packet_id_manager.hpp: the free values as a set of intervals that an    *)
(* ordered index keeps sorted. Two intervals that overlap are equivalent   *)
(* to the index, so that it refuses the second.                            *)
(***************************************************************************)
EXTENDS Integers

CONSTANTS
  Lowest, Highest   \* the range of the allocator

ASSUME RangeAssumption == Lowest \in Nat /\ Highest \in Nat /\ Lowest <= Highest

Values == Lowest..Highest
Interval(l, h) == [low |-> l, high |-> h]
Intervals == {iv \in [low : Values, high : Values] : iv.low <= iv.high}

VARIABLES
  pool,    \* the intervals of free values
  last     \* the last operation, its argument and what it returned: allocate a
           \* value or nothing, use whether the value was free

allocatorVars == <<pool, last>>

(* The order of the index; intervals neither before nor after are equal to it. *)
Before(a, b) == a.low < b.low /\ a.high < b.low
\* Mutant: a value without free neighbours is not put back.
EmplacedNever(p, iv) == p
Emplaced(p, iv) ==
  IF \E o \in p : ~Before(o, iv) /\ ~Before(iv, o) THEN p ELSE p \cup {iv}

First(iv) == iv \in pool /\ \A o \in pool : iv.low <= o.low
\* the element upper_bound finds for v, and the one before it
\* Mutant: the interval on the right is never found.
RightOfNothing(iv, v) == FALSE
RightOf(iv, v) ==
  /\ iv \in pool /\ Before(Interval(v, v), iv)
  /\ \A o \in pool : Before(Interval(v, v), o) => iv.low <= o.low
LeftOf(iv, v) ==
  /\ iv \in pool /\ ~Before(Interval(v, v), iv)
  /\ \A o \in pool : ~Before(Interval(v, v), o) => o.low <= iv.low

Init == pool = {Interval(Lowest, Highest)} /\ last = <<"clear">>

Allocate ==
  \/ pool = {} /\ last' = <<"allocate">> /\ UNCHANGED pool
  \/ \E iv \in pool :
       /\ First(iv)
       /\ last' = <<"allocate", iv.low>>
       /\ pool' = (pool \ {iv}) \cup
            (IF iv.low + 1 <= iv.high THEN {Interval(iv.low + 1, iv.high)} ELSE {})

Deallocate(v) ==
  LET lefts == {iv \in pool : LeftOf(iv, v) /\ iv.high + 1 = v}
      rights == {iv \in pool : RightOf(iv, v) /\ v + 1 = iv.low}
  IN /\ \/ \E l \in lefts, r \in rights :
             pool' = (pool \ {l, r}) \cup {Interval(l.low, r.high)}
        \/ rights = {} /\ \E l \in lefts : pool' = (pool \ {l}) \cup {Interval(l.low, v)}
        \/ lefts = {} /\ \E r \in rights : pool' = (pool \ {r}) \cup {Interval(v, r.high)}
        \/ lefts = {} /\ rights = {} /\ pool' = Emplaced(pool, Interval(v, v))
     /\ last' = <<"deallocate", v>>

Use(v) ==
  \/ /\ \A iv \in pool : Before(iv, Interval(v, v)) \/ Before(Interval(v, v), iv)
     /\ last' = <<"use", v, FALSE>> /\ UNCHANGED pool
  \/ \E iv \in pool :
       /\ ~Before(iv, Interval(v, v)) /\ ~Before(Interval(v, v), iv)
       /\ last' = <<"use", v, TRUE>>
       /\ pool' = (pool \ {iv})
            \cup (IF iv.low < v THEN {Interval(iv.low, v - 1)} ELSE {})
            \cup (IF v + 1 <= iv.high THEN {Interval(v + 1, iv.high)} ELSE {})

Clear == pool' = {Interval(Lowest, Highest)} /\ last' = <<"clear">>

Next == Allocate \/ (\E v \in Values : Deallocate(v) \/ Use(v)) \/ Clear

Spec == Init /\ [][Next]_allocatorVars

-----------------------------------------------------------------------------
\* No value is in two intervals, and neighbouring values are in one: every
\* interval that could be merged has been, so the index is never fragmented by
\* the order in which ids come back.
Separated ==
  \A a, b \in pool : a = b \/ a.high + 1 < b.low \/ b.high + 1 < a.low

Free == {v \in Values : \E iv \in pool : iv.low <= v /\ v <= iv.high}

\* The intervals behave as the plain set of free ids: an id is handed out at
\* most once until it is released, lowest first; releasing a free id is a no-op.
Abstract == INSTANCE IdPool WITH free <- Free
ImplementsIdPool == Abstract!Spec
=============================================================================
