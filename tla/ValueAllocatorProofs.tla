------------------------ MODULE ValueAllocatorProofs ------------------------
(* The interval pool is canonical and implements the set of free ids, for    *)
(* any range.                                                                *)
EXTENDS ValueAllocator, TLAPS

Inv == pool \subseteq Intervals /\ Separated

Covers(p, w) == \E iv \in p : iv.low <= w /\ w <= iv.high

\* To compare the free values of two pools it is enough to compare coverage.
LEMMA FreeByCoverage ==
  /\ Free = {w \in Values : Covers(pool, w)}
  /\ Free' = {w \in Values : Covers(pool', w)}
  BY DEF Free, Covers

\* An interval that ends just below v is the one upper_bound's predecessor
\* names, so that the code finds every left neighbour there is.
LEMMA LeftNeighbour ==
  ASSUME Inv, NEW v \in Values, NEW iv \in pool, iv.high + 1 = v
  PROVE  LeftOf(iv, v)
  BY RangeAssumption DEF Inv, Separated, Intervals, Values, LeftOf, Before, Interval

\* Likewise the interval that starts just above v is the one upper_bound finds.
LEMMA RightNeighbour ==
  ASSUME Inv, NEW v \in Values, NEW iv \in pool, v + 1 = iv.low
  PROVE  RightOf(iv, v)
  BY RangeAssumption DEF Inv, Separated, Intervals, Values, RightOf, Before, Interval

LEMMA CoversMember ==
  ASSUME NEW p, NEW iv \in p, NEW w, iv.low <= w, w <= iv.high
  PROVE  Covers(p, w)
  BY DEF Covers

LEMMA CoversInterval ==
  ASSUME NEW p, NEW l, NEW h, Interval(l, h) \in p, NEW w, l <= w, w <= h
  PROVE  Covers(p, w)
  BY DEF Covers, Interval

\* Allocation removes the lowest free value and keeps the pool canonical.
LEMMA AllocateStep ==
  ASSUME Inv, Allocate
  PROVE  Inv' /\ Abstract!Allocate
<1>1. CASE pool = {} /\ last' = <<"allocate">> /\ UNCHANGED pool
  <2>1. Free = {} /\ Free' = Free
    BY <1>1 DEF Free
  <2>2. Inv'
    BY <1>1 DEF Inv, Separated
  <2>3. QED
    BY <1>1, <2>1, <2>2 DEF Abstract!Allocate
<1>2. ASSUME NEW iv \in pool, First(iv), last' = <<"allocate", iv.low>>,
             pool' = (pool \ {iv}) \cup
               (IF iv.low + 1 <= iv.high THEN {Interval(iv.low + 1, iv.high)} ELSE {})
      PROVE  Inv' /\ Abstract!Allocate
  <2>1. iv \in Intervals /\ iv.low \in Values /\ iv.high \in Values /\ iv.low <= iv.high
    BY DEF Inv, Intervals
  <2>2. pool' \subseteq Intervals
    BY <1>2, <2>1, RangeAssumption DEF Inv, Intervals, Interval, Values
  <2>3. Separated'
    BY <1>2, <2>1, RangeAssumption DEF Inv, Separated, Intervals, Interval, Values
  <2>4. Free' = Free \ {iv.low}
    <3>1. \A o \in pool : o \in [low : Values, high : Values] /\ o.low <= o.high
      BY DEF Inv, Intervals
    <3>2. ASSUME NEW w \in Values, Covers(pool', w)
          PROVE  Covers(pool, w) /\ w # iv.low
      BY <1>2, <2>1, <3>1, <3>2, RangeAssumption
         DEF First, Inv, Separated, Covers, Interval, Values
    <3>3. ASSUME NEW w \in Values, w # iv.low, NEW o \in pool, o.low <= w, w <= o.high
          PROVE  Covers(pool', w)
      <4>1. CASE o # iv
        BY <1>2, <3>3, <4>1, CoversMember
      <4>2. CASE o = iv
        <5>1. Interval(iv.low + 1, iv.high) \in pool' /\ iv.low + 1 <= w
          BY <1>2, <2>1, <3>3, <4>2, RangeAssumption DEF Values
        <5>2. QED
          BY <2>1, <3>3, <4>2, <5>1, CoversInterval, RangeAssumption DEF Values
      <4>3. QED
        BY <4>1, <4>2
    <3>4. QED
      BY <3>2, <3>3, FreeByCoverage DEF Covers
  <2>5. iv.low \in Free /\ \A w \in Free : iv.low <= w
    BY <1>2, <2>1, RangeAssumption DEF Inv, Free, First, Intervals, Values
  <2>6. QED
    BY <1>2, <2>2, <2>3, <2>4, <2>5 DEF Inv, Abstract!Allocate
<1>3. QED
  BY <1>1, <1>2 DEF Allocate

\* Releasing a value adds it to the free values and merges it with both of its
\* neighbours; a value that is free already changes nothing.
LEMMA DeallocateStep ==
  ASSUME Inv, NEW v \in Values, Deallocate(v)
  PROVE  Inv' /\ Abstract!Deallocate(v)
<1> DEFINE lefts == {iv \in pool : LeftOf(iv, v) /\ iv.high + 1 = v}
           rights == {iv \in pool : RightOf(iv, v) /\ v + 1 = iv.low}
           Goal == pool' \subseteq Intervals /\ Separated' /\ Free' = Free \cup {v}
<1>1. \A iv \in pool : (iv.high + 1 = v => iv \in lefts) /\ (v + 1 = iv.low => iv \in rights)
  BY LeftNeighbour, RightNeighbour
<1>2. \A iv \in pool : iv \in [low : Values, high : Values] /\ iv.low <= iv.high
  BY DEF Inv, Intervals
<1>3. ASSUME NEW l \in lefts, NEW r \in rights,
             pool' = (pool \ {l, r}) \cup {Interval(l.low, r.high)}
      PROVE  Goal
  <2>1. l \in pool /\ r \in pool /\ l.high + 1 = v /\ v + 1 = r.low
    OBVIOUS
  <2>2. pool' \subseteq Intervals
    BY <1>2, <1>3, <2>1, RangeAssumption DEF Inv, Intervals, Interval, Values
  <2>3. Separated'
    BY <1>2, <1>3, <2>1, RangeAssumption DEF Inv, Separated, Interval, Values
  <2>4. Free' = Free \cup {v}
    <3>1. ASSUME NEW w \in Values, Covers(pool', w)
          PROVE  Covers(pool, w) \/ w = v
      BY <1>2, <1>3, <2>1, <3>1, RangeAssumption DEF Covers, Interval, Values
    <3>2. Interval(l.low, r.high) \in pool'
      BY <1>3
    <3>3. ASSUME NEW w \in Values, Covers(pool, w) \/ w = v
          PROVE  Covers(pool', w)
      <4>1. CASE w = v
        BY <1>2, <2>1, <3>2, <4>1, CoversInterval, RangeAssumption DEF Values
      <4>2. ASSUME l.low <= w, w <= l.high
            PROVE  Covers(pool', w)
        BY <1>2, <2>1, <3>2, <4>2, CoversInterval, RangeAssumption DEF Values
      <4>3. ASSUME r.low <= w, w <= r.high
            PROVE  Covers(pool', w)
        BY <1>2, <2>1, <3>2, <4>3, CoversInterval, RangeAssumption DEF Values
      <4>4. ASSUME NEW iv \in pool, iv # l /\ iv # r, iv.low <= w, w <= iv.high
            PROVE  Covers(pool', w)
        <5>1. iv \in pool'
          BY <1>3, <4>4
        <5>2. QED
          BY <4>4, <5>1, CoversMember
      <4>5. QED
        BY <3>3, <4>1, <4>2, <4>3, <4>4 DEF Covers
    <3>4. QED
      BY <3>1, <3>3, FreeByCoverage
  <2>5. QED
    BY <2>2, <2>3, <2>4
<1>4. ASSUME NEW l \in lefts, rights = {},
             pool' = (pool \ {l}) \cup {Interval(l.low, v)}
      PROVE  Goal
  <2>1. l \in pool /\ l.high + 1 = v /\ \A iv \in pool : v + 1 # iv.low
    BY <1>1, <1>4
  <2>2. pool' \subseteq Intervals
    BY <1>2, <1>4, <2>1, RangeAssumption DEF Inv, Intervals, Interval, Values
  <2>3. Separated'
    BY <1>2, <1>4, <2>1, RangeAssumption DEF Inv, Separated, Interval, Values
  <2>4. Free' = Free \cup {v}
    <3>1. ASSUME NEW w \in Values, Covers(pool', w)
          PROVE  Covers(pool, w) \/ w = v
      BY <1>2, <1>4, <2>1, <3>1, RangeAssumption DEF Covers, Interval, Values
    <3>2. Interval(l.low, v) \in pool'
      BY <1>4
    <3>3. ASSUME NEW w \in Values, Covers(pool, w) \/ w = v
          PROVE  Covers(pool', w)
      <4>1. CASE w = v
        BY <1>2, <2>1, <3>2, <4>1, CoversInterval, RangeAssumption DEF Values
      <4>2. ASSUME l.low <= w, w <= l.high
            PROVE  Covers(pool', w)
        BY <1>2, <2>1, <3>2, <4>2, CoversInterval, RangeAssumption DEF Values
      <4>3. ASSUME NEW iv \in pool, iv # l, iv.low <= w, w <= iv.high
            PROVE  Covers(pool', w)
        <5>1. iv \in pool'
          BY <1>4, <4>3
        <5>2. QED
          BY <4>3, <5>1, CoversMember
      <4>4. QED
        BY <3>3, <4>1, <4>2, <4>3 DEF Covers
    <3>4. QED
      BY <3>1, <3>3, FreeByCoverage
  <2>5. QED
    BY <2>2, <2>3, <2>4
<1>5. ASSUME NEW r \in rights, lefts = {},
             pool' = (pool \ {r}) \cup {Interval(v, r.high)}
      PROVE  Goal
  <2>1. r \in pool /\ v + 1 = r.low /\ \A iv \in pool : iv.high + 1 # v
    BY <1>1, <1>5
  <2>2. pool' \subseteq Intervals
    BY <1>2, <1>5, <2>1, RangeAssumption DEF Inv, Intervals, Interval, Values
  <2>3. Separated'
    BY <1>2, <1>5, <2>1, RangeAssumption DEF Inv, Separated, Interval, Values
  <2>4. Free' = Free \cup {v}
    <3>1. ASSUME NEW w \in Values, Covers(pool', w)
          PROVE  Covers(pool, w) \/ w = v
      BY <1>2, <1>5, <2>1, <3>1, RangeAssumption DEF Covers, Interval, Values
    <3>2. Interval(v, r.high) \in pool'
      BY <1>5
    <3>3. ASSUME NEW w \in Values, Covers(pool, w) \/ w = v
          PROVE  Covers(pool', w)
      <4>1. CASE w = v
        BY <1>2, <2>1, <3>2, <4>1, CoversInterval, RangeAssumption DEF Values
      <4>2. ASSUME r.low <= w, w <= r.high
            PROVE  Covers(pool', w)
        BY <1>2, <2>1, <3>2, <4>2, CoversInterval, RangeAssumption DEF Values
      <4>3. ASSUME NEW iv \in pool, iv # r, iv.low <= w, w <= iv.high
            PROVE  Covers(pool', w)
        <5>1. iv \in pool'
          BY <1>5, <4>3
        <5>2. QED
          BY <4>3, <5>1, CoversMember
      <4>4. QED
        BY <3>3, <4>1, <4>2, <4>3 DEF Covers
    <3>4. QED
      BY <3>1, <3>3, FreeByCoverage
  <2>5. QED
    BY <2>2, <2>3, <2>4
<1>6. ASSUME lefts = {}, rights = {}, pool' = Emplaced(pool, Interval(v, v))
      PROVE  Goal
  <2>1. \A iv \in pool : iv.high + 1 # v /\ v + 1 # iv.low
    BY <1>1, <1>6
  <2>2. CASE \E o \in pool : ~Before(o, Interval(v, v)) /\ ~Before(Interval(v, v), o)
    <3>1. pool' = pool
      BY <1>6, <2>2 DEF Emplaced
    <3>2. v \in Free
      BY <1>2, <2>2, RangeAssumption DEF Free, Before, Interval, Values
    <3>3. QED
      BY <3>1, <3>2 DEF Inv, Free, Separated
  <2>3. CASE \A o \in pool : Before(o, Interval(v, v)) \/ Before(Interval(v, v), o)
    <3>1. pool' = pool \cup {Interval(v, v)}
      BY <1>6, <2>3 DEF Emplaced
    <3>2. pool' \subseteq Intervals
      BY <3>1 DEF Inv, Intervals, Interval, Values
    <3>3. Separated'
      BY <1>2, <2>1, <2>3, <3>1, RangeAssumption DEF Inv, Separated, Before, Interval, Values
    <3>4. ASSUME NEW w \in Values
          PROVE  Covers(pool', w) <=> Covers(pool, w) \/ w = v
      <4>1. Covers(pool', w) => Covers(pool, w) \/ w = v
        BY <3>1, RangeAssumption DEF Covers, Interval, Values
      <4>2. Covers(pool, w) => Covers(pool', w)
        BY <3>1 DEF Covers
      <4>3. w = v => Covers(pool', w)
        BY <3>1, CoversInterval, RangeAssumption DEF Values
      <4>4. QED
        BY <4>1, <4>2, <4>3
    <3>5. Free' = Free \cup {v}
      BY <3>4, FreeByCoverage
    <3>6. QED
      BY <3>2, <3>3, <3>5
  <2>4. QED
    BY <2>2, <2>3
<1>7. Goal
  BY <1>3, <1>4, <1>5, <1>6 DEF Deallocate
<1>8. QED
  BY <1>7 DEF Inv, Deallocate, Abstract!Deallocate

\* Declaring a value as used splits the interval that holds it, if any does.
LEMMA UseStep ==
  ASSUME Inv, NEW v \in Values, Use(v)
  PROVE  Inv' /\ Abstract!Use(v)
<1>1. \A iv \in pool : iv \in [low : Values, high : Values] /\ iv.low <= iv.high
  BY DEF Inv, Intervals
<1>2. CASE /\ \A iv \in pool : Before(iv, Interval(v, v)) \/ Before(Interval(v, v), iv)
           /\ last' = <<"use", v, FALSE>> /\ UNCHANGED pool
  <2>1. v \notin Free /\ Free' = Free
    BY <1>1, <1>2, RangeAssumption DEF Free, Before, Interval, Values
  <2>2. Inv'
    BY <1>2 DEF Inv, Separated
  <2>3. Free' = Free \ {v} /\ (v \in Free) = FALSE
    BY <2>1
  <2>4. QED
    BY <1>2, <2>2, <2>3 DEF Abstract!Use
<1>3. ASSUME NEW iv \in pool,
             ~Before(iv, Interval(v, v)), ~Before(Interval(v, v), iv),
             last' = <<"use", v, TRUE>>,
             pool' = (pool \ {iv})
                       \cup (IF iv.low < v THEN {Interval(iv.low, v - 1)} ELSE {})
                       \cup (IF v + 1 <= iv.high THEN {Interval(v + 1, iv.high)} ELSE {})
      PROVE  Inv' /\ Abstract!Use(v)
  <2>1. iv.low <= v /\ v <= iv.high /\ iv.low \in Values /\ iv.high \in Values
    BY <1>1, <1>3, RangeAssumption DEF Before, Interval, Values
  <2>2. pool' \subseteq Intervals
    BY <1>3, <2>1, RangeAssumption DEF Inv, Intervals, Interval, Values
  <2>3. Separated'
    BY <1>1, <1>3, <2>1, RangeAssumption DEF Inv, Separated, Interval, Values
  <2>4. v \in Free
    BY <2>1 DEF Free
  <2>5. Free' = Free \ {v}
    <3>1. ASSUME NEW w \in Values, Covers(pool', w)
          PROVE  Covers(pool, w) /\ w # v
      BY <1>1, <1>3, <2>1, <3>1, RangeAssumption DEF Inv, Separated, Covers, Interval, Values
    <3>2. ASSUME NEW w \in Values, w # v, NEW o \in pool, o.low <= w, w <= o.high
          PROVE  Covers(pool', w)
      <4>1. CASE o # iv
        BY <1>3, <3>2, <4>1 DEF Covers
      <4>2. CASE o = iv /\ w < v
        <5>1. Interval(iv.low, v - 1) \in pool'
          BY <1>3, <2>1, <3>2, <4>2, RangeAssumption DEF Values
        <5>2. QED
          BY <3>2, <4>2, <5>1, <2>1, CoversInterval, RangeAssumption DEF Values
      <4>3. CASE o = iv /\ v < w
        <5>1. Interval(v + 1, iv.high) \in pool'
          BY <1>3, <2>1, <3>2, <4>3, RangeAssumption DEF Values
        <5>2. QED
          BY <3>2, <4>3, <5>1, <2>1, CoversInterval, RangeAssumption DEF Values
      <4>4. QED
        BY <3>2, <4>1, <4>2, <4>3, RangeAssumption DEF Values
    <3>3. QED
      BY <3>1, <3>2, FreeByCoverage DEF Covers
  <2>6. (v \in Free) = TRUE
    BY <2>4
  <2>7. QED
    BY <1>3, <2>2, <2>3, <2>5, <2>6 DEF Inv, Abstract!Use
<1>4. QED
  BY <1>2, <1>3 DEF Use

\* A full pool is one interval.
LEMMA FullPool ==
  ASSUME pool = {Interval(Lowest, Highest)}
  PROVE  Inv /\ Free = Values
  BY RangeAssumption DEF Inv, Separated, Free, Intervals, Interval, Values

LEMMA StepLemma ==
  ASSUME Inv, [Next]_allocatorVars
  PROVE  Inv' /\ [Abstract!Next]_(Abstract!poolVars)
<1>1. CASE Allocate
  BY <1>1, AllocateStep DEF Abstract!Next
<1>2. ASSUME NEW v \in Values, Deallocate(v)
      PROVE  Inv' /\ Abstract!Next
  BY <1>2, DeallocateStep DEF Abstract!Next, Abstract!Values, Values
<1>3. ASSUME NEW v \in Values, Use(v)
      PROVE  Inv' /\ Abstract!Next
  BY <1>3, UseStep DEF Abstract!Next, Abstract!Values, Values
<1>4. CASE Clear
  <2>1. Inv' /\ Free' = Values
    BY <1>4, RangeAssumption DEF Clear, Inv, Separated, Free, Intervals, Interval, Values
  <2>2. QED
    BY <1>4, <2>1 DEF Clear, Abstract!Next, Abstract!Clear, Abstract!Values, Values
<1>5. CASE UNCHANGED allocatorVars
  BY <1>5 DEF allocatorVars, Inv, Separated, Free, Abstract!poolVars
<1>6. QED
  BY <1>1, <1>2, <1>3, <1>4, <1>5 DEF Next

\* The intervals stay disjoint, merged and in order under every sequence of
\* operations, double releases included.
THEOREM SeparatedHolds == Spec => []Separated
<1>1. Init => Inv
  BY FullPool DEF Init
<1>2. Inv /\ [Next]_allocatorVars => Inv'
  BY StepLemma
<1>3. Inv => Separated
  BY DEF Inv
<1>4. QED
  BY <1>1, <1>2, <1>3, PTL DEF Spec

\* The interval pool implements the set of free ids: the operations return the
\* same values and free or take the same ids.
THEOREM Refinement == Spec => ImplementsIdPool
<1>1. Init => Inv /\ Abstract!Init
  BY FullPool DEF Init, Abstract!Init, Abstract!Values, Values
<1>2. Inv /\ [Next]_allocatorVars => Inv' /\ [Abstract!Next]_(Abstract!poolVars)
  BY StepLemma
<1>3. QED
  BY <1>1, <1>2, PTL DEF Spec, ImplementsIdPool, Abstract!Spec
=============================================================================
