--------------------------- MODULE MCLocalFactory ---------------------------
(* Two classes; one of the instance ids clients choose is also the name of   *)
(* a class. Each class has room for two live objects, and an address freed   *)
(* by a deletion may be handed out again.                                     *)
EXTENDS LocalFactory, TLC

CONSTANTS Foo, Bar, i1, i2, get, set, sum, a1, a2, a3, b1, b2, b3

MCClasses == {Foo, Bar}
MCIds == {Foo, i1, i2}
MCObjects == {a1, a2, a3, b1, b2, b3}
MCObjectClass == [o \in MCObjects |-> IF o \in {a1, a2, a3} THEN Foo ELSE Bar]
MCMemberFns == (Foo :> {get, set}) @@ (Bar :> {set})
MCStaticFns == (Foo :> {}) @@ (Bar :> {sum})
=============================================================================
