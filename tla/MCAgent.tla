------------------------------ MODULE MCAgent ------------------------------
(* One or two classes, two instance ids and two clients; the sets a run uses *)
(* are chosen in its configuration.                                          *)
EXTENDS Agent, TLC

CONSTANTS Foo, Bar, i1, i2, k1, k2, get, set, sum, a1, a2, b1, b2

OneClass == {Foo}
TwoClasses == {Foo, Bar}
MCObjects == {o \in {a1, a2, b1, b2} : (IF o \in {a1, a2} THEN Foo ELSE Bar) \in Classes}
MCObjectClass == [o \in MCObjects |-> IF o \in {a1, a2} THEN Foo ELSE Bar]
MCMemberFns == [c \in Classes |-> IF c = Foo THEN {get} ELSE {set}]
MCStaticFns == [c \in Classes |-> {sum}]
MCBase == [f \in Fns |-> CASE f = CreateIsolated -> "__createIsolated__"
                            [] f = CreateShared -> "__createShared__"
                            [] f = Delete -> "__delete__"
                            [] f = sum -> "sum"
                            [] OTHER -> "access"]  \* get and set: overloads of one name
OwnClass == {<<Foo, i1>>, <<Bar, i2>>}
AnyClass == Classes \X Ids
\* The instances of the runs satisfy the conditions of the theorems; with one
\* class no id is used with two.
ASSUME MCAgentConditions ==
  /\ StaticsApart /\ KeysMissClients
  /\ Cardinality(Classes) = 1 => OneClassPerId
\* With one class, clients, ids and addresses are interchangeable.
Symmetric == Permutations(Clients) \cup Permutations(Ids) \cup Permutations(Objects)
=============================================================================
