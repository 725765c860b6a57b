----------------------------- MODULE AgentProofs ----------------------------
(* Safety of the function registry, for any classes, ids and functions, and   *)
(* of the agent that owns it, for any clients and any number of calls and     *)
(* broken connections.                                                       *)
EXTENDS Agent, CollectionLemmas

(* Invariants of the function registry, for any classes, ids and functions.  *)

\* A call either leaves the registry alone, creates one instance or deletes
\* one: the cases every invariant below is checked against.
NewInstance(c, i, o) ==
  /\ ~Exists(i)
  /\ o \in Objects
  /\ ObjectClass[o] = c
  /\ Bind(i, c, o)
  /\ instances' = [instances EXCEPT ![i] = o]
  /\ \/ UNCHANGED sharedInstances
     \/ sharedInstances' = [sharedInstances EXCEPT ![i] = IF @ = None THEN c ELSE @]

Removal(i) ==
  /\ Exists(i)
  /\ functionRegistry' = [functionRegistry EXCEPT ![i] = [f \in Fns |-> Unbound]]
  /\ instances' = [instances EXCEPT ![i] = None]
  /\ sharedInstances' = [sharedInstances EXCEPT ![i] = None]

LEMMA StepCases ==
  ASSUME FactoryNext
  PROVE  \/ UNCHANGED factoryVars
         \/ \E c \in Classes, i \in Ids, o \in Objects : NewInstance(c, i, o)
         \/ \E i \in Ids : Removal(i)
<1>1. PICK x \in Contexts, f \in Fns, i \in Ids, ok \in BOOLEAN : Call(x, f, i, ok)
  BY DEF FactoryNext
<1>2. CASE UNCHANGED factoryVars
  BY <1>2
<1>3. CASE x \in Classes /\ CreateNewIsolated(x, i)
  BY <1>3 DEF CreateNewIsolated, NewInstance, Fresh
<1>4. CASE x \in Classes /\ CreateNewShared(x, i)
  BY <1>4 DEF CreateNewShared, NewInstance, Fresh
<1>5. CASE DeleteInstance(i)
  BY <1>5 DEF DeleteInstance, Removal
<1>6. QED
  BY <1>1, <1>2, <1>3, <1>4, <1>5 DEF Call, CreateExisting, CreateThrows

LEMMA FactoryStepKeepsType ==
  ASSUME FactoryTypeOK, FactoryNext
  PROVE  FactoryTypeOK'
<1>1. CASE UNCHANGED factoryVars
  BY <1>1 DEF FactoryTypeOK, factoryVars
<1>2. ASSUME NEW c \in Classes, NEW i \in Ids, NEW o \in Objects, NewInstance(c, i, o)
      PROVE  FactoryTypeOK'
  <2>1. functionRegistry' \in [Contexts -> [Fns -> Bindings]]
    <3>1. i \in Contexts
      BY DEF Contexts
    <3>2. [f \in Fns |-> IF f \in MemberFns[c] THEN o ELSE functionRegistry[i][f]]
            \in [Fns -> Bindings]
      BY <3>1 DEF FactoryTypeOK, Bindings
    <3>3. QED
      BY <1>2, <3>1, <3>2 DEF FactoryTypeOK, NewInstance, Bind
  <2>2. instances' \in [Ids -> Objects \cup {None}]
    BY <1>2 DEF FactoryTypeOK, NewInstance
  <2>3. sharedInstances' \in [Ids -> Classes \cup {None}]
    BY <1>2 DEF FactoryTypeOK, NewInstance
  <2>4. QED
    BY <2>1, <2>2, <2>3 DEF FactoryTypeOK
<1>3. ASSUME NEW i \in Ids, Removal(i)
      PROVE  FactoryTypeOK'
  BY <1>3 DEF FactoryTypeOK, Removal, Contexts, Bindings
<1>4. QED
  BY <1>1, <1>2, <1>3, StepCases

\* Type correctness: every call keeps the three maps within their domains.
THEOREM FactoryTypeCorrect == FactorySpec => []FactoryTypeOK
<1>1. FactoryInit => FactoryTypeOK
  BY FactoryAssumption DEF FactoryInit, FactoryTypeOK, Contexts, Bindings
<1>2. FactoryTypeOK /\ [FactoryNext]_factoryVars => FactoryTypeOK'
  BY FactoryStepKeepsType DEF FactoryTypeOK, factoryVars
<1>3. QED
  BY <1>1, <1>2, PTL DEF FactorySpec

\* No call reaches a deleted object: the functions bound under an id are bound
\* to the object the id stands for now.
THEOREM BoundToLiveHolds == FactorySpec => []BoundToLive
<1>1. FactoryInit => BoundToLive
  BY FactoryAssumption DEF FactoryInit, BoundToLive, Contexts
<1>2. FactoryTypeOK /\ BoundToLive /\ [FactoryNext]_factoryVars => BoundToLive'
  <2>1. SUFFICES ASSUME FactoryTypeOK, BoundToLive, [FactoryNext]_factoryVars,
                        NEW j \in Ids, NEW g \in Fns,
                        functionRegistry'[j][g] \in Objects
                 PROVE  functionRegistry'[j][g] = instances'[j]
    BY DEF BoundToLive
  <2>2. CASE UNCHANGED factoryVars
    BY <2>1, <2>2 DEF BoundToLive, factoryVars
  <2>3. ASSUME NEW c \in Classes, NEW i \in Ids, NEW o \in Objects, NewInstance(c, i, o)
        PROVE  functionRegistry'[j][g] = instances'[j]
    <3>1. CASE j = i
      <4>1. functionRegistry[i][g] \notin Objects
        BY <2>1, <2>3, <3>1, FactoryAssumption DEF BoundToLive, NewInstance, Exists
      <4>2. functionRegistry'[i][g] = IF g \in MemberFns[c] THEN o ELSE functionRegistry[i][g]
        BY <2>1, <2>3 DEF NewInstance, Bind, FactoryTypeOK, Contexts
      <4>3. QED
        BY <2>1, <2>3, <3>1, <4>1, <4>2 DEF NewInstance, FactoryTypeOK
    <3>2. CASE j # i
      BY <2>1, <2>3, <3>2 DEF NewInstance, Bind, FactoryTypeOK, Contexts, BoundToLive
    <3>3. QED
      BY <3>1, <3>2
  <2>4. ASSUME NEW i \in Ids, Removal(i)
        PROVE  functionRegistry'[j][g] = instances'[j]
    BY <2>1, <2>4, FactoryAssumption DEF Removal, FactoryTypeOK, Contexts, BoundToLive
  <2>5. QED
    BY <2>1, <2>2, <2>3, <2>4, StepCases
<1>3. QED
  BY <1>1, <1>2, FactoryTypeCorrect, PTL DEF FactorySpec

\* The function registry and the instance map agree on every id that is not
\* the name of a class.
THEOREM ContextMatchesInstanceHolds == FactorySpec => []ContextMatchesInstance
<1>1. FactoryInit => ContextMatchesInstance
  BY DEF FactoryInit, ContextMatchesInstance, Contexts, Found, Exists
<1>2. FactoryTypeOK /\ ContextMatchesInstance /\ [FactoryNext]_factoryVars => ContextMatchesInstance'
  <2>1. SUFFICES ASSUME FactoryTypeOK, ContextMatchesInstance, [FactoryNext]_factoryVars,
                        NEW j \in Ids \ Classes, NEW g \in Fns
                 PROVE  functionRegistry'[j][g] # Unbound
                          <=> /\ instances'[j] # None
                              /\ g \in MemberFns[ObjectClass[instances'[j]]]
    BY DEF ContextMatchesInstance, Found, Exists
  <2> DEFINE Goal == functionRegistry'[j][g] # Unbound
                       <=> /\ instances'[j] # None
                           /\ g \in MemberFns[ObjectClass[instances'[j]]]
  <2>2. functionRegistry[j][g] # Unbound
          <=> /\ instances[j] # None
              /\ g \in MemberFns[ObjectClass[instances[j]]]
    BY <2>1 DEF ContextMatchesInstance, Found, Exists
  <2>3. CASE UNCHANGED factoryVars
    BY <2>2, <2>3 DEF factoryVars
  <2>4. ASSUME NEW c \in Classes, NEW i \in Ids, NEW o \in Objects, NewInstance(c, i, o)
        PROVE  Goal
    <3>1. CASE j = i
      <4>1. functionRegistry[j][g] = Unbound
        BY <2>2, <2>4, <3>1 DEF NewInstance, Exists
      <4>2. functionRegistry'[j][g] = IF g \in MemberFns[c] THEN o ELSE functionRegistry[j][g]
        BY <2>1, <2>4, <3>1 DEF NewInstance, Bind, FactoryTypeOK, Contexts
      <4>3. instances'[j] = o
        BY <2>1, <2>4, <3>1 DEF NewInstance, FactoryTypeOK
      <4>4. QED
        BY <2>4, <4>1, <4>2, <4>3, FactoryAssumption DEF NewInstance
    <3>2. CASE j # i
      <4>1. functionRegistry'[j] = functionRegistry[j] /\ instances'[j] = instances[j]
        BY <2>1, <2>4, <3>2 DEF NewInstance, Bind, FactoryTypeOK, Contexts
      <4>2. QED
        BY <2>2, <4>1
    <3>3. QED
      BY <3>1, <3>2
  <2>5. ASSUME NEW i \in Ids, Removal(i)
        PROVE  Goal
    BY <2>1, <2>2, <2>5 DEF Removal, FactoryTypeOK, Contexts
  <2>6. QED
    BY <2>1, <2>3, <2>4, <2>5, StepCases
<1>3. QED
  BY <1>1, <1>2, FactoryTypeCorrect, PTL DEF FactorySpec

\* Every id listed as a shared instance is alive and of the class it is listed
\* under, whatever mix of isolated and shared creations and deletions ran.
THEOREM SharedIsLiveHolds == FactorySpec => []SharedIsLive
<1>1. FactoryInit => SharedIsLive
  BY DEF FactoryInit, SharedIsLive
<1>2. FactoryTypeOK /\ SharedIsLive /\ [FactoryNext]_factoryVars => SharedIsLive'
  <2>1. SUFFICES ASSUME FactoryTypeOK, SharedIsLive, [FactoryNext]_factoryVars PROVE SharedIsLive'
    OBVIOUS
  <2>2. CASE UNCHANGED factoryVars
    BY <2>1, <2>2 DEF SharedIsLive, Exists, factoryVars
  <2>3. ASSUME NEW c \in Classes, NEW i \in Ids, NEW o \in Objects, NewInstance(c, i, o)
        PROVE  SharedIsLive'
    <3>1. sharedInstances[i] = None
      BY <2>1, <2>3 DEF SharedIsLive, NewInstance
    <3>2. instances'[i] = o /\ sharedInstances'[i] \in {None, c}
      BY <2>1, <2>3, <3>1 DEF NewInstance, FactoryTypeOK
    <3>3. \A j \in Ids \ {i} : instances'[j] = instances[j] /\ sharedInstances'[j] = sharedInstances[j]
      BY <2>1, <2>3 DEF NewInstance, FactoryTypeOK
    <3>4. QED
      BY <2>1, <2>3, <3>2, <3>3, FactoryAssumption DEF SharedIsLive, Exists, NewInstance
  <2>4. ASSUME NEW i \in Ids, Removal(i)
        PROVE  SharedIsLive'
    BY <2>1, <2>4 DEF SharedIsLive, Exists, Removal, FactoryTypeOK
  <2>5. QED
    BY <2>1, <2>2, <2>3, <2>4, StepCases
<1>3. QED
  BY <1>1, <1>2, FactoryTypeCorrect, PTL DEF FactorySpec

\* A class whose name no instance takes keeps its constructors, its destructor
\* and its static functions for ever.
THEOREM StaticsKeptHolds == FactorySpec => []StaticsKept
<1>1. FactoryInit => StaticsKept
  BY FactoryAssumption DEF FactoryInit, StaticsKept, Contexts, Found
<1>2. FactoryTypeOK /\ StaticsKept /\ [FactoryNext]_factoryVars => StaticsKept'
  <2>1. SUFFICES ASSUME FactoryTypeOK, [FactoryNext]_factoryVars, NEW c \in Classes \ Ids
                 PROVE  functionRegistry'[c] = functionRegistry[c]
    BY DEF StaticsKept, Found
  <2>2. CASE UNCHANGED factoryVars
    BY <2>2 DEF factoryVars
  <2>3. ASSUME NEW d \in Classes, NEW i \in Ids, NEW o \in Objects, NewInstance(d, i, o)
        PROVE  functionRegistry'[c] = functionRegistry[c]
    BY <2>1, <2>3 DEF NewInstance, Bind, FactoryTypeOK, Contexts
  <2>4. ASSUME NEW i \in Ids, Removal(i)
        PROVE  functionRegistry'[c] = functionRegistry[c]
    BY <2>1, <2>4 DEF Removal, FactoryTypeOK, Contexts
  <2>5. QED
    BY <2>1, <2>2, <2>3, <2>4, StepCases
<1>3. QED
  BY <1>1, <1>2, FactoryTypeCorrect, PTL DEF FactorySpec

\* As long as an id stays alive, no call exchanges its object or turns an
\* isolated instance into a shared one or back.
THEOREM IdentityIsStableHolds == FactorySpec => IdentityIsStable
<1>1. FactoryTypeOK /\ [FactoryNext]_factoryVars =>
        [\A i \in Ids : Exists(i) /\ instances'[i] # None =>
            /\ instances'[i] = instances[i]
            /\ sharedInstances'[i] = sharedInstances[i]]_factoryVars
  <2>1. SUFFICES ASSUME FactoryTypeOK, [FactoryNext]_factoryVars,
                        NEW j \in Ids, Exists(j), instances'[j] # None
                 PROVE  instances'[j] = instances[j] /\ sharedInstances'[j] = sharedInstances[j]
    OBVIOUS
  <2>2. CASE UNCHANGED factoryVars
    BY <2>2 DEF factoryVars
  <2>3. ASSUME NEW c \in Classes, NEW i \in Ids, NEW o \in Objects, NewInstance(c, i, o)
        PROVE  instances'[j] = instances[j] /\ sharedInstances'[j] = sharedInstances[j]
    BY <2>1, <2>3 DEF NewInstance, FactoryTypeOK, Exists
  <2>4. ASSUME NEW i \in Ids, Removal(i)
        PROVE  instances'[j] = instances[j] /\ sharedInstances'[j] = sharedInstances[j]
    BY <2>1, <2>4 DEF Removal, FactoryTypeOK, Exists
  <2>5. QED
    BY <2>1, <2>2, <2>3, <2>4, StepCases
<1>2. QED
  BY <1>1, FactoryTypeCorrect, PTL DEF FactorySpec, IdentityIsStable

-----------------------------------------------------------------------------
(* Safety of the agent, for any classes, ids, clients and any number of calls *)
(* and broken connections.                                                    *)

\* Network, broker and clients touch no state of the agent.
LEMMA EnvironmentKeepsAgent ==
  ASSUME EnvironmentNext
  PROVE  UNCHANGED agentVars /\ UNCHANGED factoryVars
<1>1. CASE WireBreaks \/ ProcessExits \/ BrokerNoticesLoss
  BY <1>1 DEF WireBreaks, ProcessExits, BrokerNoticesLoss
<1>2. CASE BrokerAccepts \/ BrokerRefuses
  BY <1>2 DEF BrokerAccepts, BrokerRefuses
<1>3. CASE BrokerHandles
  BY <1>3 DEF BrokerHandles
<1>4. ASSUME NEW k \in Clients, NEW c \in Classes, NEW f \in Fns, ClientCalls(k, c, f)
      PROVE  UNCHANGED agentVars /\ UNCHANGED factoryVars
  BY <1>4 DEF ClientCalls
<1>5. ASSUME NEW k \in Clients, ClientLeaves(k)
      PROVE  UNCHANGED agentVars /\ UNCHANGED factoryVars
  BY <1>5 DEF ClientLeaves
<1>6. QED
  BY <1>1, <1>2, <1>3, <1>4, <1>5 DEF EnvironmentNext

-----------------------------------------------------------------------------
(* Reconnection.                                                             *)

\* Before serve() has connected nothing is armed and nothing is connected; that
\* is what its first attempt builds on.
LinkInv ==
  /\ timer \in BOOLEAN
  /\ phase = "starting" => link = "down"
  /\ NeverStranded

LEMMA LinkInvHolds == Spec => []LinkInv
<1>1. Init => LinkInv
  BY DEF Init, LinkInv, NeverStranded
<1>2. LinkInv /\ [Next]_vars => LinkInv'
  <2> SUFFICES ASSUME LinkInv, [Next]_vars
               PROVE  LinkInv'
    OBVIOUS
  <2> USE DEF LinkInv, NeverStranded
  <2>1. CASE Serve(ConnectSucceeds)
    BY <2>1 DEF Serve, ConnectSucceeds
  <2>2. CASE Serve(ConnectFails)
    BY <2>2 DEF Serve, ConnectFails
  <2>3. CASE TimerFires(ConnectSucceeds)
    BY <2>3 DEF TimerFires, ConnectSucceeds
  <2>4. CASE TimerFires(ConnectFails)
    BY <2>4 DEF TimerFires, ConnectFails
  <2>5. CASE ConnectionLost
    BY <2>5 DEF ConnectionLost
  <2>6. CASE OnConnack
    BY <2>6 DEF OnConnack
  <2>7. CASE OnCall \/ OnClientOffline
    BY <2>7 DEF OnCall, OnClientOffline, agentVars
  <2>8. ASSUME NEW r \in NextTask,
               \/ RunCreateIsolated(r) \/ RunCreateShared(r) \/ RunCreateFails(r)
               \/ RunDelete(r) \/ RunFunction(r)
        PROVE  LinkInv'
    <3>1. UNCHANGED <<link, timer>>
      BY <2>8 DEF RunCreateIsolated, RunCreateShared, RunCreateFails, RunDelete, RunFunction, Runs
    <3>2. phase' = phase \/ phase' = "crashed"
      BY <2>8 DEF RunCreateIsolated, RunCreateShared, RunCreateFails, RunDelete, RunFunction
    <3>3. link' = link /\ timer' = timer
      BY <3>1
    <3>4. QED
      BY <3>2, <3>3
  <2>9. CASE End
    BY <2>9 DEF End
  <2>10. CASE EnvironmentNext
    <3>1. UNCHANGED agentVars
      BY <2>10, EnvironmentKeepsAgent
    <3>2. QED
      BY <3>1 DEF agentVars
  <2>11. CASE UNCHANGED vars
    BY <2>11 DEF vars, agentVars
  <2>12. QED
    BY <2>1, <2>2, <2>3, <2>4, <2>5, <2>6, <2>7, <2>8, <2>9, <2>10, <2>11 DEF Next, AgentNext
<1>3. QED
  BY <1>1, <1>2, PTL DEF Spec

\* A running agent is connected or about to try again, never both.
THEOREM NeverStrandedHolds == Spec => []NeverStranded
<1>1. LinkInv => NeverStranded
  BY DEF LinkInv
<1>2. QED
  BY <1>1, LinkInvHolds, PTL
-----------------------------------------------------------------------------
(* Ownership of isolated instances.                                          *)

\* What is routed to the agent, and what is queued from it, is well formed: a
\* lifecycle call names an instance, by a class clients use for it.
RemoteCalls ==
  {m \in [kind : {"call"}, call : Nat, client : Clients, class : Classes,
          ctx : Ids \cup {"__static__"}, fn : Fns, arg : Ids \cup {None}] :
     m.fn \in Lifecycle => <<m.class, m.arg>> \in Uses}
Notices == {Connack(b) : b \in BOOLEAN} \cup {ClientOffline(k) : k \in Clients}

OwnerInv ==
  /\ FactoryTypeOK
  /\ calls \in Nat
  /\ tasks \in Seq(RemoteCalls)
  /\ toAgent \in Seq(RemoteCalls \cup Notices)
  /\ isolatedInstances \in [Clients -> SUBSET (Ids \X Classes)]
  /\ tracked \subseteq Clients
  /\ IsolatedHasOwner

Isolated(i) == Exists(i) /\ sharedInstances[i] = None

\* A call makes at most its own instance isolated, and only by a successful
\* __createIsolated__.
LEMMA CallIsolates ==
  ASSUME FactoryTypeOK, NEW x, NEW f, NEW i \in Ids \cup {None}, NEW ok \in BOOLEAN,
         Call(x, f, i, ok), f \in Lifecycle => i \in Ids,
         NEW j \in Ids, Isolated(j)'
  PROVE  \/ Isolated(j)
         \/ j = i /\ f = CreateIsolated /\ ok
<1> USE DEF Isolated, Exists
<1>1. CASE UNCHANGED factoryVars
  BY <1>1 DEF factoryVars
<1>2. CASE f = CreateIsolated /\ ok /\ CreateNewIsolated(x, i)
  BY <1>2 DEF CreateNewIsolated, FactoryTypeOK
<1>3. CASE f \in Lifecycle /\ x \in Classes /\ CreateNewShared(x, i)
  BY <1>3, FactoryAssumption DEF CreateNewShared, FactoryTypeOK
<1>4. CASE f \in Lifecycle /\ DeleteInstance(i)
  BY <1>4 DEF DeleteInstance, FactoryTypeOK, factoryVars
<1>5. QED
  BY <1>1, <1>2, <1>3, <1>4 DEF Call, CreateExisting, CreateThrows, Lifecycle

LEMMA CallKeepsType ==
  ASSUME FactoryTypeOK, NEW x \in Contexts, NEW f \in Fns, NEW i \in Ids \cup {None},
         NEW ok \in BOOLEAN, Call(x, f, i, ok), f \in Lifecycle => i \in Ids
  PROVE  FactoryTypeOK'
<1>1. CASE f \in Lifecycle
  <2>1. FactoryNext
    BY <1>1 DEF FactoryNext
  <2>2. QED
    BY <2>1, FactoryStepKeepsType
<1>2. CASE f \notin Lifecycle
  BY <1>2 DEF Call, FactoryTypeOK, factoryVars, Lifecycle
<1>3. QED
  BY <1>1, <1>2

LEMMA LifecycleCallNamesInstance ==
  ASSUME NEW r \in RemoteCalls, r.fn \in Lifecycle
  PROVE  r.arg \in Ids
<1>1. <<r.class, r.arg>> \in Classes \X Ids
  BY AgentAssumption DEF RemoteCalls
<1>2. QED
  BY <1>1

LEMMA QueueStep ==
  ASSUME OwnerInv, NEW r \in NextTask, Runs
  PROVE  /\ r \in RemoteCalls
         /\ tasks' \in Seq(RemoteCalls)
         /\ toAgent' \in Seq(RemoteCalls \cup Notices)
         /\ calls' \in Nat
<1>1. tasks # <<>> /\ r = Head(tasks)
  BY DEF NextTask
<1>2. QED
  BY <1>1 DEF OwnerInv, Runs, clientVars

\* It is enough that registrations do not shrink and that a new isolated
\* instance is registered.
LEMMA OwnersKept ==
  ASSUME OwnerInv, FactoryTypeOK', tracked \subseteq tracked',
         \A k \in Clients, i \in Ids, c \in Classes :
            <<i, c>> \in isolatedInstances[k] => <<i, c>> \in isolatedInstances'[k],
         \A j \in Ids : Isolated(j)' =>
            \/ Isolated(j)
            \/ \E k \in tracked', c \in Classes : <<j, c>> \in isolatedInstances'[k]
  PROVE  IsolatedHasOwner'
<1>1. SUFFICES ASSUME NEW j \in Ids, Isolated(j)'
               PROVE  \E k \in tracked', c \in Classes : <<j, c>> \in isolatedInstances'[k]
  BY DEF IsolatedHasOwner, Isolated, Exists
<1>2. CASE Isolated(j)
  <2>1. PICK k \in tracked, c \in Classes : <<j, c>> \in isolatedInstances[k]
    BY <1>2 DEF OwnerInv, IsolatedHasOwner, Isolated
  <2>2. k \in Clients /\ k \in tracked'
    BY DEF OwnerInv
  <2>3. QED
    BY <2>1, <2>2
<1>3. QED
  BY <1>1, <1>2

\* Only queued calls and client notices touch what OwnerInv speaks of, apart
\* from the messages themselves.
LEMMA MessagesStep ==
  ASSUME OwnerInv, UNCHANGED <<factoryVars, isolatedInstances, tracked>>,
         calls' \in Nat, tasks' \in Seq(RemoteCalls),
         toAgent' \in Seq(RemoteCalls \cup Notices)
  PROVE  OwnerInv'
BY DEF OwnerInv, FactoryTypeOK, factoryVars, IsolatedHasOwner, Exists

\* The registry part of a queued call, whatever else it does.
LEMMA CallStep ==
  ASSUME OwnerInv, NEW r \in NextTask, Runs,
         NEW x \in Contexts, NEW ok \in BOOLEAN, Call(x, r.fn, r.arg, ok),
         isolatedInstances' \in [Clients -> SUBSET (Ids \X Classes)],
         tracked' \subseteq Clients, tracked \subseteq tracked',
         \A k \in Clients, i \in Ids, c \in Classes :
            <<i, c>> \in isolatedInstances[k] => <<i, c>> \in isolatedInstances'[k],
         r.fn = CreateIsolated /\ ok =>
            \E k \in tracked', c \in Classes : <<r.arg, c>> \in isolatedInstances'[k]
  PROVE  OwnerInv'
<1>1. r \in RemoteCalls
  BY QueueStep
<1>2. r.fn \in Fns /\ r.arg \in Ids \cup {None} /\ (r.fn \in Lifecycle => r.arg \in Ids)
  BY <1>1, LifecycleCallNamesInstance DEF RemoteCalls
<1>3. FactoryTypeOK'
  BY <1>2, CallKeepsType DEF OwnerInv
<1>4. \A j \in Ids : Isolated(j)' =>
        \/ Isolated(j)
        \/ \E k \in tracked', c \in Classes : <<j, c>> \in isolatedInstances'[k]
  <2>1. SUFFICES ASSUME NEW j \in Ids, Isolated(j)'
                 PROVE  \/ Isolated(j)
                        \/ \E k \in tracked', c \in Classes : <<j, c>> \in isolatedInstances'[k]
    OBVIOUS
  <2>2. FactoryTypeOK
    BY DEF OwnerInv
  <2>3. Isolated(j) \/ (j = r.arg /\ r.fn = CreateIsolated /\ ok)
    BY <1>2, <2>1, <2>2, CallIsolates
  <2>4. QED
    BY <2>1, <2>3
<1>5. IsolatedHasOwner'
  BY <1>3, <1>4, OwnersKept
<1>6. QED
  BY <1>3, <1>5, QueueStep DEF OwnerInv

\* The broker adds connection acknowledgements, the clients add well-formed
\* calls and notices of their end.
LEMMA EnvironmentKeepsMessages ==
  ASSUME OwnerInv, EnvironmentNext
  PROVE  calls' \in Nat /\ toAgent' \in Seq(RemoteCalls \cup Notices)
<1> USE DEF OwnerInv
<1>1. CASE WireBreaks \/ ProcessExits \/ BrokerNoticesLoss \/ BrokerHandles
  BY <1>1 DEF WireBreaks, ProcessExits, BrokerNoticesLoss, BrokerHandles, clientVars, netVars
<1>2. CASE BrokerAccepts \/ BrokerRefuses
  <2>1. calls' = calls
    BY <1>2 DEF BrokerAccepts, BrokerRefuses, clientVars
  <2>2. PICK b \in BOOLEAN : toAgent' = Append(toAgent, Connack(b))
    BY <1>2 DEF BrokerAccepts, BrokerRefuses
  <2>3. QED
    BY <2>1, <2>2 DEF Notices
<1>3. ASSUME NEW k \in Clients, NEW c \in Classes, NEW f \in Fns, ClientCalls(k, c, f)
      PROVE  calls' \in Nat /\ toAgent' \in Seq(RemoteCalls \cup Notices)
  <2>1. PICK x \in Ids \cup {"__static__"}, i \in Ids \cup {None} :
          /\ IF f \in Lifecycle THEN <<c, i>> \in Uses ELSE i = None
          /\ toAgent' = Append(toAgent, RoutedCall(calls + 1, k, c, x, f, i))
    BY <1>3 DEF ClientCalls
  <2>2. calls' = calls + 1
    BY <1>3 DEF ClientCalls
  <2>3. f \in Lifecycle => <<c, i>> \in Uses
    BY <2>1
  <2>4. RoutedCall(calls + 1, k, c, x, f, i) \in RemoteCalls
    BY <2>3 DEF RoutedCall, RemoteCalls
  <2>5. QED
    BY <2>1, <2>2, <2>4
<1>4. ASSUME NEW k \in Clients, ClientLeaves(k)
      PROVE  calls' \in Nat /\ toAgent' \in Seq(RemoteCalls \cup Notices)
  BY <1>4 DEF ClientLeaves, Notices
<1>5. QED
  BY <1>1, <1>2, <1>3, <1>4 DEF EnvironmentNext

LEMMA OwnerInvHolds == Spec => []OwnerInv
<1>1. Init => OwnerInv
  BY FactoryAssumption DEF Init, FactoryInit, OwnerInv, FactoryTypeOK, IsolatedHasOwner, Exists,
     Contexts, Bindings
<1>2. OwnerInv /\ [Next]_vars => OwnerInv'
  <2> SUFFICES ASSUME OwnerInv, [Next]_vars
               PROVE  OwnerInv'
    OBVIOUS
  <2>1. CASE \/ Serve(ConnectSucceeds) \/ Serve(ConnectFails)
             \/ TimerFires(ConnectSucceeds) \/ TimerFires(ConnectFails)
             \/ ConnectionLost \/ End
    <3>1. UNCHANGED <<factoryVars, isolatedInstances, tracked, calls, tasks>>
      BY <2>1 DEF Serve, TimerFires, ConnectSucceeds, ConnectFails, ConnectionLost, End,
         clientVars, netVars
    <3>2. toAgent' = <<>> \/ toAgent' = toAgent
      BY <2>1 DEF Serve, TimerFires, ConnectSucceeds, ConnectFails, ConnectionLost, End, netVars
    <3>3. toAgent' \in Seq(RemoteCalls \cup Notices)
      <4>1. <<>> \in Seq(RemoteCalls \cup Notices)
        OBVIOUS
      <4>2. QED
        BY <3>2, <4>1 DEF OwnerInv
    <3>4. QED
      BY <3>1, <3>3, MessagesStep DEF OwnerInv
  <2>2. CASE OnConnack
    <3>1. UNCHANGED <<factoryVars, isolatedInstances, tracked, calls, tasks>>
      BY <2>2 DEF OnConnack, clientVars
    <3>2. toAgent # <<>> /\ toAgent' = Tail(toAgent)
      BY <2>2 DEF OnConnack
    <3>3. QED
      BY <3>1, <3>2, MessagesStep DEF OwnerInv
  <2>3. CASE OnCall
    <3>1. UNCHANGED <<factoryVars, isolatedInstances, tracked, calls>>
      BY <2>3 DEF OnCall, clientVars
    <3>2. /\ toAgent # <<>> /\ toAgent' = Tail(toAgent)
          /\ Head(toAgent).kind = "call" /\ tasks' = Append(tasks, Head(toAgent))
      BY <2>3 DEF OnCall, Receives
    <3>3. Head(toAgent) \in RemoteCalls \cup Notices
      BY <3>2 DEF OwnerInv
    <3>4. Head(toAgent) \in RemoteCalls
      BY <3>2, <3>3 DEF Notices, Connack, ClientOffline
    <3>5. QED
      BY <3>1, <3>2, <3>4, MessagesStep DEF OwnerInv
  <2>4. CASE OnClientOffline
    <3>1. UNCHANGED <<isolatedInstances, tracked, calls, tasks>>
      BY <2>4 DEF OnClientOffline, agentVars, clientVars
    <3>2. toAgent # <<>> /\ toAgent' = Tail(toAgent)
      BY <2>4 DEF OnClientOffline, Receives
    <3>3. toAgent' \in Seq(RemoteCalls \cup Notices)
      BY <3>2 DEF OwnerInv
    <3>4. PICK gone \in SUBSET Ids :
            \/ /\ functionRegistry' = [x \in Contexts |->
                    IF x \in gone THEN [f \in Fns |-> Unbound] ELSE functionRegistry[x]]
               /\ instances' = [i \in Ids |-> IF i \in gone THEN None ELSE instances[i]]
               /\ sharedInstances' =
                    [i \in Ids |-> IF i \in gone THEN None ELSE sharedInstances[i]]
            \/ UNCHANGED factoryVars
      BY <2>4 DEF OnClientOffline
    <3>5. FactoryTypeOK'
      BY <3>4 DEF OwnerInv, FactoryTypeOK, Bindings, factoryVars
    <3>6. \A j \in Ids : Isolated(j)' => Isolated(j)
      BY <3>4 DEF Isolated, Exists, factoryVars
    <3>7. IsolatedHasOwner'
      BY <3>1, <3>5, <3>6, OwnersKept
    <3>8. QED
      BY <3>1, <3>3, <3>5, <3>7 DEF OwnerInv
  <2>5. ASSUME NEW r \in NextTask, RunCreateIsolated(r) PROVE OwnerInv'
    <3>1. Runs /\ Call(r.class, r.fn, r.arg, TRUE) /\ RegisterIsolated(r.arg, r.class, r.client)
          /\ r.fn = CreateIsolated
      BY <2>5 DEF RunCreateIsolated
    <3>2. r \in RemoteCalls
      BY <3>1, QueueStep
    <3>3. r.class \in Classes /\ r.client \in Clients /\ r.arg \in Ids
      BY <3>1, <3>2, LifecycleCallNamesInstance DEF RemoteCalls, Lifecycle
    <3>4. /\ isolatedInstances' \in [Clients -> SUBSET (Ids \X Classes)]
          /\ \A k \in Clients : isolatedInstances[k] \subseteq isolatedInstances'[k]
          /\ <<r.arg, r.class>> \in isolatedInstances'[r.client]
      BY <3>1, <3>3 DEF RegisterIsolated, OwnerInv
    <3>5. tracked' = tracked \cup {r.client}
      BY <3>1 DEF RegisterIsolated
    <3>6. QED
      BY <3>1, <3>3, <3>4, <3>5, CallStep DEF OwnerInv, Contexts
  <2>6. ASSUME NEW r \in NextTask, RunCreateShared(r) \/ RunCreateFails(r) PROVE OwnerInv'
    <3>1. PICK ok \in BOOLEAN :
            /\ Runs /\ Call(r.class, r.fn, r.arg, ok)
            /\ UNCHANGED <<isolatedInstances, tracked>>
            /\ r.fn = CreateIsolated => ~ok
      BY <2>6, FactoryAssumption DEF RunCreateShared, RunCreateFails
    <3>2. r.class \in Classes
      BY <3>1, QueueStep DEF RemoteCalls
    <3>3. QED
      BY <3>1, <3>2, CallStep DEF OwnerInv, Contexts
  <2>7. ASSUME NEW r \in NextTask, RunDelete(r) PROVE OwnerInv'
    <3>1. PICK ok \in BOOLEAN :
            /\ Runs /\ r.fn = Delete /\ Call(r.class, r.fn, r.arg, ok) /\ UNCHANGED tracked
            /\ isolatedInstances' = [isolatedInstances EXCEPT
                 ![r.client] = isolatedInstances[r.client] \ {<<"__static__", r.class>>}]
      BY <2>7 DEF RunDelete
    <3>2. r.class \in Classes /\ r.client \in Clients
      BY <3>1, QueueStep DEF RemoteCalls
    <3>3. isolatedInstances' = isolatedInstances
      BY <3>1, <3>2, AgentAssumption DEF OwnerInv
    <3>4. r.fn # CreateIsolated
      BY <3>1, FactoryAssumption
    <3>5. QED
      BY <3>1, <3>2, <3>3, <3>4, CallStep DEF OwnerInv, Contexts
  <2>8. ASSUME NEW r \in NextTask, RunFunction(r) PROVE OwnerInv'
    <3>1. PICK ok \in BOOLEAN :
            /\ Runs /\ r.fn \notin Lifecycle /\ UNCHANGED <<isolatedInstances, tracked>>
            /\ Call(IF r.ctx = "__static__" THEN r.class ELSE r.ctx, r.fn, r.arg, ok)
      BY <2>8 DEF RunFunction
    <3>2. (IF r.ctx = "__static__" THEN r.class ELSE r.ctx) \in Contexts
      BY <3>1, QueueStep DEF RemoteCalls, Contexts
    <3>3. QED
      BY <3>1, <3>2, CallStep DEF OwnerInv, Lifecycle
  <2>9. CASE EnvironmentNext
    <3>1. UNCHANGED <<factoryVars, isolatedInstances, tracked, tasks>>
      BY <2>9, EnvironmentKeepsAgent DEF agentVars
    <3>2. calls' \in Nat /\ toAgent' \in Seq(RemoteCalls \cup Notices)
      BY <2>9, EnvironmentKeepsMessages
    <3>3. QED
      BY <3>1, <3>2, MessagesStep DEF OwnerInv
  <2>10. CASE UNCHANGED vars
    BY <2>10, MessagesStep DEF OwnerInv, vars, agentVars, netVars, clientVars
  <2>11. QED
    BY <2>1, <2>2, <2>3, <2>4, <2>5, <2>6, <2>7, <2>8, <2>9, <2>10 DEF Next, AgentNext
<1>3. QED
  BY <1>1, <1>2, PTL DEF Spec

\* Every isolated instance is registered for a client, whose end the agent
\* acts on.
THEOREM IsolatedHasOwnerHolds == Spec => []IsolatedHasOwner
<1>1. OwnerInv => IsolatedHasOwner
  BY DEF OwnerInv
<1>2. QED
  BY <1>1, OwnerInvHolds, PTL

-----------------------------------------------------------------------------
(* What the agent sends.                                                     *)

\* Subscriptions the agent gives up: a deletion's, by the name of the topic it
\* came on, and those to the end of a client.
DroppedTopics ==
  (UNION {InstanceTopics(c, "__static__") : c \in Classes}) \cup {ClientTopic(k) : k \in Clients}

\* The orders of a running agent to the broker, and how it takes its leave.
Orders ==
  {Subscribe(ts) : ts \in SUBSET Topics} \cup {Unsubscribe(ts) : ts \in SUBSET DroppedTopics}
    \cup {AgentInfo("online")} \cup {ClassInfo(c, is) : c \in Classes, is \in SUBSET Ids}
    \cup {Answer(r, gs) : r \in RemoteCalls, gs \in SUBSET (Classes \X Ids)}
Farewells == {AgentInfo("offline"), Disconnect}
Messages == Orders \cup Farewells \cup {Connect}

LEMMA OrderKinds ==
  ASSUME NEW m \in Orders
  PROVE  /\ m.kind \in {"subscribe", "unsubscribe", "agentInfo", "classInfo", "answer"}
         /\ m.kind = "unsubscribe" => m.topics \subseteq DroppedTopics
         /\ m.kind = "agentInfo" => m.status = "online"
         /\ m.kind = "classInfo" => m.class \in Classes /\ m.instances \subseteq Ids
         /\ m.kind = "answer" => m.grants \subseteq Classes \X Ids
         /\ m # Connect /\ m \notin Farewells
<1> USE DEF Farewells, Connect, Disconnect, AgentInfo
<1>1. CASE m \in {Subscribe(ts) : ts \in SUBSET Topics}
  BY <1>1 DEF Subscribe
<1>2. CASE m \in {Unsubscribe(ts) : ts \in SUBSET DroppedTopics}
  BY <1>2 DEF Unsubscribe
<1>3. CASE m = AgentInfo("online")
  BY <1>3
<1>4. CASE m \in {ClassInfo(c, is) : c \in Classes, is \in SUBSET Ids}
  BY <1>4 DEF ClassInfo
<1>5. CASE m \in {Answer(r, gs) : r \in RemoteCalls, gs \in SUBSET (Classes \X Ids)}
  BY <1>5 DEF Answer
<1> QED BY <1>1, <1>2, <1>3, <1>4, <1>5 DEF Orders

LEMMA InstanceTopicsTyped ==
  ASSUME NEW c \in Classes, NEW x \in Ids \cup {"__static__"}
  PROVE  InstanceTopics(c, x) \subseteq Topics
BY DEF InstanceTopics, Topics, Fns

\* The agent gives up no topic of an instance.
LEMMA InstanceTopicsStay ==
  ASSUME NEW c \in Classes, NEW i \in Ids
  PROVE  InstanceTopics(c, i) \cap DroppedTopics = {}
<1>1. ASSUME NEW t \in InstanceTopics(c, i), NEW d \in Classes, t \in InstanceTopics(d, "__static__")
      PROVE  FALSE
  BY <1>1, AgentAssumption DEF InstanceTopics
<1>2. ASSUME NEW t \in InstanceTopics(c, i), NEW k \in Clients, t = ClientTopic(k)
      PROVE  FALSE
  <2>1. PICK f \in MemberFns[c] : t = <<c, i, Base[f]>>
    BY DEF InstanceTopics
  <2>2. Len(<<c, i, Base[f]>>) = 3 /\ Len(<<k, "__clientInfo__">>) = 2
    OBVIOUS
  <2>3. <<c, i, Base[f]>> = <<k, "__clientInfo__">>
    BY <1>2, <2>1 DEF ClientTopic
  <2> QED BY <2>2, <2>3
<1>3. \A t \in DroppedTopics : \/ \E d \in Classes : t \in InstanceTopics(d, "__static__")
                               \/ \E k \in Clients : t = ClientTopic(k)
  <2> TAKE t \in DroppedTopics
  <2>1. CASE t \in UNION {InstanceTopics(d, "__static__") : d \in Classes}
    BY <2>1
  <2>2. CASE t \in {ClientTopic(k) : k \in Clients}
    BY <2>2
  <2> QED BY <2>1, <2>2 DEF DroppedTopics
<1> QED BY <1>1, <1>2, <1>3

\* The announcements of all classes, and all that follows a connection.
ClassInfos ==
  [n \in 1..Cardinality(Classes) |->
     LET c == SetToSeq(Classes)[n] IN ClassInfo(c, GetInstances(c))]
Greeting == <<AgentInfo("online"), Subscribe(StaticTopics)>> \o ClassInfos

LEMMA ClassesEnumerated ==
  /\ Cardinality(Classes) \in Nat
  /\ \A n \in 1..Cardinality(Classes) : SetToSeq(Classes)[n] \in Classes
  /\ \A c \in Classes : \E n \in 1..Cardinality(Classes) : SetToSeq(Classes)[n] = c
<1> DEFINE N == 1..Cardinality(Classes)
           s == SetToSeq(Classes)
<1>1. Cardinality(Classes) \in Nat /\ ExistsBijection(N, Classes)
  BY FS_CardinalityType, AgentAssumption
<1>2. IsFiniteSet(N) /\ Cardinality(N) = Cardinality(Classes)
  BY <1>1, FS_Interval
<1>3. \E f \in [N -> Classes] : IsInjective(f)
  BY <1>1 DEF ExistsBijection, Bijection, Injection
<1>4. s = CHOOSE f \in [N -> Classes] : IsInjective(f)
  BY DEF SetToSeq
<1> HIDE DEF N, s
<1>5. s \in [N -> Classes] /\ IsInjective(s)
  BY <1>3, <1>4
<1>6. s \in Surjection(N, Classes)
  <2>1. s \in Injection(N, Classes)
    BY <1>5 DEF Injection
  <2>2. IsFiniteSet(Classes)
    BY AgentAssumption
  <2>3. Cardinality(N) = Cardinality(Classes) <=> s \in Surjection(N, Classes)
    BY <1>2, <2>1, <2>2, FS_Injection
  <2> QED BY <1>2, <2>3
<1>7. \A c \in Classes : \E n \in N : s[n] = c
  BY <1>6 DEF Surjection
<1>8. \A n \in N : s[n] \in Classes
  BY <1>5
<1> QED BY <1>1, <1>7, <1>8 DEF N, s

LEMMA ClassInfosSent ==
  /\ ClassInfos \in Seq(Orders) /\ Len(ClassInfos) = Cardinality(Classes)
  /\ \A n \in 1..Len(ClassInfos) : \E c \in Classes : ClassInfos[n] = ClassInfo(c, GetInstances(c))
  /\ \A c \in Classes : \E n \in 1..Len(ClassInfos) : ClassInfos[n] = ClassInfo(c, GetInstances(c))
<1> DEFINE N == Cardinality(Classes)
           s == SetToSeq(Classes)
<1>1. /\ N \in Nat
      /\ \A n \in 1..N : s[n] \in Classes
      /\ \A c \in Classes : \E n \in 1..N : s[n] = c
  BY ClassesEnumerated
<1>2. ClassInfos = [n \in 1..N |-> ClassInfo(s[n], GetInstances(s[n]))]
  BY DEF ClassInfos
<1>3. \A c \in Classes : ClassInfo(c, GetInstances(c)) \in Orders
  <2> TAKE c \in Classes
  <2>1. GetInstances(c) \in SUBSET Ids
    BY DEF GetInstances
  <2>2. ClassInfo(c, GetInstances(c)) \in {ClassInfo(d, is) : d \in Classes, is \in SUBSET Ids}
    BY <2>1
  <2> QED BY <2>2 DEF Orders
<1> HIDE DEF N, s
<1>4. ClassInfos \in [1..N -> Orders] /\ \A n \in 1..N : ClassInfos[n] = ClassInfo(s[n], GetInstances(s[n]))
  BY <1>1, <1>2, <1>3
<1>5. ClassInfos \in Seq(Orders) /\ Len(ClassInfos) = N
  BY <1>1, <1>4
<1> QED BY <1>1, <1>4, <1>5 DEF N

LEMMA SubscribeOrders ==
  ASSUME NEW ts, ts \subseteq Topics
  PROVE  Subscribe(ts) \in Orders
<1>1. Subscribe(ts) \in {Subscribe(us) : us \in SUBSET Topics}
  OBVIOUS
<1> QED BY <1>1 DEF Orders

LEMMA UnsubscribeOrders ==
  ASSUME NEW ts, ts \subseteq DroppedTopics
  PROVE  Unsubscribe(ts) \in Orders
<1>1. Unsubscribe(ts) \in {Unsubscribe(us) : us \in SUBSET DroppedTopics}
  OBVIOUS
<1> QED BY <1>1 DEF Orders

LEMMA AnswerOrders ==
  ASSUME NEW r \in RemoteCalls, NEW gs, gs \subseteq Classes \X Ids
  PROVE  Answer(r, gs) \in Orders
<1>1. Answer(r, gs) \in {Answer(q, hs) : q \in RemoteCalls, hs \in SUBSET (Classes \X Ids)}
  OBVIOUS
<1> QED BY <1>1 DEF Orders

LEMMA ClassInfoOrders ==
  ASSUME NEW c \in Classes, NEW is, is \subseteq Ids
  PROVE  ClassInfo(c, is) \in Orders
<1>1. ClassInfo(c, is) \in {ClassInfo(d, js) : d \in Classes, js \in SUBSET Ids}
  OBVIOUS
<1> QED BY <1>1 DEF Orders

LEMMA ClientTopicsTyped ==
  ASSUME NEW k \in Clients
  PROVE  {ClientTopic(k)} \subseteq Topics /\ {ClientTopic(k)} \subseteq DroppedTopics
BY DEF Topics, DroppedTopics

LEMMA OneOrder ==
  ASSUME NEW m \in Orders
  PROVE  /\ <<m>> \in Seq(Orders) /\ Len(<<m>>) = 1 /\ <<m>>[1] = m
         /\ Range(<<m>>) = {m}
<1>1. <<m>> \in Seq(Orders)
  OBVIOUS
<1>2. Len(<<m>>) = 1 /\ <<m>>[1] = m
  OBVIOUS
<1> QED BY <1>1, <1>2, RangeSingle

LEMMA NoOrder == <<>> \in Seq(Orders) /\ Len(<<>>) = 0 /\ Range(<<>>) = {}
BY RangeEmpty

LEMMA GreetingSent ==
  /\ Greeting \in Seq(Orders) /\ Len(Greeting) = 2 + Len(ClassInfos)
  /\ Greeting[1] = AgentInfo("online") /\ Greeting[2] = Subscribe(StaticTopics)
  /\ \A n \in 1..Len(ClassInfos) : Greeting[2 + n] = ClassInfos[n]
  /\ Range(Greeting) = {AgentInfo("online"), Subscribe(StaticTopics)} \cup Range(ClassInfos)
<1> DEFINE two == <<AgentInfo("online"), Subscribe(StaticTopics)>>
<1>1. AgentInfo("online") \in Orders /\ Subscribe(StaticTopics) \in Orders
  <2>1. StaticTopics \subseteq Topics
    BY DEF StaticTopics, Topics, GetStaticFunctions
  <2> QED BY <2>1, SubscribeOrders DEF Orders
<1>2. two \in Seq(Orders) /\ Len(two) = 2 /\ two[1] = AgentInfo("online") /\ two[2] = Subscribe(StaticTopics)
  BY <1>1
<1>3. Greeting = two \o ClassInfos
  BY DEF Greeting
<1>4. ClassInfos \in Seq(Orders)
  BY ClassInfosSent
<1>5. Range(two) = {two[n] : n \in 1..Len(two)}
  BY <1>2, RangeIndexed
<1> HIDE DEF two
<1>6. Range(two) = {AgentInfo("online"), Subscribe(StaticTopics)}
  <2>1. 1..Len(two) = {1, 2}
    BY <1>2
  <2> QED BY <1>2, <1>5, <2>1
<1>7. /\ Greeting \in Seq(Orders) /\ Len(Greeting) = 2 + Len(ClassInfos)
      /\ \A n \in 1..2 : Greeting[n] = two[n]
      /\ \A n \in 1..Len(ClassInfos) : Greeting[2 + n] = ClassInfos[n]
      /\ Range(Greeting) = Range(two) \cup Range(ClassInfos)
  <2>1. /\ two \o ClassInfos \in Seq(Orders)
        /\ Len(two \o ClassInfos) = Len(two) + Len(ClassInfos) /\ Len(ClassInfos) \in Nat
        /\ \A n \in 1..Len(two) : (two \o ClassInfos)[n] = two[n]
        /\ \A n \in 1..Len(ClassInfos) : (two \o ClassInfos)[Len(two) + n] = ClassInfos[n]
        /\ Range(two \o ClassInfos) = Range(two) \cup Range(ClassInfos)
    <3>1. two \in Seq(Orders)
      BY <1>2
    <3> QED BY <1>4, <3>1, Joined
  <2> QED BY <1>2, <1>3, <2>1
<1> QED BY <1>2, <1>6, <1>7

-----------------------------------------------------------------------------
(* The two streams of a connection.                                          *)

\* A CONNECT is the first message of its connection and a farewell the last of
\* the agent; nothing travels on a connection that is gone; who has seen a
\* CONNACK has no CONNECT on its way.
StreamInv ==
  /\ wire \in BOOLEAN /\ session \in BOOLEAN
  /\ toBroker \in Seq(Messages)
  /\ wire \/ toBroker = <<>>
  /\ link = "down" \/ phase = "starting" => ~wire
  /\ \A n \in 1..Len(toBroker) : toBroker[n] = Connect => n = 1
  /\ \A n \in 1..Len(toBroker) : toBroker[n] = Disconnect => n = Len(toBroker)
  /\ phase = "running" => Range(toBroker) \cap Farewells = {}
  /\ link = "up" => Connect \notin Range(toBroker)
  /\ \A m \in Range(toAgent) : m.kind = "connack" =>
       Connect \notin Range(toBroker) /\ (m.accepted \/ ~wire)

LEMMA ConnectIsNoFarewell == Connect \notin Farewells /\ Disconnect \in Farewells
BY DEF Connect, Farewells, AgentInfo, Disconnect

\* What a running agent sends ends up behind what it sent before, or nowhere.
LEMMA OrdersSent ==
  ASSUME StreamInv, NEW ms \in Seq(Orders), Send(ms)
  PROVE  /\ toBroker' \in Seq(Messages) /\ Len(toBroker) \in Nat
         /\ \/ /\ wire /\ link # "down" /\ toBroker' = toBroker \o ms
               /\ Len(toBroker') = Len(toBroker) + Len(ms) /\ Len(ms) \in Nat
               /\ \A n \in 1..Len(toBroker) : n \in 1..Len(toBroker') /\ toBroker'[n] = toBroker[n]
               /\ \A n \in 1..Len(ms) :
                    Len(toBroker) + n \in 1..Len(toBroker') /\ toBroker'[Len(toBroker) + n] = ms[n]
               /\ \A n \in 1..Len(toBroker') : n \in 1..Len(toBroker) \/ n - Len(toBroker) \in 1..Len(ms)
               /\ Range(toBroker') = Range(toBroker) \cup Range(ms)
            \/ ~(wire /\ link # "down") /\ toBroker' = toBroker
         /\ Range(toBroker) \subseteq Range(toBroker')
<1>1. toBroker \in Seq(Messages)
  BY DEF StreamInv
<1>2. ms \in Seq(Messages)
  <2>1. Orders \subseteq Messages
    BY DEF Messages
  <2> HIDE DEF Messages
  <2> QED BY <2>1
<1>3. CASE wire /\ link # "down"
  <2>1. toBroker' = toBroker \o ms
    BY <1>3 DEF Send
  <2> QED BY <1>1, <1>2, <1>3, <2>1, Joined
<1>4. CASE ~(wire /\ link # "down")
  BY <1>1, <1>4 DEF Send
<1> QED BY <1>3, <1>4

LEMMA AgentSends ==
  ASSUME StreamInv, phase = "running", NEW ms \in Seq(Orders), Send(ms),
         UNCHANGED <<wire, session>>, phase' # "starting",
         link' = link \/ (link' = "up" /\ Connect \notin Range(toBroker)),
         Range(toAgent') \subseteq Range(toAgent)
  PROVE  StreamInv'
<1>1. /\ toBroker' \in Seq(Messages) /\ Len(toBroker) \in Nat
      /\ \A m \in Orders : m # Connect /\ m \notin Farewells
  BY OrdersSent, OrderKinds
<1>2. CASE toBroker' = toBroker
  BY <1>2 DEF StreamInv
<1>3. CASE toBroker' # toBroker
  <2>1. /\ wire /\ link # "down"
        /\ \A n \in 1..Len(toBroker) : toBroker'[n] = toBroker[n]
        /\ \A n \in 1..Len(ms) : toBroker'[Len(toBroker) + n] = ms[n]
        /\ \A n \in 1..Len(toBroker') : n \in 1..Len(toBroker) \/ n - Len(toBroker) \in 1..Len(ms)
        /\ Range(toBroker') = Range(toBroker) \cup Range(ms)
    BY <1>3, OrdersSent
  <2>2. Range(ms) \subseteq Orders /\ \A n \in 1..Len(ms) : ms[n] \in Orders
    BY RangeIndexed
  <2>3. \A n \in 1..Len(toBroker') : n \notin 1..Len(toBroker) => toBroker'[n] \in Orders
    <3> TAKE n \in 1..Len(toBroker')
    <3>1. n \notin 1..Len(toBroker) => n - Len(toBroker) \in 1..Len(ms) /\ Len(toBroker) + (n - Len(toBroker)) = n
      BY <1>1, <2>1
    <3> QED BY <2>1, <2>2, <3>1
  <2>4. Connect \in Range(toBroker') <=> Connect \in Range(toBroker)
    BY <1>1, <2>1, <2>2
  <2>5. Range(toBroker') \cap Farewells = {}
    BY <1>1, <2>1, <2>2 DEF StreamInv
  <2>6. \A n \in 1..Len(toBroker') : toBroker'[n] = Connect => n = 1
    BY <1>1, <2>1, <2>3 DEF StreamInv
  <2>7. \A n \in 1..Len(toBroker') : toBroker'[n] # Disconnect
    <3>1. \A n \in 1..Len(toBroker') : toBroker'[n] \in Range(toBroker')
      BY <1>1, RangeIndexed
    <3> QED BY <2>5, <3>1, ConnectIsNoFarewell
  <2>8. link' # "down" /\ (link' = "up" => Connect \notin Range(toBroker'))
    BY <2>1, <2>4 DEF StreamInv
  <2>9. \A m \in Range(toAgent') : m.kind = "connack" =>
          Connect \notin Range(toBroker') /\ (m.accepted \/ ~wire')
    BY <2>4 DEF StreamInv
  <2>10. wire' \in BOOLEAN /\ session' \in BOOLEAN /\ (wire' \/ toBroker' = <<>>)
    BY <2>1 DEF StreamInv
  <2> QED BY <1>1, <2>5, <2>6, <2>7, <2>8, <2>9, <2>10 DEF StreamInv
<1> QED BY <1>2, <1>3

-----------------------------------------------------------------------------
(* What a queued call sends.                                                 *)

\* Every instance an answer grants is subscribed to earlier in the batch.
Covered(ms) ==
  \A n \in 1..Len(ms) : ms[n].kind = "answer" =>
    \A g \in ms[n].grants : \E m \in 1..(n - 1) :
      ms[m].kind = "subscribe" /\ InstanceTopics(g[1], g[2]) \subseteq ms[m].topics

LEMMA CoveredByFirst ==
  ASSUME NEW c, NEW i, NEW ms \in Seq(Orders), Len(ms) > 0,
         ms[1] = Subscribe(InstanceTopics(c, i)),
         \A m \in Range(ms) : m.kind = "answer" => m.grants \subseteq {<<c, i>>}
  PROVE  Covered(ms)
<1> SUFFICES ASSUME NEW n \in 1..Len(ms), ms[n].kind = "answer", NEW g \in ms[n].grants
             PROVE  \E m \in 1..(n - 1) :
                      ms[m].kind = "subscribe" /\ InstanceTopics(g[1], g[2]) \subseteq ms[m].topics
  BY DEF Covered
<1>1. ms[1].kind = "subscribe" /\ ms[1].topics = InstanceTopics(c, i)
  BY DEF Subscribe
<1>2. n # 1
  BY <1>1
<1>3. 1 \in 1..(n - 1)
  BY <1>2
<1>4. ms[n] \in Range(ms)
  BY RangeIndexed
<1>5. g[1] = c /\ g[2] = i
  BY <1>4
<1> QED BY <1>1, <1>3, <1>5

LEMMA CoveredWithoutGrants ==
  ASSUME NEW ms \in Seq(Orders), \A m \in Range(ms) : m.kind = "answer" => m.grants = {}
  PROVE  Covered(ms)
<1>1. \A n \in 1..Len(ms) : ms[n] \in Range(ms)
  BY RangeIndexed
<1> QED BY <1>1 DEF Covered

LEMMA TaskIsCall ==
  ASSUME OwnerInv, NEW r \in NextTask
  PROVE  /\ phase = "running" /\ tasks # <<>> /\ r \in RemoteCalls
         /\ r.class \in Classes /\ r.client \in Clients
         /\ r.fn \in Lifecycle => r.arg \in Ids /\ <<r.class, r.arg>> \in Uses
<1>1. phase = "running" /\ tasks # <<>> /\ r = Head(tasks)
  BY DEF NextTask
<1>2. r \in RemoteCalls
  BY <1>1 DEF OwnerInv
<1> QED BY <1>1, <1>2, LifecycleCallNamesInstance DEF RemoteCalls

LEMMA IsolatedSends ==
  ASSUME OwnerInv, NEW r \in NextTask, RunCreateIsolated(r)
  PROVE  \E ms \in Seq(Orders) :
           /\ Send(ms) /\ Covered(ms)
           /\ \A m \in Range(ms) : m.kind \in {"subscribe", "answer"}
           /\ r.client \notin tracked => Subscribe({ClientTopic(r.client)}) \in Range(ms)
<1>1. r \in RemoteCalls /\ r.class \in Classes /\ r.client \in Clients /\ r.arg \in Ids
  BY TaskIsCall DEF RunCreateIsolated, Lifecycle
<1> DEFINE a == Subscribe(InstanceTopics(r.class, r.arg))
           t == TrackingOf(r.client)
           b == Answer(r, {<<r.class, r.arg>>})
<1>2. a \in Orders /\ b \in Orders
  <2>1. InstanceTopics(r.class, r.arg) \subseteq Topics
    BY <1>1, InstanceTopicsTyped
  <2>2. {<<r.class, r.arg>>} \subseteq Classes \X Ids
    BY <1>1
  <2> QED BY <1>1, <2>1, <2>2, SubscribeOrders, AnswerOrders
<1>3. /\ t \in Seq(Orders) /\ \A m \in Range(t) : m.kind = "subscribe"
      /\ r.client \notin tracked => Subscribe({ClientTopic(r.client)}) \in Range(t)
  <2>1. CASE r.client \in tracked
    BY <2>1, NoOrder DEF TrackingOf
  <2>2. CASE r.client \notin tracked
    <3> DEFINE s == Subscribe({ClientTopic(r.client)})
    <3>1. s \in Orders
      BY <1>1, ClientTopicsTyped, SubscribeOrders
    <3>2. t = <<s>>
      BY <2>2 DEF TrackingOf
    <3>3. s.kind = "subscribe"
      BY DEF Subscribe
    <3> HIDE DEF s
    <3>4. t \in Seq(Orders) /\ Range(t) = {s}
      BY <3>1, <3>2, OneOrder
    <3> QED BY <3>3, <3>4 DEF s
  <2> QED BY <2>1, <2>2
<1>4. a.kind = "subscribe" /\ b.kind = "answer" /\ b.grants = {<<r.class, r.arg>>}
  BY DEF Subscribe, Answer
<1>5. Send((<<a>> \o t) \o <<b>>)
  BY DEF RunCreateIsolated
<1>6. a = Subscribe(InstanceTopics(r.class, r.arg))
  OBVIOUS
<1> HIDE DEF a, t, b
<1>7. /\ <<a>> \in Seq(Orders) /\ Len(<<a>>) = 1 /\ <<a>>[1] = a /\ Range(<<a>>) = {a}
      /\ <<b>> \in Seq(Orders) /\ Len(<<b>>) = 1 /\ Range(<<b>>) = {b}
  BY <1>2, OneOrder
<1> DEFINE x == <<a>>  y == <<b>>  z == x \o t  ms == z \o y
<1>8. /\ x \in Seq(Orders) /\ Len(x) = 1 /\ x[1] = a /\ Range(x) = {a}
      /\ y \in Seq(Orders) /\ Len(y) = 1 /\ Range(y) = {b}
  BY <1>7
<1>9. Send(ms)
  BY <1>5
<1> HIDE DEF x, y
<1>10. z \in Seq(Orders) /\ Len(z) = 1 + Len(t) /\ Len(t) \in Nat /\ z[1] = a /\ Range(z) = {a} \cup Range(t)
  <2>1. 1 \in 1..Len(x)
    BY <1>8
  <2>2. /\ z \in Seq(Orders) /\ Len(z) = Len(x) + Len(t) /\ Len(t) \in Nat
        /\ \A n \in 1..Len(x) : z[n] = x[n] /\ Range(z) = Range(x) \cup Range(t)
    BY <1>3, <1>8, Joined
  <2> QED BY <1>8, <2>1, <2>2
<1> HIDE DEF z
<1>11. ms \in Seq(Orders) /\ Len(ms) > 0 /\ ms[1] = a /\ Range(ms) = {a, b} \cup Range(t)
  <2>1. 1 \in 1..Len(z)
    BY <1>10
  <2>2. /\ ms \in Seq(Orders) /\ Len(ms) = Len(z) + Len(y)
        /\ \A n \in 1..Len(z) : ms[n] = z[n]
        /\ Range(ms) = Range(z) \cup Range(y)
    <3>1. z \in Seq(Orders) /\ y \in Seq(Orders)
      BY <1>8, <1>10
    <3> QED BY <3>1, Joined
  <2> QED BY <1>8, <1>10, <2>1, <2>2
<1> HIDE DEF ms
<1>12. Covered(ms)
  <2>1. \A m \in Range(ms) : m.kind = "answer" => m.grants \subseteq {<<r.class, r.arg>>}
    BY <1>3, <1>4, <1>11
  <2> QED BY <1>6, <1>11, <2>1, CoveredByFirst
<1> QED BY <1>3, <1>4, <1>9, <1>11, <1>12

LEMMA SharedSends ==
  ASSUME OwnerInv, NEW r \in NextTask, RunCreateShared(r)
  PROVE  \E ms \in Seq(Orders) :
           /\ Send(ms) /\ Covered(ms)
           /\ \A m \in Range(ms) : /\ m.kind \in {"subscribe", "classInfo", "answer"}
                                   /\ m.kind = "classInfo" => m = ClassInfo(r.class, GetInstances(r.class)')
           /\ ClassInfo(r.class, GetInstances(r.class)') \in Range(ms)
<1>1. r \in RemoteCalls /\ r.class \in Classes /\ r.arg \in Ids
  BY TaskIsCall DEF RunCreateShared, Lifecycle
<1>2. PICK is : is = GetInstances(r.class)'
  OBVIOUS
<1> DEFINE a == Subscribe(InstanceTopics(r.class, r.arg))
           i == ClassInfo(r.class, is)
           b == Answer(r, {<<r.class, r.arg>>})
<1>3. a \in Orders /\ i \in Orders /\ b \in Orders
  <2>1. InstanceTopics(r.class, r.arg) \subseteq Topics
    BY <1>1, InstanceTopicsTyped
  <2>2. {<<r.class, r.arg>>} \subseteq Classes \X Ids
    BY <1>1
  <2>3. is \subseteq Ids
    BY <1>2 DEF GetInstances
  <2> QED BY <1>1, <2>1, <2>2, <2>3, SubscribeOrders, AnswerOrders, ClassInfoOrders
<1>4. /\ a.kind = "subscribe" /\ i.kind = "classInfo" /\ b.kind = "answer"
      /\ b.grants = {<<r.class, r.arg>>}
  BY DEF Subscribe, Answer, ClassInfo
<1>5. Send(<<a, i, b>>)
  BY <1>2 DEF RunCreateShared
<1>6. a = Subscribe(InstanceTopics(r.class, r.arg)) /\ i = ClassInfo(r.class, GetInstances(r.class)')
  BY <1>2
<1> HIDE DEF a, i, b
<1> DEFINE ms == <<a, i, b>>
<1>7. ms \in Seq(Orders) /\ Len(ms) = 3 /\ ms[1] = a /\ ms[2] = i /\ ms[3] = b
  BY <1>3
<1>8. Send(ms)
  BY <1>5
<1> HIDE DEF ms
<1>9. Range(ms) = {a, i, b}
  <2>1. Range(ms) = {ms[n] : n \in 1..Len(ms)}
    BY <1>7, RangeIndexed
  <2>2. 1..Len(ms) = {1, 2, 3}
    BY <1>7
  <2> QED BY <1>7, <2>1, <2>2
<1>10. Covered(ms)
  <2>1. \A m \in Range(ms) : m.kind = "answer" => m.grants \subseteq {<<r.class, r.arg>>}
    BY <1>4, <1>9
  <2> QED BY <1>6, <1>7, <2>1, CoveredByFirst
<1> QED BY <1>4, <1>6, <1>7, <1>8, <1>9, <1>10

LEMMA DeleteSends ==
  ASSUME OwnerInv, NEW r \in NextTask, RunDelete(r)
  PROVE  \E ms \in Seq(Orders) :
           /\ Send(ms) /\ Covered(ms)
           /\ \A m \in Range(ms) :
                /\ m.kind \in {"unsubscribe", "classInfo", "answer"}
                /\ m.kind = "classInfo" => m = ClassInfo(r.class, GetInstances(r.class)')
                /\ m.kind = "unsubscribe" =>
                     \/ m.topics = InstanceTopics(r.class, "__static__")
                     \/ r.client \in tracked /\ isolatedInstances[r.client] = {}
           /\ ClassInfo(r.class, GetInstances(r.class)') \in Range(ms)
<1>1. r \in RemoteCalls /\ r.class \in Classes /\ r.client \in Clients /\ r.arg \in Ids
  BY TaskIsCall DEF RunDelete, Lifecycle
<1>2. PICK is : is = GetInstances(r.class)'
  OBVIOUS
<1> DEFINE left == isolatedInstances[r.client] \ {<<"__static__", r.class>>}
           u == Unsubscribe(InstanceTopics(r.class, "__static__"))
           i == ClassInfo(r.class, is)
           t == IF r.client \in tracked /\ left = {}
                THEN <<Unsubscribe({ClientTopic(r.client)})>> ELSE <<>>
           b == Answer(r, {})
<1>3. u \in Orders /\ i \in Orders /\ b \in Orders
  <2>1. InstanceTopics(r.class, "__static__") \subseteq DroppedTopics
    BY <1>1 DEF DroppedTopics
  <2>2. {} \subseteq Classes \X Ids /\ is \subseteq Ids
    BY <1>2 DEF GetInstances
  <2> QED BY <1>1, <2>1, <2>2, UnsubscribeOrders, AnswerOrders, ClassInfoOrders
<1>4. left = isolatedInstances[r.client]
  BY <1>1, AgentAssumption DEF OwnerInv
<1>5. /\ t \in Seq(Orders) /\ \A m \in Range(t) : m.kind = "unsubscribe"
      /\ Range(t) # {} => r.client \in tracked /\ isolatedInstances[r.client] = {}
  <2>1. CASE ~(r.client \in tracked /\ left = {})
    BY <2>1, NoOrder
  <2>2. CASE r.client \in tracked /\ left = {}
    <3> DEFINE s == Unsubscribe({ClientTopic(r.client)})
    <3>1. s \in Orders
      BY <1>1, ClientTopicsTyped, UnsubscribeOrders
    <3>2. t = <<s>>
      BY <2>2
    <3>3. s.kind = "unsubscribe"
      BY DEF Unsubscribe
    <3> HIDE DEF s, t
    <3>4. t \in Seq(Orders) /\ Range(t) = {s}
      BY <3>1, <3>2, OneOrder
    <3> QED BY <1>4, <2>2, <3>3, <3>4
  <2> QED BY <2>1, <2>2
<1>6. /\ u.kind = "unsubscribe" /\ u.topics = InstanceTopics(r.class, "__static__")
      /\ i.kind = "classInfo" /\ b.kind = "answer" /\ b.grants = {}
  BY DEF Unsubscribe, Answer, ClassInfo
<1>7. Send((<<u, i>> \o t) \o <<b>>)
  BY <1>2 DEF RunDelete
<1>8. i = ClassInfo(r.class, GetInstances(r.class)')
  BY <1>2
<1> HIDE DEF left, u, i, t, b
<1> DEFINE x == <<u, i>>  y == <<b>>  z == x \o t  ms == z \o y
<1>9. x \in Seq(Orders) /\ Len(x) = 2 /\ x[1] = u /\ x[2] = i
  BY <1>3
<1>10. y \in Seq(Orders) /\ Range(y) = {b}
  BY <1>3, OneOrder
<1>11. Send(ms)
  BY <1>7
<1> HIDE DEF x, y
<1>12. Range(x) = {u, i}
  <2>1. Range(x) = {x[n] : n \in 1..Len(x)}
    BY <1>9, RangeIndexed
  <2>2. 1..Len(x) = {1, 2}
    BY <1>9
  <2> QED BY <1>9, <2>1, <2>2
<1>13. z \in Seq(Orders) /\ Range(z) = Range(x) \cup Range(t)
  <2>1. x \in Seq(Orders) /\ t \in Seq(Orders)
    BY <1>5, <1>9
  <2> QED BY <2>1, Joined
<1> HIDE DEF z
<1>14. ms \in Seq(Orders) /\ Range(ms) = Range(z) \cup Range(y)
  <2>1. z \in Seq(Orders) /\ y \in Seq(Orders)
    BY <1>10, <1>13
  <2> QED BY <2>1, Joined
<1> HIDE DEF ms
<1>15. Range(ms) = {u, i, b} \cup Range(t)
  BY <1>10, <1>12, <1>13, <1>14
<1>16. Covered(ms)
  <2>1. \A m \in Range(ms) : m.kind = "answer" => m.grants = {}
    BY <1>5, <1>6, <1>15
  <2> QED BY <1>14, <2>1, CoveredWithoutGrants
<1>17. \A m \in Range(ms) :
         /\ m.kind \in {"unsubscribe", "classInfo", "answer"}
         /\ m.kind = "classInfo" => m = i
         /\ m.kind = "unsubscribe" =>
              \/ m.topics = InstanceTopics(r.class, "__static__")
              \/ r.client \in tracked /\ isolatedInstances[r.client] = {}
  BY <1>5, <1>6, <1>15
<1> QED BY <1>8, <1>11, <1>14, <1>15, <1>16, <1>17

LEMMA FunctionSends ==
  ASSUME OwnerInv, NEW r \in NextTask, RunFunction(r)
  PROVE  \E ms \in Seq(Orders) :
           Send(ms) /\ Covered(ms) /\ \A m \in Range(ms) : m.kind = "answer"
<1> DEFINE b == Answer(r, {})
<1>1. b \in Orders
  BY TaskIsCall, AnswerOrders
<1>2. Send(<<b>>)
  BY DEF RunFunction
<1>3. b.kind = "answer" /\ b.grants = {}
  BY DEF Answer
<1> HIDE DEF b
<1>4. <<b>> \in Seq(Orders) /\ Range(<<b>>) = {b}
  BY <1>1, OneOrder
<1>5. Covered(<<b>>)
  BY <1>3, <1>4, CoveredWithoutGrants
<1> QED BY <1>2, <1>3, <1>4, <1>5

\* What the call at the head of the queue does to the streams and to the
\* connection, whichever it is.
Run(r) ==
  \/ RunCreateIsolated(r) \/ RunCreateShared(r) \/ RunCreateFails(r)
  \/ RunDelete(r) \/ RunFunction(r)

LEMMA RunKeeps ==
  ASSUME OwnerInv, NEW r \in NextTask, Run(r)
  PROVE  /\ phase = "running" /\ tasks # <<>> /\ tasks' = Tail(tasks)
         /\ UNCHANGED <<link, wire, toAgent, session, subs, agentInfo, classInfo, granted, breaks>>
         /\ phase' \in {"running", "crashed"}
<1>1. Runs
  BY DEF Run, RunCreateIsolated, RunCreateShared, RunCreateFails, RunDelete, RunFunction
<1>2. phase = "running" /\ tasks # <<>>
  BY TaskIsCall
<1>3. phase' \in {phase, "crashed"}
  BY DEF Run, RunCreateIsolated, RunCreateShared, RunCreateFails, RunDelete, RunFunction
<1> QED BY <1>1, <1>2, <1>3 DEF Runs, brokerVars

LEMMA NothingSent ==
  ASSUME StreamInv, UNCHANGED toBroker
  PROVE  Send(<<>>) /\ <<>> \in Seq(Orders) /\ Range(<<>>) = {} /\ Covered(<<>>)
<1>1. toBroker \o <<>> = toBroker
  BY DEF StreamInv
<1> QED BY <1>1, NoOrder, CoveredWithoutGrants DEF Send

LEMMA RunSends ==
  ASSUME OwnerInv, StreamInv, NEW r \in NextTask, Run(r)
  PROVE  \E ms \in Seq(Orders) : Send(ms) /\ Covered(ms)
<1>1. CASE RunCreateFails(r)
  BY <1>1, NothingSent DEF RunCreateFails
<1> QED BY <1>1, IsolatedSends, SharedSends, DeleteSends, FunctionSends DEF Run

LEMMA OfflineSends ==
  ASSUME OwnerInv, StreamInv, OnClientOffline
  PROVE  \E ms \in Seq(Orders) : Send(ms) /\ Covered(ms)
<1> DEFINE k == ClientKey(Head(toAgent).client)
           u == Unsubscribe({ClientTopic(k)})
<1>1. CASE k \in tracked
  <2>1. Send(<<u>>)
    BY <1>1 DEF OnClientOffline
  <2>2. u \in Orders
    BY <1>1, ClientTopicsTyped, UnsubscribeOrders DEF OwnerInv
  <2>3. u.kind # "answer"
    BY DEF Unsubscribe
  <2> HIDE DEF u
  <2>4. <<u>> \in Seq(Orders) /\ Range(<<u>>) = {u}
    BY <2>2, OneOrder
  <2>5. Covered(<<u>>)
    BY <2>3, <2>4, CoveredWithoutGrants
  <2> QED BY <2>1, <2>4, <2>5
<1>2. CASE k \notin tracked
  BY <1>2, NothingSent DEF OnClientOffline
<1> QED BY <1>1, <1>2

\* The tail of what was to be read is part of it.
LEMMA ToAgentTaken ==
  ASSUME OwnerInv, toAgent # <<>>, toAgent' = Tail(toAgent)
  PROVE  Range(toAgent') \subseteq Range(toAgent) /\ Head(toAgent) \in Range(toAgent)
<1> DEFINE S == RemoteCalls \cup Notices
<1>1. toAgent \in Seq(S)
  BY DEF OwnerInv
<1> HIDE DEF S
<1> QED BY <1>1, Taken

LEMMA ToAgentAdded ==
  ASSUME OwnerInv, NEW m \in RemoteCalls \cup Notices, toAgent' = Append(toAgent, m)
  PROVE  Range(toAgent') = Range(toAgent) \cup {m}
<1> DEFINE S == RemoteCalls \cup Notices
<1>1. toAgent \in Seq(S) /\ m \in S
  BY DEF OwnerInv
<1> HIDE DEF S
<1>2. toAgent' = toAgent \o <<m>> /\ <<m>> \in Seq(S)
  BY <1>1, AppendIsConcat
<1>3. Range(toAgent \o <<m>>) = Range(toAgent) \cup Range(<<m>>)
  BY <1>1, <1>2, Joined, ZenonT(60)
<1> QED BY <1>2, <1>3, RangeSingle

\* A step that leaves what travels to the broker as it is.
LEMMA StreamUndisturbed ==
  ASSUME StreamInv, UNCHANGED <<toBroker, wire>>, session' \in BOOLEAN,
         link' = link \/ (link' = "down" /\ ~wire) \/ (link' = "up" /\ Connect \notin Range(toBroker)),
         phase' # "starting" \/ ~wire,
         phase' = "running" => phase = "running" \/ ~wire,
         \A m \in Range(toAgent') : m.kind = "connack" => m \in Range(toAgent)
  PROVE  StreamInv'
<1>1. ~wire => Range(toBroker) = {}
  BY RangeEmpty DEF StreamInv
<1>2. Range(toBroker') = Range(toBroker)
  OBVIOUS
<1> QED BY <1>1, <1>2 DEF StreamInv

LEMMA ConnectIsFirst ==
  ASSUME StreamInv, toBroker # <<>>
  PROVE  /\ Connect \notin Range(Tail(toBroker))
         /\ Connect \in Range(toBroker) <=> Head(toBroker) = Connect
         /\ Head(toBroker) = Disconnect => Tail(toBroker) = <<>>
<1> DEFINE t == Tail(toBroker)
<1>1. /\ t \in Seq(Messages) /\ Len(t) = Len(toBroker) - 1 /\ Len(toBroker) \in Nat /\ Len(toBroker) > 0
      /\ Head(toBroker) = toBroker[1]
      /\ \A n \in 1..Len(t) : n + 1 \in 1..Len(toBroker) /\ t[n] = toBroker[n + 1]
      /\ Range(toBroker) = {Head(toBroker)} \cup Range(t)
  <2>1. toBroker \in Seq(Messages)
    BY DEF StreamInv
  <2> QED BY <2>1, Taken
<1> HIDE DEF t
<1>2. \A n \in 1..Len(t) : t[n] # Connect
  <2> TAKE n \in 1..Len(t)
  <2>1. n + 1 \in 1..Len(toBroker) /\ t[n] = toBroker[n + 1] /\ n + 1 # 1
    BY <1>1
  <2> QED BY <2>1 DEF StreamInv
<1>3. Connect \notin Range(t)
  <2>1. Range(t) = {t[n] : n \in 1..Len(t)}
    BY <1>1, RangeIndexed
  <2> QED BY <1>2, <2>1
<1>4. Head(toBroker) = Disconnect => t = <<>>
  <2>1. 1 \in 1..Len(toBroker)
    BY <1>1
  <2>2. Head(toBroker) = Disconnect => Len(toBroker) = 1
    BY <1>1, <2>1 DEF StreamInv
  <2> QED BY <1>1, <2>2
<1> QED BY <1>1, <1>3, <1>4 DEF t

\* The broker takes a message.
LEMMA StreamTaken ==
  ASSUME StreamInv, toBroker # <<>>, toBroker' = Tail(toBroker),
         UNCHANGED <<wire, link, phase>>, session' \in BOOLEAN,
         \A m \in Range(toAgent') : m.kind = "connack" => m \in Range(toAgent) \/ m.accepted
  PROVE  StreamInv'
<1> DEFINE t == Tail(toBroker)
<1>1. /\ t \in Seq(Messages) /\ Len(t) = Len(toBroker) - 1 /\ Len(toBroker) \in Nat /\ Len(toBroker) > 0
      /\ \A n \in 1..Len(t) : n + 1 \in 1..Len(toBroker) /\ t[n] = toBroker[n + 1]
      /\ Range(toBroker) = {Head(toBroker)} \cup Range(t)
  <2>1. toBroker \in Seq(Messages)
    BY DEF StreamInv
  <2> QED BY <2>1, Taken
<1>2. Connect \notin Range(t)
  BY ConnectIsFirst
<1>3. toBroker' = t
  OBVIOUS
<1> HIDE DEF t
<1>4. \A n \in 1..Len(t) : t[n] \in Range(t)
  BY <1>1, RangeIndexed
<1>5. \A n \in 1..Len(t) : t[n] = Disconnect => n = Len(t)
  <2> SUFFICES ASSUME NEW n \in 1..Len(t), t[n] = Disconnect PROVE n = Len(t)
    OBVIOUS
  <2>1. n + 1 = Len(toBroker)
    BY <1>1 DEF StreamInv
  <2> QED BY <1>1, <2>1
<1>6. phase' = "running" => Range(t) \cap Farewells = {}
  BY <1>1 DEF StreamInv
<1>7. wire
  BY DEF StreamInv
<1>8. link' = "down" \/ phase' = "starting" => ~wire'
  BY DEF StreamInv
<1>9. \A m \in Range(toAgent') : m.kind = "connack" =>
        Connect \notin Range(toBroker') /\ (m.accepted \/ ~wire')
  BY <1>2, <1>3 DEF StreamInv
<1>10. \A n \in 1..Len(t) : t[n] # Connect
  BY <1>2, <1>4
<1>11. toBroker' \in Seq(Messages) /\ wire' \in BOOLEAN /\ wire'
  BY <1>1, <1>3, <1>7 DEF StreamInv
<1> QED BY <1>2, <1>3, <1>5, <1>6, <1>8, <1>9, <1>10, <1>11 DEF StreamInv

\* The connection is gone, and with it what travelled on it.
LEMMA StreamCut ==
  ASSUME StreamInv, ~wire', toBroker' = <<>>, wire' \in BOOLEAN,
         UNCHANGED <<link, phase, session>>
  PROVE  StreamInv'
<1>1. toBroker' \in Seq(Messages) /\ Len(toBroker') = 0 /\ Range(toBroker') = {}
  BY RangeEmpty
<1> QED BY <1>1 DEF StreamInv

LEMMA StreamOpened ==
  ASSUME wire' = TRUE, toBroker' = <<Connect>>, toAgent' = <<>>, link' = "open",
         phase' = "running", session' \in BOOLEAN
  PROVE  StreamInv'
<1>1. Connect \in Messages
  BY DEF Messages
<1>2. toBroker' \in Seq(Messages) /\ Len(toBroker') = 1 /\ toBroker'[1] = Connect
  <2> HIDE DEF Messages
  <2> QED BY <1>1
<1>3. Range(toBroker') = {Connect} /\ Range(toAgent') = {}
  BY RangeSingle, RangeEmpty
<1>4. \A n \in 1..Len(toBroker') : n = 1
  BY <1>2
<1> QED BY <1>2, <1>3, <1>4, ConnectIsNoFarewell DEF StreamInv

\* end() says goodbye and disconnects, in this order.
LEMMA EndSends ==
  ASSUME End
  PROVE  \E ms \in Seq(Farewells) :
           Send(ms) /\ \A n \in 1..Len(ms) : ms[n] = Disconnect => n = Len(ms)
<1> DEFINE ms == <<AgentInfo("offline")>> \o (IF link = "up" THEN <<Disconnect>> ELSE <<>>)
<1>1. Send(ms)
  BY DEF End
<1>2. /\ ms \in Seq(Farewells)
      /\ \A n \in 1..Len(ms) : ms[n] = Disconnect => n = Len(ms)
  <2> DEFINE a == AgentInfo("offline")
             d == Disconnect
  <2>1. a # d
    BY DEF AgentInfo, Disconnect
  <2>2. a \in Farewells /\ d \in Farewells
    BY DEF Farewells
  <2>3. ms = <<a>> \o (IF link = "up" THEN <<d>> ELSE <<>>)
    BY DEF ms
  <2>4. d = Disconnect
    OBVIOUS
  <2> HIDE DEF a, d, ms
  <2>5. CASE link = "up"
    <3>1. ms = <<a>> \o <<d>>
      BY <2>3, <2>5
    <3>2. <<a>> \o <<d>> \in Seq(Farewells)
      BY <2>2
    <3>3. Len(<<a>> \o <<d>>) = 2 /\ (<<a>> \o <<d>>)[1] = a
      BY <2>2
    <3>4. 1..Len(ms) = {1, 2}
      BY <3>1, <3>3
    <3> QED BY <2>1, <2>4, <3>1, <3>2, <3>3, <3>4
  <2>6. CASE link # "up"
    <3>1. ms = <<a>> \o <<>>
      BY <2>3, <2>6
    <3>2. <<a>> \o <<>> \in Seq(Farewells) /\ Len(<<a>> \o <<>>) = 1
      BY <2>2
    <3> QED BY <3>1, <3>2
  <2> QED BY <2>5, <2>6
<1> HIDE DEF ms
<1> QED BY <1>1, <1>2

LEMMA StreamEnds ==
  ASSUME OwnerInv, StreamInv, End
  PROVE  StreamInv'
<1>1. /\ phase = "running" /\ phase' = "ended"
      /\ UNCHANGED <<link, wire, toAgent, session>>
  BY DEF End, brokerVars
<1>2. PICK ms \in Seq(Farewells) :
        Send(ms) /\ \A n \in 1..Len(ms) : ms[n] = Disconnect => n = Len(ms)
  BY EndSends
<1>3. CASE ~(wire /\ link # "down")
  <2>1. toBroker' = toBroker
    BY <1>2, <1>3 DEF Send
  <2> QED BY <1>1, <2>1, StreamUndisturbed DEF StreamInv
<1>4. CASE wire /\ link # "down"
  <2> DEFINE z == toBroker \o ms
  <2>1. toBroker' = z
    BY <1>2, <1>4 DEF Send
  <2>2. toBroker \in Seq(Messages) /\ ms \in Seq(Messages)
    <3>1. Farewells \subseteq Messages
      BY DEF Messages
    <3> HIDE DEF Messages, Farewells
    <3> QED BY <1>2, <3>1 DEF StreamInv
  <2>3. /\ z \in Seq(Messages) /\ Len(z) = Len(toBroker) + Len(ms) /\ Len(toBroker) \in Nat /\ Len(ms) \in Nat
        /\ \A n \in 1..Len(toBroker) : n \in 1..Len(z) /\ z[n] = toBroker[n]
        /\ \A n \in 1..Len(ms) : Len(toBroker) + n \in 1..Len(z) /\ z[Len(toBroker) + n] = ms[n]
        /\ \A n \in 1..Len(z) : n \in 1..Len(toBroker) \/ n - Len(toBroker) \in 1..Len(ms)
        /\ Range(z) = Range(toBroker) \cup Range(ms)
    BY <2>2, Joined
  <2> HIDE DEF z
  <2>4. Range(ms) \subseteq Farewells /\ \A n \in 1..Len(ms) : ms[n] \in Farewells
    BY <1>2, RangeIndexed
  <2>5. \A n \in 1..Len(z) : n \notin 1..Len(toBroker) =>
          n - Len(toBroker) \in 1..Len(ms) /\ z[n] = ms[n - Len(toBroker)]
    <3> TAKE n \in 1..Len(z)
    <3>1. n \notin 1..Len(toBroker) =>
            n - Len(toBroker) \in 1..Len(ms) /\ Len(toBroker) + (n - Len(toBroker)) = n
      BY <2>3
    <3> QED BY <2>3, <3>1
  <2>6. Connect \in Range(z) <=> Connect \in Range(toBroker)
    BY <2>3, <2>4, ConnectIsNoFarewell
  <2>7. \A n \in 1..Len(z) : z[n] = Connect => n = 1
    <3> SUFFICES ASSUME NEW n \in 1..Len(z), z[n] = Connect PROVE n = 1
      OBVIOUS
    <3>1. n \in 1..Len(toBroker)
      BY <2>4, <2>5, ConnectIsNoFarewell
    <3> QED BY <2>3, <3>1 DEF StreamInv
  <2>8. \A n \in 1..Len(toBroker) : toBroker[n] # Disconnect
    <3>1. \A n \in 1..Len(toBroker) : toBroker[n] \in Range(toBroker)
      BY <2>2, RangeIndexed
    <3> QED BY <1>1, <3>1, ConnectIsNoFarewell DEF StreamInv
  <2>9. \A n \in 1..Len(z) : z[n] = Disconnect => n = Len(z)
    <3> SUFFICES ASSUME NEW n \in 1..Len(z), z[n] = Disconnect PROVE n = Len(z)
      OBVIOUS
    <3>1. n \notin 1..Len(toBroker)
      BY <2>3, <2>8
    <3>2. n - Len(toBroker) = Len(ms)
      BY <1>2, <2>5, <3>1
    <3> QED BY <2>3, <3>2
  <2>10. /\ wire' \in BOOLEAN /\ wire' /\ session' \in BOOLEAN /\ link' # "down" /\ phase' = "ended"
         /\ link' = "up" => Connect \notin Range(z)
         /\ \A m \in Range(toAgent') : m.kind = "connack" => Connect \notin Range(z) /\ (m.accepted \/ ~wire')
    BY <1>1, <1>4, <2>6 DEF StreamInv
  <2> QED BY <2>1, <2>3, <2>7, <2>9, <2>10 DEF StreamInv
<1> QED BY <1>3, <1>4

LEMMA CallIsRouted ==
  ASSUME OwnerInv, NEW k \in Clients, NEW c \in Classes, NEW f \in Fns, ClientCalls(k, c, f)
  PROVE  \E m \in RemoteCalls \cup Notices : toAgent' = Append(toAgent, m) /\ m.kind = "call"
<1>1. PICK x \in Ids \cup {"__static__"}, i \in Ids \cup {None} :
        /\ IF f \in Lifecycle THEN <<c, i>> \in Uses ELSE i = None
        /\ toAgent' = Append(toAgent, RoutedCall(calls + 1, k, c, x, f, i))
  BY DEF ClientCalls
<1>2. f \in Lifecycle => <<c, i>> \in Uses
  BY <1>1
<1>3. calls + 1 \in Nat
  BY DEF OwnerInv
<1>4. /\ RoutedCall(calls + 1, k, c, x, f, i) \in RemoteCalls
      /\ RoutedCall(calls + 1, k, c, x, f, i).kind = "call"
  BY <1>2, <1>3 DEF RoutedCall, RemoteCalls
<1> QED BY <1>1, <1>4

LEMMA ConnackSends ==
  ASSUME OwnerInv, StreamInv, OnConnack
  PROVE  /\ phase = "running" /\ phase' = "running" /\ link = "open" /\ link' = "up"
         /\ UNCHANGED <<wire, session, subs, agentInfo, classInfo, granted, breaks, tasks, tracked>>
         /\ Head(toAgent).kind = "connack" /\ Connect \notin Range(toBroker)
         /\ Range(toAgent') \subseteq Range(toAgent)
         /\ \/ Head(toAgent).accepted /\ Send(Greeting)
            \/ ~wire /\ UNCHANGED toBroker
<1>1. /\ phase = "running" /\ phase' = phase /\ link = "open" /\ link' = "up"
      /\ UNCHANGED <<wire, session, subs, agentInfo, classInfo, granted, breaks, tasks, tracked>>
      /\ toAgent # <<>> /\ toAgent' = Tail(toAgent) /\ Head(toAgent).kind = "connack"
  BY DEF OnConnack, brokerVars
<1>2. \/ Head(toAgent).accepted /\ Send(Greeting)
      \/ ~Head(toAgent).accepted /\ UNCHANGED toBroker
  BY DEF OnConnack, Greeting, ClassInfos
<1>3. Range(toAgent') \subseteq Range(toAgent) /\ Head(toAgent) \in Range(toAgent)
  BY <1>1, ToAgentTaken
<1>4. Connect \notin Range(toBroker) /\ (Head(toAgent).accepted \/ ~wire)
  BY <1>1, <1>3 DEF StreamInv
<1> QED BY <1>1, <1>2, <1>3, <1>4

\* The two streams of a connection keep their order, whatever is sent and
\* whenever the connection breaks.
LEMMA StreamInvHolds == Spec => []StreamInv
<1>1. Init => StreamInv
  <2> SUFFICES ASSUME Init PROVE StreamInv
    OBVIOUS
  <2>1. /\ wire = FALSE /\ session = FALSE /\ link = "down" /\ phase = "starting"
        /\ toBroker = <<>> /\ toAgent = <<>>
    BY DEF Init
  <2>2. toBroker \in Seq(Messages) /\ Len(toBroker) = 0 /\ Range(toBroker) = {} /\ Range(toAgent) = {}
    BY <2>1, RangeEmpty
  <2>3. \A n \in 1..Len(toBroker) : FALSE
    BY <2>2
  <2> QED BY <2>1, <2>2, <2>3 DEF StreamInv
<1>2. ASSUME OwnerInv, StreamInv, [Next]_vars
      PROVE  StreamInv'
  <2>1. CASE Serve(ConnectSucceeds) \/ TimerFires(ConnectSucceeds)
    <3>1. /\ wire' = TRUE /\ toBroker' = <<Connect>> /\ toAgent' = <<>> /\ link' = "open"
          /\ phase' = "running" /\ session' = session
      BY <2>1 DEF Serve, TimerFires, ConnectSucceeds, brokerVars
    <3>2. session' \in BOOLEAN
      BY <1>2, <3>1 DEF StreamInv
    <3> QED BY <3>1, <3>2, StreamOpened
  <2>2. CASE \/ Serve(ConnectFails) \/ TimerFires(ConnectFails) \/ ConnectionLost \/ OnCall
             \/ UNCHANGED vars
    <3>1. /\ UNCHANGED <<toBroker, wire, session>>
          /\ phase' \in {phase, "running"} /\ (phase' # phase => phase = "starting")
          /\ link' = link \/ (link' = "down" /\ ~wire)
          /\ Range(toAgent') \subseteq Range(toAgent)
      <4>1. CASE Serve(ConnectFails)
        BY <4>1 DEF Serve, ConnectFails, netVars, brokerVars
      <4>2. CASE TimerFires(ConnectFails)
        BY <4>2 DEF TimerFires, ConnectFails, netVars, brokerVars
      <4>3. CASE ConnectionLost
        BY <4>3, RangeEmpty DEF ConnectionLost, brokerVars
      <4>4. CASE OnCall
        <5>1. toAgent # <<>> /\ toAgent' = Tail(toAgent)
          BY <4>4 DEF OnCall, Receives
        <5>2. UNCHANGED <<phase, link, wire, toBroker, session>>
          BY <4>4 DEF OnCall, Receives, brokerVars
        <5> QED BY <1>2, <5>1, <5>2, ToAgentTaken
      <4>5. CASE UNCHANGED vars
        BY <4>5 DEF vars, agentVars, netVars, brokerVars
      <4> QED BY <2>2, <4>1, <4>2, <4>3, <4>4, <4>5
    <3>2. session' \in BOOLEAN /\ (phase = "starting" => ~wire)
      BY <1>2, <3>1 DEF StreamInv
    <3> QED BY <1>2, <3>1, <3>2, StreamUndisturbed
  <2>3. CASE OnConnack
    <3>1. /\ phase = "running" /\ phase' = "running" /\ link' = "up"
          /\ UNCHANGED <<wire, session>> /\ Connect \notin Range(toBroker)
          /\ Range(toAgent') \subseteq Range(toAgent)
          /\ \/ Send(Greeting)
             \/ ~wire /\ UNCHANGED toBroker
      BY <1>2, <2>3, ConnackSends
    <3>2. CASE Send(Greeting)
      BY <1>2, <3>1, <3>2, GreetingSent, AgentSends
    <3>3. CASE UNCHANGED toBroker
      <4>1. session' \in BOOLEAN
        BY <1>2, <3>1 DEF StreamInv
      <4> QED BY <1>2, <3>1, <3>3, <4>1, StreamUndisturbed
    <3> QED BY <3>1, <3>2, <3>3
  <2>4. CASE OnClientOffline
    <3>1. /\ phase = "running" /\ toAgent # <<>> /\ toAgent' = Tail(toAgent)
          /\ UNCHANGED <<wire, session, phase, link>>
      BY <2>4 DEF OnClientOffline, Receives, agentVars, brokerVars
    <3>2. Range(toAgent') \subseteq Range(toAgent)
      BY <1>2, <3>1, ToAgentTaken
    <3>3. PICK ms \in Seq(Orders) : Send(ms)
      BY <1>2, <2>4, OfflineSends
    <3> QED BY <1>2, <3>1, <3>2, <3>3, AgentSends
  <2>5. ASSUME NEW r \in NextTask, Run(r)
        PROVE  StreamInv'
    <3>1. /\ phase = "running" /\ phase' # "starting"
          /\ UNCHANGED <<wire, session, link, toAgent>>
      BY <1>2, <2>5, RunKeeps
    <3>2. PICK ms \in Seq(Orders) : Send(ms)
      BY <1>2, <2>5, RunSends
    <3> QED BY <1>2, <3>1, <3>2, AgentSends
  <2>6. CASE End
    BY <1>2, <2>6, StreamEnds
  <2>7. CASE WireBreaks \/ ProcessExits \/ BrokerRefuses
    <3>1. ~wire' /\ toBroker' = <<>> /\ wire' \in BOOLEAN /\ UNCHANGED <<link, phase, session>>
      BY <2>7 DEF WireBreaks, ProcessExits, BrokerRefuses, agentVars, brokerVars
    <3> QED BY <1>2, <3>1, StreamCut
  <2>8. CASE BrokerAccepts \/ BrokerHandles
    <3>1. /\ toBroker # <<>> /\ toBroker' = Tail(toBroker)
          /\ UNCHANGED <<wire, link, phase>>
      BY <2>8 DEF BrokerAccepts, BrokerHandles, agentVars
    <3>2. session' \in BOOLEAN
      BY <1>2, <2>8 DEF BrokerAccepts, BrokerHandles, CloseSession, StreamInv
    <3>3. \A m \in Range(toAgent') : m.kind = "connack" => m \in Range(toAgent) \/ m.accepted
      <4>1. CASE BrokerAccepts
        <5>1. Connack(TRUE) \in RemoteCalls \cup Notices /\ Connack(TRUE).accepted
          BY DEF Notices, Connack
        <5>2. toAgent' = Append(toAgent, Connack(TRUE))
          BY <4>1 DEF BrokerAccepts
        <5> QED BY <1>2, <5>1, <5>2, ToAgentAdded
      <4>2. CASE BrokerHandles
        BY <4>2 DEF BrokerHandles
      <4> QED BY <2>8, <4>1, <4>2
    <3> QED BY <1>2, <3>1, <3>2, <3>3, StreamTaken
  <2>9. CASE BrokerNoticesLoss
    <3>1. UNCHANGED <<toBroker, wire, toAgent, link, phase>> /\ session' \in BOOLEAN
      BY <2>9 DEF BrokerNoticesLoss, CloseSession, agentVars, netVars
    <3>2. phase = "starting" => ~wire
      BY <1>2 DEF StreamInv
    <3> QED BY <1>2, <3>1, <3>2, StreamUndisturbed
  <2>10. ASSUME NEW k \in Clients, NEW c \in Classes, NEW f \in Fns, ClientCalls(k, c, f)
         PROVE  StreamInv'
    <3>1. PICK m \in RemoteCalls \cup Notices :
            toAgent' = Append(toAgent, m) /\ m.kind = "call"
      BY <1>2, <2>10, CallIsRouted
    <3>2. UNCHANGED <<toBroker, wire, link, phase, session>>
      BY <2>10 DEF ClientCalls, agentVars, brokerVars
    <3>3. Range(toAgent') = Range(toAgent) \cup {m}
      BY <1>2, <3>1, ToAgentAdded
    <3>4. session' \in BOOLEAN /\ (phase = "starting" => ~wire)
      BY <1>2, <3>2 DEF StreamInv
    <3> QED BY <1>2, <3>1, <3>2, <3>3, <3>4, StreamUndisturbed
  <2>11. ASSUME NEW k \in Clients, ClientLeaves(k)
         PROVE  StreamInv'
    <3>1. UNCHANGED <<toBroker, wire, link, phase, session>>
      BY <2>11 DEF ClientLeaves, agentVars, brokerVars
    <3>2. \A m \in Range(toAgent') : m.kind = "connack" => m \in Range(toAgent)
      <4>1. CASE toAgent' = toAgent
        BY <4>1
      <4>2. CASE toAgent' = Append(toAgent, ClientOffline(k))
        <5>1. ClientOffline(k) \in RemoteCalls \cup Notices /\ ClientOffline(k).kind # "connack"
          BY DEF Notices, ClientOffline
        <5> QED BY <1>2, <4>2, <5>1, ToAgentAdded
      <4> QED BY <2>11, <4>1, <4>2 DEF ClientLeaves
    <3>3. session' \in BOOLEAN /\ (phase = "starting" => ~wire)
      BY <1>2, <3>1 DEF StreamInv
    <3> QED BY <1>2, <3>1, <3>2, <3>3, StreamUndisturbed
  <2> QED
    BY <1>2, <2>1, <2>2, <2>3, <2>4, <2>5, <2>6, <2>7, <2>8, <2>9, <2>10, <2>11
    DEF Next, AgentNext, EnvironmentNext, Run
<1>3. QED
  BY <1>1, <1>2, OwnerInvHolds, PTL DEF Spec

-----------------------------------------------------------------------------
(* Instances that were granted.                                              *)

\* What an answer in flight promises is subscribed to, in this session or by a
\* message ahead of it.
GrantInv ==
  /\ granted \subseteq Classes \X Ids
  /\ \A g \in granted : InstanceTopics(g[1], g[2]) \subseteq subs
  /\ \A n \in 1..Len(toBroker) : toBroker[n].kind = "answer" =>
       \A g \in toBroker[n].grants :
         \/ Connect \notin Range(toBroker) /\ InstanceTopics(g[1], g[2]) \subseteq subs
         \/ \E m \in 1..(n - 1) :
              toBroker[m].kind = "subscribe" /\ InstanceTopics(g[1], g[2]) \subseteq toBroker[m].topics

LEMMA CoveredFarewells ==
  ASSUME NEW ms \in Seq(Farewells)
  PROVE  Covered(ms)
<1>1. \A m \in Farewells : m.kind # "answer"
  BY DEF Farewells, AgentInfo, Disconnect
<1> HIDE DEF Farewells
<1>2. \A n \in 1..Len(ms) : ms[n] \in Farewells
  OBVIOUS
<1> QED BY <1>1, <1>2 DEF Covered

LEMMA GrantsAppended ==
  ASSUME StreamInv, GrantInv, NEW ms \in Seq(Messages), Covered(ms), Connect \notin Range(ms),
         toBroker' = toBroker \o ms, UNCHANGED <<subs, granted>>
  PROVE  GrantInv'
<1> DEFINE z == toBroker \o ms
<1>1. toBroker \in Seq(Messages)
  BY DEF StreamInv
<1>2. /\ Len(z) = Len(toBroker) + Len(ms) /\ Len(toBroker) \in Nat /\ Len(ms) \in Nat
      /\ \A n \in 1..Len(toBroker) : n \in 1..Len(z) /\ z[n] = toBroker[n]
      /\ \A n \in 1..Len(ms) : Len(toBroker) + n \in 1..Len(z) /\ z[Len(toBroker) + n] = ms[n]
      /\ \A n \in 1..Len(z) : n \in 1..Len(toBroker) \/ n - Len(toBroker) \in 1..Len(ms)
      /\ Range(z) = Range(toBroker) \cup Range(ms)
  BY <1>1, Joined
<1>3. toBroker' = z
  OBVIOUS
<1> HIDE DEF z
<1>4. ASSUME NEW n \in 1..Len(z), z[n].kind = "answer", NEW g \in z[n].grants
      PROVE  \/ Connect \notin Range(z) /\ InstanceTopics(g[1], g[2]) \subseteq subs
             \/ \E m \in 1..(n - 1) :
                  z[m].kind = "subscribe" /\ InstanceTopics(g[1], g[2]) \subseteq z[m].topics
  <2>1. CASE n \in 1..Len(toBroker)
    <3>1. z[n] = toBroker[n] /\ \A m \in 1..(n - 1) : z[m] = toBroker[m]
      BY <1>2, <2>1
    <3>2. CASE Connect \notin Range(toBroker) /\ InstanceTopics(g[1], g[2]) \subseteq subs
      BY <1>2, <3>2
    <3>3. CASE \E m \in 1..(n - 1) :
                 toBroker[m].kind = "subscribe" /\ InstanceTopics(g[1], g[2]) \subseteq toBroker[m].topics
      BY <3>1, <3>3
    <3> QED BY <1>4, <2>1, <3>1, <3>2, <3>3 DEF GrantInv
  <2>2. CASE n \notin 1..Len(toBroker)
    <3> DEFINE k == n - Len(toBroker)
    <3>1. k \in 1..Len(ms) /\ Len(toBroker) + k = n
      BY <1>2, <2>2
    <3>2. z[n] = ms[k]
      BY <1>2, <3>1
    <3>3. PICK m \in 1..(k - 1) :
            ms[m].kind = "subscribe" /\ InstanceTopics(g[1], g[2]) \subseteq ms[m].topics
      BY <1>4, <3>1, <3>2 DEF Covered
    <3>4. Len(toBroker) + m \in 1..(n - 1) /\ m \in 1..Len(ms)
      BY <1>2, <3>1, <3>3
    <3>5. z[Len(toBroker) + m] = ms[m]
      BY <1>2, <3>4
    <3> QED BY <3>3, <3>4, <3>5
  <2> QED BY <2>1, <2>2
<1> QED BY <1>3, <1>4 DEF GrantInv

LEMMA GrantsSent ==
  ASSUME StreamInv, GrantInv, NEW ms \in Seq(Orders), Covered(ms), Send(ms),
         UNCHANGED <<subs, granted>>
  PROVE  GrantInv'
<1>1. CASE toBroker' = toBroker
  BY <1>1 DEF GrantInv
<1>2. CASE toBroker' # toBroker
  <2>1. toBroker' = toBroker \o ms
    BY <1>2 DEF Send
  <2>2. ms \in Seq(Messages)
    <3>1. Orders \subseteq Messages
      BY DEF Messages
    <3> HIDE DEF Messages
    <3> QED BY <3>1
  <2>3. Connect \notin Range(ms)
    BY RangeIndexed, OrderKinds
  <2> QED BY <2>1, <2>2, <2>3, GrantsAppended
<1> QED BY <1>1, <1>2

LEMMA MessageKinds ==
  ASSUME NEW m \in Messages
  PROVE  /\ m.kind = "unsubscribe" => m.topics \subseteq DroppedTopics
         /\ m.kind = "answer" => m.grants \subseteq Classes \X Ids
         /\ m.kind = "disconnect" => m = Disconnect
         /\ m.kind = "agentInfo" => m.status \in {"online", "offline"} /\ (m.status = "offline" => m \in Farewells)
         /\ m.kind = "classInfo" => m.class \in Classes /\ m.instances \subseteq Ids
         /\ m.kind = "connect" <=> m = Connect
<1>1. CASE m \in Orders
  BY <1>1, OrderKinds DEF Connect
<1>2. CASE m \in Farewells
  BY <1>2 DEF Farewells, AgentInfo, Disconnect, Connect
<1>3. CASE m = Connect
  BY <1>3 DEF Connect
<1> QED BY <1>1, <1>2, <1>3 DEF Messages

\* The broker takes a message off the stream: subscriptions of an instance
\* are not given up, and those ahead of an answer are in place before it.
LEMMA GrantsTaken ==
  ASSUME StreamInv, GrantInv, toBroker # <<>>, toBroker' = Tail(toBroker), NEW m, m = Head(toBroker),
         granted' \subseteq Classes \X Ids,
         \A g \in Classes \X Ids :
           InstanceTopics(g[1], g[2]) \subseteq subs \cup (IF m.kind = "subscribe" THEN m.topics ELSE {}) =>
             InstanceTopics(g[1], g[2]) \subseteq subs',
         \A g \in granted' : g \in granted \/ (m.kind = "answer" /\ g \in m.grants)
  PROVE  GrantInv'
<1> DEFINE t == Tail(toBroker)
<1>1. toBroker \in Seq(Messages)
  BY DEF StreamInv
<1>2. /\ t \in Seq(Messages) /\ Len(t) = Len(toBroker) - 1 /\ Len(toBroker) \in Nat /\ Len(toBroker) > 0
      /\ m = toBroker[1] /\ m \in Messages
      /\ \A n \in 1..Len(t) : n + 1 \in 1..Len(toBroker) /\ t[n] = toBroker[n + 1]
      /\ \A n \in 1..Len(toBroker) : n # 1 => n - 1 \in 1..Len(t) /\ t[n - 1] = toBroker[n]
  BY <1>1, Taken
<1>3. Connect \notin Range(t)
  BY ConnectIsFirst
<1>4. toBroker' = t /\ Connect.kind = "connect"
  BY DEF Connect
<1> HIDE DEF t
<1>5. granted \subseteq Classes \X Ids /\ \A g \in granted : InstanceTopics(g[1], g[2]) \subseteq subs
  BY DEF GrantInv
<1>6. ASSUME NEW g \in granted'
      PROVE  InstanceTopics(g[1], g[2]) \subseteq subs'
  <2>1. CASE g \in granted
    BY <1>5, <2>1
  <2>2. CASE m.kind = "answer" /\ g \in m.grants
    <3>1. 1 \in 1..Len(toBroker) /\ 1..(1 - 1) = {}
      BY <1>2
    <3>2. InstanceTopics(g[1], g[2]) \subseteq subs
      BY <1>2, <2>2, <3>1 DEF GrantInv
    <3> QED BY <1>6, <3>2
  <2> QED BY <1>6, <2>1, <2>2
<1>7. ASSUME NEW n \in 1..Len(t), t[n].kind = "answer", NEW g \in t[n].grants
      PROVE  \/ InstanceTopics(g[1], g[2]) \subseteq subs'
             \/ \E p \in 1..(n - 1) :
                  t[p].kind = "subscribe" /\ InstanceTopics(g[1], g[2]) \subseteq t[p].topics
  <2>1. n + 1 \in 1..Len(toBroker) /\ t[n] = toBroker[n + 1] /\ (n + 1) - 1 = n /\ n \in Nat
    BY <1>2
  <2>2. g \in Classes \X Ids
    <3>1. t[n] \in Messages
      <4> HIDE DEF Messages
      <4> QED BY <1>2
    <3> QED BY <1>7, <3>1, MessageKinds
  <2>3. \/ InstanceTopics(g[1], g[2]) \subseteq subs
        \/ \E p \in 1..n :
             toBroker[p].kind = "subscribe" /\ InstanceTopics(g[1], g[2]) \subseteq toBroker[p].topics
    BY <1>7, <2>1 DEF GrantInv
  <2>4. CASE InstanceTopics(g[1], g[2]) \subseteq subs
    BY <2>2, <2>4
  <2>5. ASSUME NEW p \in 1..n, toBroker[p].kind = "subscribe",
               InstanceTopics(g[1], g[2]) \subseteq toBroker[p].topics
        PROVE  \/ InstanceTopics(g[1], g[2]) \subseteq subs'
               \/ \E q \in 1..(n - 1) :
                    t[q].kind = "subscribe" /\ InstanceTopics(g[1], g[2]) \subseteq t[q].topics
    <3>1. CASE p = 1
      BY <1>2, <2>2, <2>5, <3>1
    <3>2. CASE p # 1
      <4>1. p \in 1..Len(toBroker) /\ p - 1 \in 1..(n - 1)
        BY <1>2, <2>1, <3>2
      <4>2. t[p - 1] = toBroker[p]
        BY <1>2, <3>2, <4>1
      <4> QED BY <2>5, <4>1, <4>2
    <3> QED BY <3>1, <3>2
  <2> QED BY <2>3, <2>4, <2>5
<1>8. \A n \in 1..Len(t) : t[n].kind = "answer" => \A g \in t[n].grants :
         \/ Connect \notin Range(t) /\ InstanceTopics(g[1], g[2]) \subseteq subs'
         \/ \E p \in 1..(n - 1) :
              t[p].kind = "subscribe" /\ InstanceTopics(g[1], g[2]) \subseteq t[p].topics
  BY <1>3, <1>7
<1> QED BY <1>4, <1>6, <1>8 DEF GrantInv

\* A session that ends takes its subscriptions and its grants with it.
LEMMA GrantsClosed ==
  ASSUME GrantInv, CloseSession,
         \/ UNCHANGED toBroker /\ (toBroker = <<>> \/ Connect \in Range(toBroker))
         \/ toBroker' = <<>>
  PROVE  GrantInv'
<1>1. granted' = {}
  BY DEF CloseSession
<1>2. CASE toBroker' = <<>>
  <2>1. \A n \in 1..Len(toBroker') : FALSE
    BY <1>2
  <2> QED BY <1>1, <2>1 DEF GrantInv
<1>3. CASE UNCHANGED toBroker /\ Connect \in Range(toBroker)
  BY <1>1, <1>3 DEF GrantInv
<1> QED BY <1>2, <1>3

LEMMA GrantsHandled ==
  ASSUME StreamInv, GrantInv, BrokerHandles
  PROVE  GrantInv'
<1> DEFINE m == Head(toBroker)
<1>1. toBroker # <<>> /\ toBroker' = Tail(toBroker)
  BY DEF BrokerHandles
<1>2. toBroker \in Seq(Messages)
  BY DEF StreamInv
<1>3. m \in Messages
  <2> HIDE DEF Messages
  <2> QED BY <1>1, <1>2
<1>4. \A g \in Classes \X Ids : InstanceTopics(g[1], g[2]) \cap DroppedTopics = {}
  BY InstanceTopicsStay
<1>5. granted \subseteq Classes \X Ids
  BY DEF GrantInv
<1>6. CASE m.kind = "disconnect" /\ CloseSession
  <2>1. toBroker' = <<>>
    BY <1>1, <1>3, <1>6, MessageKinds, ConnectIsFirst
  <2> QED BY <1>6, <2>1, GrantsClosed
<1>7. ASSUME m.kind # "disconnect"
      PROVE  /\ subs' = subs \/ (m.kind = "subscribe" /\ subs' = subs \cup m.topics)
                \/ (m.kind = "unsubscribe" /\ subs' = subs \ m.topics)
             /\ m.kind = "subscribe" => subs' = subs \cup m.topics
             /\ granted' = granted \/ (m.kind = "answer" /\ granted' = granted \cup m.grants)
  BY <1>7 DEF BrokerHandles
<1>8. CASE m.kind # "disconnect"
  <2>1. \A g \in Classes \X Ids :
           InstanceTopics(g[1], g[2]) \subseteq subs \cup (IF m.kind = "subscribe" THEN m.topics ELSE {}) =>
             InstanceTopics(g[1], g[2]) \subseteq subs'
    <3> TAKE g \in Classes \X Ids
    <3>1. CASE m.kind = "subscribe"
      BY <1>7, <1>8, <3>1
    <3>2. CASE m.kind # "subscribe"
      <4>1. m.kind = "unsubscribe" => m.topics \cap InstanceTopics(g[1], g[2]) = {}
        BY <1>3, <1>4, MessageKinds
      <4> QED BY <1>7, <1>8, <3>2, <4>1
    <3> QED BY <3>1, <3>2
  <2>2. granted' \subseteq Classes \X Ids
    BY <1>3, <1>5, <1>7, <1>8, MessageKinds
  <2>3. \A g \in granted' : g \in granted \/ (m.kind = "answer" /\ g \in m.grants)
    BY <1>7, <1>8
  <2> QED BY <1>1, <2>1, <2>2, <2>3, GrantsTaken
<1>9. m.kind = "disconnect" => CloseSession
  BY DEF BrokerHandles
<1> QED BY <1>6, <1>8, <1>9

\* A client that was told in this session that its instance exists can call it:
\* on every stream the subscriptions are ahead of the answer, and no deletion
\* and no client's end gives up a topic of an instance (agent.hpp:232-248).
THEOREM GrantedIsCallableHolds == Spec => []GrantedIsCallable
<1>1. Init => GrantInv
  <2> SUFFICES ASSUME Init PROVE GrantInv
    OBVIOUS
  <2>1. granted = {} /\ toBroker = <<>>
    BY DEF Init
  <2>2. \A n \in 1..Len(toBroker) : FALSE
    BY <2>1
  <2> QED BY <2>1, <2>2 DEF GrantInv
<1>2. ASSUME OwnerInv, StreamInv, GrantInv, [Next]_vars
      PROVE  GrantInv'
  <2>1. CASE Serve(ConnectSucceeds) \/ TimerFires(ConnectSucceeds)
    <3>1. toBroker' = <<Connect>> /\ UNCHANGED <<subs, granted>>
      BY <2>1 DEF Serve, TimerFires, ConnectSucceeds, brokerVars
    <3>2. \A n \in 1..Len(toBroker') : toBroker'[n].kind = "connect"
      <4>1. Len(toBroker') = 1 /\ toBroker'[1].kind = "connect"
        BY <3>1 DEF Connect
      <4> QED BY <4>1
    <3> QED BY <1>2, <3>1, <3>2 DEF GrantInv
  <2>2. CASE \/ Serve(ConnectFails) \/ TimerFires(ConnectFails) \/ ConnectionLost \/ OnCall
             \/ UNCHANGED vars
    <3>1. UNCHANGED <<toBroker, subs, granted>>
      BY <2>2 DEF Serve, TimerFires, ConnectFails, ConnectionLost, OnCall, vars, netVars, brokerVars
    <3> QED BY <1>2, <3>1 DEF GrantInv
  <2>3. CASE OnConnack
    <3>1. UNCHANGED <<subs, granted>> /\ (Send(Greeting) \/ UNCHANGED toBroker)
      BY <1>2, <2>3, ConnackSends
    <3>2. CASE Send(Greeting)
      <4>1. Greeting \in Seq(Orders)
        BY GreetingSent
      <4>2. \A m \in Range(Greeting) : m.kind # "answer"
        <5>1. \A m \in Range(ClassInfos) : m.kind = "classInfo"
          <6>1. Range(ClassInfos) = {ClassInfos[n] : n \in 1..Len(ClassInfos)}
            BY ClassInfosSent, RangeIndexed
          <6> QED BY <6>1, ClassInfosSent DEF ClassInfo
        <5> QED BY <5>1, GreetingSent DEF AgentInfo, Subscribe
      <4>3. Covered(Greeting)
        BY <4>1, <4>2, CoveredWithoutGrants
      <4> QED BY <1>2, <3>1, <3>2, <4>1, <4>3, GrantsSent
    <3>3. CASE UNCHANGED toBroker
      BY <1>2, <3>1, <3>3 DEF GrantInv
    <3> QED BY <3>1, <3>2, <3>3
  <2>4. CASE OnClientOffline
    <3>1. UNCHANGED <<subs, granted>>
      BY <2>4 DEF OnClientOffline, brokerVars
    <3>2. PICK ms \in Seq(Orders) : Send(ms) /\ Covered(ms)
      BY <1>2, <2>4, OfflineSends
    <3> QED BY <1>2, <3>1, <3>2, GrantsSent
  <2>5. ASSUME NEW r \in NextTask, Run(r)
        PROVE  GrantInv'
    <3>1. UNCHANGED <<subs, granted>>
      BY <1>2, <2>5, RunKeeps
    <3>2. PICK ms \in Seq(Orders) : Send(ms) /\ Covered(ms)
      BY <1>2, <2>5, RunSends
    <3> QED BY <1>2, <3>1, <3>2, GrantsSent
  <2>6. CASE End
    <3>1. UNCHANGED <<subs, granted>>
      BY <2>6 DEF End, brokerVars
    <3>2. PICK ms \in Seq(Farewells) : Send(ms)
      BY <2>6, EndSends
    <3>3. CASE toBroker' = toBroker
      BY <1>2, <3>1, <3>3 DEF GrantInv
    <3>4. CASE toBroker' # toBroker
      <4>1. toBroker' = toBroker \o ms
        BY <3>2, <3>4 DEF Send
      <4>2. ms \in Seq(Messages) /\ Connect \notin Range(ms)
        <5>1. Farewells \subseteq Messages
          BY DEF Messages
        <5> HIDE DEF Messages, Farewells
        <5>2. Range(ms) \subseteq Farewells
          BY RangeIndexed
        <5> QED BY <5>1, <5>2, ConnectIsNoFarewell
      <4> QED BY <1>2, <3>1, <4>1, <4>2, CoveredFarewells, GrantsAppended
    <3> QED BY <3>3, <3>4
  <2>7. CASE WireBreaks \/ ProcessExits \/ BrokerRefuses
    <3>1. toBroker' = <<>> /\ UNCHANGED <<subs, granted>>
      BY <2>7 DEF WireBreaks, ProcessExits, BrokerRefuses, brokerVars
    <3>2. \A n \in 1..Len(toBroker') : FALSE
      BY <3>1
    <3> QED BY <1>2, <3>1, <3>2 DEF GrantInv
  <2>8. CASE BrokerAccepts
    <3>1. /\ toBroker # <<>> /\ toBroker' = Tail(toBroker) /\ Head(toBroker) = Connect
          /\ UNCHANGED <<subs, granted>>
      BY <2>8 DEF BrokerAccepts
    <3>2. Head(toBroker).kind = "connect" /\ granted' \subseteq Classes \X Ids
      BY <1>2, <3>1 DEF Connect, GrantInv
    <3> QED BY <1>2, <3>1, <3>2, GrantsTaken
  <2>9. CASE BrokerHandles
    BY <1>2, <2>9, GrantsHandled
  <2>10. CASE BrokerNoticesLoss
    <3>1. CloseSession /\ UNCHANGED toBroker /\ (~wire \/ Contains(toBroker, Connect))
      BY <2>10 DEF BrokerNoticesLoss, netVars
    <3>2. toBroker = <<>> \/ Connect \in Range(toBroker)
      <4>1. toBroker \in Seq(Messages) /\ (wire \/ toBroker = <<>>)
        BY <1>2 DEF StreamInv
      <4>2. Range(toBroker) = {toBroker[n] : n \in 1..Len(toBroker)}
        BY <4>1, RangeIndexed
      <4> QED BY <3>1, <4>1, <4>2 DEF Contains
    <3> QED BY <1>2, <3>1, <3>2, GrantsClosed
  <2>11. CASE \/ \E k \in Clients, c \in Classes, f \in Fns : ClientCalls(k, c, f)
              \/ \E k \in Clients : ClientLeaves(k)
    <3>1. UNCHANGED <<toBroker, subs, granted>>
      BY <2>11 DEF ClientCalls, ClientLeaves, brokerVars
    <3> QED BY <1>2, <3>1 DEF GrantInv
  <2> QED
    BY <1>2, <2>1, <2>2, <2>3, <2>4, <2>5, <2>6, <2>7, <2>8, <2>9, <2>10, <2>11
    DEF Next, AgentNext, EnvironmentNext, Run
<1>3. GrantInv => GrantedIsCallable
  BY DEF GrantInv, GrantedIsCallable
<1>4. QED
  BY <1>1, <1>2, <1>3, OwnerInvHolds, StreamInvHolds, PTL DEF Spec

-----------------------------------------------------------------------------
(* What holds while a running agent is connected.                            *)

Up == phase = "running" /\ link = "up" /\ wire

\* A subscription that is in place or on its way.
Promised(t) ==
  t \in subs \/ \E m \in Range(toBroker) : m.kind = "subscribe" /\ t \in m.topics

\* How the agent gets there, and what can happen while it stays.
LEMMA UpSteps ==
  ASSUME OwnerInv, LinkInv, StreamInv, [Next]_vars, Up'
  PROVE  \/ ~Up /\ OnConnack /\ Send(Greeting) /\ wire
         \/ /\ Up
            /\ \/ UNCHANGED <<toBroker, subs, agentInfo, classInfo>> /\ UNCHANGED factoryVars
               \/ OnClientOffline
               \/ BrokerHandles
               \/ \E r \in NextTask : \/ RunCreateIsolated(r) \/ RunCreateShared(r)
                                      \/ RunDelete(r) \/ RunFunction(r)
<1>1. CASE Serve(ConnectSucceeds) \/ TimerFires(ConnectSucceeds)
  BY <1>1 DEF Serve, TimerFires, ConnectSucceeds, Up
<1>2. CASE Serve(ConnectFails) \/ TimerFires(ConnectFails)
  <2>1. link = "down" /\ link' = link
    BY <1>2 DEF Serve, TimerFires, ConnectFails, LinkInv, NeverStranded
  <2> QED BY <2>1 DEF Up
<1>3. CASE ConnectionLost \/ End
  BY <1>3 DEF ConnectionLost, End, Up
<1>4. CASE OnCall
  <2>1. UNCHANGED <<phase, link, wire, toBroker, subs, agentInfo, classInfo>> /\ UNCHANGED factoryVars
    BY <1>4 DEF OnCall, Receives, brokerVars
  <2> QED BY <2>1 DEF Up
<1>5. CASE OnConnack
  <2>1. link = "open" /\ UNCHANGED wire /\ (Send(Greeting) \/ ~wire)
    BY <1>5, ConnackSends
  <2> QED BY <1>5, <2>1 DEF Up
<1>6. CASE OnClientOffline
  <2>1. UNCHANGED <<phase, link, wire>>
    BY <1>6 DEF OnClientOffline, agentVars
  <2> QED BY <1>6, <2>1 DEF Up
<1>7. ASSUME NEW r \in NextTask, Run(r)
      PROVE  Up /\ (RunCreateIsolated(r) \/ RunCreateShared(r) \/ RunDelete(r) \/ RunFunction(r))
  <2>1. phase = "running" /\ UNCHANGED <<link, wire>>
    BY <1>7, RunKeeps
  <2>2. ~RunCreateFails(r)
    BY DEF RunCreateFails, Up
  <2> QED BY <1>7, <2>1, <2>2 DEF Run, Up
<1>8. CASE WireBreaks \/ ProcessExits \/ BrokerRefuses
  BY <1>8 DEF WireBreaks, ProcessExits, BrokerRefuses, Up
<1>9. CASE BrokerNoticesLoss
  <2>1. UNCHANGED <<phase, link, wire>> /\ (~wire \/ Contains(toBroker, Connect))
    BY <1>9 DEF BrokerNoticesLoss, agentVars, netVars
  <2>2. Up /\ Connect \notin Range(toBroker) /\ toBroker \in Seq(Messages)
    BY <2>1 DEF StreamInv, Up
  <2>3. Range(toBroker) = {toBroker[n] : n \in 1..Len(toBroker)}
    BY <2>2, RangeIndexed
  <2> QED BY <2>1, <2>2, <2>3 DEF Contains, Up
<1>10. CASE BrokerAccepts
  <2>1. UNCHANGED <<phase, link, wire>> /\ toBroker # <<>> /\ Head(toBroker) = Connect
    BY <1>10 DEF BrokerAccepts, agentVars
  <2>2. Connect \notin Range(toBroker)
    BY <2>1 DEF StreamInv, Up
  <2> QED BY <2>1, <2>2, ConnectIsFirst
<1>11. CASE BrokerHandles
  <2>1. UNCHANGED <<phase, link, wire>>
    BY <1>11 DEF BrokerHandles, agentVars
  <2> QED BY <1>11, <2>1 DEF Up
<1>12. CASE \/ \E k \in Clients, c \in Classes, f \in Fns : ClientCalls(k, c, f)
            \/ \E k \in Clients : ClientLeaves(k)
  <2>1. UNCHANGED <<phase, link, wire, toBroker, subs, agentInfo, classInfo>> /\ UNCHANGED factoryVars
    BY <1>12 DEF ClientCalls, ClientLeaves, brokerVars, agentVars
  <2> QED BY <2>1 DEF Up
<1>13. CASE UNCHANGED vars
  <2>1. UNCHANGED <<phase, link, wire, toBroker, subs, agentInfo, classInfo>> /\ UNCHANGED factoryVars
    BY <1>13 DEF vars, agentVars, netVars, brokerVars
  <2> QED BY <2>1 DEF Up
<1> QED
  BY <1>1, <1>2, <1>3, <1>4, <1>5, <1>6, <1>7, <1>8, <1>9, <1>10, <1>11, <1>12, <1>13
  DEF Next, AgentNext, EnvironmentNext, Run

\* What the broker does with the message at the head of a running agent's stream.
LEMMA HandledMessages ==
  ASSUME StreamInv, phase = "running", BrokerHandles, NEW m, m = Head(toBroker)
  PROVE  /\ m \in Range(toBroker) /\ m \in Messages /\ toBroker' = Tail(toBroker)
         /\ Range(toBroker) = {m} \cup Range(toBroker')
         /\ m.kind = "subscribe" => subs' = subs \cup m.topics
         /\ m.kind = "unsubscribe" => subs' = subs \ m.topics
         /\ m.kind \notin {"subscribe", "unsubscribe"} => subs' = subs
         /\ m.kind = "agentInfo" => m.status = "online" /\ agentInfo' = "online"
         /\ m.kind # "agentInfo" => agentInfo' = agentInfo
         /\ m.kind = "classInfo" => classInfo' = [classInfo EXCEPT ![m.class] = m.instances]
         /\ m.kind # "classInfo" => classInfo' = classInfo
         /\ UNCHANGED factoryVars /\ UNCHANGED agentVars /\ UNCHANGED <<wire, breaks>>
<1>1. /\ toBroker # <<>> /\ toBroker' = Tail(toBroker)
      /\ UNCHANGED factoryVars /\ UNCHANGED agentVars /\ UNCHANGED <<wire, breaks>>
  BY DEF BrokerHandles
<1>2. toBroker \in Seq(Messages) /\ Range(toBroker) \cap Farewells = {}
  BY DEF StreamInv
<1>3. Range(toBroker) = {m} \cup Range(Tail(toBroker)) /\ m \in Messages
  <2> HIDE DEF Messages
  <2> QED BY <1>1, <1>2, Taken
<1>4. m.kind # "disconnect" /\ (m.kind = "agentInfo" => m.status = "online")
  BY <1>2, <1>3, MessageKinds, ConnectIsNoFarewell
<1>5. /\ m.kind = "subscribe" => subs' = subs \cup m.topics
      /\ m.kind = "unsubscribe" => subs' = subs \ m.topics
      /\ m.kind \notin {"subscribe", "unsubscribe"} => subs' = subs
      /\ m.kind = "agentInfo" => agentInfo' = m.status
      /\ m.kind # "agentInfo" => agentInfo' = agentInfo
      /\ m.kind = "classInfo" => classInfo' = [classInfo EXCEPT ![m.class] = m.instances]
      /\ m.kind # "classInfo" => classInfo' = classInfo
  BY <1>4 DEF BrokerHandles
<1> QED BY <1>1, <1>3, <1>4, <1>5

\* A promise is kept unless an unsubscription overtakes it.
LEMMA PromiseKept ==
  ASSUME OwnerInv, LinkInv, StreamInv, [Next]_vars, Up, Up', NEW t, Promised(t),
         \A m \in Range(toBroker) : m.kind = "unsubscribe" => t \notin m.topics
  PROVE  Promised(t)'
<1>1. CASE BrokerHandles
  <2> DEFINE m == Head(toBroker)
  <2>1. /\ Range(toBroker) = {m} \cup Range(toBroker') /\ m \in Range(toBroker)
        /\ m.kind = "subscribe" => subs' = subs \cup m.topics
        /\ m.kind = "unsubscribe" => subs' = subs \ m.topics
        /\ m.kind \notin {"subscribe", "unsubscribe"} => subs' = subs
    BY <1>1, HandledMessages DEF Up
  <2> HIDE DEF m
  <2>2. CASE t \in subs
    BY <2>1, <2>2 DEF Promised
  <2>3. CASE t \notin subs
    <3>1. PICK n \in Range(toBroker) : n.kind = "subscribe" /\ t \in n.topics
      BY <2>3 DEF Promised
    <3>2. CASE n = m
      BY <2>1, <3>1, <3>2 DEF Promised
    <3>3. CASE n \in Range(toBroker')
      BY <3>1, <3>3 DEF Promised
    <3> QED BY <2>1, <3>2, <3>3
  <2> QED BY <2>2, <2>3
<1>2. CASE ~BrokerHandles
  <2>1. subs' = subs /\ Range(toBroker) \subseteq Range(toBroker')
    <3>1. CASE UNCHANGED <<toBroker, subs>>
      BY <3>1
    <3>2. CASE OnClientOffline
      <4>1. PICK ms \in Seq(Orders) : Send(ms)
        BY <3>2, OfflineSends
      <4>2. subs' = subs
        BY <3>2 DEF OnClientOffline, brokerVars
      <4> QED BY <4>1, <4>2, OrdersSent
    <3>3. ASSUME NEW r \in NextTask, Run(r)
          PROVE  subs' = subs /\ Range(toBroker) \subseteq Range(toBroker')
      <4>1. PICK ms \in Seq(Orders) : Send(ms)
        BY <3>3, RunSends
      <4>2. subs' = subs
        BY <3>3, RunKeeps
      <4> QED BY <4>1, <4>2, OrdersSent
    <3> QED BY <1>2, <3>1, <3>2, <3>3, UpSteps DEF Run
  <2> QED BY <2>1 DEF Promised
<1> QED BY <1>1, <1>2

-----------------------------------------------------------------------------
(* The agent's calls into its factory.                                       *)

LEMMA RunCalls ==
  ASSUME OwnerInv, NEW r \in NextTask, Run(r)
  PROVE  [FactoryNext]_factoryVars
<1>1. r.class \in Classes /\ r.fn \in Fns /\ r.ctx \in Ids \cup {"__static__"}
  BY TaskIsCall DEF RemoteCalls
<1>2. r.fn \in Lifecycle => r.arg \in Ids
  BY TaskIsCall
<1>3. PICK x \in Contexts, ok \in BOOLEAN : Call(x, r.fn, r.arg, ok)
  BY <1>1 DEF Run, RunCreateIsolated, RunCreateShared, RunCreateFails, RunDelete, RunFunction, Contexts
<1>4. CASE r.fn \in Lifecycle
  BY <1>1, <1>2, <1>3, <1>4 DEF FactoryNext
<1>5. CASE r.fn \notin Lifecycle
  BY <1>3, <1>5 DEF Call, Lifecycle
<1> QED BY <1>4, <1>5

LEMMA FactorySteps ==
  ASSUME OwnerInv, [Next]_vars
  PROVE  [FactoryNext]_factoryVars \/ OnClientOffline
<1>1. CASE \/ Serve(ConnectSucceeds) \/ Serve(ConnectFails)
           \/ TimerFires(ConnectSucceeds) \/ TimerFires(ConnectFails)
           \/ ConnectionLost \/ OnConnack \/ OnCall \/ End
  BY <1>1 DEF Serve, TimerFires, ConnectionLost, OnConnack, OnCall, End
<1>2. ASSUME NEW r \in NextTask, Run(r)
      PROVE  [FactoryNext]_factoryVars
  BY <1>2, RunCalls
<1>3. CASE EnvironmentNext
  BY <1>3, EnvironmentKeepsAgent
<1>4. CASE UNCHANGED vars
  BY <1>4 DEF vars
<1> QED BY <1>1, <1>2, <1>3, <1>4 DEF Next, AgentNext, Run

-----------------------------------------------------------------------------
(* Static functions.                                                         *)

ServedTopics == UNION {{<<c, "__static__", Base[f]>> : f \in StaticFns[c] \cup Lifecycle} : c \in Classes}

StaticsInv == StaticsKept /\ (Up => \A t \in ServedTopics : Promised(t))

LEMMA StaticsNotDropped ==
  ASSUME StaticsApart
  PROVE  ServedTopics \cap DroppedTopics = {}
<1>1. ASSUME NEW c \in Classes, NEW f \in StaticFns[c] \cup Lifecycle,
             <<c, "__static__", Base[f]>> \in DroppedTopics
      PROVE  FALSE
  <2>1. ASSUME NEW d \in Classes, <<c, "__static__", Base[f]>> \in InstanceTopics(d, "__static__")
        PROVE  FALSE
    <3>1. PICK g \in MemberFns[d] : <<c, "__static__", Base[f]>> = <<d, "__static__", Base[g]>>
      BY <2>1 DEF InstanceTopics
    <3>2. c = d /\ Base[f] = Base[g]
      BY <3>1
    <3> QED BY <3>2 DEF StaticsApart
  <2>2. ASSUME NEW k \in Clients, <<c, "__static__", Base[f]>> = ClientTopic(k)
        PROVE  FALSE
    <3>1. Len(<<c, "__static__", Base[f]>>) = 3 /\ Len(<<k, "__clientInfo__">>) = 2
      OBVIOUS
    <3> QED BY <2>2, <3>1 DEF ClientTopic
  <2> QED BY <1>1, <2>1, <2>2 DEF DroppedTopics
<1>2. \A t \in ServedTopics : \E c \in Classes : \E f \in StaticFns[c] \cup Lifecycle :
        t = <<c, "__static__", Base[f]>>
  BY DEF ServedTopics
<1> QED BY <1>1, <1>2

\* The lifecycle and static functions of all classes stay subscribed to in every
\* session: neither the factory nor a deletion takes one away.
THEOREM StaticsServedHolds ==
  ASSUME StaticsApart
  PROVE  Spec => []StaticsServed
<1>1. Init => StaticsInv
  <2> SUFFICES ASSUME Init PROVE StaticsInv
    OBVIOUS
  <2>1. ~Up
    BY DEF Init, Up
  <2>2. StaticsKept
    BY FactoryAssumption DEF Init, FactoryInit, StaticsKept, Contexts, Found
  <2> QED BY <2>1, <2>2 DEF StaticsInv
<1>2. ASSUME OwnerInv, LinkInv, StreamInv, StaticsInv, [Next]_vars
      PROVE  StaticsInv'
  <2>1. ASSUME NEW c \in Classes
        PROVE  functionRegistry'[c] = functionRegistry[c]
    <3>1. c \notin Ids /\ c \in Contexts
      BY DEF StaticsApart, Contexts
    <3>2. FactoryTypeOK
      BY <1>2 DEF OwnerInv
    <3>3. CASE OnClientOffline
      <4>1. PICK gone \in SUBSET Ids :
              \/ functionRegistry' = [x \in Contexts |->
                    IF x \in gone THEN [f \in Fns |-> Unbound] ELSE functionRegistry[x]]
              \/ UNCHANGED factoryVars
        BY <3>3 DEF OnClientOffline
      <4> QED BY <3>1, <4>1 DEF factoryVars
    <3>4. CASE UNCHANGED factoryVars
      BY <3>4 DEF factoryVars
    <3>5. ASSUME NEW d \in Classes, NEW i \in Ids, NEW o \in Objects, NewInstance(d, i, o)
          PROVE  functionRegistry'[c] = functionRegistry[c]
      BY <3>1, <3>2, <3>5 DEF NewInstance, Bind, FactoryTypeOK, Contexts
    <3>6. ASSUME NEW i \in Ids, Removal(i)
          PROVE  functionRegistry'[c] = functionRegistry[c]
      BY <3>1, <3>2, <3>6 DEF Removal, FactoryTypeOK, Contexts
    <3> QED BY <1>2, <3>3, <3>4, <3>5, <3>6, FactorySteps, StepCases
  <2>2. StaticsKept'
    <3>1. StaticsKept
      BY <1>2 DEF StaticsInv
    <3> QED BY <2>1, <3>1 DEF StaticsKept, Found
  <2>3. ASSUME Up', NEW t \in ServedTopics
        PROVE  Promised(t)'
    <3>1. CASE Up
      <4>1. \A m \in Range(toBroker) : m.kind = "unsubscribe" => t \notin m.topics
        <5>1. \A m \in Range(toBroker) : m \in Messages
          BY <1>2, RangeIndexed DEF StreamInv
        <5> QED BY <5>1, MessageKinds, StaticsNotDropped
      <4>2. Promised(t)
        BY <1>2, <3>1 DEF StaticsInv
      <4> QED BY <1>2, <2>3, <3>1, <4>1, <4>2, PromiseKept
    <3>2. CASE ~Up
      <4>1. Send(Greeting) /\ wire /\ OnConnack
        BY <1>2, <2>3, <3>2, UpSteps
      <4>2. Greeting \in Seq(Orders) /\ Subscribe(StaticTopics) \in Range(Greeting)
        BY GreetingSent
      <4>3. link # "down"
        BY <4>1 DEF OnConnack
      <4>4. Subscribe(StaticTopics) \in Range(toBroker)'
        BY <1>2, <4>1, <4>2, <4>3, OrdersSent
      <4>5. t \in StaticTopics
        <5>1. PICK c \in Classes : \E f \in StaticFns[c] \cup Lifecycle : t = <<c, "__static__", Base[f]>>
          BY DEF ServedTopics
        <5>2. PICK f \in StaticFns[c] \cup Lifecycle : t = <<c, "__static__", Base[f]>>
          BY <5>1
        <5>3. f \in Fns /\ c \in Classes \ Ids
          BY DEF Fns, StaticsApart
        <5>4. f \in GetStaticFunctions(c)
          BY <1>2, <5>3 DEF StaticsInv, StaticsKept, Found, GetStaticFunctions
        <5> QED BY <5>2, <5>4 DEF StaticTopics
      <4>6. Subscribe(StaticTopics).kind = "subscribe" /\ Subscribe(StaticTopics).topics = StaticTopics
        BY DEF Subscribe
      <4> DEFINE s == Subscribe(StaticTopics)
      <4>7. s \in Range(toBroker)' /\ s.kind = "subscribe" /\ t \in s.topics
        BY <4>4, <4>5, <4>6
      <4> QED BY <4>7 DEF Promised
    <3> QED BY <3>1, <3>2
  <2> QED BY <2>2, <2>3 DEF StaticsInv
<1>3. StaticsInv => StaticsServed
  <2> SUFFICES ASSUME StaticsInv, Settled, NEW c \in Classes, NEW f \in StaticFns[c] \cup Lifecycle
               PROVE  <<c, "__static__", Base[f]>> \in subs
    BY DEF StaticsServed
  <2>1. Up /\ Range(toBroker) = {}
    BY RangeEmpty DEF Settled, Attached, Up
  <2>2. <<c, "__static__", Base[f]>> \in ServedTopics
    BY DEF ServedTopics
  <2> QED BY <2>1, <2>2 DEF StaticsInv, Promised
<1>4. QED
  BY <1>1, <1>2, <1>3, OwnerInvHolds, LinkInvHolds, StreamInvHolds, PTL DEF Spec

-----------------------------------------------------------------------------
(* The clients' ends.                                                        *)

\* As long as no connection broke the agent is connected from its first task on.
FirstLinkInv ==
  /\ breaks \in Nat
  /\ phase = "starting" => tasks = <<>> /\ tracked = {}
  /\ phase = "running" /\ breaks = 0 =>
       /\ link = "down" \/ wire
       /\ link # "up" => tasks = <<>> /\ tracked = {}

LEMMA FirstLinkStep ==
  ASSUME OwnerInv, LinkInv, StreamInv, FirstLinkInv, [Next]_vars
  PROVE  FirstLinkInv'
<1> USE DEF FirstLinkInv
<1>1. CASE Serve(ConnectSucceeds) \/ TimerFires(ConnectSucceeds)
  <2>1. /\ phase' = "running" /\ link' = "open" /\ wire' = TRUE /\ UNCHANGED <<breaks, tasks, tracked>>
        /\ phase = "starting" \/ (phase = "running" /\ timer)
    BY <1>1 DEF Serve, TimerFires, ConnectSucceeds
  <2> QED BY <2>1 DEF LinkInv, NeverStranded
<1>2. CASE Serve(ConnectFails) \/ TimerFires(ConnectFails)
  <2>1. /\ phase' = "running" /\ UNCHANGED <<breaks, tasks, tracked, link, wire>>
        /\ phase = "starting" \/ (phase = "running" /\ timer)
    BY <1>2 DEF Serve, TimerFires, ConnectFails, netVars
  <2> QED BY <2>1 DEF LinkInv, NeverStranded
<1>3. CASE ConnectionLost
  BY <1>3 DEF ConnectionLost
<1>4. CASE OnConnack
  BY <1>4 DEF OnConnack
<1>5. CASE OnCall \/ OnClientOffline
  BY <1>5 DEF OnCall, OnClientOffline, Receives, agentVars
<1>6. ASSUME NEW r \in NextTask, Run(r)
      PROVE  FirstLinkInv'
  <2>1. /\ phase = "running" /\ tasks # <<>> /\ phase' # "starting"
        /\ UNCHANGED <<link, wire, breaks>>
    BY <1>6, RunKeeps
  <2> QED BY <2>1
<1>7. CASE End
  BY <1>7 DEF End
<1>8. CASE WireBreaks \/ BrokerRefuses
  <2>1. breaks' = breaks + 1 /\ UNCHANGED <<phase, tasks, tracked>>
    BY <1>8 DEF WireBreaks, BrokerRefuses, agentVars
  <2> QED BY <2>1
<1>9. CASE ProcessExits
  BY <1>9 DEF ProcessExits, agentVars
<1>10. CASE \/ BrokerNoticesLoss \/ BrokerAccepts \/ BrokerHandles
            \/ \E k \in Clients, c \in Classes, f \in Fns : ClientCalls(k, c, f)
            \/ \E k \in Clients : ClientLeaves(k)
            \/ UNCHANGED vars
  <2>1. UNCHANGED <<breaks, phase, link, wire, tasks, tracked>>
    BY <1>10 DEF BrokerNoticesLoss, BrokerAccepts, BrokerHandles, ClientCalls, ClientLeaves, vars,
       agentVars, netVars
  <2> QED BY <2>1
<1> QED
  BY <1>1, <1>2, <1>3, <1>4, <1>5, <1>6, <1>7, <1>8, <1>9, <1>10
  DEF Next, AgentNext, EnvironmentNext, Run

\* A registration is never emptied, so that the agent gives up no client's end,
\* and on the first connection each of them is subscribed to.
WatchInv ==
  /\ FirstLinkInv
  /\ \A k \in tracked : isolatedInstances[k] # {}
  /\ \A m \in Range(toBroker) : m.kind = "unsubscribe" =>
       \A k \in Clients : ClientTopic(k) \notin m.topics
  /\ phase = "running" /\ breaks = 0 => \A k \in tracked : Promised(ClientTopic(k))

LEMMA StaticIsNoClient ==
  ASSUME NEW c, NEW k
  PROVE  ClientTopic(k) \notin InstanceTopics(c, "__static__")
<1> SUFFICES ASSUME NEW f \in MemberFns[c], ClientTopic(k) = <<c, "__static__", Base[f]>>
             PROVE  FALSE
  BY DEF InstanceTopics
<1>1. Len(<<c, "__static__", Base[f]>>) = 3 /\ Len(<<k, "__clientInfo__">>) = 2
  OBVIOUS
<1> QED BY <1>1 DEF ClientTopic

\* What a registration does to the two maps of clients.
LEMMA Registrations ==
  ASSUME OwnerInv, NEW r \in NextTask, Run(r)
  PROVE  \/ /\ RunCreateIsolated(r) /\ r.client \in Clients /\ tracked' = tracked \cup {r.client}
            /\ \A k \in tracked' : k \in tracked => isolatedInstances[k] \subseteq isolatedInstances'[k]
            /\ isolatedInstances'[r.client] # {}
         \/ ~RunCreateIsolated(r) /\ UNCHANGED <<tracked, isolatedInstances>>
<1>1. r.client \in Clients /\ r.class \in Classes /\ tracked \subseteq Clients
      /\ isolatedInstances \in [Clients -> SUBSET (Ids \X Classes)]
  BY TaskIsCall DEF OwnerInv
<1>2. CASE RunCreateIsolated(r)
  <2>1. /\ isolatedInstances' =
             [isolatedInstances EXCEPT ![r.client] = @ \cup {<<r.arg, r.class>>}]
        /\ tracked' = tracked \cup {r.client}
    BY <1>2 DEF RunCreateIsolated, RegisterIsolated
  <2>2. \A k \in Clients : isolatedInstances[k] \subseteq isolatedInstances'[k]
    BY <1>1, <2>1
  <2>3. <<r.arg, r.class>> \in isolatedInstances'[r.client]
    BY <1>1, <2>1
  <2> QED BY <1>1, <1>2, <2>1, <2>2, <2>3
<1>3. CASE RunDelete(r)
  <2>1. /\ isolatedInstances' = [isolatedInstances EXCEPT
             ![r.client] = isolatedInstances[r.client] \ {<<"__static__", r.class>>}]
        /\ UNCHANGED tracked /\ r.fn = Delete
    BY <1>3 DEF RunDelete
  <2>2. isolatedInstances' = isolatedInstances
    BY <1>1, <2>1, AgentAssumption
  <2>3. ~RunCreateIsolated(r)
    BY <2>1, FactoryAssumption DEF RunCreateIsolated
  <2> QED BY <2>1, <2>2, <2>3
<1>4. CASE RunCreateShared(r) \/ RunCreateFails(r) \/ RunFunction(r)
  <2>1. UNCHANGED <<tracked, isolatedInstances>>
    BY <1>4 DEF RunCreateShared, RunCreateFails, RunFunction
  <2> QED BY <1>2, <2>1
<1> QED BY <1>2, <1>3, <1>4 DEF Run

\* As the key it looks up is never a client's, the report of a client's end has
\* no effect.
LEMMA OfflineIsIgnored ==
  ASSUME KeysMissClients, OwnerInv, OnClientOffline
  PROVE  UNCHANGED toBroker /\ UNCHANGED factoryVars
<1>1. toAgent # <<>> /\ Head(toAgent).kind = "clientOffline"
  BY DEF OnClientOffline, Receives
<1>2. Head(toAgent) \in RemoteCalls \cup Notices
  BY <1>1 DEF OwnerInv
<1>3. Head(toAgent).client \in Clients
  BY <1>1, <1>2 DEF RemoteCalls, Notices, Connack, ClientOffline
<1>4. ClientKey(Head(toAgent).client) \notin tracked
  BY <1>3 DEF KeysMissClients, OwnerInv
<1> QED BY <1>4 DEF OnClientOffline

\* No client's end is given up.
LEMMA EndsNotDropped ==
  ASSUME KeysMissClients, OwnerInv, LinkInv, StreamInv, WatchInv, [Next]_vars
  PROVE  \A m \in Range(toBroker') : m.kind = "unsubscribe" =>
           \A k \in Clients : ClientTopic(k) \notin m.topics
<1> DEFINE Harmless(m) == m.kind = "unsubscribe" => \A k \in Clients : ClientTopic(k) \notin m.topics
<1>1. \A m \in Range(toBroker) : Harmless(m)
  BY DEF WatchInv
<1>2. CASE toBroker' = toBroker \/ Range(toBroker') \subseteq Range(toBroker)
  BY <1>1, <1>2
<1>3. CASE toBroker' \in {<<>>, <<Connect>>}
  <2>1. Range(toBroker') \subseteq {Connect}
    BY <1>3, RangeEmpty, RangeSingle
  <2> QED BY <2>1 DEF Connect
<1>4. ASSUME NEW ms \in Seq(Orders \cup Farewells), Send(ms), \A m \in Range(ms) : Harmless(m)
      PROVE  \A m \in Range(toBroker') : Harmless(m)
  <2> HIDE DEF Harmless
  <2>1. CASE toBroker' = toBroker \o ms
    <3>1. toBroker \in Seq(Messages) /\ ms \in Seq(Messages)
      <4>1. Orders \cup Farewells \subseteq Messages
        BY DEF Messages
      <4> HIDE DEF Messages, Orders, Farewells
      <4> QED BY <4>1 DEF StreamInv
    <3>2. Range(toBroker \o ms) = Range(toBroker) \cup Range(ms)
      BY <3>1, Joined
    <3> QED BY <1>1, <1>4, <2>1, <3>2
  <2>2. CASE toBroker' = toBroker
    BY <1>1, <2>2
  <2> QED BY <1>4, <2>1, <2>2 DEF Send
<1>5. CASE OnClientOffline
  BY <1>2, <1>5, OfflineIsIgnored
<1>6. CASE OnConnack
  <2>1. Send(Greeting) \/ UNCHANGED toBroker
    BY <1>6, ConnackSends
  <2>2. Greeting \in Seq(Orders \cup Farewells)
    <3>1. Greeting \in Seq(Orders)
      BY GreetingSent
    <3> QED BY <3>1
  <2>3. \A m \in Range(Greeting) : m.kind # "unsubscribe"
    <3>1. \A m \in Range(ClassInfos) : m.kind = "classInfo"
      <4>1. Range(ClassInfos) = {ClassInfos[n] : n \in 1..Len(ClassInfos)}
        BY ClassInfosSent, RangeIndexed
      <4> QED BY <4>1, ClassInfosSent DEF ClassInfo
    <3> QED BY <3>1, GreetingSent DEF AgentInfo, Subscribe
  <2> QED BY <1>2, <1>4, <2>1, <2>2, <2>3
<1>7. ASSUME NEW r \in NextTask, Run(r)
      PROVE  \A m \in Range(toBroker') : Harmless(m)
  <2>1. \E ms \in Seq(Orders) : Send(ms) /\ \A m \in Range(ms) : Harmless(m)
    <3>1. CASE RunCreateIsolated(r)
      BY <3>1, IsolatedSends
    <3>2. CASE RunCreateShared(r)
      BY <3>2, SharedSends
    <3>3. CASE RunDelete(r)
      <4>1. r.client \in tracked => isolatedInstances[r.client] # {}
        BY DEF WatchInv
      <4>2. PICK ms \in Seq(Orders) :
              /\ Send(ms)
              /\ \A m \in Range(ms) : m.kind = "unsubscribe" =>
                   m.topics = InstanceTopics(r.class, "__static__")
        BY <3>3, <4>1, DeleteSends
      <4> QED BY <4>2, StaticIsNoClient
    <3>4. CASE RunFunction(r)
      BY <3>4, FunctionSends
    <3>5. CASE RunCreateFails(r)
      BY <3>5, NothingSent DEF RunCreateFails
    <3> QED BY <1>7, <3>1, <3>2, <3>3, <3>4, <3>5 DEF Run
  <2>2. PICK ms \in Seq(Orders) : Send(ms) /\ \A m \in Range(ms) : Harmless(m)
    BY <2>1
  <2>3. ms \in Seq(Orders \cup Farewells)
    OBVIOUS
  <2> QED BY <1>4, <2>2, <2>3
<1>8. CASE End
  <2>1. PICK ms \in Seq(Farewells) : Send(ms)
    BY <1>8, EndSends
  <2>2. Range(ms) \subseteq Farewells /\ ms \in Seq(Orders \cup Farewells)
    BY RangeIndexed
  <2>3. \A m \in Farewells : m.kind # "unsubscribe"
    BY DEF Farewells, AgentInfo, Disconnect
  <2> QED BY <1>4, <2>1, <2>2, <2>3
<1>9. CASE BrokerAccepts \/ BrokerHandles
  <2>1. toBroker # <<>> /\ toBroker' = Tail(toBroker) /\ toBroker \in Seq(Messages)
    BY <1>9 DEF BrokerAccepts, BrokerHandles, StreamInv
  <2>2. Range(toBroker') \subseteq Range(toBroker)
    BY <2>1, Taken
  <2> QED BY <1>2, <2>2
<1>10. CASE \/ Serve(ConnectSucceeds) \/ TimerFires(ConnectSucceeds)
            \/ WireBreaks \/ ProcessExits \/ BrokerRefuses
  BY <1>3, <1>10 DEF Serve, TimerFires, ConnectSucceeds, WireBreaks, ProcessExits, BrokerRefuses
<1>11. CASE \/ Serve(ConnectFails) \/ TimerFires(ConnectFails) \/ ConnectionLost \/ OnCall
            \/ BrokerNoticesLoss
            \/ \E k \in Clients, c \in Classes, f \in Fns : ClientCalls(k, c, f)
            \/ \E k \in Clients : ClientLeaves(k)
            \/ UNCHANGED vars
  <2>1. UNCHANGED toBroker
    BY <1>11 DEF Serve, TimerFires, ConnectFails, ConnectionLost, OnCall, BrokerNoticesLoss,
       ClientCalls, ClientLeaves, vars, netVars
  <2> QED BY <1>2, <2>1
<1> QED
  BY <1>5, <1>6, <1>7, <1>8, <1>9, <1>10, <1>11 DEF Next, AgentNext, EnvironmentNext, Run

LEMMA BreaksStep ==
  ASSUME OwnerInv, [Next]_vars
  PROVE  breaks' \in {breaks, breaks + 1}
<1>1. ASSUME NEW r \in NextTask, Run(r)
      PROVE  breaks' = breaks
  BY <1>1, RunKeeps
<1>2. CASE \/ Serve(ConnectSucceeds) \/ Serve(ConnectFails)
           \/ TimerFires(ConnectSucceeds) \/ TimerFires(ConnectFails)
           \/ ConnectionLost \/ OnConnack \/ OnCall \/ OnClientOffline \/ End
  BY <1>2 DEF Serve, TimerFires, ConnectSucceeds, ConnectFails, ConnectionLost, OnConnack, OnCall,
     OnClientOffline, End
<1>3. CASE EnvironmentNext
  BY <1>3 DEF EnvironmentNext, WireBreaks, ProcessExits, BrokerNoticesLoss, BrokerAccepts,
     BrokerRefuses, BrokerHandles, ClientCalls, ClientLeaves
<1>4. CASE UNCHANGED vars
  BY <1>4 DEF vars
<1> QED BY <1>1, <1>2, <1>3, <1>4 DEF Next, AgentNext, Run

LEMMA TrackedSteps ==
  ASSUME OwnerInv, [Next]_vars
  PROVE  \/ UNCHANGED <<tracked, isolatedInstances>>
         \/ \E r \in NextTask : Run(r)
<1>1. CASE \/ Serve(ConnectSucceeds) \/ Serve(ConnectFails)
           \/ TimerFires(ConnectSucceeds) \/ TimerFires(ConnectFails)
           \/ ConnectionLost \/ OnConnack \/ OnCall \/ OnClientOffline \/ End
  BY <1>1 DEF Serve, TimerFires, ConnectionLost, OnConnack, OnCall, OnClientOffline, End, agentVars
<1>2. CASE EnvironmentNext
  BY <1>2, EnvironmentKeepsAgent DEF agentVars
<1>3. CASE UNCHANGED vars
  BY <1>3 DEF vars, agentVars
<1> QED BY <1>1, <1>2, <1>3 DEF Next, AgentNext, Run

\* Until its first connection breaks the agent is told of the end of every client
\* it holds instances for: none of its messages gives that up again.
THEOREM OwnersWatchedHolds ==
  ASSUME KeysMissClients
  PROVE  Spec => []OwnersWatched
<1>1. Init => WatchInv
  <2> SUFFICES ASSUME Init PROVE WatchInv
    OBVIOUS
  <2>1. /\ phase = "starting" /\ link = "down" /\ breaks = 0 /\ tasks = <<>> /\ tracked = {}
        /\ toBroker = <<>>
    BY DEF Init
  <2>2. Range(toBroker) = {}
    BY <2>1, RangeEmpty
  <2> QED BY <2>1, <2>2 DEF WatchInv, FirstLinkInv
<1>2. ASSUME OwnerInv, LinkInv, StreamInv, WatchInv, [Next]_vars, OwnerInv', StreamInv'
      PROVE  WatchInv'
  <2>1. FirstLinkInv'
    BY <1>2, FirstLinkStep DEF WatchInv
  <2>2. \A k \in tracked' : isolatedInstances'[k] # {}
    <3>1. CASE UNCHANGED <<tracked, isolatedInstances>>
      BY <1>2, <3>1 DEF WatchInv
    <3>2. ASSUME NEW r \in NextTask, Run(r)
          PROVE  \A k \in tracked' : isolatedInstances'[k] # {}
      <4>1. CASE UNCHANGED <<tracked, isolatedInstances>>
        BY <3>1, <4>1
      <4>2. CASE /\ tracked' = tracked \cup {r.client}
                 /\ \A k \in tracked' : k \in tracked => isolatedInstances[k] \subseteq isolatedInstances'[k]
                 /\ isolatedInstances'[r.client] # {}
        <5>1. \A k \in tracked : isolatedInstances[k] # {}
          BY <1>2 DEF WatchInv
        <5> QED BY <4>2, <5>1
      <4> QED BY <1>2, <3>2, <4>1, <4>2, Registrations
    <3> QED BY <1>2, <3>1, <3>2, TrackedSteps
  <2>3. \A m \in Range(toBroker') : m.kind = "unsubscribe" =>
          \A k \in Clients : ClientTopic(k) \notin m.topics
    BY <1>2, EndsNotDropped
  <2>4. ASSUME phase' = "running", breaks' = 0, NEW k \in tracked'
        PROVE  Promised(ClientTopic(k))'
    <3>1. Up' /\ k \in Clients
      <4>1. link' = "up" /\ wire'
        BY <2>1, <2>4 DEF FirstLinkInv
      <4> QED BY <1>2, <2>4, <4>1 DEF Up, OwnerInv
    <3>2. breaks = 0
      <4>1. breaks' \in {breaks, breaks + 1}
        BY <1>2, BreaksStep
      <4>2. breaks \in Nat
        BY <1>2 DEF WatchInv, FirstLinkInv
      <4> QED BY <2>4, <4>1, <4>2
    <3>3. CASE ~Up
      <4>1. OnConnack
        BY <1>2, <3>1, <3>3, UpSteps
      <4>2. phase = "running" /\ link = "open" /\ tracked' = tracked
        BY <4>1 DEF OnConnack
      <4>3. tracked = {}
        BY <1>2, <3>2, <4>2 DEF WatchInv, FirstLinkInv
      <4> QED BY <2>4, <4>2, <4>3
    <3>4. CASE Up
      <4>1. ASSUME k \in tracked
            PROVE  Promised(ClientTopic(k))'
        <5>1. Promised(ClientTopic(k))
          BY <1>2, <3>2, <3>4, <4>1 DEF WatchInv, Up
        <5>2. \A m \in Range(toBroker) : m.kind = "unsubscribe" => ClientTopic(k) \notin m.topics
          BY <1>2, <3>1 DEF WatchInv
        <5> QED BY <1>2, <3>1, <3>4, <5>1, <5>2, PromiseKept
      <4>2. ASSUME k \notin tracked
            PROVE  Promised(ClientTopic(k))'
        <5>1. PICK r \in NextTask : Run(r)
          BY <1>2, <2>4, <4>2, TrackedSteps
        <5>2. RunCreateIsolated(r) /\ k = r.client
          BY <1>2, <2>4, <4>2, <5>1, Registrations
        <5>3. PICK ms \in Seq(Orders) : Send(ms) /\ Subscribe({ClientTopic(k)}) \in Range(ms)
          BY <1>2, <4>2, <5>2, IsolatedSends
        <5>4. Range(ms) \subseteq Range(toBroker')
          <6>1. wire /\ link # "down"
            BY <3>4 DEF Up
          <6> QED BY <1>2, <5>3, <6>1, OrdersSent
        <5>5. Subscribe({ClientTopic(k)}).kind = "subscribe" /\ Subscribe({ClientTopic(k)}).topics = {ClientTopic(k)}
          BY DEF Subscribe
        <5> DEFINE s == Subscribe({ClientTopic(k)})
        <5>6. s \in Range(toBroker') /\ s.kind = "subscribe" /\ ClientTopic(k) \in s.topics
          BY <5>3, <5>4, <5>5
        <5> HIDE DEF s
        <5> QED BY <5>6 DEF Promised
      <4> QED BY <4>1, <4>2
    <3> QED BY <3>3, <3>4
  <2> QED BY <2>1, <2>2, <2>3, <2>4 DEF WatchInv
<1>3. WatchInv => OwnersWatched
  <2> SUFFICES ASSUME WatchInv, Settled, breaks = 0, NEW k \in tracked
               PROVE  ClientTopic(k) \in subs
    BY DEF OwnersWatched
  <2>1. phase = "running" /\ Range(toBroker) = {}
    BY RangeEmpty DEF Settled
  <2> QED BY <2>1 DEF WatchInv, Promised
<1>4. QED
  BY <1>1, <1>2, <1>3, OwnerInvHolds, LinkInvHolds, StreamInvHolds, PTL DEF Spec

-----------------------------------------------------------------------------
(* Announcements.                                                            *)

\* Of the announcements of class c on a stream the last one tells the instances
\* "is".
Announces(m, c) == m.kind = "classInfo" /\ m.class = c
Silent(q, c) == \A m \in Range(q) : ~Announces(m, c)
Tells(q, c, is) ==
  \A n \in 1..Len(q) :
    Announces(q[n], c) /\ (\A m \in 1..Len(q) : m > n => ~Announces(q[m], c)) => q[n].instances = is

LEMMA SilenceTells ==
  ASSUME NEW S, NEW x \in Seq(S), NEW y \in Seq(S), NEW c, NEW is, Silent(y, c)
  PROVE  /\ Tells(x, c, is) => Tells(x \o y, c, is)
         /\ Silent(x \o y, c) => Silent(x, c)
<1> DEFINE z == x \o y
<1>1. /\ Len(z) = Len(x) + Len(y) /\ Len(x) \in Nat /\ Len(y) \in Nat
      /\ \A n \in 1..Len(x) : n \in 1..Len(z) /\ z[n] = x[n]
      /\ \A n \in 1..Len(y) : Len(x) + n \in 1..Len(z) /\ z[Len(x) + n] = y[n]
      /\ \A n \in 1..Len(z) : n \in 1..Len(x) \/ n - Len(x) \in 1..Len(y)
      /\ Range(z) = Range(x) \cup Range(y)
  BY Joined
<1> HIDE DEF z
<1>2. \A n \in 1..Len(z) : n \in 1..Len(x) \/ ~Announces(z[n], c)
  <2> TAKE n \in 1..Len(z)
  <2>1. CASE n - Len(x) \in 1..Len(y)
    <3>1. n = Len(x) + (n - Len(x))
      BY <1>1
    <3>2. z[n] = y[n - Len(x)]
      BY <1>1, <2>1, <3>1
    <3>3. y[n - Len(x)] \in Range(y)
      BY <2>1, RangeIndexed
    <3> QED BY <3>2, <3>3 DEF Silent
  <2> QED BY <1>1, <2>1
<1>3. Tells(x, c, is) => Tells(z, c, is)
  <2> SUFFICES ASSUME Tells(x, c, is), NEW n \in 1..Len(z), Announces(z[n], c),
                      \A m \in 1..Len(z) : m > n => ~Announces(z[m], c)
               PROVE  z[n].instances = is
    BY DEF Tells
  <2>1. n \in 1..Len(x) /\ z[n] = x[n]
    BY <1>1, <1>2
  <2>2. \A m \in 1..Len(x) : m > n => ~Announces(x[m], c)
    BY <1>1
  <2> QED BY <2>1, <2>2 DEF Tells
<1> QED BY <1>1, <1>3 DEF Silent, z

LEMMA NewsTell ==
  ASSUME NEW S, NEW x \in Seq(S), NEW y \in Seq(S), NEW c, NEW is,
         \A m \in Range(y) : Announces(m, c) => m.instances = is,
         NEW a \in Range(y), Announces(a, c)
  PROVE  Tells(x \o y, c, is) /\ ~Silent(x \o y, c)
<1> DEFINE z == x \o y
<1>1. /\ Len(z) = Len(x) + Len(y) /\ Len(x) \in Nat /\ Len(y) \in Nat
      /\ \A n \in 1..Len(x) : n \in 1..Len(z) /\ z[n] = x[n]
      /\ \A n \in 1..Len(y) : Len(x) + n \in 1..Len(z) /\ z[Len(x) + n] = y[n]
      /\ \A n \in 1..Len(z) : n \in 1..Len(x) \/ n - Len(x) \in 1..Len(y)
      /\ Range(z) = Range(x) \cup Range(y)
  BY Joined
<1> HIDE DEF z
<1>2. PICK p \in 1..Len(y) : y[p] = a
  BY RangeIndexed
<1>3. Len(x) + p \in 1..Len(z) /\ Announces(z[Len(x) + p], c)
  BY <1>1, <1>2
<1>4. ASSUME NEW n \in 1..Len(z), Announces(z[n], c),
             \A m \in 1..Len(z) : m > n => ~Announces(z[m], c)
      PROVE  z[n].instances = is
  <2>1. ~(Len(x) + p > n)
    BY <1>3, <1>4
  <2>2. n - Len(x) \in 1..Len(y) /\ Len(x) + (n - Len(x)) = n
    BY <1>1, <2>1
  <2>3. z[n] = y[n - Len(x)] /\ y[n - Len(x)] \in Range(y)
    BY <1>1, <2>2, RangeIndexed
  <2> QED BY <1>4, <2>3
<1>5. ~Silent(z, c)
  BY <1>1 DEF Silent
<1> QED BY <1>4, <1>5 DEF Tells, z

LEMMA TellsOn ==
  ASSUME NEW S, NEW q \in Seq(S), q # <<>>, NEW c, NEW is, Tells(q, c, is)
  PROVE  /\ Tells(Tail(q), c, is)
         /\ Silent(Tail(q), c) /\ Announces(Head(q), c) => Head(q).instances = is
         /\ Silent(Tail(q), c) /\ ~Announces(Head(q), c) => Silent(q, c)
<1> DEFINE t == Tail(q)
<1>1. /\ t \in Seq(S) /\ Len(t) = Len(q) - 1 /\ Len(q) \in Nat /\ Len(q) > 0 /\ Head(q) = q[1]
      /\ \A n \in 1..Len(t) : n + 1 \in 1..Len(q) /\ t[n] = q[n + 1]
      /\ \A n \in 1..Len(q) : n # 1 => n - 1 \in 1..Len(t) /\ t[n - 1] = q[n]
      /\ Range(q) = {Head(q)} \cup Range(t)
  BY Taken
<1> HIDE DEF t
<1>2. ASSUME NEW n \in 1..Len(t), Announces(t[n], c),
             \A m \in 1..Len(t) : m > n => ~Announces(t[m], c)
      PROVE  t[n].instances = is
  <2>1. n + 1 \in 1..Len(q) /\ t[n] = q[n + 1]
    BY <1>1
  <2>2. \A m \in 1..Len(q) : m > n + 1 => ~Announces(q[m], c)
    <3> SUFFICES ASSUME NEW m \in 1..Len(q), m > n + 1
                 PROVE  ~Announces(q[m], c)
      OBVIOUS
    <3>1. m # 1 /\ m - 1 > n
      BY <1>1
    <3> QED BY <1>1, <1>2, <3>1
  <2> QED BY <1>2, <2>1, <2>2 DEF Tells
<1>3. ASSUME Silent(t, c), Announces(Head(q), c)
      PROVE  Head(q).instances = is
  <2>1. 1 \in 1..Len(q)
    BY <1>1
  <2>2. \A m \in 1..Len(q) : m > 1 => ~Announces(q[m], c)
    <3> SUFFICES ASSUME NEW m \in 1..Len(q), m > 1
                 PROVE  ~Announces(q[m], c)
      OBVIOUS
    <3>1. m - 1 \in 1..Len(t) /\ t[m - 1] = q[m]
      BY <1>1
    <3>2. t[m - 1] \in Range(t)
      BY <1>1, <3>1, RangeIndexed
    <3> QED BY <1>3, <3>1, <3>2 DEF Silent
  <2> QED BY <1>1, <1>3, <2>1, <2>2 DEF Tells
<1>4. Silent(t, c) /\ ~Announces(Head(q), c) => Silent(q, c)
  BY <1>1 DEF Silent
<1> QED BY <1>2, <1>3, <1>4 DEF Tells, t

\* Every shared instance was created by a class clients use for its id.
SharedUses == \A i \in Ids : sharedInstances[i] # None => <<sharedInstances[i], i>> \in Uses

\* What a queued call does to the instances that are to be announced.
LEMMA InstancesRun ==
  ASSUME OneClassPerId, OwnerInv, SharedUses, NEW r \in NextTask, Run(r)
  PROVE  /\ SharedUses'
         /\ \A c \in Classes : GetInstances(c)' = GetInstances(c) \/
              (c = r.class /\ (RunCreateShared(r) \/ RunDelete(r)))
<1>1. /\ r.class \in Classes /\ (r.fn \in Lifecycle => r.arg \in Ids /\ <<r.class, r.arg>> \in Uses)
      /\ sharedInstances \in [Ids -> Classes \cup {None}]
  BY TaskIsCall DEF OwnerInv, FactoryTypeOK
<1>2. CASE UNCHANGED sharedInstances
  BY <1>2 DEF SharedUses, GetInstances
<1>3. CASE RunCreateShared(r) /\ ~UNCHANGED sharedInstances
  <2>1. r.fn = CreateShared /\ Call(r.class, r.fn, r.arg, TRUE) /\ r.fn \in Lifecycle
    BY <1>3 DEF RunCreateShared, Lifecycle
  <2>2. sharedInstances' = [sharedInstances EXCEPT ![r.arg] = IF @ = None THEN r.class ELSE @]
    BY <1>3, <2>1, FactoryAssumption DEF Call, CreateExisting, CreateNewShared, factoryVars, Lifecycle
  <2>3. \A i \in Ids : sharedInstances'[i] = IF i = r.arg /\ sharedInstances[i] = None
                                              THEN r.class ELSE sharedInstances[i]
    BY <1>1, <2>2
  <2>4. SharedUses'
    BY <1>1, <2>1, <2>3 DEF SharedUses
  <2>5. \A c \in Classes : c # r.class => GetInstances(c)' = GetInstances(c)
    BY <2>3, FactoryAssumption DEF GetInstances
  <2> QED BY <1>3, <2>4, <2>5
<1>4. CASE RunDelete(r) /\ ~UNCHANGED sharedInstances
  <2>1. r.fn = Delete /\ r.fn \in Lifecycle /\ \E ok \in BOOLEAN : Call(r.class, r.fn, r.arg, ok)
    BY <1>4 DEF RunDelete, Lifecycle
  <2>2. sharedInstances' = [sharedInstances EXCEPT ![r.arg] = None]
    BY <1>4, <2>1, FactoryAssumption DEF Call, DeleteInstance, factoryVars, Lifecycle
  <2>3. \A i \in Ids : sharedInstances'[i] = IF i = r.arg THEN None ELSE sharedInstances[i]
    BY <1>1, <2>2
  <2>4. sharedInstances[r.arg] \in {None, r.class}
    <3>1. CASE sharedInstances[r.arg] # None
      <4> DEFINE u == <<sharedInstances[r.arg], r.arg>>  v == <<r.class, r.arg>>
      <4>1. u \in Uses /\ v \in Uses /\ u[2] = v[2]
        BY <1>1, <2>1, <3>1 DEF SharedUses
      <4>2. u[1] = v[1]
        BY <4>1 DEF OneClassPerId
      <4> QED BY <4>2
    <3> QED BY <3>1
  <2>5. SharedUses'
    BY <2>3 DEF SharedUses
  <2>6. \A c \in Classes : c # r.class => GetInstances(c)' = GetInstances(c)
    BY <2>3, <2>4, FactoryAssumption DEF GetInstances
  <2> QED BY <1>4, <2>5, <2>6
<1>5. CASE RunCreateIsolated(r)
  <2>1. r.fn = CreateIsolated /\ Call(r.class, r.fn, r.arg, TRUE)
    BY <1>5 DEF RunCreateIsolated
  <2>2. UNCHANGED sharedInstances
    BY <2>1, FactoryAssumption DEF Call, CreateExisting, CreateNewIsolated, factoryVars, Lifecycle
  <2> QED BY <1>2, <2>2
<1>6. CASE RunCreateFails(r)
  <2>1. r.fn \in {CreateIsolated, CreateShared} /\ Call(r.class, r.fn, r.arg, FALSE)
    BY <1>6 DEF RunCreateFails
  <2>2. UNCHANGED sharedInstances
    BY <2>1, FactoryAssumption DEF Call, CreateThrows, factoryVars, Lifecycle
  <2> QED BY <1>2, <2>2
<1>7. CASE RunFunction(r)
  <2>1. UNCHANGED sharedInstances
    BY <1>7 DEF RunFunction, Call, factoryVars, Lifecycle
  <2> QED BY <1>2, <2>1
<1> QED BY <1>2, <1>3, <1>4, <1>5, <1>6, <1>7 DEF Run

LEMMA CallsOnly ==
  ASSUME KeysMissClients, OwnerInv, [Next]_vars
  PROVE  UNCHANGED factoryVars \/ \E r \in NextTask : Run(r)
<1>1. CASE \/ Serve(ConnectSucceeds) \/ Serve(ConnectFails)
           \/ TimerFires(ConnectSucceeds) \/ TimerFires(ConnectFails)
           \/ ConnectionLost \/ OnConnack \/ OnCall \/ End
  BY <1>1 DEF Serve, TimerFires, ConnectionLost, OnConnack, OnCall, End
<1>2. CASE EnvironmentNext
  BY <1>2, EnvironmentKeepsAgent
<1>3. CASE UNCHANGED vars
  BY <1>3 DEF vars
<1> QED BY <1>1, <1>2, <1>3, OfflineIsIgnored DEF Next, AgentNext, Run

LEMMA ClassInfoStep ==
  ASSUME StreamInv, [Next]_vars, classInfo \in [Classes -> SUBSET Ids], OwnerInv
  PROVE  classInfo' \in [Classes -> SUBSET Ids]
<1>1. CASE BrokerHandles
  <2> DEFINE m == Head(toBroker)
  <2>1. m \in Messages
    <3>1. toBroker # <<>> /\ toBroker \in Seq(Messages)
      BY <1>1 DEF BrokerHandles, StreamInv
    <3> HIDE DEF Messages
    <3> QED BY <3>1
  <2>2. \/ classInfo' = classInfo
        \/ m.kind = "classInfo" /\ classInfo' = [classInfo EXCEPT ![m.class] = m.instances]
    BY <1>1 DEF BrokerHandles, CloseSession
  <2> QED BY <2>1, <2>2, MessageKinds
<1>2. ASSUME NEW r \in NextTask, Run(r)
      PROVE  classInfo' = classInfo
  BY <1>2, RunKeeps
<1>3. CASE \/ Serve(ConnectSucceeds) \/ Serve(ConnectFails)
           \/ TimerFires(ConnectSucceeds) \/ TimerFires(ConnectFails)
           \/ ConnectionLost \/ OnConnack \/ OnCall \/ OnClientOffline \/ End
  BY <1>3 DEF Serve, TimerFires, ConnectionLost, OnConnack, OnCall, OnClientOffline, End, brokerVars
<1>4. CASE EnvironmentNext /\ ~BrokerHandles
  BY <1>4 DEF EnvironmentNext, WireBreaks, ProcessExits, BrokerNoticesLoss, BrokerAccepts,
     BrokerRefuses, ClientCalls, ClientLeaves, brokerVars
<1>5. CASE UNCHANGED vars
  BY <1>5 DEF vars, brokerVars
<1> QED BY <1>1, <1>2, <1>3, <1>4, <1>5 DEF Next, AgentNext, Run

\* While a running agent is connected, its last announcement of a class tells
\* what exists: on its way, or retained by the broker.
AnnounceInv ==
  /\ SharedUses
  /\ classInfo \in [Classes -> SUBSET Ids]
  /\ Up => agentInfo = "online" \/ \E m \in Range(toBroker) : m.kind = "agentInfo"
  /\ Up => \A c \in Classes :
       /\ Tells(toBroker, c, GetInstances(c))
       /\ Silent(toBroker, c) => classInfo[c] = GetInstances(c)

LEMMA GreetingTells ==
  ASSUME NEW c \in Classes
  PROVE  /\ \A m \in Range(Greeting) : Announces(m, c) => m.instances = GetInstances(c)
         /\ \E m \in Range(Greeting) : Announces(m, c)
         /\ \E m \in Range(Greeting) : m.kind = "agentInfo"
<1>1. Range(Greeting) = {AgentInfo("online"), Subscribe(StaticTopics)} \cup Range(ClassInfos)
  BY GreetingSent
<1>2. Range(ClassInfos) = {ClassInfos[n] : n \in 1..Len(ClassInfos)}
  BY ClassInfosSent, RangeIndexed
<1>3. /\ \A m \in Range(ClassInfos) : \E d \in Classes : m = ClassInfo(d, GetInstances(d))
      /\ ClassInfo(c, GetInstances(c)) \in Range(ClassInfos)
  BY <1>2, ClassInfosSent
<1>4. \A m \in Range(ClassInfos) : Announces(m, c) => m.instances = GetInstances(c)
  BY <1>3 DEF Announces, ClassInfo
<1>5. Announces(ClassInfo(c, GetInstances(c)), c)
  BY DEF Announces, ClassInfo
<1>6. AgentInfo("online").kind = "agentInfo" /\ Subscribe(StaticTopics).kind = "subscribe"
  BY DEF AgentInfo, Subscribe
<1> QED BY <1>1, <1>3, <1>4, <1>5, <1>6 DEF Announces

\* The announcements after a queued call.
LEMMA RunTells ==
  ASSUME OneClassPerId, OwnerInv, LinkInv, StreamInv, AnnounceInv, Up, [Next]_vars,
         NEW r \in NextTask, Run(r), NEW c \in Classes, NEW is, is = GetInstances(c)'
  PROVE  Tells(toBroker', c, is) /\ (Silent(toBroker', c) => classInfo'[c] = is)
<1>1. toBroker \in Seq(Messages) /\ Orders \subseteq Messages
  BY DEF StreamInv, Messages
<1> HIDE DEF Messages
<1>2. /\ Tells(toBroker, c, GetInstances(c)) /\ (Silent(toBroker, c) => classInfo[c] = GetInstances(c))
      /\ classInfo' = classInfo /\ wire /\ link # "down"
  BY RunKeeps DEF AnnounceInv, Up
<1>3. ASSUME NEW ms \in Seq(Orders), Send(ms), Silent(ms, c), is = GetInstances(c)
      PROVE  Tells(toBroker', c, is) /\ (Silent(toBroker', c) => classInfo'[c] = is)
  <2>1. toBroker' = toBroker \o ms /\ ms \in Seq(Messages)
    BY <1>1, <1>2, <1>3 DEF Send
  <2> QED BY <1>1, <1>2, <1>3, <2>1, SilenceTells
<1>4. ASSUME NEW ms \in Seq(Orders), Send(ms), NEW j, j = GetInstances(r.class)',
             \A m \in Range(ms) : m.kind = "classInfo" => m = ClassInfo(r.class, j),
             ClassInfo(r.class, j) \in Range(ms),
             c = r.class \/ is = GetInstances(c)
      PROVE  Tells(toBroker', c, is) /\ (Silent(toBroker', c) => classInfo'[c] = is)
  <2> DEFINE a == ClassInfo(r.class, j)
  <2>1. a.kind = "classInfo" /\ a.class = r.class /\ a.instances = j
    BY DEF ClassInfo
  <2> HIDE DEF a
  <2>2. \A m \in Range(ms) : m.kind = "classInfo" => m = a
    BY <1>4 DEF a
  <2>3. CASE c = r.class
    <3>1. toBroker' = toBroker \o ms /\ ms \in Seq(Messages)
      BY <1>1, <1>2, <1>4 DEF Send
    <3>2. a \in Range(ms) /\ Announces(a, c) /\ is = j
      BY <1>4, <2>1, <2>3 DEF a, Announces
    <3>3. \A m \in Range(ms) : Announces(m, c) => m.instances = is
      BY <2>1, <2>2, <3>2 DEF Announces
    <3>4. Tells(toBroker \o ms, c, is) /\ ~Silent(toBroker \o ms, c)
      BY <1>1, <3>1, <3>2, <3>3, NewsTell
    <3> QED BY <3>1, <3>4
  <2>4. CASE c # r.class
    <3>1. Silent(ms, c)
      BY <2>1, <2>2, <2>4 DEF Silent, Announces
    <3> QED BY <1>3, <1>4, <2>4, <3>1
  <2> QED BY <2>3, <2>4
<1>5. is = GetInstances(c) \/ (c = r.class /\ (RunCreateShared(r) \/ RunDelete(r)))
  BY InstancesRun DEF AnnounceInv
<1>6. CASE RunCreateIsolated(r)
  <2>1. PICK ms \in Seq(Orders) : Send(ms) /\ \A m \in Range(ms) : m.kind \in {"subscribe", "answer"}
    BY <1>6, IsolatedSends
  <2>2. Silent(ms, c)
    BY <2>1 DEF Silent, Announces
  <2>3. is = GetInstances(c)
    BY <1>5, <1>6, FactoryAssumption DEF RunCreateIsolated, RunCreateShared, RunDelete
  <2> QED BY <1>3, <2>1, <2>2, <2>3
<1>7. CASE RunFunction(r)
  <2>1. PICK ms \in Seq(Orders) : Send(ms) /\ \A m \in Range(ms) : m.kind = "answer"
    BY <1>7, FunctionSends
  <2>2. Silent(ms, c)
    BY <2>1 DEF Silent, Announces
  <2>3. is = GetInstances(c)
    BY <1>5, <1>7 DEF RunFunction, RunCreateShared, RunDelete, Lifecycle
  <2> QED BY <1>3, <2>1, <2>2, <2>3
<1>8. CASE RunCreateFails(r)
  <2>1. Send(<<>>) /\ <<>> \in Seq(Orders) /\ Range(<<>>) = {}
    BY <1>8, NothingSent DEF RunCreateFails
  <2>2. Silent(<<>>, c)
    BY <2>1 DEF Silent
  <2>3. GetInstances(c)' = GetInstances(c)
    <3>1. r.fn \in {CreateIsolated, CreateShared} /\ Call(r.class, r.fn, r.arg, FALSE)
      BY <1>8 DEF RunCreateFails
    <3>2. UNCHANGED sharedInstances
      BY <3>1, FactoryAssumption DEF Call, CreateThrows, factoryVars, Lifecycle
    <3> QED BY <3>2 DEF GetInstances
  <2> QED BY <1>3, <2>1, <2>2, <2>3
<1>9. CASE RunCreateShared(r)
  <2>1. PICK j : j = GetInstances(r.class)'
    OBVIOUS
  <2>2. PICK ms \in Seq(Orders) :
          /\ Send(ms) /\ ClassInfo(r.class, j) \in Range(ms)
          /\ \A m \in Range(ms) : m.kind = "classInfo" => m = ClassInfo(r.class, j)
    BY <1>9, <2>1, SharedSends
  <2> QED BY <1>4, <1>5, <2>1, <2>2
<1>10. CASE RunDelete(r)
  <2>1. PICK j : j = GetInstances(r.class)'
    OBVIOUS
  <2>2. PICK ms \in Seq(Orders) :
          /\ Send(ms) /\ ClassInfo(r.class, j) \in Range(ms)
          /\ \A m \in Range(ms) : m.kind = "classInfo" => m = ClassInfo(r.class, j)
    BY <1>10, <2>1, DeleteSends
  <2> QED BY <1>4, <1>5, <2>1, <2>2
<1> QED BY <1>6, <1>7, <1>8, <1>9, <1>10 DEF Run

\* Service discovery converges on the truth: whenever everything sent has
\* arrived, the broker retains "online" and for each class the shared instances
\* that exist, provided no id is used with two classes (agent.hpp:232-246).
THEOREM AnnouncedIsCurrentHolds ==
  ASSUME OneClassPerId, KeysMissClients
  PROVE  Spec => []AnnouncedIsCurrent
<1>1. Init => AnnounceInv
  <2> SUFFICES ASSUME Init PROVE AnnounceInv
    OBVIOUS
  <2>1. ~Up /\ classInfo = [c \in Classes |-> {}] /\ sharedInstances = [i \in Ids |-> None]
    BY DEF Init, Up, FactoryInit
  <2> QED BY <2>1 DEF AnnounceInv, SharedUses
<1>2. ASSUME OwnerInv, LinkInv, StreamInv, AnnounceInv, [Next]_vars
      PROVE  AnnounceInv'
  <2>1. SharedUses'
    <3>1. CASE UNCHANGED factoryVars
      BY <1>2, <3>1 DEF AnnounceInv, SharedUses, factoryVars
    <3> QED BY <1>2, <3>1, CallsOnly, InstancesRun DEF AnnounceInv
  <2>2. classInfo' \in [Classes -> SUBSET Ids]
    BY <1>2, ClassInfoStep DEF AnnounceInv
  <2>3. ASSUME Up', ~Up
        PROVE  /\ \E m \in Range(toBroker') : m.kind = "agentInfo"
               /\ \A c \in Classes :
                    Tells(toBroker', c, GetInstances(c)') /\ ~Silent(toBroker', c)
    <3>1. OnConnack /\ Send(Greeting) /\ wire
      BY <1>2, <2>3, UpSteps
    <3>2. link # "down" /\ UNCHANGED factoryVars
      BY <3>1 DEF OnConnack
    <3>3. toBroker' = toBroker \o Greeting
      BY <3>1, <3>2 DEF Send
    <3>4. toBroker \in Seq(Messages) /\ Greeting \in Seq(Messages)
      <4>1. Orders \subseteq Messages
        BY DEF Messages
      <4> HIDE DEF Messages
      <4> QED BY <1>2, <4>1, GreetingSent DEF StreamInv
    <3>5. ASSUME NEW c \in Classes
          PROVE  Tells(toBroker', c, GetInstances(c)') /\ ~Silent(toBroker', c)
      <4>1. PICK a \in Range(Greeting) : Announces(a, c)
        BY GreetingTells
      <4>2. \A m \in Range(Greeting) : Announces(m, c) => m.instances = GetInstances(c)
        BY GreetingTells
      <4>3. Tells(toBroker \o Greeting, c, GetInstances(c)) /\ ~Silent(toBroker \o Greeting, c)
        BY <3>4, <4>1, <4>2, NewsTell
      <4>4. GetInstances(c)' = GetInstances(c)
        BY <3>2 DEF GetInstances, factoryVars
      <4> QED BY <3>3, <4>3, <4>4
    <3>6. \E m \in Range(toBroker') : m.kind = "agentInfo"
      <4>1. AgentInfo("online") \in Range(Greeting) /\ AgentInfo("online").kind = "agentInfo"
        BY GreetingSent DEF AgentInfo
      <4>2. Range(toBroker \o Greeting) = Range(toBroker) \cup Range(Greeting)
        BY <3>4, Joined
      <4> QED BY <3>3, <4>1, <4>2
    <3> QED BY <3>5, <3>6
  <2>4. ASSUME Up', Up
        PROVE  agentInfo' = "online" \/ \E m \in Range(toBroker') : m.kind = "agentInfo"
    <3>1. agentInfo = "online" \/ \E m \in Range(toBroker) : m.kind = "agentInfo"
      BY <1>2, <2>4 DEF AnnounceInv
    <3>2. CASE BrokerHandles
      <4> DEFINE m == Head(toBroker)
      <4>1. /\ Range(toBroker) = {m} \cup Range(toBroker')
            /\ m.kind = "agentInfo" => agentInfo' = "online"
            /\ m.kind # "agentInfo" => agentInfo' = agentInfo
        BY <1>2, <2>4, <3>2, HandledMessages DEF Up
      <4> HIDE DEF m
      <4> QED BY <3>1, <4>1
    <3>3. ASSUME NEW r \in NextTask, Run(r)
          PROVE  agentInfo' = agentInfo /\ Range(toBroker) \subseteq Range(toBroker')
      <4>1. PICK ms \in Seq(Orders) : Send(ms)
        BY <1>2, <3>3, RunSends
      <4>2. agentInfo' = agentInfo
        BY <1>2, <3>3, RunKeeps
      <4> QED BY <1>2, <4>1, <4>2, OrdersSent
    <3>4. CASE UNCHANGED <<toBroker, agentInfo>>
      BY <3>1, <3>4
    <3>5. CASE OnClientOffline
      <4>1. UNCHANGED <<toBroker, agentInfo>>
        BY <1>2, <3>5, OfflineIsIgnored DEF OnClientOffline, brokerVars
      <4> QED BY <3>4, <4>1
    <3> QED BY <1>2, <2>4, <3>1, <3>2, <3>3, <3>4, <3>5, UpSteps DEF Run
  <2>5. ASSUME Up', Up, NEW c \in Classes
        PROVE  /\ Tells(toBroker', c, GetInstances(c)')
               /\ Silent(toBroker', c) => classInfo'[c] = GetInstances(c)'
    <3>1. /\ Tells(toBroker, c, GetInstances(c))
          /\ Silent(toBroker, c) => classInfo[c] = GetInstances(c)
          /\ toBroker \in Seq(Messages) /\ classInfo \in [Classes -> SUBSET Ids]
      BY <1>2, <2>5 DEF AnnounceInv, StreamInv
    <3>2. CASE BrokerHandles
      <4> DEFINE m == Head(toBroker)
      <4>1. /\ m \in Messages /\ toBroker' = Tail(toBroker) /\ UNCHANGED factoryVars
            /\ m.kind = "classInfo" => classInfo' = [classInfo EXCEPT ![m.class] = m.instances]
            /\ m.kind # "classInfo" => classInfo' = classInfo
        BY <1>2, <2>5, <3>2, HandledMessages DEF Up
      <4>2. toBroker # <<>>
        BY <3>2 DEF BrokerHandles
      <4>3. /\ Tells(Tail(toBroker), c, GetInstances(c))
            /\ Silent(Tail(toBroker), c) /\ Announces(m, c) => m.instances = GetInstances(c)
            /\ Silent(Tail(toBroker), c) /\ ~Announces(m, c) => Silent(toBroker, c)
        <5> HIDE DEF Messages
        <5> QED BY <3>1, <4>2, TellsOn
      <4>4. GetInstances(c)' = GetInstances(c)
        BY <4>1 DEF GetInstances, factoryVars
      <4> HIDE DEF m
      <4>5. classInfo'[c] = IF Announces(m, c) THEN m.instances ELSE classInfo[c]
        BY <3>1, <4>1, MessageKinds DEF Announces
      <4> QED BY <3>1, <4>1, <4>3, <4>4, <4>5
    <3>3. ASSUME NEW r \in NextTask, Run(r)
          PROVE  /\ Tells(toBroker', c, GetInstances(c)')
                 /\ Silent(toBroker', c) => classInfo'[c] = GetInstances(c)'
      <4>1. PICK is : is = GetInstances(c)'
        OBVIOUS
      <4>2. Tells(toBroker', c, is) /\ (Silent(toBroker', c) => classInfo'[c] = is)
        BY <1>2, <2>5, <3>3, <4>1, RunTells
      <4> QED BY <4>1, <4>2
    <3>4. CASE UNCHANGED <<toBroker, classInfo>> /\ UNCHANGED factoryVars
      <4>1. GetInstances(c)' = GetInstances(c)
        BY <3>4 DEF GetInstances, factoryVars
      <4> QED BY <3>1, <3>4, <4>1
    <3>5. CASE OnClientOffline
      <4>1. UNCHANGED <<toBroker, classInfo>> /\ UNCHANGED factoryVars
        BY <1>2, <3>5, OfflineIsIgnored DEF OnClientOffline, brokerVars
      <4> QED BY <3>4, <4>1
    <3> QED BY <1>2, <2>5, <3>2, <3>3, <3>4, <3>5, UpSteps DEF Run
  <2>6. Up' => agentInfo' = "online" \/ \E m \in Range(toBroker') : m.kind = "agentInfo"
    BY <2>3, <2>4
  <2>7. ASSUME Up', NEW c \in Classes
        PROVE  /\ Tells(toBroker', c, GetInstances(c)')
               /\ Silent(toBroker', c) => classInfo'[c] = GetInstances(c)'
    BY <2>3, <2>5, <2>7
  <2> QED BY <2>1, <2>2, <2>6, <2>7 DEF AnnounceInv
<1>3. AnnounceInv => AnnouncedIsCurrent
  <2> SUFFICES ASSUME AnnounceInv, Settled PROVE AnnouncedIsCurrent
    BY DEF AnnouncedIsCurrent
  <2>1. Up /\ Range(toBroker) = {}
    BY RangeEmpty DEF Settled, Attached, Up
  <2>2. \A c \in Classes : Silent(toBroker, c)
    BY <2>1 DEF Silent
  <2> QED BY <2>1, <2>2 DEF AnnounceInv, AnnouncedIsCurrent
<1>4. QED
  BY <1>1, <1>2, <1>3, OwnerInvHolds, LinkInvHolds, StreamInvHolds, PTL DEF Spec

-----------------------------------------------------------------------------
(* The agent and its factory.                                                *)

\* Every step of the agent, of the network and of the clients is one call of the
\* registry's specification or leaves the registry alone: the agent has no
\* other way to create, bind or delete an instance.
THEOREM AgentImplementsFactory ==
  ASSUME KeysMissClients
  PROVE  Spec => FactorySpec
<1>1. Init => FactoryInit
  BY DEF Init
<1>2. OwnerInv /\ [Next]_vars => [FactoryNext]_factoryVars
  BY CallsOnly, RunCalls
<1>3. QED
  BY <1>1, <1>2, OwnerInvHolds, PTL DEF Spec, FactorySpec

\* So what is proved of the registry holds in the agent: no remote call reaches
\* a deleted object, an id keeps its object and its access mode while it lives,
\* and what is announced as shared is alive.
THEOREM AgentKeepsRegistry ==
  ASSUME KeysMissClients
  PROVE  Spec => /\ [](BoundToLive /\ ContextMatchesInstance /\ SharedIsLive)
                 /\ IdentityIsStable
BY AgentImplementsFactory, BoundToLiveHolds, ContextMatchesInstanceHolds, SharedIsLiveHolds,
   IdentityIsStableHolds, PTL
=============================================================================
