---------------------------- MODULE LocalFactory ----------------------------
(***************************************************************************)
(* The registry of src/vrpc/adapter.hpp (class LocalFactory): the classes  *)
(* adapted to remote calls, the objects created through them and the       *)
(* functions that are callable on either.                                  *)
(*                                                                         *)
(* A JSON call {c, f, a} names a context c (a class or an instance id) and *)
(* a function key f that already carries the signature of the arguments.   *)
(* One map, _function_registry, holds the functions of both kinds of       *)
(* context.                                                                *)
(***************************************************************************)
EXTENDS FiniteSets

CONSTANTS
  Classes,       \* registered class names
  Ids,           \* instance ids clients may choose
  Objects,       \* heap addresses with the type they are constructed as
  ObjectClass,   \* ObjectClass[o]: the class object o is an instance of
  MemberFns,     \* MemberFns[c]: _class_function_registry[c]
  StaticFns,     \* StaticFns[c]: user static functions of class c
  CreateIsolated, CreateShared, Delete,   \* the injected lifecycle functions
  Static,        \* the binding of a static function (no object)
  Unbound,       \* no entry in _function_registry
  None           \* no entry in _instances or _shared_instances

Lifecycle == {CreateIsolated, CreateShared, Delete}
Contexts == Classes \cup Ids
Fns == Lifecycle \cup (UNION {MemberFns[c] : c \in Classes})
                 \cup (UNION {StaticFns[c] : c \in Classes})
Bindings == Objects \cup {Static, Unbound}

ASSUME FactoryAssumption ==
  /\ ObjectClass \in [Objects -> Classes]
  /\ \A c \in Classes : MemberFns[c] \cap (Lifecycle \cup StaticFns[c]) = {}
  /\ \A c \in Classes : StaticFns[c] \cap Lifecycle = {}
  /\ CreateIsolated # CreateShared /\ CreateIsolated # Delete /\ CreateShared # Delete
  /\ Static \notin Objects /\ Unbound \notin Objects /\ None \notin Objects
  /\ Static # Unbound
  /\ None \notin Classes

VARIABLES
  functionRegistry,   \* context -> function -> what it is bound to
  instances,          \* instance id -> the object kept alive
  sharedInstances     \* instance id -> class it was created as (shared only)

factoryVars == <<functionRegistry, instances, sharedInstances>>

(***************************************************************************)
(* Queries.                                                                *)
(***************************************************************************)
HasContext(x) == \E f \in Fns : functionRegistry[x][f] # Unbound
Found(x, f) == functionRegistry[x][f] # Unbound
Exists(i) == instances[i] # None

GetInstances(c) == {i \in Ids : sharedInstances[i] = c}
GetStaticFunctions(c) == {f \in Fns : functionRegistry[c][f] # Unbound}

\* Objects some shared_ptr of the registry keeps alive: their address is taken.
Live == {o \in Objects : \/ \E i \in Ids : instances[i] = o
                         \/ \E x \in Contexts, f \in Fns : functionRegistry[x][f] = o}
Fresh(c) == {o \in Objects \ Live : ObjectClass[o] = c}

(***************************************************************************)
(* State after static initialisation: every class context offers its       *)
(* static functions, the two constructors and the destructor.              *)
(***************************************************************************)
FactoryInit ==
  /\ functionRegistry =
       [x \in Contexts |-> [f \in Fns |->
          IF x \in Classes /\ f \in Lifecycle \cup StaticFns[x] THEN Static ELSE Unbound]]
  /\ instances = [i \in Ids |-> None]
  /\ sharedInstances = [i \in Ids |-> None]

\* Mutant: the functions are bound to the class instead of the object.
BindToClass(i, c, o) ==
  functionRegistry' = [functionRegistry EXCEPT ![i] =
                         [f \in Fns |-> IF f \in MemberFns[c] THEN c ELSE @[f]]]
\* Mutant: the functions are registered under the class.
BindUnderClass(i, c, o) ==
  functionRegistry' = [functionRegistry EXCEPT ![c] =
                         [f \in Fns |-> IF f \in MemberFns[c] THEN o ELSE @[f]]]
\* Mutant: static functions are cloned too.
BindStatics(i, c, o) ==
  functionRegistry' = [functionRegistry EXCEPT ![i] =
                         [f \in Fns |-> IF f \in MemberFns[c] \cup StaticFns[c] THEN o ELSE @[f]]]
\* The bodies of the injected functions. Each is one call from the event loop.
Bind(i, c, o) ==
  functionRegistry' = [functionRegistry EXCEPT ![i] =
                         [f \in Fns |-> IF f \in MemberFns[c] THEN o ELSE @[f]]]

\* The id is taken: whatever lives there is handed out, the arguments ignored.
CreateExisting(c, i) ==
  /\ Exists(i)
  /\ UNCHANGED factoryVars

\* "new Klass" threw before anything was stored.
CreateThrows(c, i) ==
  /\ ~Exists(i)
  /\ UNCHANGED factoryVars

CreateNewIsolated(c, i) ==
  /\ ~Exists(i)
  /\ \E o \in Fresh(c) :
       /\ Bind(i, c, o)
       /\ instances' = [instances EXCEPT ![i] = o]
  /\ UNCHANGED sharedInstances

\* Mutant: an instance that exists is replaced.
CreateSharedAnew(c, i) ==
  /\ \E o \in Fresh(c) :
       /\ Bind(i, c, o)
       /\ instances' = [instances EXCEPT ![i] = o]
  /\ sharedInstances' = [sharedInstances EXCEPT ![i] = c]
CreateNewShared(c, i) ==
  /\ ~Exists(i)
  /\ \E o \in Fresh(c) :
       /\ Bind(i, c, o)
       /\ instances' = [instances EXCEPT ![i] = o]
  \* unordered_map::insert keeps an entry that is already there
  /\ sharedInstances' = [sharedInstances EXCEPT ![i] = IF @ = None THEN c ELSE @]

\* Mutant: the functions stay registered.
DeleteKeepsFunctions(i) ==
  /\ instances' = [instances EXCEPT ![i] = None]
  /\ sharedInstances' = [sharedInstances EXCEPT ![i] = None]
  /\ UNCHANGED functionRegistry
\* Mutant: the instance stays listed as shared.
DeleteKeepsShared(i) ==
  /\ functionRegistry' = [functionRegistry EXCEPT ![i] = [f \in Fns |-> Unbound]]
  /\ instances' = [instances EXCEPT ![i] = None]
  /\ UNCHANGED sharedInstances
\* Deletion asks no questions about the class it is called on.
DeleteInstance(i) ==
  IF Exists(i)
  THEN /\ functionRegistry' = [functionRegistry EXCEPT ![i] = [f \in Fns |-> Unbound]]
       /\ instances' = [instances EXCEPT ![i] = None]
       /\ sharedInstances' = [sharedInstances EXCEPT ![i] = None]
  ELSE UNCHANGED factoryVars

(***************************************************************************)
(* LocalFactory::call: dispatch through the registry. The parameter i is   *)
(* the first argument of a lifecycle function; ok tells whether the reply  *)
(* carries a result ("r") or an error ("e").                               *)
(***************************************************************************)
Call(x, f, i, ok) ==
  \/ /\ ~Found(x, f)                       \* unknown context or function
     /\ ~ok
     /\ UNCHANGED factoryVars
  \/ /\ Found(x, f) /\ f = CreateIsolated /\ x \in Classes
     /\ IF ok THEN CreateExisting(x, i) \/ CreateNewIsolated(x, i)
              ELSE CreateThrows(x, i)
  \/ /\ Found(x, f) /\ f = CreateShared /\ x \in Classes
     /\ IF ok THEN CreateExisting(x, i) \/ CreateNewShared(x, i)
              ELSE CreateThrows(x, i)
  \/ /\ Found(x, f) /\ f = Delete /\ x \in Classes
     /\ ok
     /\ DeleteInstance(i)
  \/ /\ Found(x, f) /\ f \notin Lifecycle  \* user code, returns or throws
     /\ UNCHANGED factoryVars

FactoryNext == \E x \in Contexts, f \in Fns, i \in Ids, ok \in BOOLEAN : Call(x, f, i, ok)

FactorySpec == FactoryInit /\ [][FactoryNext]_factoryVars

-----------------------------------------------------------------------------
FactoryTypeOK ==
  /\ functionRegistry \in [Contexts -> [Fns -> Bindings]]
  /\ instances \in [Ids -> Objects \cup {None}]
  /\ sharedInstances \in [Ids -> Classes \cup {None}]

\* Whatever is callable under an instance id is bound to the object that lives
\* there now, never to one that was deleted and replaced: the functions cloned
\* and bound by a creation go with the object (adapter.hpp:969-975, 1026-1028).
BoundToLive ==
  \A i \in Ids, f \in Fns :
    functionRegistry[i][f] \in Objects => functionRegistry[i][f] = instances[i]

\* A live instance offers exactly the member functions of the class of its
\* object, and an id without an object offers nothing: _function_registry and
\* _instances never disagree (an id that is also a class name set aside).
ContextMatchesInstance ==
  \A i \in Ids \ Classes :
    \A f \in Fns :
      Found(i, f) <=> Exists(i) /\ f \in MemberFns[ObjectClass[instances[i]]]

\* What is announced as shared is alive and of the announced class
\* (_shared_instances against _instances).
SharedIsLive ==
  \A i \in Ids :
    sharedInstances[i] # None =>
      Exists(i) /\ sharedInstances[i] = ObjectClass[instances[i]]

\* No sequence of calls takes the constructors, the destructor or a static
\* function of a class away, provided no instance is named like the class.
StaticsKept ==
  \A c \in Classes \ Ids, f \in Fns :
    Found(c, f) <=> f \in Lifecycle \cup StaticFns[c]

\* While an id lives its object and its access mode (isolated or shared) are
\* fixed: a second creation with the same id, of either mode, changes nothing.
IdentityIsStable ==
  [][\A i \in Ids : Exists(i) /\ instances'[i] # None =>
        /\ instances'[i] = instances[i]
        /\ sharedInstances'[i] = sharedInstances[i]]_factoryVars
=============================================================================
