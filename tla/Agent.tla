-------------------------------- MODULE Agent --------------------------------
(***************************************************************************)
(* VrpcAgent (src/vrpc/agent.hpp): one process that offers the functions   *)
(* of a LocalFactory over an MQTT broker, with the broker and the remote   *)
(* clients as its environment.                                             *)
(*                                                                         *)
(* The agent is a single event loop. MQTT handlers only queue remote calls *)
(* (boost::asio::post); a queued call runs later, possibly on another      *)
(* connection than the one it came in on, and sends its subscriptions,     *)
(* announcements and its answer in one go. A connection is a pair of FIFO  *)
(* streams that may break at any moment, each side noticing on its own.    *)
(* Sessions are clean: the broker forgets every subscription with the      *)
(* connection, and publishes the agent's will if it was not disconnected.  *)
(***************************************************************************)
EXTENDS LocalFactory, Sequences, SequencesExt, Naturals

CONSTANTS
  Clients,       \* remote clients, by the id that is their reply topic
  Base,          \* Base[f]: function key without its signature
  MaxCalls,      \* bound: remote calls ever routed to the agent
  MaxBreaks,     \* bound: connections that break or are refused
  MayThrow,      \* whether constructors may throw
  Uses           \* <<class, instance id>> pairs clients create, call and delete

ASSUME AgentAssumption ==
  /\ IsFiniteSet(Classes)
  /\ Base \in [Fns -> STRING]
  /\ MaxCalls \in Nat /\ MaxBreaks \in Nat
  /\ MayThrow \in BOOLEAN
  /\ Uses \subseteq Classes \X Ids
  /\ "__static__" \notin Ids

(* Conditions some theorems are proved under; the code does not ensure them. *)

\* No instance is named like a class, and no static function of a class has the
\* name of one of its member functions: deleting an instance unsubscribes from
\* "<class>/__static__/<member function>" (agent.hpp:243, 525-535).
StaticsApart ==
  /\ Classes \cap Ids = {}
  /\ \A c \in Classes : \A f \in MemberFns[c], g \in StaticFns[c] \cup Lifecycle : Base[f] # Base[g]
\* No id is used with two classes.
OneClassPerId == \A u, v \in Uses : u[2] = v[2] => u[1] = v[1]

VARIABLES
  phase,      \* "starting", "running", "ended" (end() called) or "crashed"
  link,       \* "down", "open" (TCP only, CONNACK pending) or "up"
  timer,      \* the 3 s reconnect timer is pending
  tasks,      \* remote calls posted to the event loop
  isolatedInstances, \* client -> {<<instance, class>>}: _isolated_instances
  tracked,    \* the keys of that map; a key is never erased
  wire,       \* the current TCP connection is intact
  toBroker, toAgent, \* what is in flight on it
  session, subs,     \* broker: the agent's session and its subscriptions
  agentInfo, classInfo, \* broker: the retained announcements
  online,     \* clients that are connected
  calls,      \* remote calls routed so far
  breaks,     \* connections broken or refused so far
  answered,   \* calls whose answer reached the broker
  granted     \* <<class, instance>> a client was told to exist, this session

agentVars == <<phase, link, timer, tasks, isolatedInstances, tracked>>
netVars == <<wire, toBroker, toAgent>>
brokerVars == <<session, subs, agentInfo, classInfo, answered, granted>>
clientVars == <<online, calls>>
vars == <<factoryVars, agentVars, netVars, brokerVars, clientVars, breaks>>

-----------------------------------------------------------------------------
(* Topics and messages.                                                      *)

InstanceTopics(c, i) == {<<c, i, Base[f]>> : f \in MemberFns[c]}
\* Mutant: user static functions are forgotten.
LifecycleTopics == {<<c, "__static__", Base[f]>> : c \in Classes, f \in Lifecycle}
StaticTopics ==
  UNION {{<<c, "__static__", Base[f]>> : f \in GetStaticFunctions(c)} : c \in Classes}
ClientTopic(k) == <<k, "__clientInfo__">>
Topics ==
  {<<c, x, Base[f]>> : c \in Classes, x \in Ids \cup {"__static__"}, f \in Fns}
    \cup {ClientTopic(k) : k \in Clients}

Subscribe(ts) == [kind |-> "subscribe", topics |-> ts]
Unsubscribe(ts) == [kind |-> "unsubscribe", topics |-> ts]
AgentInfo(s) == [kind |-> "agentInfo", status |-> s]
ClassInfo(c, is) == [kind |-> "classInfo", class |-> c, instances |-> is]
\* Mutant: the answer does not carry the id of the call.
AnswerUnkeyed(r, gs) == [kind |-> "answer", call |-> 0, grants |-> gs]
Answer(r, gs) == [kind |-> "answer", call |-> r.call, grants |-> gs]
Connect == [kind |-> "connect"]
Disconnect == [kind |-> "disconnect"]
Connack(ok) == [kind |-> "connack", accepted |-> ok]
ClientOffline(k) == [kind |-> "clientOffline", client |-> k]

\* The client's key is cut out of "<client>/__clientInfo__" by dropping a fixed
\* number of characters; only the length of the suffix yields the client.
SuffixLength == 15
DroppedLength == 9
ClientKey(k) == IF DroppedLength = SuffixLength THEN k ELSE <<k, "/__cli">>

\* What is left of "/__clientInfo__" never makes up another client's id; one of
\* the theorems' conditions, too. An id has three levels, which is what the
\* handler expects ("tokens.size() == 4", agent.hpp:191), and such a key four.
KeysMissClients == \A k \in Clients : ClientKey(k) \notin Clients

\* A write on a connection that is gone is dropped without an error.
Send(ms) ==
  toBroker' = IF wire /\ link # "down" THEN toBroker \o ms ELSE toBroker

(* The connection is the session's: its CONNECT has been processed.          *)
Attached == session /\ wire /\ ~Contains(toBroker, Connect)

-----------------------------------------------------------------------------
Init ==
  /\ FactoryInit
  /\ phase = "starting" /\ link = "down" /\ timer = FALSE
  /\ tasks = <<>>
  /\ isolatedInstances = [k \in Clients |-> {}] /\ tracked = {}
  /\ wire = FALSE /\ toBroker = <<>> /\ toAgent = <<>>
  /\ session = FALSE /\ subs = {}
  /\ agentInfo = "none" /\ classInfo = [c \in Classes |-> {}]
  /\ online = Clients /\ calls = 0 /\ breaks = 0
  /\ answered = {} /\ granted = {}

(***************************************************************************)
(* Connecting: the first attempt of serve() and those of the timer.        *)
(***************************************************************************)
ConnectSucceeds ==
  /\ link' = "open" /\ timer' = FALSE
  /\ wire' = TRUE /\ toBroker' = <<Connect>> /\ toAgent' = <<>>
  /\ UNCHANGED breaks

\* Mutant: a failed attempt is the last one.
ConnectGivesUp ==
  /\ timer' = FALSE
  /\ UNCHANGED <<link, netVars, breaks>>
ConnectFails ==
  /\ timer' = TRUE
  /\ UNCHANGED <<link, netVars, breaks>>

Serve(connect) ==
  /\ phase = "starting"
  /\ phase' = "running"
  /\ connect
  /\ UNCHANGED <<factoryVars, tasks, isolatedInstances, tracked, brokerVars, clientVars>>

TimerFires(connect) ==
  /\ phase = "running" /\ timer
  /\ connect
  /\ UNCHANGED <<factoryVars, phase, tasks, isolatedInstances, tracked, brokerVars, clientVars>>

\* The read on the socket ends: the close or the error handler arms the timer.
ConnectionLost ==
  /\ phase = "running" /\ link # "down" /\ ~wire
  /\ link' = "down" /\ timer' = TRUE
  /\ toAgent' = <<>>
  /\ UNCHANGED <<factoryVars, phase, tasks, isolatedInstances, tracked, wire, toBroker,
                 brokerVars, clientVars, breaks>>

\* The connack handler: announce, subscribe to the static functions of every
\* class, announce every class. A refusal is ignored.
OnConnack ==
  /\ phase = "running" /\ link = "open"
  /\ toAgent # <<>> /\ Head(toAgent).kind = "connack"
  /\ toAgent' = Tail(toAgent)
  /\ link' = "up"
  /\ IF Head(toAgent).accepted
     THEN Send(<<AgentInfo("online"), Subscribe(StaticTopics)>>
                 \o [n \in 1..Cardinality(Classes) |->
                       LET c == SetToSeq(Classes)[n] IN ClassInfo(c, GetInstances(c))])
     ELSE UNCHANGED toBroker
  /\ UNCHANGED <<factoryVars, phase, timer, tasks, isolatedInstances, tracked, wire,
                 brokerVars, clientVars, breaks>>

(***************************************************************************)
(* The publish handler.                                                    *)
(***************************************************************************)
Receives(kind) ==
  /\ phase = "running" /\ link = "up"
  /\ toAgent # <<>> /\ Head(toAgent).kind = kind
  /\ toAgent' = Tail(toAgent)

OnCall ==
  /\ Receives("call")
  /\ tasks' = Append(tasks, Head(toAgent))
  /\ UNCHANGED <<factoryVars, phase, link, timer, isolatedInstances, tracked, wire, toBroker,
                 brokerVars, clientVars, breaks>>

\* Deletes the instances registered under the key, keeping the registration.
\* Class information is not published, instance topics stay subscribed.
OnClientOffline ==
  /\ Receives("clientOffline")
  /\ LET k == ClientKey(Head(toAgent).client)
         gone == {i \in Ids : \E c \in Classes :
                    <<i, c>> \in isolatedInstances[k] /\ Found(c, Delete)}
     IN IF k \in tracked
        THEN /\ functionRegistry' = [x \in Contexts |->
                  IF x \in gone THEN [f \in Fns |-> Unbound] ELSE functionRegistry[x]]
             /\ instances' = [i \in Ids |-> IF i \in gone THEN None ELSE instances[i]]
             /\ sharedInstances' = [i \in Ids |-> IF i \in gone THEN None ELSE sharedInstances[i]]
             /\ Send(<<Unsubscribe({ClientTopic(k)})>>)
        ELSE UNCHANGED <<factoryVars, toBroker>>
  /\ UNCHANGED <<agentVars, wire, brokerVars, clientVars, breaks>>

(***************************************************************************)
(* A queued call runs: the call itself, the lifetime handling for the      *)
(* three lifecycle functions, the answer.                                  *)
(***************************************************************************)
\* Mutant: only the first instance of a client is registered.
RegisterFirst(i, c, k) ==
  /\ isolatedInstances' =
       [isolatedInstances EXCEPT ![k] = IF k \in tracked THEN @ ELSE {<<i, c>>}]
  /\ tracked' = tracked \cup {k}
RegisterIsolated(i, c, k) ==
  /\ isolatedInstances' = [isolatedInstances EXCEPT ![k] = @ \cup {<<i, c>>}]
  /\ tracked' = tracked \cup {k}

\* Mutant: the client's end is not subscribed to.
TrackingNobody(k) == <<>>
TrackingOf(k) == IF k \in tracked THEN <<>> ELSE <<Subscribe({ClientTopic(k)})>>

\* The actions below run the call r at the head of the queue.
NextTask == IF phase = "running" /\ tasks # <<>> THEN {Head(tasks)} ELSE {}
Runs ==
  /\ tasks' = Tail(tasks)
  /\ UNCHANGED <<link, timer, wire, toAgent, brokerVars, clientVars, breaks>>

RunCreateIsolated(r) ==
  /\ Runs /\ r.fn = CreateIsolated
  /\ Call(r.class, r.fn, r.arg, TRUE)
  /\ RegisterIsolated(r.arg, r.class, r.client)
  /\ Send(<<Subscribe(InstanceTopics(r.class, r.arg))>> \o TrackingOf(r.client)
            \o <<Answer(r, {<<r.class, r.arg>>})>>)
  /\ UNCHANGED phase

\* Mutant: a shared instance is neither subscribed to nor announced.
RunCreateSharedQuietly(r) ==
  /\ Runs /\ r.fn = CreateShared
  /\ Call(r.class, r.fn, r.arg, TRUE)
  /\ Send(<<Answer(r, {<<r.class, r.arg>>})>>)
  /\ UNCHANGED <<phase, isolatedInstances, tracked>>
RunCreateShared(r) ==
  /\ Runs /\ r.fn = CreateShared
  /\ Call(r.class, r.fn, r.arg, TRUE)
  /\ Send(<<Subscribe(InstanceTopics(r.class, r.arg)),
            ClassInfo(r.class, GetInstances(r.class)'), Answer(r, {<<r.class, r.arg>>})>>)
  /\ UNCHANGED <<phase, isolatedInstances, tracked>>

\* The answer to a failed creation has no "r": reading it as a string throws
\* out of the event loop.
RunCreateFails(r) ==
  /\ Runs /\ r.fn \in {CreateIsolated, CreateShared}
  /\ MayThrow \/ ~Found(r.class, r.fn)
  /\ Call(r.class, r.fn, r.arg, FALSE)
  /\ phase' = "crashed"
  /\ UNCHANGED <<isolatedInstances, tracked, toBroker>>

\* The instance passed on is the one of the topic, "__static__", and not the
\* deleted one. Dropping its registration therefore never finds the pair; the
\* client's topic is given up if nothing is registered.
RunDelete(r) ==
  /\ Runs /\ r.fn = Delete
  /\ \E ok \in BOOLEAN : Call(r.class, r.fn, r.arg, ok)
  /\ LET left == isolatedInstances[r.client] \ {<<"__static__", r.class>>}
     IN /\ isolatedInstances' = [isolatedInstances EXCEPT ![r.client] = left]
        /\ Send(<<Unsubscribe(InstanceTopics(r.class, "__static__")),
                  ClassInfo(r.class, GetInstances(r.class)')>>
                \o (IF r.client \in tracked /\ left = {}
                    THEN <<Unsubscribe({ClientTopic(r.client)})>> ELSE <<>>)
                \o <<Answer(r, {})>>)
  /\ UNCHANGED <<phase, tracked>>

RunFunction(r) ==
  /\ Runs /\ r.fn \notin Lifecycle
  /\ \E ok \in BOOLEAN :
       Call(IF r.ctx = "__static__" THEN r.class ELSE r.ctx, r.fn, r.arg, ok)
  /\ Send(<<Answer(r, {})>>)
  /\ UNCHANGED <<phase, isolatedInstances, tracked>>

\* Mutant: end() disconnects without saying goodbye.
EndQuietly ==
  /\ phase = "running"
  /\ phase' = "ended"
  /\ Send(IF link = "up" THEN <<Disconnect>> ELSE <<>>)
  /\ UNCHANGED <<factoryVars, link, timer, tasks, isolatedInstances, tracked, wire, toAgent,
                 brokerVars, clientVars, breaks>>
\* end(): say goodbye, disconnect if the MQTT connection is up, stop the loop.
End ==
  /\ phase = "running"
  /\ phase' = "ended"
  /\ Send(<<AgentInfo("offline")>> \o (IF link = "up" THEN <<Disconnect>> ELSE <<>>))
  /\ UNCHANGED <<factoryVars, link, timer, tasks, isolatedInstances, tracked, wire, toAgent,
                 brokerVars, clientVars, breaks>>

-----------------------------------------------------------------------------
(* The environment: network, broker and clients.                             *)

WireBreaks ==
  /\ wire /\ breaks < MaxBreaks
  /\ wire' = FALSE /\ toBroker' = <<>>
  /\ breaks' = breaks + 1
  /\ UNCHANGED <<factoryVars, agentVars, toAgent, brokerVars, clientVars>>

\* The process is gone; what it wrote is still delivered before the close.
ProcessExits ==
  /\ phase \in {"ended", "crashed"} /\ wire /\ toBroker = <<>>
  /\ wire' = FALSE
  /\ UNCHANGED <<factoryVars, agentVars, toBroker, toAgent, brokerVars, clientVars, breaks>>

CloseSession ==
  /\ session' = FALSE /\ subs' = {} /\ granted' = {}

BrokerNoticesLoss ==
  /\ session /\ (~wire \/ Contains(toBroker, Connect))
  /\ CloseSession
  /\ agentInfo' = "offline"                                \* the will
  /\ UNCHANGED <<factoryVars, agentVars, netVars, classInfo, answered, clientVars, breaks>>

BrokerAccepts ==
  /\ toBroker # <<>> /\ Head(toBroker) = Connect /\ ~session
  /\ session' = TRUE
  /\ toBroker' = Tail(toBroker) /\ toAgent' = Append(toAgent, Connack(TRUE))
  /\ UNCHANGED <<factoryVars, agentVars, wire, subs, agentInfo, classInfo, answered, granted,
                 clientVars, breaks>>

\* After a refusal the broker closes the connection.
BrokerRefuses ==
  /\ toBroker # <<>> /\ Head(toBroker) = Connect
  /\ breaks < MaxBreaks /\ breaks' = breaks + 1
  /\ toBroker' = <<>> /\ toAgent' = Append(toAgent, Connack(FALSE)) /\ wire' = FALSE
  /\ UNCHANGED <<factoryVars, agentVars, brokerVars, clientVars>>

BrokerHandles ==
  /\ toBroker # <<>> /\ toBroker' = Tail(toBroker)
  /\ LET m == Head(toBroker) IN
     \/ /\ m.kind = "subscribe" /\ subs' = subs \cup m.topics
        /\ UNCHANGED <<session, agentInfo, classInfo, answered, granted>>
     \/ /\ m.kind = "unsubscribe" /\ subs' = subs \ m.topics
        /\ UNCHANGED <<session, agentInfo, classInfo, answered, granted>>
     \/ /\ m.kind = "agentInfo" /\ agentInfo' = m.status
        /\ UNCHANGED <<session, subs, classInfo, answered, granted>>
     \/ /\ m.kind = "classInfo" /\ classInfo' = [classInfo EXCEPT ![m.class] = m.instances]
        /\ UNCHANGED <<session, subs, agentInfo, answered, granted>>
     \/ /\ m.kind = "answer"
        /\ answered' = answered \cup {m.call} /\ granted' = granted \cup m.grants
        /\ UNCHANGED <<session, subs, agentInfo, classInfo>>
     \/ /\ m.kind = "disconnect" /\ CloseSession
        /\ UNCHANGED <<agentInfo, classInfo, answered>>
  /\ UNCHANGED <<factoryVars, agentVars, wire, toAgent, clientVars, breaks>>

\* A client reaches the agent through a topic the agent is subscribed to. The
\* function key may be one the context does not have (a wrong signature).
RoutedCall(n, k, c, x, f, i) ==
  [kind |-> "call", call |-> n, client |-> k, class |-> c, ctx |-> x, fn |-> f, arg |-> i]

ClientCalls(k, c, f) ==
  /\ Attached /\ k \in online
  /\ calls < MaxCalls /\ calls' = calls + 1
  /\ \E x \in Ids \cup {"__static__"}, i \in Ids \cup {None} :
       /\ <<c, x, Base[f]>> \in subs
       /\ IF f \in Lifecycle THEN <<c, i>> \in Uses ELSE i = None
       /\ x \in Ids => <<c, x>> \in Uses
       /\ toAgent' = Append(toAgent, RoutedCall(calls + 1, k, c, x, f, i))
  /\ UNCHANGED <<factoryVars, agentVars, wire, toBroker, brokerVars, online, breaks>>

ClientLeaves(k) ==
  /\ k \in online /\ online' = online \ {k}
  /\ toAgent' = IF Attached /\ ClientTopic(k) \in subs
                THEN Append(toAgent, ClientOffline(k)) ELSE toAgent
  /\ UNCHANGED <<factoryVars, agentVars, wire, toBroker, brokerVars, calls, breaks>>
-----------------------------------------------------------------------------
AgentNext ==
  \/ Serve(ConnectSucceeds) \/ Serve(ConnectFails)
  \/ TimerFires(ConnectSucceeds) \/ TimerFires(ConnectFails)
  \/ ConnectionLost \/ OnConnack \/ OnCall \/ OnClientOffline
  \/ \E r \in NextTask : \/ RunCreateIsolated(r) \/ RunCreateShared(r) \/ RunCreateFails(r)
                         \/ RunDelete(r) \/ RunFunction(r)
  \/ End

EnvironmentNext ==
  \/ WireBreaks \/ ProcessExits
  \/ BrokerNoticesLoss \/ BrokerAccepts \/ BrokerRefuses \/ BrokerHandles
  \/ \E k \in Clients, c \in Classes, f \in Fns : ClientCalls(k, c, f)
  \/ \E k \in Clients : ClientLeaves(k)

Next == AgentNext \/ EnvironmentNext

Spec == Init /\ [][Next]_vars

\* The event loop runs what is ready, the timer fires, a connection attempt
\* succeeds in the end, the broker processes what it gets. Nothing makes
\* clients call or leave, end() be called or the network fail.
Fairness ==
  /\ WF_vars(Serve(ConnectSucceeds)) /\ WF_vars(TimerFires(ConnectSucceeds))
  /\ WF_vars(ConnectionLost) /\ WF_vars(OnConnack)
  /\ WF_vars(OnCall \/ OnClientOffline)
  /\ WF_vars(\E r \in NextTask : \/ RunCreateIsolated(r) \/ RunCreateShared(r)
                                \/ RunCreateFails(r) \/ RunDelete(r) \/ RunFunction(r))
  /\ WF_vars(ProcessExits) /\ WF_vars(BrokerNoticesLoss)
  /\ WF_vars(BrokerAccepts) /\ WF_vars(BrokerHandles)

FairSpec == Spec /\ Fairness

-----------------------------------------------------------------------------
(* The agent is connected and everything it sent has arrived.                *)
Settled == phase = "running" /\ link = "up" /\ Attached /\ toBroker = <<>>

\* A running agent never gives up: without a connection exactly the reconnect
\* timer is pending, and it is never pending next to a connection it would
\* then replace (serve(), agent.hpp:139-157 and 254-271).
NeverStranded == phase = "running" => (timer <=> link = "down")

\* Service discovery is accurate: once everything sent has arrived, the broker
\* retains "online" and, for each class, exactly the shared instances that
\* exist, however creations, deletions and reconnections interleave.
AnnouncedIsCurrent ==
  Settled => agentInfo = "online" /\ \A c \in Classes : classInfo[c] = GetInstances(c)

\* A client that was told in this session that its instance exists can call
\* every member function at once: the subscriptions precede the answer on the
\* stream (agent.hpp:232-248).
GrantedIsCallable ==
  \A g \in granted : Exists(g[2]) => InstanceTopics(g[1], g[2]) \subseteq subs

\* The lifecycle and static functions of every class stay reachable in every
\* session, whatever is created and deleted.
StaticsServed ==
  Settled => \A c \in Classes : \A f \in StaticFns[c] \cup Lifecycle :
               <<c, "__static__", Base[f]>> \in subs

\* Every isolated instance belongs to some client whose leaving could end it.
IsolatedHasOwner ==
  \A i \in Ids : Exists(i) /\ sharedInstances[i] = None =>
    \E k \in tracked, c \in Classes : <<i, c>> \in isolatedInstances[k]

\* On the first connection the agent hears about the end of every client it
\* holds isolated instances for.
OwnersWatched ==
  Settled /\ breaks = 0 =>
    \A k \in tracked : isolatedInstances[k] # {} => ClientTopic(k) \in subs

\* A running agent ends up connected again and again, after any failure.
Reconnects == []<>(phase = "running" => link = "up" /\ Attached)

\* A call the agent has taken is answered, unless its session ends or the
\* agent does.
CallsAnswered ==
  \A n \in 1..MaxCalls :
    (session /\ \E m \in DOMAIN tasks : tasks[m].call = n)
      ~> (n \in answered \/ ~session \/ phase # "running")

\* However the agent stops, by end() in any state of the connection or by an
\* uncaught exception, the broker comes to announce it as gone for good.
StoppedIsAnnounced ==
  phase \in {"ended", "crashed"} ~> [](agentInfo # "online")

(***************************************************************************)
(* What the repository says of the agent and its code does not do.         *)
(***************************************************************************)
\* "Tracking lifetime of client" (agent.hpp:548): when a client is reported
\* offline its isolated instances are deleted.
OfflineEndsIsolated ==
  [][\A k \in Clients :
       toAgent # <<>> /\ Head(toAgent) = ClientOffline(k) /\ toAgent' = Tail(toAgent) =>
         \A p \in isolatedInstances[k] : instances'[p[1]] = None]_vars

\* "service discovery" (README.md:21): an instance that is announced can be
\* called, also after a reconnection.
AnnouncedIsCallable ==
  Settled => \A c \in Classes : \A i \in classInfo[c] : InstanceTopics(c, i) \subseteq subs

\* "exception forwarding" (README.md:27): an exception thrown by adapted code is
\* answered; it never takes the agent down.
ExceptionsForwarded == phase # "crashed"
=============================================================================
