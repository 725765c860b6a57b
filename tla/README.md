# Verification of vrpc-hpp

VRPC makes C++ classes callable over an MQTT broker. The library is a handful of
headers: `adapter.hpp` keeps the registry of adapted code, `agent.hpp` connects
that registry to a broker, and `mqtt/` is the MQTT client it uses. This project
models the parts that keep state, checks them with TLC and proves some of them
with TLAPS.

## 1. Inventory

| Component | State | Operations | Hard behaviour |
|---|---|---|---|
| `LocalFactory` (adapter.hpp 782-1040) | `_function_registry`, `_class_function_registry`, `_instances`, `_shared_instances` | static registration; `call` dispatching to constructors (isolated, shared), `__delete__` and user functions | one map serves classes and instances; any sequence of calls, through any class, on any id |
| `VrpcAgent` (agent.hpp) | `_isolated_instances`, the reconnect timer, calls posted to the event loop | `serve` and its handlers (connack, publish, close, error), queued calls, `end` | calls outlive the connection they came on; the session is clean, so a reconnection starts from nothing; clients leave at any time |
| Packet id pool (value_allocator.hpp, packet_id_manager.hpp) | sorted intervals of free ids | acquire, register, release, clear | merging and splitting at every boundary, releases in any order |
| Session of the MQTT endpoint (endpoint.hpp) | `connected_`, `mqtt_connected_`, `store_`, `pid_man_`, `sub_unsub_inflight_`, `qos2_publish_handled_` | connect, publish, subscribe, unsubscribe, the handlers of what arrives, connection loss | a break between any two steps of an exchange; resending; ids that are used again |
| Client connection and timers (client.hpp, async_client.hpp) | ping, ping response and close timers, the socket | async_connect, async_disconnect with a timeout, force_disconnect | timers that outlive their connection; operations that end when it is too late to cancel them |
| Asynchronous write queue (endpoint.hpp) | `queue_` | posting a packet, do_async_write, write_completion_handler | packets posted while a write is outstanding, writes that end after their connection |
| Topic aliases (topic_alias_send.hpp, topic_alias_recv.hpp, endpoint.hpp) | two alias tables | insert, find, clear; publishing by topic, by alias, with automatic aliases | an alias given to another topic while packets, or stored messages, use the old meaning |
| Packet codecs (message.hpp, v5_message.hpp, property.hpp, endpoint.hpp) | what a coroutine has read so far, the block read ahead, `remaining_length_` | constructing, storing and restoring a packet; the `process_*` coroutines | lengths computed apart from bytes; fields that may be missing; two ways of reading everything |
| Callbacks and marshaling (adapter.hpp) | handler singleton | wrap a callback argument | runs on the thread of the user |
| Parsing of shared subscriptions, UTF-8 checks, sockets, server role, JSON | none of their own, or unused by VRPC | | |

The components interact as follows. `VrpcAgent` calls `LocalFactory::call` from its
event loop and reads the registry when it announces classes. It uses the client
through `connect`, `publish`, `subscribe`, `unsubscribe` and `disconnect`, and is
called back on CONNACK, PUBLISH, close and error. The endpoint takes packet ids
from the pool and returns them when the broker has confirmed, keeps what must be
sent again in its store, and writes through the queue (`async_client`) or at once
(`sync_client`, the one of the agent). What it writes and reads are the packets of the codecs, in
which a topic may be replaced by an alias. The broker routes
calls to the agent by topic, so the subscriptions held there are part of the
state that has to be right.

What makes each component correct:

- the registry: its three maps agree; a function is only ever bound to the object
  that lives under its id now; ids keep object and mode while they live; classes
  keep their functions;
- the agent: it never stops reconnecting; what the broker retains about it is the
  truth; what it tells a client to exist is callable; every isolated instance has
  an owner it listens for; calls are answered;
- the id pool: it is a set of free ids, lowest first;
- the session: an id names one operation; a message is at the broker or in the
  store; QoS 2 messages arrive once; the order of publishing is kept; everything
  arrives, in either direction, and every id comes back; what is acknowledged was handed over;
- the connection: its end is reported once, whoever notices it first; the queue is
  neither written twice at a time nor left standing; every handler is called; a silent
  broker is noticed, and a disconnection with a timeout ends;
- the aliases: from CONNACK on both tables agree across what is under way; a message never
  arrives under another topic than it was published to;
- the codecs: what one endpoint writes another accepts and reads as it was meant, to the
  last byte and not a byte further (section 3 names those it does not accept).

## 2. Modules

| Module | Models | Used by |
|---|---|---|
| `LocalFactory` | the registry as a component of its own | `Agent` EXTENDS it |
| `Agent` | the agent over the registry, with broker, network and clients | `MCAgent` |
| `IdPool` | abstract: a set of free ids | refined by `ValueAllocator` |
| `ValueAllocator` | the interval pool | `MCValueAllocator` |
| `Endpoint` | the client's session, both directions, with network and broker | `MCEndpoint` |
| `AsyncClient` | connection, timers, read loop and write queue of an asynchronous client | `MCAsyncClient` |
| `TopicAlias` | the two alias tables as operators | `AliasedPublish` |
| `AliasedPublish` | publishing with aliases between two endpoints, over several connections | `MCAliasedPublish` |
| `Wire` | fixed headers, numbers, variable lengths, properties as bytes | `Message` |
| `Message`, `MessageV5` | the packets of MQTT 3.1.1 and of MQTT 5 as they are written | `Serialized` |
| `Serialized` | messages made again from stored bytes | `PacketReader` |
| `PacketReader` | the coroutines that read packets | `MCPacketReader` |
| `PacketChannel` | abstract: packets are handed over once, in order, in one of the forms `Readings` allows | refined by `PacketReader` |
| `AgentProofs` | proofs about `LocalFactory` and `Agent` | |
| `EndpointProofs`, `AsyncClientProofs`, `AliasedPublishProofs`, `ValueAllocatorProofs` | proofs about the module each is named after | |
| `PacketProofs` | proofs about what `Wire`, `Message`, `MessageV5` and `Serialized` write and read back | `PacketReaderProofs` |
| `PacketReaderProofs` | proofs about `PacketReader` | |
| `CollectionLemmas` | lemmas: smallest sets and least numbers, and what is at which place of a queue that is read or written | the proofs |
| `MC...` | small instances of the constants | the `.cfg` files |

### LocalFactory

`functionRegistry[x][f]` is what `_function_registry` binds function `f` of
context `x` to: an object (a member function bound to an instance), `Static` or
nothing. `instances` and `sharedInstances` are the maps of the same name. A heap
object is a model value that may be chosen again once nothing refers to it, as
an address is; it remembers the class it was constructed as, so that an id
reused for another class, or a function left behind by a deleted object, shows.
`Call` is `LocalFactory::call` with the bodies that
`inject_create_isolated_function`, `inject_create_shared_function` and
`inject_delete_function` register. The parameter `ok` says whether the reply has
a result or an error. Values, signatures and meta data are abstracted; a function
key stands for the name with the signature of its arguments.

### Agent

One action per handler of `serve()`. `link` is the client's view of the
connection (`connected_`, `mqtt_connected_`), `wire` whether it is intact; the
two streams on it are FIFO and lost with it. `Serve` and `TimerFires` take the
outcome of `connect` as their argument. `OnCall` only queues, as `boost::asio::post`
does; the `Run...` actions are the posted lambda, split by function and outcome,
each with everything the lambda does: the call, the lifetime handling, the
announcements and the answer. `RunCreateFails` ends the process: the reply has no
`"r"`, and reading it throws out of `_ioc.run()`. `ClientKey` is the conversion of
`agent.hpp:194` by the lengths involved. The broker, external, implements clean
sessions, subscriptions, retained announcements and the will; clients call only
what the agent is subscribed to. Two QoS 1 details are abstracted: the packet ids
(see `Endpoint`) and the redelivery, which clean sessions do not have.

### IdPool and ValueAllocator

`pool` is the index of `value_interval`s. `Before` is its `operator<`, under which
two overlapping intervals are equal, so that `emplace` refuses the second.
`Deallocate` finds the neighbours with `upper_bound` as the code does and merges
left, right, both or none. `ImplementsIdPool` maps the intervals to the set of
values they cover.

### Endpoint

`store` is `store_` with the position in its sequence; it is unique in id and
expected packet, and `emplace` of a duplicate changes nothing. `free` plays the
role of `IdPool`'s variable: `Publish` and `Subscribe` take the lowest free id, or
cannot happen (the code throws `packet_id_exhausted_error` before any change).
Writes go nowhere when the socket is closed and fail silently on a broken
connection. `pending` (requests really sent and unanswered), `published`,
`discarded`, `forgotten` and `delivered` are history: they tell the properties
what happened and no guard of the client's handlers reads them. The broker,
external, keeps a session unless a clean one is asked for, acknowledges in order,
passes QoS 2 messages on at PUBLISH, and may forget the session while the client
is away.

The receiving side is `OnPublish` (`process_publish`: the handler, then the
acknowledgement) and `OnPubrel`. `handled` is `qos2_publish_handled_`, which the code
fills and empties and never consults. The broker keeps in `outgoing` what the client has
not acknowledged, and sends it again when the session is resumed.

### AsyncClient

`ready` is the queue of handlers that `io_context` has to run, `MaxReady` of them beyond
which nothing outside adds more. An operation that ends (`WriteEnds`, `ReadEnds`,
`ConnectSucceeds`) or a timer that expires appends its handler; a `Run...` action takes the
first one and does what it does, including what it posts in turn. So cancelling a timer
whose handler is ready comes too late, as it does in asio. `queue` is `queue_`, `writing` the
number of packets in the outstanding write, which `Batch` computes from
`max_queue_send_count_` and `max_queue_send_size_`. `timPing`, `timPingresp` and
`timClose` are the three timers, `timPingrespSet` the flag of the same name. `RunForce`
is `force_disconnect` as it is posted: it closes the socket of today's
connection, whichever connection its timer was armed for. The broker, external,
answers in order, closes after a DISCONNECT, and may fall silent; the wire may break.

### TopicAlias and AliasedPublish

A table of the sender is a sequence of entries, least recently used first (the
index by time of `topic_alias_send`), with the set of vacant aliases.
`InsertOrUpdate` follows the code with assertions off, as a release build has it: an entry that would
get the topic of another one is erased by `multi_index`, and its alias is then neither in use nor vacant.
`Sends` is `preprocess_publish_message`: what is stored (`Stored`, the topic recovered, the
alias still there) and what is written (`Applied`) differ. A connection begins in three
steps. `Connect` is the TCP connection and CONNECT (client.hpp:1243, 1305): from then on what is published
is written, with the table of the last connection, which has been filled on while there was none
(endpoint.hpp:9021-9035). `SendConnack` is the receiver's answer, with which it gets a table;
it may have read publishes before. `ProcessConnack` sends the stored messages again, as they are, and
takes a new table (endpoint.hpp:6999). `early` marks what was written before that.
`Receive` refuses an alias it does not know and reads nothing more (endpoint.hpp:7238);
a message that is refused is not acknowledged. Connections end on one side first (`Cut`) and are noticed later.

### Wire, Message, MessageV5, Serialized, PacketReader

Bytes are modelled as they are, because the properties are about them: lengths that are
computed in one place and written in another, and the point at which a packet ends.
`Framed(header, length, body)` keeps the length a constructor computed apart from the bytes
it writes. `Serialized` makes a message again from its stored bytes, and
`SendRestored` sends it. `PacketReader` has one action per coroutine; `pc` is the
field at which it goes on. Each primitive read takes from the block read
ahead when there is one and from the stream otherwise, and checks `rem`
(`remaining_length_`) as the code does. `left` is `property_length_rest`: properties are read one
at a time, and each may have to wait for its bytes. (`Then` hands on what was taken through a bound
variable only so that TLC evaluates it once.) `Packets(v)` are the packets that the
constructors accept and whose length `remaining_bytes` can write (it throws otherwise,
remaining_length.hpp:16-21), given packet ids other than 0, at least one topic filter, and options with one
of the three values of `qos`. The constructors also take options with a QoS of 3, and no filter at all, and the
reader refuses both: `ProcessPublish` and `TakeOptions` have the checks (endpoint.hpp:7164, 8081), and `Packets`
does not send such packets. `PacketsAssumption` lets
the two ends send any of `Packets(v)`, a client no CONNACK and a server no CONNECT. `PacketChannel` says what
all this is for. What is handed over differs from what was sent in three ways. A SUBSCRIBE of MQTT 3.1.1 keeps
the QoS of each options byte and drops the other six bits (message.hpp:788; `Kept`). With a reason code of success
the properties of an acknowledgement are dropped (v5_message.hpp:1077), and DISCONNECT and AUTH
are handed over with a reason code that was never set (endpoint.hpp:8735, 8832), which
`Reasons` stands for; `ReadingsOf` has these two.

## 3. Runs

| Run | Instance | Shows |
|---|---|---|
| `factory` | 2 classes, 3 ids (one named like a class), 3 objects each | the registry's invariants and `IdentityIsStable` |
| `agent` | 1 class, 2 ids, 2 clients, 3 calls, 1 break, constructors may throw | `NeverStranded`, `AnnouncedIsCurrent`, `GrantedIsCallable`, `StaticsServed`, `IsolatedHasOwner`, `OwnersWatched` |
| `agent_live` | fair; 2 classes sharing 1 id, 1 client, 2 calls, 1 break | `Reconnects`, `CallsAnswered`, `StoppedIsAnnounced` |
| `ids` | range 1..8 | `Separated`, refinement of `IdPool` |
| `endpoint` | persistent session, 2 messages of QoS 1 and 1 of QoS 2, 2 incoming of QoS 2, 3 ids, 2 breaks | `IdsAreUnique`, `StoredUntilConfirmed`, `ExactlyOnce`, `OrderKept`, `AckedIsHanded` |
| `endpoint_live` | fair; persistent session, one message of each QoS, 2 incoming and 1 request for 2 ids, 1 break | `IdsAreUnique`, `Delivered`, `Received`, `AllReleased` |
| `client` | fair; 2 connections, 2 messages of 1 and 2 bytes, 1 break or silence, 1 disconnect, writes of at most 2 packets and 2 bytes | `QueueIsServed`, `EndReportedOnce`, `SentInOrder`, `HandlersCalled`, `EndIsReported`, `SilenceIsNoticed`, `DisconnectEnds` |
| `codec` | every packet of both versions in both directions, each followed by another; both limits of reading ahead at 0, 8 and 256 | `NeverRefused`, `BoundaryKept`, `Counted`, refinement of `PacketChannel` |
| `alias` | 3 topics, receivers that take 0, 1 or 2 aliases, 2 connections, 4 messages, published at any time, at most 2 of them stored | `TablesAgree`, `AliasResolves`, `AliasAvailable` |

Every property of these runs has a mutant in its module: a definition that
changes the model the way a plausible bug would (marked `Mutant:` in the
modules, used by no specification), under which TLC finds the property violated.

### Disagreements between code and documentation

Each of these runs checks one property, quoted from the repository, that the code
violates.

| Run | What the counterexample shows |
|---|---|
| `agent_offline` | a client creates an isolated instance and leaves; the instance stays (9 characters are cut instead of 15) |
| `agent_restore` | after a reconnection a shared instance is announced, nothing of it is subscribed |
| `agent_throw` | a failing creation ends the agent instead of being answered |

What else the code does differently from what one would expect was met while modelling. The models
either do the same, or leave the case out by a constant or a guard named here:

- agent.hpp:243: after a delete the topics of the instance stay subscribed and its registration
  stays, because `__static__` is passed on and not the id (agent.hpp:532 only logs).
  Modelled.
- agent.hpp:244: deleting through a foreign class changes the instances of another without
  announcing it. `AnnouncedIsCurrent` is checked with one class.
- endpoint.hpp:935 and 7450: the PUBACK of a message published between CONNECT and CONNACK can
  erase the next message that got its id. `PublishIn` leaves it out.
- endpoint.hpp:4248 and 10226: an unanswered subscribe request and two disconnections release
  an id twice, which a stored message may hold by then. `SubscribeIn` and one break
  leave it out.
- endpoint.hpp:7315: a QoS 2 message that is repeated before its PUBREL is handed to the
  application again. Modelled; no property claims otherwise.
- client.hpp:374 and 1306, endpoint.hpp:3546: a broker that never sends a CONNACK is not
  noticed: the ping timer expires, `async_pingreq` does nothing before the CONNACK, and nothing
  arms the timer again. `SilenceIsNoticed` starts with a session.
- client.hpp:756: the close timer of a disconnection may end the next connection. Modelled.
- endpoint.hpp:10159: with `max_queue_send_size_` below the size of a packet the write loop goes
  round without writing. `ClientAssumption` leaves it out.
- endpoint.hpp:6974: a CONNACK that refuses the connection sets `mqtt_connected_` too. `codec` reads
  such packets; no sender goes on after one.
- endpoint.hpp:6999: a CONNACK that announces no aliases leaves the table of the last connection in
  place. The guard of `SendConnack` in `AliasedPublish` leaves it out.
- client.hpp:1243 and endpoint.hpp:6999, 9021-9035: what is published between CONNECT and CONNACK is written
  with the alias table of the last connection, and with what was put into it while there was none. The receiver
  has a new table or none yet, and refuses an alias that comes alone (endpoint.hpp:7238), which ends the
  connection. Modelled: `AliasResolves` excuses these messages, and no others, from being refused, not
  from arriving under another topic, and `TablesAgree` begins with CONNACK.
- endpoint.hpp:8081 and 7164: SUBSCRIBE and PUBLISH with a QoS of 3 in their options, which the constructors
  accept (message.hpp:785 and 520, v5_message.hpp:1955; subscribe_options.hpp:48 and publish.hpp:61 take any
  byte, and `|` joins a QoS of 1 and one of 2), are refused by the reader, and so is a SUBSCRIBE or UNSUBSCRIBE of no
  topic filter (endpoint.hpp:8047, 8377). The reader's checks are modelled, `Packets` leaves the packets out.
- message.hpp:788: SUBSCRIBE of MQTT 3.1.1 drops all of the options but the QoS. Modelled, see section 2.
- topic_alias_send.hpp:58 and v5_message.hpp:942, 1077: modelled, see section 2.
- v5_message.hpp:894-910: when a property is added and the length of the properties grows from 127
  to 128, the packet is announced a byte too short. Only an alias that is added to a message with
  125 to 127 bytes of other properties does that; `codec` sends no aliases and `alias` no
  bytes.

### Bounds

Two ids and two or three objects per class let an id be deleted and reused by the other
class, and an object be reused by another id. Three calls are create, use
or delete, create again, by two clients. One break puts a reconnection
between any two of them; a second break would only repeat what the first did,
since the session is clean. In `Endpoint` one break is enough to resend and two to
resend what was resent; with two ids for two messages and a request ids run out and return.
In `client` the second connection is there for what the first has left behind: a write
that ends late, a timer that was not cancelled, a queue that was not empty. Two packets
of two bytes make both limits of a write bite. In `codec` the limits 0, 8 and 256 put every packet
on either side of both: nothing is read ahead, the small packets are, or all are; lengths of 127 and
128 are where a length takes a second byte; subscribe options of 46 have all the bits that MQTT 3.1.1 drops.
In `alias` two aliases for three topics force an
alias to move, one forces it every time, and the second connection may take more or fewer. Four messages
fill the table, are published offline and are still there for the two sides of a CONNACK; `MaxStored` keeps
two of them in the store, enough to send one again under an alias that the other has taken.
Range 1..8 has every neighbourhood of a value: none, left, right, both, at either
end. Counters (`calls`, `breaks`, `subRequests`, `drops`, `disconnects`, `posted`, `conns`, `published`) appear in no guard of the code's
own actions: they bound clients and network, as `MaxStored` bounds what the application publishes. Symmetry is used for clients and ids
of `agent`, for messages of equal QoS in `endpoint`, for topics in `alias`, and in no
liveness run.

`CHECK_DEADLOCK FALSE` is set where the bounded environment comes to rest: all calls
made, everything delivered, or the process ended.

### Fairness

Weak fairness on the handlers of the event loop (asio runs what is ready), on
the reconnect timer together with a connection attempt that succeeds (the network
is not down forever; `breaks` bounds how often it is), on noticing a lost
connection, and on the broker's processing. In `Endpoint` the application
connects again after a loss, as `VrpcAgent` does. In `AsyncClient` the event loop runs its handlers,
timers expire in the end, a connection attempt and a write of a few bytes end, one way or the
other, the application connects again (as long as `MaxConns` allows), and a broker that has not fallen silent
answers. In `PacketReader` the event loop goes on reading. Nothing makes clients call or
leave, `end()` be called, a message be published, a connection break or a broker fall
silent.

## 4. Proofs

`AgentProofs` begins with the registry. It proves, for any classes, ids, objects and functions that
satisfy `FactoryAssumption`, the type invariant, `BoundToLive`,
`ContextMatchesInstance`, `SharedIsLive`, `StaticsKept` and the action property
`IdentityIsStable`. The lemma `StepCases` reduces `FactoryNext` to the three steps
that change anything (new isolated, new shared, delete). Each invariant is
inductive next to the type invariant: a creation binds exactly the class's
member functions to the new object of a context that was empty, which is why
`ContextMatchesInstance` can be an equivalence, and a deletion clears all three
maps at once. `StaticsKept` speaks of classes that are not instance ids, because an
instance may be named like a class, and its deletion then erases the class's
functions (adapter.hpp:1026).

`ValueAllocatorProofs` proves, for every range, that the pool stays `Separated` and
that `Spec` implements `IdPool!Spec`. `Separated` and the type invariant are the
inductive invariant; without the maximal merging `upper_bound` and its predecessor
would not be the only candidates for a merge, and without disjointness removing
one interval would not remove its values. The lemmas say what the neighbours found
for a value are (`LeftNeighbour`, `RightNeighbour`), that a value is free exactly
if its unit interval overlaps one of the pool (`FreeByCoverage`), and what each
operation does to the covered set.

Of the agent, it proves all six invariants the `agent` run checks, for any classes, ids, clients,
calls and broken connections, from `FactoryAssumption` and `AgentAssumption`, and that the agent implements
`FactorySpec`.

- `NeverStranded` needs one strengthening (`LinkInv`): before `serve()` has connected the
  link is down, so its first attempt leaves either a connection or the timer.
- `IsolatedHasOwner` is inductive next to the types of the registry, of the registrations and
  of the calls in flight and in the queue (`OwnerInv`): a call runs long after it was sent, so
  what it carries must be known to be well formed when it is taken from the queue. The lemma
  `CallIsolates` says that only a successful `__createIsolated__` makes an instance isolated, and only
  its own; `OwnersKept` that it suffices that registrations do not shrink. They do not because
  a delete takes the pair with "__static__" out, which is never there (`agent.hpp:243`); the
  same slip that leaves deleted instances registered.
- `StreamInv` says what is on the way to the broker: CONNECT first and once, `end()`'s farewells last,
  orders of the agent between them, and what a client whose CONNACK was seen may conclude. The next four rest on it.
- `GrantedIsCallable` (`GrantInv`): an instance that a client was told of is subscribed to,
  and every answer on its way to the broker stands behind the subscription it promises.
- `StaticsServed` (`StaticsInv`): while the connection is up each topic is subscribed to or a SUBSCRIBE
  for it is under way that no later UNSUBSCRIBE undoes (`Promised`). `UpSteps` reduces the agent's steps to what
  they append to the stream, `PromiseKept` to what they may not append.
- `OwnersWatched` (`FirstLinkInv`, `WatchInv`): on the first connection no "offline" notice finds a key,
  and nothing the agent sends gives up a client that has instances. It speaks of the first
  connection only, because a clean session loses the subscriptions and the connack
  handler does not restore them (section 3).
- `AnnouncedIsCurrent` (`AnnounceInv`): for each class either the last announcement under way tells the
  instances that exist (`Tells`), or none is under way (`Silent`) and the broker has it right.
- `AgentImplementsFactory`: the handlers call the registry through `Call` only. The one
  step that would make several calls is the offline handler, which
  under `KeysMissClients` finds nothing. `AgentKeepsRegistry` carries what is proved of the
  registry over to the agent.

Three of these have conditions, stated in `Agent` and as hypotheses of the theorems:
`StaticsApart` (no instance is named like a class and no static function like a member function of its class; a
delete would unsubscribe from "<class>/__static__/<name>"), `OneClassPerId` (a delete through
a foreign class announces that class only) and `KeysMissClients` (the key that the offline handler cuts out is
no client's id, which holds for ids of three levels as the handler expects them). The code ensures
neither of the first two, and without them the properties fail. `MCAgentConditions`
evaluates all three on the instances of the runs.

`EndpointProofs` proves `IdsAreUnique`, `StoredUntilConfirmed` and `ExactlyOnce` of `Endpoint`, for
any messages, any number of packet ids and of broken connections, and with the broker free to
forget the session at any time the client is away, from `EndpointAssumption` and `Tidy`:
nothing is published between CONNECT and CONNACK, requests are made on a session only, and
either there are none or at most one connection breaks. `Tidy` leaves out the two
disagreements about ids named in section 3, and both `endpoint` instances satisfy it. None of the three is inductive by
itself: an id comes back when an answer is taken from the connection, so the invariant `SessionInv` has to
know what is on its way. Each PUBLISH, PUBREL and SUBSCRIBE belongs to an entry of the
store or to a pending request (`AsksInv`), so does each answer, which also says what the broker
has done by then (`AnswersInv`), and an id is on its way once, as a question or as an
answer (`OnceInv`). `LinkInv` says what a connection has come to: before the CONNACK it
carries neither. `RequestsInv` keeps the ids that a lost connection releases apart
from the store. `OnceDelivered` adds what the broker remembers. There is one
lemma for each action that `SessionInv` survives it (`PublishStep`, ..., `BrokerAckedStep`), over lemmas about
reading from and writing to a queue. What is resent is in the order of the
store: `SortedExists` shows, by taking a smallest set that cannot be sorted, that entries with places of
their own can be, and hence that every entry is resent in one packet (`InOrderResends`).

It goes on to prove `OrderKept` and `AckedIsHanded` next to `SessionInv`, under `Tidy` too.
Order holds because places in the store increase with publication (`ByAge`), what is on its way is in the
order of the store (`InTurn`) and lacks nothing the broker has not passed on (`OnWay`): an older message
the broker misses would be on its way behind a newer one, against `InTurn`. A new
connection starts with both because everything stored is resent (`SortedCovers`), oldest first. `AckedIsHanded`
needs, besides, that the client asks for its session to be kept (`~CleanSession`; a broker told to drop the session
forgets what the client had not acknowledged). `InboundInv` mirrors `AsksInv` and `OnceInv` for the other
direction: each PUBLISH and PUBREL for the client, and each of its answers, belongs to an
entry of `outgoing` in the state it calls for, and an id is on its way once. While the connection is gone what still
arrives may belong to a session the broker has forgotten, so the invariant speaks of it
under `wire` only, which suffices: nothing the client then writes arrives.

`AliasedPublishProofs` proves `TablesAgree`, `AliasResolves` and `AliasAvailable` of `AliasedPublish`, for
any topics, announced maxima, connections and messages, from `AliasAssumption`, and under the guard of
`SendConnack` named in section 3. The invariant `AliasInv` states
with `Means` what an alias will mean to the receiver at a place in what is under way, rather
than at its end: each packet without a topic must find its alias there with the topic that was meant
(`PacketOk`), and each entry of the sender's table at the end (`TableKnown`). `MeansBefore`,
`MeansNamed` and `MeansStill` say what becomes of a meaning when a packet is written behind it, `MeansRead` what
becomes of it when the receiver reads one. All ways of publishing meet one condition (`Written`): the topic is
written, or an alias of the table that stands for it, and the new table has what it had
under other aliases. Between CONNECT and CONNACK the sender's table is an old one, so all that can be said of its aliases
is that they mean the right topic or nothing (`MayMean`, over `Unknown`); that holds of packets written then (`early`)
until they are read, and suffices for them not to arrive under another topic. `AnswersOk` says that
the receiver has a table exactly from its CONNACK on. `StoreOk`, that a stored message has its topic,
is why the stored messages, sent again behind the early ones, need no table, and why the sender may then begin with
an empty one. `TableOk` adds that aliases and topics are in the table once; `MeansWillBe` leads
from `Means` back to `WillBe`.

`AsyncClientProofs` proves `EndReportedOnce`, `QueueIsServed` and `SentInOrder` of `AsyncClient` for any numbers of
connections, messages and faults and any sizes and limits of the queue, from `ClientAssumption`:

- `EndReportedOnce`: `ReadInv` counts. While the end of a connection is expected, a read is
  outstanding (`reading`) or one handler of a read is ready (`ReadLoop`), otherwise neither. To start
  counting at one it needs `Attempt`, that the handler of a connection made is ready at most once and only
  while one is being made. Handlers are of many shapes, so the lemmas about what is ready (`LeftKinds`,
  `AddedKinds`) speak of their kinds alone; most steps are `QuietStep`s. The ones that matter are `RunReadFails`,
  which reports the end when no other read can end any more, and `RunForce`, which leaves a read that
  fails behind, whichever timer called it.
- `QueueIsServed`: `WriteInv` says which packets are posted, that a write which ended has taken
  packets of the queue (`Fits`), and that the queue has one write or is empty (`Served`). A write must take at
  least one packet, or the queue would stand still behind a write that ends with nothing: `BatchInQueue`
  shows it from `ClientAssumption`, where no packet alone is larger than the limit.
- `SentInOrder`: `FirstInv` ties a connection's success to its CONNECT: the handler of the success finds nothing
  posted and no write that has ended before it, so CONNECT is the first to be posted and finds the queue
  empty. `OrderInv` orders the messages over three places: those the broker has read come before those of
  the queue, unless the handler of the write that sent them is yet to run (`Removed`), and those before the ones that are
  posted. The two lemmas that carry it are `OrderKept`, for a step that posts no message, and
  `SentNumbers`, for what a write adds to what the broker has read.

Both folds over packets, `Bytes` and `Numbers`, are unfolded by hand: a witness for the function that
`FoldLeft` chooses exists by a least counterexample (`FoldExists`), and what it computes follows by another
(`NumbersPicks`).

`PacketProofs` and `PacketReaderProofs` prove `NeverRefused`, `BoundaryKept` and `Counted` of `PacketReader`,
and that every step of it is one of `PacketChannel` or none (`PacketsArriveInOrder`): for any packets that the
constructors accept, given ids other than 0, at least one topic filter and options with a QoS of `qos`, of any
length that can be written, with any texts, properties and topic filters, and for any limits of reading ahead.

- `PacketProofs` is about bytes. `WireForm` says that what a constructor writes is one header, the length of
  `Body`, and `Body`: the sum a constructor computes is the length of what it writes. `LengthBack`,
  `TextBack`, `HeaderBack` and `ParseBack` say that lengths, texts, headers and lists of properties are read back as
  they were written, whatever comes behind them. The lengths stay below `LengthLimit`, so that every number is found by
  cases of its one to four digits; sums and concatenations over sequences are unfolded by
  hand as the folds of `AsyncClient` are, by a least counterexample.
- The invariant `IInv` says where the reader can be in a packet. `Spot(g, R, T, x, N)` is the pattern: the fields `g`
  were read, the bytes `R` of the packet are left, partly or all in the block, the packets behind it are `T`, and
  `remaining_length_` is the length of `R`, and `x` bytes more that CONNECT and CONNACK never take off it.
  `N` are the sizes of block that may be there; without them `process_fixed_length`, which does
  not look whether the block is long enough, could not be shown to find its bytes.
  `Between` is the pattern between two properties, `AtProps` joins the two, and one definition for each
  coroutine (`MidConnect`, ..., `MidEnding`) lists its places; `Done` is the place where all is read. What
  these places are in is `Kept(v, p)`, which is written as the same bytes as `p` (`KeptIs`). `Flight`
  adds what the order of packets needs: CONNECT or CONNACK is handed over before any other packet is
  taken, so that `known` is the sender's version by then.
- Each read then is a lemma of one form: at a `Spot` whose bytes begin with what is to be read, it does not
  refuse, and if it does not wait it gives what was written and leaves the next `Spot`. `LengthFitsAll` shows that no check of the
  fixed header is in the way, and `HandedOver` that the fields add up to a reading of the packet.
- A stored message is sent again byte for byte (`RestoredPublishBack`, `RestoredPublishV5Back`,
  `RestoredPubrelBack`, `RestoredPubrelV5Back`), so what was written before a restart is read like anything else.

Model-checked only: liveness, which includes the fairness that `PacketChannel` states, since
ENABLED and fairness are beyond the prover. All safety invariants and action properties that the runs check are proved.

## 5. Not modelled

- Callbacks on user threads (adapter.hpp, agent.hpp:311): which threads publish is up to the adapted code.
- The checks of UTF-8 (`utf8encoded_strings.hpp`, `string_check.hpp`) and the filters of shared
  subscriptions (`shared_subscriptions.hpp`): pure functions; `codec` uses strings
  that pass.
- Manual packet ids and manual acknowledgements, and the receive maximum: an agent uses none of them.
- `async_send_store` (off unless asked for, endpoint.hpp:10358): the stored messages are sent again one after another
  and CONNACK is handled after the last. What is published meanwhile would still use the old alias table, behind
  stored messages whose aliases the receiver has learned by then, so it could arrive under another topic. The
  results of `AliasedPublish` do not hold for it.
- The role of a server in `endpoint.hpp` beyond reading its packets, and `server.hpp`: VRPC runs no broker.
- Packet ids of four bytes; WebSocket and TLS transports, which differ in the handshake; the
  socket wrappers and `callable_overlay.hpp`, which forward; `json.hpp`, which is third-party
  code; meta data, urls and the command line, which are pure data; examples and tests.

## 6. Plan

1. Done: `LocalFactory`, `Agent`, `ValueAllocator` over `IdPool`, `Endpoint` in both directions,
   `AsyncClient`, the codecs over `PacketChannel`, `AliasedPublish`, and the first proofs.
2. Done: theorems for all invariants of `Agent` and `AsyncClient`, and the agent as an implementation
   of `FactorySpec`. Theorems for the
   codecs: no packet is refused, every packet ends where it should, and `PacketChannel` but for its fairness.
   Only liveness is left to TLC alone.
3. Abstract specification: a delivery service that `Endpoint` implements.
4. `async_send_store` in `AsyncClient`, with reading held back until what was stored has been sent.
5. UTF-8 and shared subscriptions in `Message` and `PacketReader`: what the writer accepts the
   reader accepts.
6. An agent with callbacks on user threads, and `AnnouncedIsCurrent` with two classes.
