--------------------------- MODULE AliasedPublish ---------------------------
(***************************************************************************)
(* Publishing with topic aliases from one endpoint to another, both of     *)
(* this library and both MQTT 5 (src/vrpc/mqtt/endpoint.hpp): what         *)
(* preprocess_publish_message stores and writes, what process_publish      *)
(* makes of it, and what becomes of both tables when the connection ends   *)
(* and another is made. The alias comes from the application or from the   *)
(* library (auto_map_, auto_replace_topic_alias_send_).                    *)
(*                                                                         *)
(* The receiver is a server: a new endpoint for every connection. It       *)
(* announces how many aliases it takes in CONNACK. The sender may publish  *)
(* as soon as it has sent CONNECT, with the table of the last connection,  *)
(* which CONNACK replaces. A receiver that takes none follows only         *)
(* receivers that took none, because a table that exists is kept when      *)
(* CONNACK announces nothing (endpoint.hpp:6999). The session is kept, and *)
(* what was stored is sent again at once (async_send_store_ is not set).   *)
(***************************************************************************)
EXTENDS TopicAlias

CONSTANTS
  Topics,       \* topics of messages
  Maxima,       \* what a receiver may announce, 0 for nothing
  MaxConns,     \* bound: connections
  MaxPubs,      \* bound: messages published
  MaxStored     \* bound: messages in the store when one of QoS 1 is published

ASSUME AliasAssumption ==
  None \notin Topics /\ Maxima \subseteq Nat /\ {MaxConns, MaxPubs, MaxStored} \subseteq Nat

Modes == {"plain", "map", "replace"}

VARIABLES
  mode,         \* which of the two switches is set
  link,         \* "down", "connecting" from CONNECT, "up" from CONNACK, or
                \* "cut": ended, but not noticed by the sender
  conns,        \* connections made
  table,        \* topic_alias_send_, max 0 for none
  recvMax, map, \* topic_alias_recv_ of the receiver
  reading,      \* the receiver has not refused anything
  store,        \* messages of QoS 1 that are not acknowledged, in order
  wire,         \* publishes under way
  answers,      \* what the receiver has sent: a PUBACK's id, or Connack
  published,    \* messages published
  last          \* the message handed to the receiver's handler, or "refused"

receiver == <<recvMax, map, reading>>
vars == <<mode, link, conns, table, receiver, store, wire, answers, published, last>>

\* id is 0 for QoS 0. Only the model looks at about, the topic that is meant,
\* and at early: written between CONNECT and CONNACK.
PublishPacket(topic, alias, id, about, early) ==
  [topic |-> topic, alias |-> alias, id |-> id, about |-> about, early |-> early]
Connack == 0    \* no id is 0
Idle == [topic |-> None, about |-> None, early |-> FALSE]

Init ==
  /\ mode \in Modes /\ link = "down" /\ conns = 0
  /\ table = EmptyTable(0) /\ recvMax = 0 /\ map = <<>> /\ reading = TRUE
  /\ store = <<>> /\ wire = <<>> /\ answers = <<>> /\ published = 0 /\ last = Idle

-----------------------------------------------------------------------------
\* apply_topic_alias, for a message with its topic: an alias the application
\* chose is registered; a topic that has one is replaced by it; and with
\* auto_map_topic_alias_send_ one that has none is given one.
Applied(topic, alias) ==
  LET known == AliasOf(table, topic)
      Using(name, a) == [topic |-> name, alias |-> a, table |-> InsertOrUpdate(table, topic, a)]
  IN IF table.max = 0 THEN [topic |-> topic, alias |-> alias, table |-> table]
     ELSE IF alias # 0 THEN Using(topic, alias)
     ELSE IF known # 0 /\ mode # "plain" THEN Using(None, known)
     ELSE IF mode = "map" THEN Using(topic, LruAlias(table))
     ELSE [topic |-> topic, alias |-> 0, table |-> table]

\* Mutant: the message is stored as it is.
StoredAsIs(topic, alias, id, about) == PublishPacket(topic, alias, id, about, FALSE)
\* store_topic_alias: the topic is recovered. The alias stays: remove_prop
\* compares begin() with begin() (v5_message.hpp:942).
Stored(topic, alias, id, about) == PublishPacket(about, alias, id, about, FALSE)

\* preprocess_publish_message, and the write, which does nothing when there is
\* no connection (connected_) and which nobody reads when that has been cut.
Sends(topic, alias, about, qos, written) ==
  LET id == IF qos = 0 THEN 0 ELSE published + 1 IN
    /\ published < MaxPubs /\ published' = published + 1
    /\ qos = 0 \/ Len(store) < MaxStored
    /\ store' = IF qos = 0 THEN store ELSE Append(store, Stored(topic, alias, id, about))
    /\ table' = written.table
    /\ wire' = IF link \in {"connecting", "up"}
               THEN Append(wire, PublishPacket(written.topic, written.alias, id, about, link = "connecting"))
               ELSE wire
    /\ last' = Idle
    /\ UNCHANGED <<mode, link, conns, receiver, answers>>

\* With a topic, and with an alias the application chooses, or 0.
PublishTopic(topic, alias, qos) == Sends(topic, alias, topic, qos, Applied(topic, alias))

\* With an alias only: one that is not registered throws protocol_error.
PublishByAlias(alias, qos) ==
  /\ TopicOf(table, alias) # None
  /\ Sends(None, alias, TopicOf(table, alias), qos,
           [topic |-> None, alias |-> alias, table |-> Touched(table, alias)])

\* process_publish: learn the alias or resolve it, and acknowledge. With one
\* that is not known the receiver goes no further, and reads nothing more.
Receive ==
  /\ link \in {"connecting", "up"} /\ reading /\ wire # <<>>
  /\ LET p == Head(wire)
         topic == IF p.topic # None THEN p.topic ELSE IF recvMax = 0 THEN None ELSE Known(map, p.alias)
     IN /\ map' = IF p.topic # None /\ p.alias # 0 /\ recvMax # 0 THEN Learned(map, p.topic, p.alias)
                  ELSE map
        /\ last' = [topic |-> IF topic = None THEN "refused" ELSE topic, about |-> p.about, early |-> p.early]
        /\ reading' = (topic # None)
        /\ answers' = IF p.id # 0 /\ topic # None THEN Append(answers, p.id) ELSE answers
  /\ wire' = Tail(wire)
  /\ UNCHANGED <<mode, link, conns, table, recvMax, store, published>>

\* process_puback. Before CONNACK it is an error, and nothing more is read.
ProcessPuback ==
  /\ link = "up" /\ answers # <<>>
  /\ LET acked == {n \in DOMAIN store : store[n].id = Head(answers)} IN
       store' = IF acked = {} THEN store ELSE RemoveAt(store, CHOOSE n \in acked : TRUE)
  /\ answers' = Tail(answers) /\ last' = Idle
  /\ UNCHANGED <<mode, link, conns, table, receiver, wire, published>>

-----------------------------------------------------------------------------
\* The connection ends; the sender notices it, or disconnects by itself
\* (handle_close_or_error, force_disconnect): its table is cleared.
Cut ==
  /\ link \in {"connecting", "up"} /\ link' = "cut"
  /\ wire' = <<>> /\ answers' = <<>> /\ last' = Idle
  /\ map' = <<>> /\ recvMax' = 0 /\ reading' = TRUE
  /\ UNCHANGED <<mode, conns, table, store, published>>
HandleCloseOrError ==
  /\ link = "cut" /\ link' = "down"
  /\ table' = EmptyTable(table.max)
  /\ UNCHANGED <<mode, conns, receiver, store, wire, answers, published, last>>

\* connect_impl: there is a connection (set_connect) and CONNECT is sent. The
\* sender's table is still the one of the last connection, with what was
\* published since; the receiver has none.
Connect ==
  /\ link = "down" /\ conns < MaxConns
  /\ link' = "connecting" /\ conns' = conns + 1 /\ last' = Idle
  /\ UNCHANGED <<mode, table, receiver, store, wire, answers, published>>

\* send_connack of the receiver: from now on it has a table
\* (update_topic_alias_maximum_recv). It may have read publishes before.
SendConnack(max) ==
  /\ link = "connecting" /\ \A n \in DOMAIN answers : answers[n] # Connack
  /\ max = 0 => table.max = 0
  /\ recvMax' = max /\ map' = <<>> /\ answers' = Append(answers, Connack) /\ last' = Idle
  /\ UNCHANGED <<mode, link, conns, table, reading, store, wire, published>>

\* Mutant: a table that exists is kept.
TableForKept(max) == IF table.max > 0 THEN table ELSE EmptyTable(max)
\* A new table if aliases are taken.
TableFor(max) == IF max > 0 THEN EmptyTable(max) ELSE table

\* process_connack: the stored messages are sent again, as they are, and the
\* sender takes a new table.
ProcessConnack ==
  /\ link = "connecting" /\ answers # <<>> /\ Head(answers) = Connack
  /\ link' = "up" /\ answers' = Tail(answers)
  /\ wire' = wire \o store /\ table' = TableFor(recvMax) /\ last' = Idle
  /\ UNCHANGED <<mode, conns, receiver, store, published>>

Next ==
  \/ \E topic \in Topics, alias \in 0..table.max, qos \in {0, 1} : PublishTopic(topic, alias, qos)
  \/ \E alias \in 1..table.max, qos \in {0, 1} : PublishByAlias(alias, qos)
  \/ Receive \/ ProcessPuback
  \/ Cut \/ HandleCloseOrError
  \/ Connect \/ (\E max \in Maxima : SendConnack(max)) \/ ProcessConnack

Spec == Init /\ [][Next]_vars

-----------------------------------------------------------------------------
\* What an alias will mean to the receiver once it has read what is under way.
WillBe(alias) ==
  LET named == {n \in DOMAIN wire : wire[n].alias = alias /\ wire[n].topic # None}
  IN IF named = {} THEN Known(map, alias) ELSE wire[Max(named)].topic

\* From CONNACK on the tables agree across everything under way: each alias the
\* sender has in its table will mean the same topic to the receiver when the
\* next packet gets there. So the sender may leave the topic out at any moment:
\* after remapping an alias, with messages sent again under aliases of an
\* earlier connection, and although packets from before CONNACK, under aliases
\* of the old table, are still to be read.
TablesAgree ==
  link = "up" =>
    \A n \in DOMAIN table.entries : WillBe(table.entries[n].alias) = table.entries[n].topic

\* A message never reaches the receiver's handler under another topic than the
\* application meant, however aliases are given to other topics and whenever it
\* is sent again. And it is refused for an alias that is not known only if it
\* was published between CONNECT and CONNACK, when the sender leaves topics out
\* by its old table: what that got while there was no connection, or before the
\* receiver had a table, the receiver has not learned.
AliasResolves ==
  \/ last.topic = last.about
  \/ last.topic = "refused" /\ last.early

\* Whatever topics and aliases are combined, there is one to give to the next
\* topic: get_lru_alias dereferences the first entry when no alias is vacant
\* (topic_alias_send.hpp:111). And no alias and no topic has two entries.
AliasAvailable ==
  table.max > 0 =>
    /\ table.vacant # {} \/ table.entries # <<>>
    /\ \A m, n \in DOMAIN table.entries :
         LET e == table.entries[m] other == table.entries[n] IN
           /\ e.alias \notin table.vacant
           /\ e.alias = other.alias \/ e.topic = other.topic => m = n
=============================================================================
