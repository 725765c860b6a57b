----------------------------- MODULE TopicAlias -----------------------------
(***************************************************************************)
(* The tables of MQTT 5 topic aliases, src/vrpc/mqtt/topic_alias_send.hpp  *)
(* and topic_alias_recv.hpp. A sending table remembers which alias stands  *)
(* for which topic on this connection; its entries are kept in the order   *)
(* of their use, and vacant is what its value allocator has left.          *)
(***************************************************************************)
EXTENDS Naturals, Sequences, SequencesExt

None == "none"      \* no topic, no table

AliasEntry(alias, topic) == [alias |-> alias, topic |-> topic]
EmptyTable(max) == [entries |-> <<>>, vacant |-> 1..max, max |-> max]

Named(table, alias) == {n \in DOMAIN table.entries : table.entries[n].alias = alias}
About(table, topic) == {n \in DOMAIN table.entries : table.entries[n].topic = topic}

\* find by alias: it counts as a use.
TopicOf(table, alias) ==
  IF Named(table, alias) = {} THEN None
  ELSE table.entries[CHOOSE n \in Named(table, alias) : TRUE].topic

\* An alias has one entry at most.
Without(table, alias) ==
  IF Named(table, alias) = {} THEN table.entries
  ELSE RemoveAt(table.entries, CHOOSE n \in Named(table, alias) : TRUE)

Touched(table, alias) ==
  [table EXCEPT !.entries =
     Append(Without(table, alias), @[CHOOSE n \in Named(table, alias) : TRUE])]

\* find by topic: 0 for none. It does not count as a use.
AliasOf(table, topic) ==
  IF About(table, topic) = {} THEN 0
  ELSE table.entries[CHOOSE n \in About(table, topic) : TRUE].alias

\* Mutant: the value allocator is not told.
InsertOrUpdateUntold(table, topic, alias) ==
  LET others == Without(table, alias)
      elsewhere == \E n \in DOMAIN others : others[n].topic = topic
  IN [table EXCEPT !.entries = IF elsewhere THEN others ELSE Append(others, AliasEntry(alias, topic))]
\* Topics are unique: a new entry for a topic that has one is refused, and an
\* entry that is changed to such a topic is erased.
InsertOrUpdate(table, topic, alias) ==
  LET others == Without(table, alias)
      elsewhere == \E n \in DOMAIN others : others[n].topic = topic
  IN [table EXCEPT !.vacant = @ \ {alias},
                   !.entries = IF elsewhere THEN others
                               ELSE Append(others, AliasEntry(alias, topic))]

\* The first alias never used, or else the one whose last use is the oldest.
LruAlias(table) ==
  IF table.vacant # {} THEN CHOOSE a \in table.vacant : \A other \in table.vacant : a <= other
  ELSE Head(table.entries).alias

\* The receiving table: a plain map.
Learned(map, topic, alias) == [a \in DOMAIN map \cup {alias} |-> IF a = alias THEN topic ELSE map[a]]
Known(map, alias) == IF alias \in DOMAIN map THEN map[alias] ELSE None
=============================================================================
