---------------------------- MODULE PacketChannel ----------------------------
(***************************************************************************)
(* What a connection promises of its packets: the handler is given every   *)
(* packet that was sent, once and in order. Readings(v, p) are the forms   *)
(* in which version v may hand over p.                                     *)
(***************************************************************************)
EXTENDS Naturals, Sequences

CONSTANTS Readings(_, _)

VARIABLES
  version,      \* of the protocol
  queue, last   \* the packets on their way; the last one handed over

Nobody == [type |-> "none"]

ChannelInit == queue = <<>> /\ last = Nobody

Put ==
  /\ Len(queue') = Len(queue) + 1 /\ SubSeq(queue', 1, Len(queue)) = queue
  /\ last' = Nobody /\ UNCHANGED version

Take ==
  /\ queue # <<>>
  /\ queue' = Tail(queue)
  /\ last' \in Readings(version, Head(queue)) /\ UNCHANGED version

ChannelSpec ==
  /\ ChannelInit /\ [][Put \/ Take]_<<version, queue, last>>
  /\ WF_<<version, queue, last>>(Take)
=============================================================================
