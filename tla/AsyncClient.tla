---------------------------- MODULE AsyncClient ----------------------------
(***************************************************************************)
(* The asynchronous client: src/vrpc/mqtt/client.hpp (connection, timers)  *)
(* on endpoint.hpp (read loop, write queue), as async_client.hpp sets it   *)
(* up: every packet goes through the queue, pings included.                *)
(*                                                                         *)
(* One thread runs the handlers that are ready, in order. An operation     *)
(* that ends, or a timer that expires, makes its handler ready; cancelling *)
(* an operation whose handler is ready comes too late. The application     *)
(* connects again when it was told that the connection ended.              *)
(***************************************************************************)
EXTENDS Naturals, FiniteSets, Sequences, SequencesExt

CONSTANTS
  MaxConns,      \* bound: connections
  MaxPubs,       \* bound: messages published, named 1..MaxPubs
  MaxDrops,      \* bound: connections that break or fall silent
  MaxDisconnects, \* bound: calls of async_disconnect
  MaxReady,      \* bound: handlers ready when an operation ends, or one more when the
                 \* application acts
  MaxPings,      \* bound: pings on their way, posted to unanswered
  Size,          \* Size[n]: bytes of message n
  SmallSize,     \* bytes of any other packet
  MaxCount,      \* max_queue_send_count_, 0 for no limit
  MaxSize        \* max_queue_send_size_, 0 for no limit

\* A packet larger than MaxSize is never written: do_async_write then writes
\* nothing, again and again.
ASSUME ClientAssumption ==
  /\ MaxConns \in Nat /\ MaxPubs \in Nat /\ MaxDrops \in Nat
  /\ MaxDisconnects \in Nat /\ MaxPings \in Nat /\ MaxReady \in Nat \ {0}
  /\ Size \in [1..MaxPubs -> Nat] /\ SmallSize \in Nat
  /\ MaxCount \in Nat /\ MaxSize \in Nat
  /\ MaxSize = 0 \/ (SmallSize <= MaxSize /\ \A n \in 1..MaxPubs : Size[n] <= MaxSize)

VARIABLES
  conn,          \* number of the connection, 0 before the first
  connecting,    \* async_connect has not finished
  connected, mqttConnected, disconnectRequested, \* the flags of endpoint
  sock,          \* the client's socket is open
  reading,       \* a read is outstanding
  ended,         \* ended[k]: how often the end of connection k was reported
  timPing, timClose, timPingresp, \* timers that run
  timPingrespSet, \* tim_pingresp_set_
  queue,         \* queue_
  writing,       \* messages in the outstanding write, 0 for none
  posted, disconnects, \* messages published and async_disconnect called so far
  called,        \* called[n]: how often the handler of message n was called
  ready,         \* handlers that are ready to run
  wire, silent,  \* the connection is there; the broker does nothing any more
  owed,          \* what the broker has to answer
  arrived,       \* messages the broker has read, in order
  drops          \* connections broken or silent so far

connVars ==
  <<conn, connecting, connected, mqttConnected, disconnectRequested, sock, reading, ended>>
timerVars == <<timPing, timClose, timPingresp, timPingrespSet>>
queueVars == <<queue, writing, called>>
appVars == <<posted, disconnects>>
netVars == <<wire, silent, owed, arrived, drops>>
vars == <<connVars, timerVars, queueVars, appVars, ready, netVars>>

\* n is the message of a PUBLISH, 0 in any other packet.
Packet(kind) == [kind |-> kind, n |-> 0]
PublishPacket(n) == [kind |-> "publish", n |-> n]

\* Handlers: of a posted packet, of an operation (ok unless it failed) or of a
\* timer that expired.
Posted(packet) == [kind |-> "post", packet |-> packet]
Written(ok, count) == [kind |-> "written", ok |-> ok, count |-> count]
ReadDone(ok, kind) == [kind |-> "read", ok |-> ok, what |-> kind]
Simple(kind) == [kind |-> kind]

SizeOf(packet) == IF packet.kind = "publish" THEN Size[packet.n] ELSE SmallSize
Bytes(packets) == FoldLeft(LAMBDA sum, p : sum + SizeOf(p), 0, packets)

\* How many packets one write takes: as many as both limits allow.
Batch(q) ==
  LET most == IF MaxCount = 0 THEN Len(q) ELSE Min({MaxCount, Len(q)})
  IN Max({n \in 0..most : MaxSize = 0 \/ Bytes(SubSeq(q, 1, n)) <= MaxSize})

\* The messages among them, in order.
Numbers(packets) ==
  FoldLeft(LAMBDA numbers, p : IF p.kind = "publish" THEN Append(numbers, p.n) ELSE numbers,
           <<>>, packets)
Publishes(packets) == {packets[k].n : k \in DOMAIN packets} \ {0}
CalledFor(packets) == [n \in 1..MaxPubs |-> called[n] + (IF n \in Publishes(packets) THEN 1 ELSE 0)]

-----------------------------------------------------------------------------
Init ==
  /\ conn = 0 /\ connecting = FALSE
  /\ connected = FALSE /\ mqttConnected = FALSE /\ disconnectRequested = FALSE
  /\ sock = FALSE /\ reading = FALSE /\ ended = [k \in 1..MaxConns |-> 0]
  /\ timPing = FALSE /\ timClose = FALSE /\ timPingresp = FALSE /\ timPingrespSet = FALSE
  /\ queue = <<>> /\ writing = 0 /\ called = [n \in 1..MaxPubs |-> 0]
  /\ posted = 0 /\ disconnects = 0 /\ ready = <<>>
  /\ wire = FALSE /\ silent = FALSE /\ owed = <<>>
  /\ arrived = <<>> /\ drops = 0

(***************************************************************************)
(* The application.                                                        *)
(***************************************************************************)
MayConnect == ~connecting /\ \A k \in {conn} \ {0} : ended[k] > 0

\* async_connect: a new socket.
AsyncConnect ==
  /\ MayConnect /\ conn < MaxConns
  /\ conn' = conn + 1 /\ connecting' = TRUE /\ sock' = FALSE
  /\ wire' = FALSE
  /\ UNCHANGED <<connected, mqttConnected, disconnectRequested, reading, ended, timerVars,
                 queueVars, appVars, ready, silent, owed, arrived, drops>>

\* Not between async_connect and CONNACK. Messages of QoS 0.
MayPublish ==
  /\ Len(ready) <= MaxReady /\ posted < MaxPubs
  /\ ~connecting /\ (connected => mqttConnected)

\* async_publish: the packet is posted.
AsyncPublish ==
  /\ MayPublish
  /\ posted' = posted + 1
  /\ ready' = Append(ready, Posted(PublishPacket(posted + 1)))
  /\ UNCHANGED <<disconnects, connVars, timerVars, queueVars, netVars>>

\* async_disconnect(timeout).
AsyncDisconnect ==
  /\ Len(ready) <= MaxReady /\ connected /\ disconnects < MaxDisconnects
  /\ disconnects' = disconnects + 1
  /\ timPing' = FALSE /\ timClose' = TRUE
  /\ IF mqttConnected
     THEN /\ disconnectRequested' = TRUE
          /\ ready' = Append(ready, Posted(Packet("disconnect")))
     ELSE UNCHANGED <<disconnectRequested, ready>>
  /\ UNCHANGED <<conn, connecting, connected, mqttConnected, sock, reading, ended, timPingresp,
                 timPingrespSet, queueVars, posted, netVars>>

-----------------------------------------------------------------------------
(***************************************************************************)
(* The handlers. Each takes the first that is ready and leaves what it     *)
(* made ready behind the others.                                           *)
(***************************************************************************)
Runs(kind) == ready # <<>> /\ Head(ready).kind = kind
Leaves(handlers) == ready' = Tail(ready) \o handlers

\* Operations on a socket that is closed fail at once.
ReadOn(open) == reading' = open
ReadFailed(open) == IF open THEN <<>> ELSE <<ReadDone(FALSE, "")>>
\* do_async_write: on_pre_send starts the ping timer anew.
WriteOn(open, q) ==
  /\ timPing' = TRUE
  /\ writing' = IF open THEN Batch(q) ELSE 0
WriteFailed(open, q) == IF open THEN <<>> ELSE <<Written(FALSE, Batch(q))>>

\* What closing the socket makes of the operations that are outstanding.
Aborted(r, w) ==
  (IF r THEN <<ReadDone(FALSE, "")>> ELSE <<>>) \o (IF w > 0 THEN <<Written(FALSE, w)>> ELSE <<>>)

\* connect_impl: the socket is connected. The read loop starts, CONNECT is posted.
RunConnected ==
  /\ Runs("connected")
  /\ connecting' = FALSE /\ connected' = TRUE /\ timPing' = TRUE
  /\ ReadOn(sock)
  /\ Leaves(ReadFailed(sock) \o <<Posted(Packet("connect"))>>)
  /\ UNCHANGED <<conn, mqttConnected, disconnectRequested, sock, ended, timClose, timPingresp,
                 timPingrespSet, queueVars, appVars, netVars>>

\* Mutant: the queue is filled from its front.
RunPostInFront ==
  /\ Runs("post")
  /\ LET packet == Head(ready).packet IN
       IF connected
       THEN /\ queue' = <<packet>> \o queue
            /\ IF queue = <<>>
               THEN WriteOn(sock, queue') /\ Leaves(WriteFailed(sock, queue'))
               ELSE Leaves(<<>>) /\ UNCHANGED <<timPing, writing>>
            /\ UNCHANGED called
       ELSE /\ called' = CalledFor(<<packet>>)
            /\ Leaves(<<>>)
            /\ UNCHANGED <<queue, writing, timPing>>
  /\ UNCHANGED <<connVars, timClose, timPingresp, timPingrespSet, appVars, netVars>>

\* The posted part of do_async_write(mv, func). Without a connection there is nothing
\* to do, which counts as success.
RunPost ==
  /\ Runs("post")
  /\ LET packet == Head(ready).packet IN
       IF connected
       THEN /\ queue' = Append(queue, packet)
            /\ IF queue = <<>>
               THEN WriteOn(sock, queue') /\ Leaves(WriteFailed(sock, queue'))
               ELSE Leaves(<<>>) /\ UNCHANGED <<timPing, writing>>
            /\ UNCHANGED called
       ELSE /\ called' = CalledFor(<<packet>>)
            /\ Leaves(<<>>)
            /\ UNCHANGED <<queue, writing, timPing>>
  /\ UNCHANGED <<connVars, timClose, timPingresp, timPingrespSet, appVars, netVars>>

\* Mutant: the rest of the queue waits for the next packet.
RunWrittenStops ==
  /\ Runs("written")
  /\ LET h == Head(ready)
         rest == SubSeq(queue, h.count + 1, Len(queue)) IN
       IF h.ok /\ connected
       THEN /\ called' = CalledFor(SubSeq(queue, 1, h.count))
            /\ queue' = rest
            /\ Leaves(<<>>) /\ UNCHANGED <<timPing, writing>>
            /\ UNCHANGED connected
       ELSE /\ called' = CalledFor(queue)
            /\ connected' = FALSE /\ queue' = <<>>
            /\ Leaves(<<>>)
            /\ UNCHANGED <<timPing, writing>>
  /\ UNCHANGED <<conn, connecting, mqttConnected, disconnectRequested, sock, reading, ended,
                 timClose, timPingresp, timPingrespSet, appVars, netVars>>

\* Mutant: what is left in the queue is dropped without calling its handlers.
RunWrittenDrops ==
  /\ Runs("written")
  /\ LET h == Head(ready)
         rest == SubSeq(queue, h.count + 1, Len(queue)) IN
       IF h.ok /\ connected
       THEN /\ called' = CalledFor(SubSeq(queue, 1, h.count))
            /\ queue' = rest
            /\ IF rest # <<>>
               THEN WriteOn(sock, rest) /\ Leaves(WriteFailed(sock, rest))
               ELSE Leaves(<<>>) /\ UNCHANGED <<timPing, writing>>
            /\ UNCHANGED connected
       ELSE /\ UNCHANGED called
            /\ connected' = FALSE /\ queue' = <<>>
            /\ Leaves(<<>>)
            /\ UNCHANGED <<timPing, writing>>
  /\ UNCHANGED <<conn, connecting, mqttConnected, disconnectRequested, sock, reading, ended,
                 timClose, timPingresp, timPingrespSet, appVars, netVars>>

\* write_completion_handler. After an error, or when the connection has ended
\* meanwhile, what is left in the queue is dropped.
RunWritten ==
  /\ Runs("written")
  /\ LET h == Head(ready)
         rest == SubSeq(queue, h.count + 1, Len(queue)) IN
       IF h.ok /\ connected
       THEN /\ called' = CalledFor(SubSeq(queue, 1, h.count))
            /\ queue' = rest
            /\ IF rest # <<>>
               THEN WriteOn(sock, rest) /\ Leaves(WriteFailed(sock, rest))
               ELSE Leaves(<<>>) /\ UNCHANGED <<timPing, writing>>
            /\ UNCHANGED connected
       ELSE /\ called' = CalledFor(queue)
            /\ connected' = FALSE /\ queue' = <<>>
            /\ Leaves(<<>>)
            /\ UNCHANGED <<timPing, writing>>
  /\ UNCHANGED <<conn, connecting, mqttConnected, disconnectRequested, sock, reading, ended,
                 timClose, timPingresp, timPingrespSet, appVars, netVars>>

\* handle_close_or_error, when the connection is or has ended: on_close or on_error is
\* called, which stops the ping timer. The socket is closed unless connected_ was reset
\* by a failed write or by force_disconnect.
RunReadFails ==
  /\ Runs("read") /\ ~(Head(ready).ok /\ connected)
  /\ connected' = FALSE
  /\ mqttConnected' = (mqttConnected /\ ~connected)
  /\ sock' = (sock /\ ~connected)
  /\ Leaves(IF connected THEN Aborted(FALSE, writing) ELSE <<>>)
  /\ writing' = IF connected THEN 0 ELSE writing
  /\ disconnectRequested' = FALSE /\ timPing' = FALSE
  /\ ended' = [ended EXCEPT ![conn] = @ + 1]
  /\ UNCHANGED <<conn, connecting, reading, timClose, timPingresp, timPingrespSet, queue, called,
                 appVars, netVars>>

\* A packet: PINGRESP cancels the timer. Then the next read.
RunRead ==
  /\ Runs("read") /\ Head(ready).ok /\ connected
  /\ ReadOn(sock)
  /\ LET kind == Head(ready).what IN
       /\ mqttConnected' = (mqttConnected \/ kind = "connack")
       /\ timPingresp' = (timPingresp /\ kind # "pingresp")
       /\ Leaves(ReadFailed(sock) \o
                 IF kind = "pingresp" /\ timPingresp THEN <<Simple("pingresp cancelled")>> ELSE <<>>)
  /\ UNCHANGED <<conn, connecting, connected, disconnectRequested, sock, ended, timPing, timClose,
                 timPingrespSet, queueVars, appVars, netVars>>

\* handle_timer: async_pingreq, which does nothing before the CONNACK.
RunPing ==
  /\ Runs("ping")
  /\ LET pings == connected /\ mqttConnected IN
       /\ Leaves(IF pings THEN <<Posted(Packet("pingreq"))>> ELSE <<>>)
       /\ timPingresp' = (timPingresp \/ (pings /\ ~timPingrespSet))
       /\ timPingrespSet' = (timPingrespSet \/ pings)
  /\ UNCHANGED <<connVars, timPing, timClose, queueVars, appVars, netVars>>

\* Mutant: tim_pingresp_set_ is not reset.
RunPingrespStays ==
  /\ Runs("pingresp expired") \/ Runs("pingresp cancelled")
  /\ Leaves(IF Runs("pingresp expired") THEN <<Simple("endpoint force")>> ELSE <<>>)
  /\ UNCHANGED <<connVars, timPing, timClose, timPingresp, timPingrespSet, queueVars, appVars, netVars>>

\* tim_pingresp_: expired, or cancelled by a PINGRESP.
RunPingresp ==
  /\ Runs("pingresp expired") \/ Runs("pingresp cancelled")
  /\ timPingrespSet' = FALSE
  /\ Leaves(IF Runs("pingresp expired") THEN <<Simple("endpoint force")>> ELSE <<>>)
  /\ UNCHANGED <<connVars, timPing, timClose, timPingresp, queueVars, appVars, netVars>>

\* Mutant: the close timer is for a session only.
RunCloseInSession ==
  /\ Runs("close")
  /\ Leaves(IF mqttConnected THEN <<Simple("client force")>> ELSE <<>>)
  /\ UNCHANGED <<connVars, timerVars, queueVars, appVars, netVars>>

RunClose ==
  /\ Runs("close")
  /\ Leaves(<<Simple("client force")>>)
  /\ UNCHANGED <<connVars, timerVars, queueVars, appVars, netVars>>

\* Mutant: force_disconnect reports the end as well.
RunForceReports ==
  /\ Runs("endpoint force") \/ Runs("client force")
  /\ connected' = FALSE /\ mqttConnected' = FALSE /\ sock' = FALSE
  /\ reading' = FALSE /\ writing' = 0
  /\ Leaves(Aborted(reading, writing))
  /\ ended' = IF conn > 0 /\ connected THEN [ended EXCEPT ![conn] = @ + 1] ELSE ended
  /\ timPing' = (timPing /\ Runs("endpoint force"))
  /\ timClose' = (timClose /\ Runs("endpoint force"))
  /\ UNCHANGED <<conn, connecting, disconnectRequested, timPingresp, timPingrespSet, queue,
                 called, appVars, netVars>>

\* Mutant: the read that is outstanding is not cancelled.
RunForceReadsOn ==
  /\ Runs("endpoint force") \/ Runs("client force")
  /\ connected' = FALSE /\ mqttConnected' = FALSE /\ sock' = FALSE
  /\ UNCHANGED reading /\ writing' = 0
  /\ Leaves(Aborted(FALSE, writing))
  /\ timPing' = (timPing /\ Runs("endpoint force"))
  /\ timClose' = (timClose /\ Runs("endpoint force"))
  /\ UNCHANGED <<conn, connecting, disconnectRequested, ended, timPingresp, timPingrespSet, queue,
                 called, appVars, netVars>>

\* force_disconnect of the endpoint, or of the client, which cancels its two timers too.
\* The socket is the one of today's connection, whichever armed the timer.
RunForce ==
  /\ Runs("endpoint force") \/ Runs("client force")
  /\ connected' = FALSE /\ mqttConnected' = FALSE /\ sock' = FALSE
  /\ reading' = FALSE /\ writing' = 0
  /\ Leaves(Aborted(reading, writing))
  /\ timPing' = (timPing /\ Runs("endpoint force"))
  /\ timClose' = (timClose /\ Runs("endpoint force"))
  /\ UNCHANGED <<conn, connecting, disconnectRequested, ended, timPingresp, timPingrespSet, queue,
                 called, appVars, netVars>>

-----------------------------------------------------------------------------
(***************************************************************************)
(* The environment: operations end, timers expire, the broker answers.     *)
(***************************************************************************)
Expired(handler) == ready' = Append(ready, handler)
Readied(handler) == Len(ready) < MaxReady /\ Expired(handler)

\* The TCP connection is made; an attempt that fails is repeated.
ConnectSucceeds ==
  /\ connecting /\ \A n \in DOMAIN ready : ready[n].kind # "connected"
  /\ sock' = TRUE /\ wire' = TRUE /\ silent' = FALSE /\ owed' = <<>>
  /\ Readied(Simple("connected"))
  /\ UNCHANGED <<conn, connecting, connected, mqttConnected, disconnectRequested, reading, ended,
                 timerVars, queueVars, appVars, arrived, drops>>

\* A write ends: the packets went out, and the broker owes answers; or the connection
\* is gone.
WriteEnds ==
  /\ writing > 0
  /\ writing' = 0 /\ Readied(Written(wire, writing))
  /\ LET sent == IF wire THEN SubSeq(queue, 1, writing) ELSE <<>>
         others == SelectSeq(sent, LAMBDA p : p.kind # "publish")
     IN /\ arrived' = arrived \o Numbers(sent)
        /\ owed' = IF silent THEN owed ELSE owed \o [n \in DOMAIN others |-> others[n].kind]
  /\ UNCHANGED <<connVars, timerVars, queue, called, appVars, wire, silent, drops>>

\* The read fails when the connection is gone.
ReadEnds ==
  /\ reading /\ ~wire
  /\ reading' = FALSE /\ Readied(ReadDone(FALSE, ""))
  /\ UNCHANGED <<conn, connecting, connected, mqttConnected, disconnectRequested, sock, ended,
                 timerVars, queueVars, appVars, netVars>>

\* The broker answers a CONNECT or a PINGREQ, and the client's read ends with it.
BrokerAnswers ==
  /\ reading /\ wire /\ ~silent /\ owed # <<>> /\ Head(owed) # "disconnect"
  /\ owed' = Tail(owed)
  /\ reading' = FALSE
  /\ Readied(ReadDone(TRUE, IF Head(owed) = "connect" THEN "connack" ELSE "pingresp"))
  /\ UNCHANGED <<conn, connecting, connected, mqttConnected, disconnectRequested, sock, ended,
                 timerVars, queueVars, appVars, wire, silent, arrived, drops>>

\* A DISCONNECT makes it close the connection.
BrokerCloses ==
  /\ wire /\ ~silent /\ owed # <<>> /\ Head(owed) = "disconnect"
  /\ wire' = FALSE
  /\ UNCHANGED <<connVars, timerVars, queueVars, appVars, ready, silent, owed, arrived, drops>>

PingsOnTheirWay ==
  Cardinality({n \in DOMAIN ready : ready[n] = Posted(Packet("pingreq"))}) +
  Cardinality({n \in DOMAIN queue : queue[n].kind = "pingreq"}) +
  Cardinality({n \in DOMAIN owed : owed[n] = "pingreq"})

PingExpires ==
  /\ PingsOnTheirWay < MaxPings
  /\ timPing /\ timPing' = FALSE /\ Readied(Simple("ping"))
  /\ UNCHANGED <<connVars, timClose, timPingresp, timPingrespSet, queueVars, appVars, netVars>>

CloseExpires ==
  /\ timClose /\ timClose' = FALSE /\ Expired(Simple("close"))
  /\ UNCHANGED <<connVars, timPing, timPingresp, timPingrespSet, queueVars, appVars, netVars>>

PingrespExpires ==
  /\ timPingresp /\ timPingresp' = FALSE /\ Expired(Simple("pingresp expired"))
  /\ UNCHANGED <<connVars, timPing, timClose, timPingrespSet, queueVars, appVars, netVars>>

WireBreaks ==
  /\ wire /\ drops < MaxDrops
  /\ drops' = drops + 1 /\ wire' = FALSE
  /\ UNCHANGED <<connVars, timerVars, queueVars, appVars, ready, silent, owed, arrived>>

\* The broker is there and does nothing any more.
BrokerFallsSilent ==
  /\ wire /\ ~silent /\ drops < MaxDrops
  /\ drops' = drops + 1 /\ silent' = TRUE /\ owed' = <<>>
  /\ UNCHANGED <<connVars, timerVars, queueVars, appVars, ready, wire, arrived>>

-----------------------------------------------------------------------------
App == AsyncConnect \/ AsyncPublish \/ AsyncDisconnect
Handlers ==
  \/ RunConnected \/ RunPost \/ RunWritten \/ RunRead \/ RunReadFails
  \/ RunPing \/ RunPingresp \/ RunClose \/ RunForce
Expiries == PingExpires \/ CloseExpires \/ PingrespExpires

Next ==
  \/ App \/ Handlers \/ ConnectSucceeds \/ WriteEnds \/ ReadEnds \/ Expiries
  \/ BrokerAnswers \/ BrokerCloses \/ WireBreaks \/ BrokerFallsSilent

Spec == Init /\ [][Next]_vars

\* The application connects again, the event loop runs, time passes, small writes end
\* and a broker that is not silent answers.
Fairness ==
  /\ WF_vars(AsyncConnect) /\ WF_vars(Handlers) /\ WF_vars(ConnectSucceeds)
  /\ WF_vars(WriteEnds) /\ WF_vars(ReadEnds)
  /\ WF_vars(BrokerAnswers) /\ WF_vars(BrokerCloses)
  /\ WF_vars(PingExpires) /\ WF_vars(CloseExpires) /\ WF_vars(PingrespExpires)

FairSpec == Spec /\ Fairness

-----------------------------------------------------------------------------
Kinds == {"post", "written", "read", "ping", "pingresp expired", "pingresp cancelled", "close",
          "endpoint force", "client force", "connected"}
Ready(kind) == {n \in DOMAIN ready : ready[n].kind = kind}

\* A queue that is not empty has exactly one write outstanding or ended, of packets that
\* are in it ("Only need to start async writes if there was nothing in the queue",
\* endpoint.hpp:10211): no two writes overlap, and none is missing.
QueueIsServed ==
  LET writes == Cardinality(Ready("written")) + (IF writing > 0 THEN 1 ELSE 0) IN
    /\ writes = (IF queue = <<>> THEN 0 ELSE 1)
    /\ \A n \in Ready("written") : ready[n].count \in 1..Len(queue)

\* While a connection lasts exactly one read is outstanding or ended; its end is reported
\* once, by on_close or on_error, and never while the read loop goes on.
EndReportedOnce ==
  LET reads == Cardinality(Ready("read")) + (IF reading THEN 1 ELSE 0) IN
    /\ \A k \in 1..MaxConns : ended[k] <= 1
    /\ reads = (IF conn > 0 /\ ~connecting /\ ended[conn] = 0 THEN 1 ELSE 0)

\* The broker reads CONNECT first and the messages in the order they were published,
\* each at most once.
SentInOrder ==
  /\ \A n, k \in DOMAIN arrived : n < k => arrived[n] < arrived[k]
  /\ \A n \in DOMAIN queue : queue[n].kind = "connect" => n = 1

\* The handler of every message is called, whether it was sent or not: again and again,
\* none is outstanding.
HandlersCalled == []<>(\A n \in 1..posted : called[n] = 1)

\* Wherever a connection breaks or is closed, the application hears of it.
Ended == conn > 0 /\ ended[conn] = 1
EndIsReported == conn > 0 /\ ~connecting /\ ~(wire /\ sock) ~> Ended

\* A broker that falls silent on a connection that is pinged is noticed: "If the timer is
\* fired, then force_disconnect from the client side" (endpoint.hpp:4784).
SilenceIsNoticed == silent /\ connected /\ mqttConnected /\ timPing ~> Ended

\* A disconnect with a timeout ends the connection whatever the broker does: "after
\* timeout elapsed, force_disconnect() is automatically called" (client.hpp:738).
DisconnectEnds == connected /\ timClose ~> Ended
=============================================================================
