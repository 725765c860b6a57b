-------------------------- MODULE AsyncClientProofs --------------------------
(* The asynchronous client, for any number of connections, messages, breaks   *)
(* and disconnects, any sizes and any limits of the queue: one read while a   *)
(* connection lasts and one report of its end, one write while the queue is   *)
(* not empty, and messages that the broker reads in order and once.           *)
EXTENDS AsyncClient, CollectionLemmas

\* Handlers differ in shape, and nothing is said of what they carry.
IsSeq(s) == \E S : s \in Seq(S)
Zero(s, kind) == \A n \in 1..Len(s) : s[n].kind # kind
One(s, kind) ==
  \E n \in 1..Len(s) : s[n].kind = kind /\ \A m \in 1..Len(s) : s[m].kind = kind => m = n

-----------------------------------------------------------------------------
(* How many handlers of a kind are ready.                                    *)
LEMMA Concatenated ==
  ASSUME NEW x, IsSeq(x), NEW y, IsSeq(y)
  PROVE  /\ IsSeq(x \o y) /\ Len(x) \in Nat /\ Len(y) \in Nat /\ Len(x \o y) = Len(x) + Len(y)
         /\ \A n \in 1..(Len(x) + Len(y)) :
              (x \o y)[n] = IF n <= Len(x) THEN x[n] ELSE y[n - Len(x)]
<1>1. PICK S : x \in Seq(S)
  BY DEF IsSeq
<1>2. PICK T : y \in Seq(T)
  BY DEF IsSeq
<1> DEFINE U == S \cup T
<1>3. x \in Seq(U)
  BY <1>1
<1>4. y \in Seq(U)
  BY <1>2
<1> HIDE DEF U
<1>5. x \o y \in Seq(U)
  BY <1>3, <1>4
<1> QED BY <1>3, <1>4, <1>5, ConcatProperties DEF IsSeq

LEMMA ConcatenatedKinds ==
  ASSUME NEW x, IsSeq(x), NEW y, IsSeq(y), NEW kind
  PROVE  /\ Zero(x, kind) /\ Zero(y, kind) => Zero(x \o y, kind)
         /\ Zero(x, kind) /\ One(y, kind) => One(x \o y, kind)
         /\ One(x, kind) /\ Zero(y, kind) => One(x \o y, kind)
<1> DEFINE z == x \o y
<1>1. /\ Len(x) \in Nat /\ Len(y) \in Nat /\ Len(z) = Len(x) + Len(y)
      /\ \A n \in 1..(Len(x) + Len(y)) : z[n] = IF n <= Len(x) THEN x[n] ELSE y[n - Len(x)]
  BY Concatenated
<1> HIDE DEF z
<1>2. \A n \in 1..Len(x) : n \in 1..Len(z) /\ z[n] = x[n]
  BY <1>1
<1>3. \A n \in 1..Len(y) : Len(x) + n \in 1..Len(z) /\ z[Len(x) + n] = y[n]
  BY <1>1
<1>4. \A n \in 1..Len(z) : n \in 1..Len(x) \/ n - Len(x) \in 1..Len(y)
  BY <1>1
<1>5. \A n \in 1..Len(z) : n \notin 1..Len(x) => z[n] = y[n - Len(x)]
  BY <1>1
<1>6. Zero(x, kind) /\ Zero(y, kind) => Zero(z, kind)
  BY <1>2, <1>4, <1>5 DEF Zero
<1>7. ASSUME Zero(x, kind), One(y, kind) PROVE One(z, kind)
  <2>1. PICK n \in 1..Len(y) : y[n].kind = kind /\ \A m \in 1..Len(y) : y[m].kind = kind => m = n
    BY <1>7 DEF One
  <2>2. ASSUME NEW m \in 1..Len(z), z[m].kind = kind PROVE m = Len(x) + n
    <3>1. m \notin 1..Len(x)
      BY <1>2, <1>7, <2>2 DEF Zero
    <3>2. m - Len(x) \in 1..Len(y) /\ y[m - Len(x)].kind = kind
      BY <1>4, <1>5, <2>2, <3>1
    <3>3. m - Len(x) = n
      BY <2>1, <3>2
    <3> QED BY <1>1, <3>3
  <2> QED BY <1>3, <2>1, <2>2 DEF One
<1>8. ASSUME One(x, kind), Zero(y, kind) PROVE One(z, kind)
  <2>1. PICK n \in 1..Len(x) : x[n].kind = kind /\ \A m \in 1..Len(x) : x[m].kind = kind => m = n
    BY <1>8 DEF One
  <2>2. ASSUME NEW m \in 1..Len(z), z[m].kind = kind PROVE m = n
    <3>1. m \in 1..Len(x)
      BY <1>4, <1>5, <1>8, <2>2 DEF Zero
    <3> QED BY <1>2, <2>1, <2>2, <3>1
  <2> QED BY <1>2, <2>1, <2>2 DEF One
<1> QED BY <1>6, <1>7, <1>8 DEF z

LEMMA EmptyKinds == IsSeq(<<>>) /\ \A kind : Zero(<<>>, kind)
BY DEF IsSeq, Zero

LEMMA SingleKinds ==
  ASSUME NEW h, NEW kind
  PROVE  /\ IsSeq(<<h>>)
         /\ h.kind # kind => Zero(<<h>>, kind)
         /\ h.kind = kind => One(<<h>>, kind)
<1> DEFINE s == <<h>>
<1>1. s \in Seq({h}) /\ Len(s) = 1 /\ s[1] = h
  OBVIOUS
<1> HIDE DEF s
<1>2. IsSeq(s)
  BY <1>1 DEF IsSeq
<1>3. \A n \in 1..Len(s) : n = 1
  BY <1>1
<1>4. h.kind # kind => Zero(s, kind)
  BY <1>1, <1>3 DEF Zero
<1>5. 1 \in 1..Len(s)
  BY <1>1
<1>6. h.kind = kind => One(s, kind)
  BY <1>1, <1>3, <1>5 DEF One
<1> QED BY <1>2, <1>4, <1>6 DEF s

LEMMA RestKinds ==
  ASSUME NEW s, IsSeq(s), s # <<>>, NEW kind
  PROVE  /\ IsSeq(Tail(s))
         /\ Zero(s, kind) => Head(s).kind # kind /\ Zero(Tail(s), kind)
         /\ One(s, kind) /\ Head(s).kind = kind => Zero(Tail(s), kind)
         /\ One(s, kind) /\ Head(s).kind # kind => One(Tail(s), kind)
<1>1. PICK S : s \in Seq(S)
  BY DEF IsSeq
<1>2. /\ Tail(s) \in Seq(S) /\ Head(s) = s[1] /\ Len(s) \in Nat /\ Len(s) > 0
      /\ Len(Tail(s)) = Len(s) - 1
      /\ \A n \in 1..(Len(s) - 1) : Tail(s)[n] = s[n + 1]
  BY <1>1
<1> DEFINE t == Tail(s)
<1> HIDE DEF t
<1>3. \A n \in 1..Len(t) : n + 1 \in 1..Len(s) /\ n + 1 # 1 /\ t[n] = s[n + 1]
  BY <1>2 DEF t
<1>4. \A n \in 1..Len(s) : n # 1 => n - 1 \in 1..Len(t) /\ t[n - 1] = s[n]
  <2> SUFFICES ASSUME NEW n \in 1..Len(s), n # 1
               PROVE  n - 1 \in 1..Len(t) /\ t[n - 1] = s[n]
    OBVIOUS
  <2>1. n - 1 \in 1..Len(t) /\ (n - 1) + 1 = n
    BY <1>2 DEF t
  <2> QED BY <1>3, <2>1
<1>5. Zero(s, kind) => Head(s).kind # kind /\ Zero(t, kind)
  BY <1>2, <1>3 DEF Zero
<1>6. ASSUME One(s, kind) PROVE IF Head(s).kind = kind THEN Zero(t, kind) ELSE One(t, kind)
  <2>1. PICK n \in 1..Len(s) : s[n].kind = kind /\ \A m \in 1..Len(s) : s[m].kind = kind => m = n
    BY <1>6 DEF One
  <2>2. CASE n = 1
    BY <1>2, <1>3, <2>1, <2>2 DEF Zero
  <2>3. CASE n # 1
    <3>1. n - 1 \in 1..Len(t) /\ t[n - 1].kind = kind
      BY <1>4, <2>1, <2>3
    <3>2. ASSUME NEW m \in 1..Len(t), t[m].kind = kind PROVE m = n - 1
      <4>1. m + 1 = n
        BY <1>3, <2>1, <3>2
      <4> QED BY <4>1
    <3>3. Head(s).kind # kind
      BY <1>2, <2>1, <2>3
    <3> QED BY <3>1, <3>2, <3>3 DEF One
  <2> QED BY <2>2, <2>3
<1> QED BY <1>2, <1>5, <1>6 DEF IsSeq, t

-----------------------------------------------------------------------------
(* What a step makes ready: nothing that concerns the read loop or the       *)
(* attempt to connect, or one read that has ended.                           *)
Other(s) == IsSeq(s) /\ Zero(s, "read") /\ Zero(s, "connected")
OneRead(s) == IsSeq(s) /\ One(s, "read") /\ Zero(s, "connected")

LEMMA HandlerKinds ==
  /\ \A p : Other(<<Posted(p)>>)
  /\ \A ok, count : Other(<<Written(ok, count)>>)
  /\ \A kind : kind \notin {"read", "connected"} => Other(<<Simple(kind)>>)
  /\ \A ok, what : OneRead(<<ReadDone(ok, what)>>)
  /\ Other(<<>>)
<1>1. ASSUME NEW h, h.kind \notin {"read", "connected"} PROVE Other(<<h>>)
  BY <1>1, SingleKinds DEF Other
<1>2. ASSUME NEW h, h.kind = "read" PROVE OneRead(<<h>>)
  BY <1>2, SingleKinds DEF OneRead
<1>3. /\ \A p : Posted(p).kind = "post"
      /\ \A ok, count : Written(ok, count).kind = "written"
      /\ \A kind : Simple(kind).kind = kind
      /\ \A ok, what : ReadDone(ok, what).kind = "read"
  BY DEF Posted, Written, Simple, ReadDone
<1>4. Other(<<>>)
  BY EmptyKinds DEF Other
<1>5. \A p : Other(<<Posted(p)>>)
  <2> TAKE p
  <2>1. Posted(p).kind \notin {"read", "connected"}
    BY <1>3
  <2> QED BY <1>1, <2>1
<1>6. \A ok, count : Other(<<Written(ok, count)>>)
  <2> TAKE ok, count
  <2>1. Written(ok, count).kind \notin {"read", "connected"}
    BY <1>3
  <2> QED BY <1>1, <2>1
<1>7. \A kind : kind \notin {"read", "connected"} => Other(<<Simple(kind)>>)
  <2> SUFFICES ASSUME NEW kind, kind \notin {"read", "connected"} PROVE Other(<<Simple(kind)>>)
    OBVIOUS
  <2>1. Simple(kind).kind \notin {"read", "connected"}
    BY <1>3
  <2> QED BY <1>1, <2>1
<1>8. \A ok, what : OneRead(<<ReadDone(ok, what)>>)
  BY <1>2, <1>3
<1> QED BY <1>4, <1>5, <1>6, <1>7, <1>8

LEMMA JoinedKinds ==
  ASSUME NEW x, NEW y, Other(y)
  PROVE  /\ Other(x) => Other(x \o y)
         /\ OneRead(x) => OneRead(x \o y)
<1>1. ASSUME IsSeq(x) PROVE IsSeq(x \o y)
  BY <1>1, Concatenated DEF Other
<1> QED BY <1>1, ConcatenatedKinds DEF Other, OneRead

LEMMA AbortedKinds ==
  /\ \A open : IF open THEN Other(ReadFailed(open)) ELSE OneRead(ReadFailed(open))
  /\ \A open, q : Other(WriteFailed(open, q))
  /\ \A r, w : IF r THEN OneRead(Aborted(r, w)) ELSE Other(Aborted(r, w))
<1>1. \A open : IF open THEN Other(ReadFailed(open)) ELSE OneRead(ReadFailed(open))
  BY HandlerKinds DEF ReadFailed
<1>2. \A open, q : Other(WriteFailed(open, q))
  BY HandlerKinds DEF WriteFailed
<1>3. ASSUME NEW r, NEW w PROVE IF r THEN OneRead(Aborted(r, w)) ELSE Other(Aborted(r, w))
  <2> DEFINE read == IF r THEN <<ReadDone(FALSE, "")>> ELSE <<>>
             write == IF w > 0 THEN <<Written(FALSE, w)>> ELSE <<>>
  <2>1. Other(write)
    BY HandlerKinds
  <2>2. IF r THEN OneRead(read) ELSE Other(read)
    BY HandlerKinds
  <2>3. Aborted(r, w) = read \o write
    BY DEF Aborted
  <2> HIDE DEF read, write
  <2> QED BY <2>1, <2>2, <2>3, JoinedKinds
<1> QED BY <1>1, <1>2, <1>3

\* What becomes of the handlers that are ready when one runs, or when one is added.
LEMMA LeftKinds ==
  ASSUME IsSeq(ready), ready # <<>>, NEW s, IsSeq(s), Leaves(s), NEW kind
  PROVE  /\ IsSeq(ready')
         /\ Head(ready).kind # kind /\ Zero(s, kind) =>
              /\ Zero(ready, kind) => Zero(ready', kind)
              /\ One(ready, kind) => One(ready', kind)
         /\ Head(ready).kind # kind /\ Zero(ready, kind) /\ One(s, kind) => One(ready', kind)
         /\ Head(ready).kind = kind /\ One(ready, kind) =>
              /\ Zero(s, kind) => Zero(ready', kind)
              /\ One(s, kind) => One(ready', kind)
         /\ Head(ready).kind = kind => ~Zero(ready, kind)
<1> DEFINE t == Tail(ready)
<1>1. ready' = t \o s
  BY DEF Leaves
<1>2. /\ IsSeq(t)
      /\ Zero(ready, kind) => Head(ready).kind # kind /\ Zero(t, kind)
      /\ One(ready, kind) /\ Head(ready).kind = kind => Zero(t, kind)
      /\ One(ready, kind) /\ Head(ready).kind # kind => One(t, kind)
  BY RestKinds
<1> HIDE DEF t
<1>3. IsSeq(t \o s)
  BY <1>2, Concatenated
<1>4. /\ Zero(t, kind) /\ Zero(s, kind) => Zero(t \o s, kind)
      /\ Zero(t, kind) /\ One(s, kind) => One(t \o s, kind)
      /\ One(t, kind) /\ Zero(s, kind) => One(t \o s, kind)
  BY <1>2, ConcatenatedKinds
<1> QED BY <1>1, <1>2, <1>3, <1>4

LEMMA AddedKinds ==
  ASSUME IsSeq(ready), NEW h, ready' = Append(ready, h), NEW kind
  PROVE  /\ IsSeq(ready')
         /\ h.kind # kind /\ Zero(ready, kind) => Zero(ready', kind)
         /\ h.kind # kind /\ One(ready, kind) => One(ready', kind)
         /\ h.kind = kind /\ Zero(ready, kind) => One(ready', kind)
<1>1. PICK S : ready \in Seq(S)
  BY DEF IsSeq
<1>2. ready' = ready \o <<h>>
  <2> DEFINE U == S \cup {h}
  <2>1. ready \in Seq(U)
    BY <1>1
  <2>2. h \in U
    OBVIOUS
  <2> HIDE DEF U
  <2> QED BY <2>1, <2>2, AppendIsConcat
<1> DEFINE s == <<h>>
<1>3. /\ IsSeq(s)
      /\ h.kind # kind => Zero(s, kind)
      /\ h.kind = kind => One(s, kind)
  BY SingleKinds
<1>4. ready' = ready \o s
  BY <1>2
<1> HIDE DEF s
<1>5. /\ Zero(ready, kind) /\ Zero(s, kind) => Zero(ready \o s, kind)
      /\ Zero(ready, kind) /\ One(s, kind) => One(ready \o s, kind)
      /\ One(ready, kind) /\ Zero(s, kind) => One(ready \o s, kind)
  BY <1>3, ConcatenatedKinds
<1>6. IsSeq(ready \o s)
  BY <1>3, Concatenated
<1> QED BY <1>3, <1>4, <1>5, <1>6

-----------------------------------------------------------------------------
(* The invariant.                                                            *)

\* The connection has come to an end or lasts, and its end was not reported.
Expecting == conn > 0 /\ ~connecting /\ ended[conn] = 0

ClientTypes == IsSeq(ready) /\ connecting \in BOOLEAN /\ reading \in BOOLEAN /\ sock \in BOOLEAN

ReadLoop ==
  /\ Expecting /\ reading => Zero(ready, "read")
  /\ Expecting /\ ~reading => One(ready, "read")
  /\ ~Expecting => ~reading /\ Zero(ready, "read")

\* Before its first read a connection is being made, and its success is ready once at most.
Attempt ==
  /\ connecting => conn > 0 /\ ended[conn] = 0
  /\ Zero(ready, "connected") \/ (connecting /\ One(ready, "connected"))

Reports ==
  /\ conn \in 0..MaxConns /\ ended \in [1..MaxConns -> {0, 1}]
  /\ \A k \in 1..MaxConns : k > conn => ended[k] = 0

ReadInv == ClientTypes /\ ReadLoop /\ Attempt /\ Reports

LEMMA ReadInvInit == ClientAssumption /\ Init => ReadInv
<1> SUFFICES ASSUME ClientAssumption, Init PROVE ReadInv
  OBVIOUS
<1>1. ready = <<>> /\ IsSeq(ready) /\ Zero(ready, "read") /\ Zero(ready, "connected")
  BY EmptyKinds DEF Init
<1>2. conn = 0 /\ ~connecting /\ ~reading /\ ~sock /\ MaxConns \in Nat
      /\ ended = [k \in 1..MaxConns |-> 0] /\ connecting = FALSE /\ reading = FALSE /\ sock = FALSE
  BY DEF Init, ClientAssumption
<1>3. Reports
  BY <1>2 DEF Reports
<1>4. ClientTypes
  BY <1>1, <1>2, Zenon DEF ClientTypes
<1>5. ReadLoop
  BY <1>1, <1>2 DEF ReadLoop, Expecting
<1>6. Attempt
  BY <1>1, <1>2 DEF Attempt
<1> QED BY <1>3, <1>4, <1>5, <1>6 DEF ReadInv

\* A step that changes neither the connection nor what is read.
LEMMA QuietStep ==
  ASSUME ReadInv, UNCHANGED <<conn, connecting, reading, sock, ended>>, IsSeq(ready'),
         \A kind \in {"read", "connected"} : /\ Zero(ready, kind) => Zero(ready', kind)
                                             /\ One(ready, kind) => One(ready', kind)
  PROVE  ReadInv'
<1>1. /\ Zero(ready, "read") => Zero(ready', "read")
      /\ One(ready, "read") => One(ready', "read")
      /\ Zero(ready, "connected") => Zero(ready', "connected")
      /\ One(ready, "connected") => One(ready', "connected")
  OBVIOUS
<1>2. ClientTypes' /\ Reports'
  BY DEF ReadInv, ClientTypes, Reports
<1>3. ReadLoop'
  BY <1>1 DEF ReadInv, ReadLoop, Expecting
<1>4. Attempt'
  BY <1>1 DEF ReadInv, Attempt
<1> QED BY <1>2, <1>3, <1>4 DEF ReadInv

LEMMA SameReady ==
  ASSUME ReadInv, UNCHANGED <<conn, connecting, reading, sock, ended, ready>>
  PROVE  ReadInv'
<1>1. IsSeq(ready')
  BY DEF ReadInv, ClientTypes
<1> QED BY <1>1, QuietStep

LEMMA QuietAdd ==
  ASSUME ReadInv, UNCHANGED <<conn, connecting, reading, sock, ended>>,
         NEW h, h.kind \notin {"read", "connected"}, ready' = Append(ready, h)
  PROVE  ReadInv'
<1>1. IsSeq(ready)
  BY DEF ReadInv, ClientTypes
<1>2. \A kind \in {"read", "connected"} : /\ IsSeq(ready')
                                          /\ Zero(ready, kind) => Zero(ready', kind)
                                          /\ One(ready, kind) => One(ready', kind)
  BY <1>1, AddedKinds
<1> QED BY <1>2, QuietStep

LEMMA QuietRun ==
  ASSUME ReadInv, UNCHANGED <<conn, connecting, reading, sock, ended>>,
         NEW kind, kind \notin {"read", "connected"}, Runs(kind), NEW s, Other(s), Leaves(s)
  PROVE  ReadInv'
<1>1. IsSeq(ready) /\ ready # <<>> /\ Head(ready).kind \notin {"read", "connected"} /\ IsSeq(s)
  BY DEF ReadInv, ClientTypes, Runs, Other
<1>2. \A k \in {"read", "connected"} : /\ IsSeq(ready')
                                       /\ Zero(ready, k) => Zero(ready', k)
                                       /\ One(ready, k) => One(ready', k)
  <2> TAKE k \in {"read", "connected"}
  <2>1. Zero(s, k) /\ Head(ready).kind # k
    BY <1>1 DEF Other
  <2> QED BY <1>1, <2>1, LeftKinds
<1> QED BY <1>2, QuietStep

-----------------------------------------------------------------------------
(* The steps.                                                                *)
LEMMA AppKeeps == ASSUME ClientAssumption, ReadInv, App PROVE ReadInv'
<1>0. MaxConns \in Nat
  BY DEF ClientAssumption
<1>1. CASE AsyncConnect
  <2>1. /\ ~connecting /\ (conn # 0 => ended[conn] > 0) /\ conn < MaxConns
        /\ conn' = conn + 1 /\ connecting' = TRUE /\ sock' = FALSE
        /\ UNCHANGED <<reading, ended, ready>>
    BY <1>1 DEF AsyncConnect, MayConnect
  <2>2. conn \in 0..MaxConns /\ ended \in [1..MaxConns -> {0, 1}]
        /\ \A k \in 1..MaxConns : k > conn => ended[k] = 0
    BY DEF ReadInv, Reports
  <2>3. ~Expecting /\ ended[conn + 1] = 0 /\ conn + 1 > 0 /\ conn + 1 \in 0..MaxConns
    <3>1. conn + 1 \in 1..MaxConns
      BY <1>0, <2>1, <2>2
    <3>2. conn + 1 > conn /\ conn + 1 > 0
      BY <2>2
    <3> QED BY <2>1, <2>2, <3>1, <3>2 DEF Expecting
  <2>4. ClientTypes'
    BY <2>1 DEF ReadInv, ClientTypes
  <2>5. Reports'
    <3>1. \A k \in 1..MaxConns : k > conn + 1 => k > conn
      BY <2>2
    <3> QED BY <2>1, <2>2, <2>3, <3>1 DEF Reports
  <2>6. ReadLoop' /\ Attempt'
    BY <2>1, <2>3 DEF ReadInv, ReadLoop, Attempt, Expecting
  <2> QED BY <2>4, <2>5, <2>6 DEF ReadInv
<1>2. CASE AsyncPublish
  <2>1. Posted(PublishPacket(posted + 1)).kind \notin {"read", "connected"}
    BY DEF Posted
  <2> QED BY <1>2, <2>1, QuietAdd DEF AsyncPublish, connVars
<1>3. CASE AsyncDisconnect
  <2>1. Posted(Packet("disconnect")).kind \notin {"read", "connected"}
    BY DEF Posted
  <2>2. UNCHANGED <<conn, connecting, reading, sock, ended>>
        /\ (ready' = ready \/ ready' = Append(ready, Posted(Packet("disconnect"))))
    BY <1>3 DEF AsyncDisconnect
  <2> QED BY <2>1, <2>2, QuietAdd, SameReady
<1> QED BY <1>1, <1>2, <1>3 DEF App

\* Handlers that leave the connection as it is.
LEMMA QuietHandlers ==
  ASSUME ReadInv, RunPost \/ RunWritten \/ RunPing \/ RunPingresp \/ RunClose
  PROVE  ReadInv'
<1>1. CASE RunPost
  <2>1. Runs("post") /\ UNCHANGED <<conn, connecting, reading, sock, ended>>
        /\ \E s : Other(s) /\ Leaves(s)
    BY <1>1, HandlerKinds, AbortedKinds DEF RunPost, connVars
  <2> QED BY <2>1, QuietRun
<1>2. CASE RunWritten
  <2>1. Runs("written") /\ UNCHANGED <<conn, connecting, reading, sock, ended>>
        /\ \E s : Other(s) /\ Leaves(s)
    BY <1>2, HandlerKinds, AbortedKinds DEF RunWritten
  <2> QED BY <2>1, QuietRun
<1>3. CASE RunPing
  <2>1. Runs("ping") /\ UNCHANGED <<conn, connecting, reading, sock, ended>>
        /\ \E s : Other(s) /\ Leaves(s)
    BY <1>3, HandlerKinds DEF RunPing, connVars
  <2> QED BY <2>1, QuietRun
<1>4. CASE RunPingresp
  <2>1. (Runs("pingresp expired") \/ Runs("pingresp cancelled"))
        /\ UNCHANGED <<conn, connecting, reading, sock, ended>>
        /\ (Leaves(<<Simple("endpoint force")>>) \/ Leaves(<<>>))
    BY <1>4 DEF RunPingresp, connVars
  <2>2. Other(<<Simple("endpoint force")>>) /\ Other(<<>>)
    BY HandlerKinds
  <2> QED BY <2>1, <2>2, QuietRun
<1>5. CASE RunClose
  <2>1. Runs("close") /\ UNCHANGED <<conn, connecting, reading, sock, ended>>
        /\ Leaves(<<Simple("client force")>>)
    BY <1>5 DEF RunClose, connVars
  <2>2. Other(<<Simple("client force")>>)
    BY HandlerKinds
  <2> QED BY <2>1, <2>2, QuietRun
<1> QED BY <1>1, <1>2, <1>3, <1>4, <1>5

\* connect_impl: the first read is outstanding, or has failed at once.
LEMMA ConnectedKeeps == ASSUME ReadInv, RunConnected PROVE ReadInv'
<1>1. /\ IsSeq(ready) /\ ready # <<>> /\ Head(ready).kind = "connected"
      /\ connecting' = FALSE /\ reading' = sock /\ UNCHANGED <<conn, sock, ended>>
      /\ Leaves(ReadFailed(sock) \o <<Posted(Packet("connect"))>>)
  BY DEF RunConnected, ReadInv, ClientTypes, Runs, ReadOn
<1> DEFINE s == ReadFailed(sock) \o <<Posted(Packet("connect"))>>
<1>2. IF sock THEN Other(s) ELSE OneRead(s)
  BY HandlerKinds, AbortedKinds, JoinedKinds
<1>3. Leaves(s)
  BY <1>1
<1> HIDE DEF s
<1>4. IsSeq(s) /\ Zero(s, "connected") /\ (sock => Zero(s, "read")) /\ (~sock => One(s, "read"))
  BY <1>2 DEF Other, OneRead
<1>5. connecting /\ One(ready, "connected") /\ conn > 0 /\ ended[conn] = 0
  BY <1>1, <1>3, <1>4, LeftKinds DEF ReadInv, Attempt
<1>6. Zero(ready, "read")
  BY <1>5 DEF ReadInv, ReadLoop, Expecting
<1>7. IsSeq(ready') /\ Zero(ready', "connected")
  BY <1>1, <1>3, <1>4, <1>5, LeftKinds
<1>8. (sock => Zero(ready', "read")) /\ (~sock => One(ready', "read"))
  BY <1>1, <1>3, <1>4, <1>6, LeftKinds
<1>9. ClientTypes' /\ Reports'
  BY <1>1, <1>7 DEF ReadInv, ClientTypes, Reports
<1>10. ReadLoop' /\ Attempt'
  BY <1>1, <1>5, <1>7, <1>8 DEF ReadLoop, Attempt, Expecting
<1> QED BY <1>9, <1>10 DEF ReadInv

\* The next read takes the place of the one that ended.
LEMMA ReadKeeps == ASSUME ReadInv, RunRead PROVE ReadInv'
<1> DEFINE more == IF Head(ready).what = "pingresp" /\ timPingresp
                   THEN <<Simple("pingresp cancelled")>> ELSE <<>>
           s == ReadFailed(sock) \o more
<1>1. /\ IsSeq(ready) /\ ready # <<>> /\ Head(ready).kind = "read"
      /\ reading' = sock /\ UNCHANGED <<conn, connecting, sock, ended>> /\ Leaves(s)
  BY DEF RunRead, ReadInv, ClientTypes, Runs, ReadOn
<1>2. Other(more)
  BY HandlerKinds
<1> HIDE DEF more
<1>3. IF sock THEN Other(s) ELSE OneRead(s)
  BY <1>2, AbortedKinds, JoinedKinds
<1> HIDE DEF s
<1>4. IsSeq(s) /\ Zero(s, "connected") /\ (sock => Zero(s, "read")) /\ (~sock => One(s, "read"))
  BY <1>3 DEF Other, OneRead
<1>5. ~Zero(ready, "read")
  BY <1>1, <1>4, LeftKinds
<1>6. Expecting /\ ~reading /\ One(ready, "read")
  BY <1>5 DEF ReadInv, ReadLoop
<1>7. /\ IsSeq(ready') /\ (Zero(ready, "connected") => Zero(ready', "connected"))
      /\ (sock => Zero(ready', "read")) /\ (~sock => One(ready', "read"))
  BY <1>1, <1>4, <1>6, LeftKinds
<1>8. Zero(ready, "connected") /\ ~connecting
  BY <1>6 DEF ReadInv, Attempt, Expecting
<1>9. ClientTypes' /\ Reports'
  BY <1>1, <1>7 DEF ReadInv, ClientTypes, Reports
<1>10. ReadLoop' /\ Attempt'
  BY <1>1, <1>6, <1>7, <1>8 DEF ReadLoop, Attempt, Expecting
<1> QED BY <1>9, <1>10 DEF ReadInv

\* The only step that reports the end, when no other read can end any more.
LEMMA ReadFailsKeeps == ASSUME ReadInv, RunReadFails PROVE ReadInv'
<1> DEFINE s == IF connected THEN Aborted(FALSE, writing) ELSE <<>>
<1>1. /\ IsSeq(ready) /\ ready # <<>> /\ Head(ready).kind = "read" /\ Leaves(s)
      /\ ended' = [ended EXCEPT ![conn] = @ + 1] /\ sock' = (sock /\ ~connected)
      /\ UNCHANGED <<conn, connecting, reading>>
  BY DEF RunReadFails, ReadInv, ClientTypes, Runs
<1>2. Other(s)
  BY HandlerKinds, AbortedKinds
<1> HIDE DEF s
<1>3. IsSeq(s) /\ Zero(s, "connected") /\ Zero(s, "read")
  BY <1>2 DEF Other
<1>4. ~Zero(ready, "read")
  BY <1>1, <1>3, LeftKinds
<1>5. Expecting /\ ~reading /\ One(ready, "read")
  BY <1>4 DEF ReadInv, ReadLoop
<1>6. Zero(ready, "connected") /\ ~connecting
  BY <1>5 DEF ReadInv, Attempt, Expecting
<1>7. IsSeq(ready') /\ Zero(ready', "connected") /\ Zero(ready', "read")
  BY <1>1, <1>3, <1>5, <1>6, LeftKinds
<1>8. ended' \in [1..MaxConns -> {0, 1}] /\ ended'[conn] = 1
      /\ \A k \in 1..MaxConns : k # conn => ended'[k] = ended[k]
  <2>1. conn \in 1..MaxConns /\ ended[conn] = 0 /\ ended \in [1..MaxConns -> {0, 1}]
    BY <1>5 DEF ReadInv, Reports, Expecting
  <2>2. ended' = [ended EXCEPT ![conn] = 1]
    BY <1>1, <2>1
  <2> QED BY <2>1, <2>2
<1>9. Reports'
  <2>1. \A k \in 1..MaxConns : k > conn => k # conn /\ ended[k] = 0
    BY DEF ReadInv, Reports
  <2> QED BY <1>1, <1>8, <2>1 DEF ReadInv, Reports
<1>10. ClientTypes'
  <2>1. sock' \in BOOLEAN
    BY <1>1
  <2> QED BY <1>1, <1>7, <2>1 DEF ReadInv, ClientTypes
<1>11. ReadLoop' /\ Attempt'
  BY <1>1, <1>5, <1>6, <1>7, <1>8 DEF ReadLoop, Attempt, Expecting
<1> QED BY <1>9, <1>10, <1>11 DEF ReadInv

\* force_disconnect: the read that is outstanding fails.
LEMMA ForceKeeps == ASSUME ReadInv, RunForce PROVE ReadInv'
<1> DEFINE s == Aborted(reading, writing)
<1>1. /\ IsSeq(ready) /\ ready # <<>> /\ Leaves(s)
      /\ Head(ready).kind # "read" /\ Head(ready).kind # "connected"
      /\ sock' = FALSE /\ reading' = FALSE /\ UNCHANGED <<conn, connecting, ended>>
  BY DEF RunForce, ReadInv, ClientTypes, Runs
<1>2. IF reading THEN OneRead(s) ELSE Other(s)
  BY AbortedKinds
<1> HIDE DEF s
<1>3. IsSeq(s) /\ Zero(s, "connected") /\ (reading => One(s, "read")) /\ (~reading => Zero(s, "read"))
  BY <1>2 DEF Other, OneRead
<1>4. /\ IsSeq(ready') /\ (Zero(ready, "connected") => Zero(ready', "connected"))
      /\ (One(ready, "connected") => One(ready', "connected"))
  BY <1>1, <1>3, LeftKinds
<1>5. /\ reading /\ Zero(ready, "read") => One(ready', "read")
      /\ ~reading /\ Zero(ready, "read") => Zero(ready', "read")
      /\ ~reading /\ One(ready, "read") => One(ready', "read")
  BY <1>1, <1>3, LeftKinds
<1>6. ClientTypes' /\ Reports'
  BY <1>1, <1>4 DEF ReadInv, ClientTypes, Reports
<1>7. ReadLoop'
  BY <1>1, <1>5 DEF ReadInv, ReadLoop, Expecting
<1>8. Attempt'
  BY <1>1, <1>4 DEF ReadInv, Attempt
<1> QED BY <1>6, <1>7, <1>8 DEF ReadInv

LEMMA ConnectSucceedsKeeps == ASSUME ReadInv, ConnectSucceeds PROVE ReadInv'
<1> DEFINE h == Simple("connected")
<1>1. /\ IsSeq(ready) /\ connecting /\ ready' = Append(ready, h) /\ sock' = TRUE
      /\ \A n \in DOMAIN ready : ready[n].kind # "connected"
      /\ UNCHANGED <<conn, connecting, reading, ended>>
  BY DEF ConnectSucceeds, ReadInv, ClientTypes, Readied, Expired
<1>2. h.kind = "connected"
  BY DEF Simple
<1> HIDE DEF h
<1>3. Zero(ready, "connected")
  BY <1>1 DEF IsSeq, Zero
<1>4. IsSeq(ready') /\ One(ready', "connected")
  BY <1>1, <1>2, <1>3, AddedKinds
<1>5. ~Expecting /\ ~reading /\ Zero(ready, "read")
  BY <1>1 DEF ReadInv, ReadLoop, Expecting
<1>6. h.kind # "read"
  BY <1>2
<1>7. Zero(ready', "read")
  BY <1>1, <1>5, <1>6, AddedKinds
<1>8. ClientTypes' /\ Reports'
  BY <1>1, <1>4 DEF ReadInv, ClientTypes, Reports
<1>9. ReadLoop' /\ Attempt'
  BY <1>1, <1>4, <1>5, <1>7 DEF ReadInv, ReadLoop, Attempt, Expecting
<1> QED BY <1>8, <1>9 DEF ReadInv

\* The read that is outstanding ends.
LEMMA ReadEndsKeeps ==
  ASSUME ReadInv, reading, reading' = FALSE, UNCHANGED <<conn, connecting, sock, ended>>,
         NEW ok, NEW what, ready' = Append(ready, ReadDone(ok, what))
  PROVE  ReadInv'
<1> DEFINE h == ReadDone(ok, what)
<1>1. IsSeq(ready) /\ h.kind = "read" /\ ready' = Append(ready, h)
  BY DEF ReadDone, ReadInv, ClientTypes
<1> HIDE DEF h
<1>2. Expecting /\ Zero(ready, "read")
  BY DEF ReadInv, ReadLoop
<1>3. h.kind # "connected"
  BY <1>1
<1>4. IsSeq(ready') /\ One(ready', "read")
  BY <1>1, <1>2, AddedKinds
<1>5. Zero(ready, "connected") /\ ~connecting
  BY <1>2 DEF ReadInv, Attempt, Expecting
<1>6. Zero(ready', "connected")
  BY <1>1, <1>3, <1>5, AddedKinds
<1>7. ClientTypes' /\ Reports'
  BY <1>4 DEF ReadInv, ClientTypes, Reports
<1>8. ReadLoop' /\ Attempt'
  BY <1>2, <1>4, <1>5, <1>6 DEF ReadLoop, Attempt, Expecting
<1> QED BY <1>7, <1>8 DEF ReadInv

LEMMA ReadInvStep == ASSUME ClientAssumption, ReadInv, [Next]_vars PROVE ReadInv'
<1>1. CASE App
  BY <1>1, AppKeeps
<1>2. CASE Handlers
  BY <1>2, QuietHandlers, ConnectedKeeps, ReadKeeps, ReadFailsKeeps, ForceKeeps DEF Handlers
<1>3. CASE ConnectSucceeds
  BY <1>3, ConnectSucceedsKeeps
<1>4. CASE WriteEnds
  <2>1. Written(wire, writing).kind \notin {"read", "connected"}
    BY DEF Written
  <2> QED BY <1>4, <2>1, QuietAdd DEF WriteEnds, Readied, Expired, connVars
<1>5. CASE ReadEnds
  BY <1>5, ReadEndsKeeps DEF ReadEnds, Readied, Expired
<1>6. CASE BrokerAnswers
  BY <1>6, ReadEndsKeeps DEF BrokerAnswers, Readied, Expired
<1>7. CASE Expiries
  <2>1. /\ Simple("ping").kind \notin {"read", "connected"}
        /\ Simple("close").kind \notin {"read", "connected"}
        /\ Simple("pingresp expired").kind \notin {"read", "connected"}
    BY DEF Simple
  <2>2. UNCHANGED connVars
        /\ \/ ready' = Append(ready, Simple("ping"))
           \/ ready' = Append(ready, Simple("close"))
           \/ ready' = Append(ready, Simple("pingresp expired"))
    BY <1>7 DEF Expiries, PingExpires, CloseExpires, PingrespExpires, Readied, Expired
  <2> QED BY <2>1, <2>2, QuietAdd DEF connVars
<1>8. CASE BrokerCloses \/ WireBreaks \/ BrokerFallsSilent
  BY <1>8, SameReady DEF BrokerCloses, WireBreaks, BrokerFallsSilent, connVars
<1>9. CASE UNCHANGED vars
  BY <1>9, SameReady DEF vars, connVars
<1> QED BY <1>1, <1>2, <1>3, <1>4, <1>5, <1>6, <1>7, <1>8, <1>9 DEF Next

\* The counts of EndReportedOnce.
LEMMA CountsReads ==
  ASSUME IsSeq(ready)
  PROVE  /\ Zero(ready, "read") => Cardinality(Ready("read")) = 0
         /\ One(ready, "read") => Cardinality(Ready("read")) = 1
<1>1. Ready("read") = {n \in 1..Len(ready) : ready[n].kind = "read"}
  BY DEF IsSeq, Ready
<1>2. Zero(ready, "read") => Ready("read") = {}
  BY <1>1 DEF Zero
<1>3. One(ready, "read") => \E n : Ready("read") = {n}
  BY <1>1 DEF One
<1> QED BY <1>2, <1>3, FS_EmptySet, FS_Singleton

\* However connections are made, broken, closed by the broker, or cut by a timer that was
\* armed for an earlier one, handle_close_or_error (endpoint.hpp:4888) tells the application once
\* that a connection has ended, and until then the read loop has one read.
THEOREM EndReportedOnceHolds == Spec => []EndReportedOnce
<1>1. ClientAssumption
  BY ClientAssumption
<1>2. Spec => []ReadInv
  BY <1>1, ReadInvInit, ReadInvStep, PTL DEF Spec
<1>3. ReadInv => EndReportedOnce
  <2> SUFFICES ASSUME ReadInv PROVE EndReportedOnce
    OBVIOUS
  <2>1. IsSeq(ready) /\ ReadLoop /\ ended \in [1..MaxConns -> {0, 1}]
    BY DEF ReadInv, ClientTypes, Reports
  <2>2. \A k \in 1..MaxConns : ended[k] <= 1
    BY <2>1
  <2>3. CASE Expecting /\ reading
    BY <2>1, <2>2, <2>3, CountsReads DEF ReadLoop, EndReportedOnce, Expecting
  <2>4. CASE Expecting /\ ~reading
    BY <2>1, <2>2, <2>4, CountsReads DEF ReadLoop, EndReportedOnce, Expecting
  <2>5. CASE ~Expecting
    BY <2>1, <2>2, <2>5, CountsReads DEF ReadLoop, EndReportedOnce, Expecting
  <2> QED BY <2>3, <2>4, <2>5
<1> QED BY <1>2, <1>3, PTL
-----------------------------------------------------------------------------
(* The write queue.                                                          *)
Packets ==
  {[kind |-> "publish", n |-> n] : n \in 1..MaxPubs} \cup
  {[kind |-> kind, n |-> 0] : kind \in {"connect", "disconnect", "pingreq"}}

LEMMA SingleBytes ==
  ASSUME NEW p, DOMAIN p = {1}, SizeOf(p[1]) \in Nat
  PROVE  Bytes(p) = SizeOf(p[1])
<1> DEFINE F(h) == [s \in SUBSET {1} |->
                      IF s = {} THEN 0 ELSE h[s \ {Max(s)}] + SizeOf(p[Max(s)])]
           g == CHOOSE h : h = F(h)
<1>1. Bytes(p) = g[{1}]
  BY Zenon DEF Bytes, FoldLeft, MapThenFoldSet
<1>2. Max({1}) = 1
  BY DEF Max
<1>3. \A s \in SUBSET {1} : s = {} \/ s = {1}
  OBVIOUS
<1> DEFINE e == [s \in SUBSET {1} |-> IF s = {} THEN 0 ELSE SizeOf(p[1])]
<1>4. e = F(e)
  <2>1. \A s \in SUBSET {1} : s # {} => s = {1} /\ s \ {Max(s)} = {} /\ Max(s) = 1
    <3> SUFFICES ASSUME NEW s \in SUBSET {1}, s # {} PROVE s = {1} /\ s \ {Max(s)} = {} /\ Max(s) = 1
      OBVIOUS
    <3>1. s = {1}
      OBVIOUS
    <3>2. Max(s) = 1
      BY <1>2, <3>1
    <3> QED BY <3>1, <3>2
  <2>2. e[{}] = 0
    OBVIOUS
  <2>3. \A s \in SUBSET {1} :
          e[s] = IF s = {} THEN 0 ELSE e[s \ {Max(s)}] + SizeOf(p[Max(s)])
    <3> TAKE s \in SUBSET {1}
    <3>1. CASE s = {}
      BY <3>1
    <3>2. CASE s # {}
      <4>1. e[s] = SizeOf(p[1]) /\ SizeOf(p[1]) \in Nat
        BY <3>2
      <4>2. e[s \ {Max(s)}] = 0 /\ Max(s) = 1
        BY <2>1, <2>2, <3>2
      <4>3. SizeOf(p[Max(s)]) = SizeOf(p[1])
        BY <4>2
      <4>4. e[s \ {Max(s)}] + SizeOf(p[Max(s)]) = SizeOf(p[1])
        <5> HIDE DEF e
        <5>1. e[s \ {Max(s)}] = 0
          BY <4>2
        <5> QED BY <4>1, <4>3, <5>1
      <4> HIDE DEF e
      <4> QED BY <3>2, <4>1, <4>4
    <3> QED BY <3>1, <3>2
  <2>4. e = [s \in SUBSET {1} |-> e[s]]
    OBVIOUS
  <2> HIDE DEF e
  <2> QED BY <2>3, <2>4
<1>5. g = F(g)
  BY <1>4
<1>6. g[{}] = 0 /\ g[{1}] = g[{1} \ {Max({1})}] + SizeOf(p[Max({1})])
  <2>1. g[{}] = F(g)[{}] /\ g[{1}] = F(g)[{1}]
    BY <1>5
  <2> HIDE DEF g
  <2> QED BY <2>1
<1> HIDE DEF g
<1> QED BY <1>1, <1>2, <1>6

LEMMA PacketSizes ==
  ASSUME ClientAssumption, NEW p \in Packets
  PROVE  SizeOf(p) \in Nat /\ (MaxSize = 0 \/ SizeOf(p) <= MaxSize)
<1>1. CASE p.kind = "publish"
  <2>1. p.n \in 1..MaxPubs /\ SizeOf(p) = Size[p.n]
    BY <1>1 DEF Packets, SizeOf
  <2> QED BY <2>1 DEF ClientAssumption
<1>2. CASE p.kind # "publish"
  BY <1>2 DEF ClientAssumption, SizeOf
<1> QED BY <1>1, <1>2

\* A write takes at least one packet: the smallest write that both limits allow.
LEMMA BatchInQueue ==
  ASSUME ClientAssumption, NEW q \in Seq(Packets), q # <<>>
  PROVE  Batch(q) \in 1..Len(q)
<1>1. Len(q) \in Nat /\ Len(q) > 0 /\ q[1] \in Packets
  OBVIOUS
<1>2. SizeOf(q[1]) \in Nat /\ (MaxSize = 0 \/ SizeOf(q[1]) <= MaxSize)
  BY <1>1, PacketSizes
<1> DEFINE one == SubSeq(q, 1, 1)
<1>3. DOMAIN one = {1} /\ one[1] = q[1]
  <2> HIDE DEF Packets
  <2>1. one \in Seq(Packets) /\ Len(one) = 1 /\ one[1] = q[1]
    BY <1>1
  <2> QED BY <2>1
<1>4. Bytes(one) = SizeOf(q[1])
  <2> HIDE DEF one
  <2> QED BY <1>2, <1>3, SingleBytes
<1> DEFINE most == IF MaxCount = 0 THEN Len(q) ELSE Min({MaxCount, Len(q)})
<1>5. most \in 1..Len(q)
  <2>1. MaxCount \in Nat
    BY DEF ClientAssumption
  <2>2. \E a \in {MaxCount, Len(q)} : \A b \in {MaxCount, Len(q)} : a <= b
    BY <1>1, <2>1
  <2>3. Min({MaxCount, Len(q)}) \in {MaxCount, Len(q)}
        /\ \A b \in {MaxCount, Len(q)} : Min({MaxCount, Len(q)}) <= b
    BY <2>2 DEF Min
  <2> QED BY <1>1, <2>1, <2>3
<1> DEFINE allowed == {n \in 0..most : MaxSize = 0 \/ Bytes(SubSeq(q, 1, n)) <= MaxSize}
<1>6. 1 \in allowed
  BY <1>2, <1>4, <1>5
<1>7. most \in Nat /\ allowed \in SUBSET (0..most)
  BY <1>1, <1>5
<1>8. Batch(q) = Max(allowed)
  BY DEF Batch
<1> HIDE DEF allowed, most
<1>9. \E a \in allowed : \A other \in allowed : other <= a
  BY <1>6, <1>7, GreatestNumber
<1>10. \E a \in allowed : \A other \in allowed : a >= other
  BY <1>7, <1>9
<1>11. Max(allowed) \in allowed /\ Max(allowed) >= 1
  BY <1>6, <1>10 DEF Max
<1>12. Max(allowed) \in 0..most
  BY <1>7, <1>11
<1> QED BY <1>1, <1>5, <1>8, <1>11, <1>12


\* The packets that are posted, and the packets that a write which ended has taken
\* off a queue of k.
Fits(s, k) ==
  /\ IsSeq(s)
  /\ \A n \in 1..Len(s) : /\ s[n].kind = "post" => s[n].packet \in Packets
                          /\ s[n].kind = "written" => s[n].count \in 1..k

LEMMA FitsLonger ==
  ASSUME NEW s, NEW k \in Nat, NEW l \in Nat, Fits(s, k), k <= l \/ Zero(s, "written")
  PROVE  Fits(s, l)
<1>1. k <= l => 1..k \subseteq 1..l
  OBVIOUS
<1> QED BY <1>1 DEF Fits, Zero

LEMMA FitsJoined ==
  ASSUME NEW k, NEW x, Fits(x, k), NEW y, Fits(y, k)
  PROVE  Fits(x \o y, k)
<1> DEFINE z == x \o y
<1>1. /\ IsSeq(z) /\ Len(x) \in Nat /\ Len(y) \in Nat /\ Len(z) = Len(x) + Len(y)
      /\ \A n \in 1..(Len(x) + Len(y)) : z[n] = IF n <= Len(x) THEN x[n] ELSE y[n - Len(x)]
  BY Concatenated DEF Fits
<1> HIDE DEF z
<1>2. \A n \in 1..Len(z) : \/ n \in 1..Len(x) /\ z[n] = x[n]
                           \/ n - Len(x) \in 1..Len(y) /\ z[n] = y[n - Len(x)]
  BY <1>1
<1>3. Fits(z, k)
  BY <1>1, <1>2 DEF Fits
<1> QED BY <1>3 DEF z

LEMMA FitsSingle ==
  ASSUME NEW k, NEW h, h.kind = "post" => h.packet \in Packets, h.kind = "written" => h.count \in 1..k
  PROVE  Fits(<<h>>, k)
<1> DEFINE s == <<h>>
<1>1. s \in Seq({h}) /\ Len(s) = 1 /\ s[1] = h
  OBVIOUS
<1> HIDE DEF s
<1>2. IsSeq(s)
  BY <1>1 DEF IsSeq
<1>3. \A n \in 1..Len(s) : s[n] = h
  BY <1>1
<1>4. Fits(s, k)
  BY <1>2, <1>3 DEF Fits
<1> QED BY <1>4 DEF s

LEMMA FitsEmpty == \A k : Fits(<<>>, k)
BY EmptyKinds DEF Fits

LEMMA FitsRest ==
  ASSUME NEW k, NEW s, Fits(s, k), s # <<>>
  PROVE  /\ Fits(Tail(s), k)
         /\ Head(s).kind = "post" => Head(s).packet \in Packets
         /\ Head(s).kind = "written" => Head(s).count \in 1..k
<1>1. PICK S : s \in Seq(S)
  BY DEF Fits, IsSeq
<1>2. /\ Tail(s) \in Seq(S) /\ Head(s) = s[1] /\ 1 \in 1..Len(s)
      /\ \A n \in 1..Len(Tail(s)) : n + 1 \in 1..Len(s) /\ Tail(s)[n] = s[n + 1]
  BY <1>1, Taken
<1> QED BY <1>2 DEF Fits, IsSeq

\* A handler that runs or is added, next to a queue that is kept or grows.
LEMMA FitsLeft ==
  ASSUME NEW k, Fits(ready, k), ready # <<>>, NEW s, Fits(s, k), Leaves(s)
  PROVE  Fits(ready', k)
<1>1. Fits(Tail(ready), k)
  BY FitsRest
<1> QED BY <1>1, FitsJoined DEF Leaves

LEMMA FitsAdded ==
  ASSUME NEW k, Fits(ready, k), NEW h, ready' = Append(ready, h),
         h.kind = "post" => h.packet \in Packets, h.kind = "written" => h.count \in 1..k
  PROVE  Fits(ready', k)
<1>1. PICK S : ready \in Seq(S)
  BY DEF Fits, IsSeq
<1>2. ready' = ready \o <<h>>
  <2> DEFINE U == S \cup {h}
  <2>1. ready \in Seq(U)
    BY <1>1
  <2>2. h \in U
    OBVIOUS
  <2> HIDE DEF U
  <2> QED BY <2>1, <2>2, AppendIsConcat
<1> QED BY <1>2, FitsJoined, FitsSingle

\* One write for a queue that is not empty, none for one that is.
Served ==
  /\ queue = <<>> => writing = 0 /\ Zero(ready, "written")
  /\ queue # <<>> => \/ writing \in 1..Len(queue) /\ Zero(ready, "written")
                     \/ writing = 0 /\ One(ready, "written")

WriteInv ==
  /\ posted \in 0..MaxPubs /\ queue \in Seq(Packets) /\ sock \in BOOLEAN
  /\ Fits(ready, Len(queue)) /\ Served

\* What a step makes ready: no end of a write, or one that took c packets.
Idle(s) == Zero(s, "written") /\ \A k : Fits(s, k)
OneWrite(s, c) == One(s, "written") /\ \A k : c \in 1..k => Fits(s, k)

LEMMA IdleIsSeq == ASSUME NEW s, Idle(s) PROVE IsSeq(s)
BY DEF Idle, Fits

LEMMA SingleIdle ==
  ASSUME NEW h, h.kind # "written", h.kind = "post" => h.packet \in Packets
  PROVE  Idle(<<h>>)
<1>1. Zero(<<h>>, "written")
  BY SingleKinds
<1>2. \A k : Fits(<<h>>, k)
  BY FitsSingle
<1> QED BY <1>1, <1>2 DEF Idle

LEMMA HandlersFit ==
  /\ Idle(<<>>)
  /\ \A p \in Packets : Idle(<<Posted(p)>>)
  /\ \A kind : kind \notin {"written", "post"} => Idle(<<Simple(kind)>>)
  /\ \A ok, what : Idle(<<ReadDone(ok, what)>>)
  /\ \A ok, c : OneWrite(<<Written(ok, c)>>, c)
<1>1. Idle(<<>>)
  BY EmptyKinds, FitsEmpty DEF Idle
<1>2. \A p \in Packets : Idle(<<Posted(p)>>)
  <2> TAKE p \in Packets
  <2> DEFINE h == Posted(p)
  <2>1. h.kind = "post" /\ h.packet = p
    BY DEF Posted
  <2> HIDE DEF h
  <2>2. Idle(<<h>>)
    BY <2>1, SingleIdle
  <2> QED BY <2>2 DEF h
<1>3. ASSUME NEW kind, kind \notin {"written", "post"} PROVE Idle(<<Simple(kind)>>)
  <2> DEFINE h == Simple(kind)
  <2>1. h.kind = kind
    BY DEF Simple
  <2> HIDE DEF h
  <2>2. Idle(<<h>>)
    BY <1>3, <2>1, SingleIdle
  <2> QED BY <2>2 DEF h
<1>4. \A ok, what : Idle(<<ReadDone(ok, what)>>)
  <2> TAKE ok, what
  <2> DEFINE h == ReadDone(ok, what)
  <2>1. h.kind = "read"
    BY DEF ReadDone
  <2> HIDE DEF h
  <2>2. Idle(<<h>>)
    BY <2>1, SingleIdle
  <2> QED BY <2>2 DEF h
<1>5. \A ok, c : OneWrite(<<Written(ok, c)>>, c)
  <2> TAKE ok, c
  <2> DEFINE h == Written(ok, c)
  <2>1. h.kind = "written" /\ h.count = c
    BY DEF Written
  <2> HIDE DEF h
  <2>2. One(<<h>>, "written")
    BY <2>1, SingleKinds
  <2>3. \A k : c \in 1..k => Fits(<<h>>, k)
    BY <2>1, FitsSingle
  <2>4. OneWrite(<<h>>, c)
    BY <2>2, <2>3 DEF OneWrite
  <2> QED BY <2>4 DEF h
<1> QED BY <1>1, <1>2, <1>3, <1>4, <1>5

LEMMA JoinedFit ==
  ASSUME NEW x, Idle(x), NEW y
  PROVE  /\ Idle(y) => Idle(x \o y)
         /\ \A c : OneWrite(y, c) /\ IsSeq(y) => OneWrite(x \o y, c)
<1>1. IsSeq(x)
  BY IdleIsSeq
<1>2. ASSUME Idle(y) PROVE Idle(x \o y)
  <2>1. IsSeq(y)
    BY <1>2, IdleIsSeq
  <2>2. Zero(x \o y, "written")
    BY <1>1, <1>2, <2>1, ConcatenatedKinds DEF Idle
  <2>3. \A k : Fits(x \o y, k)
    BY <1>2, FitsJoined DEF Idle
  <2> QED BY <2>2, <2>3 DEF Idle
<1>3. ASSUME NEW c, OneWrite(y, c), IsSeq(y) PROVE OneWrite(x \o y, c)
  <2>1. One(x \o y, "written")
    BY <1>1, <1>3, ConcatenatedKinds DEF Idle, OneWrite
  <2>2. \A k : c \in 1..k => Fits(x \o y, k)
    BY <1>3, FitsJoined DEF Idle, OneWrite
  <2> QED BY <2>1, <2>2 DEF OneWrite
<1> QED BY <1>2, <1>3

LEMMA OperationsFit ==
  /\ \A open : Idle(ReadFailed(open))
  /\ \A open, q : IF open THEN Idle(WriteFailed(open, q)) ELSE OneWrite(WriteFailed(open, q), Batch(q))
  /\ \A r, w : IF w > 0 THEN OneWrite(Aborted(r, w), w) ELSE Idle(Aborted(r, w))
<1>1. \A open : Idle(ReadFailed(open))
  BY HandlersFit DEF ReadFailed
<1>2. \A open, q : IF open THEN Idle(WriteFailed(open, q))
                   ELSE OneWrite(WriteFailed(open, q), Batch(q))
  BY HandlersFit DEF WriteFailed
<1>3. ASSUME NEW r, NEW w PROVE IF w > 0 THEN OneWrite(Aborted(r, w), w) ELSE Idle(Aborted(r, w))
  <2> DEFINE read == IF r THEN <<ReadDone(FALSE, "")>> ELSE <<>>
             write == IF w > 0 THEN <<Written(FALSE, w)>> ELSE <<>>
  <2>1. Idle(read)
    BY HandlersFit
  <2>2. IF w > 0 THEN OneWrite(write, w) ELSE Idle(write)
    BY HandlersFit
  <2>3. IsSeq(write)
    BY SingleKinds, EmptyKinds
  <2>4. Aborted(r, w) = read \o write
    BY DEF Aborted
  <2> HIDE DEF read, write
  <2> QED BY <2>1, <2>2, <2>3, <2>4, JoinedFit
<1> QED BY <1>1, <1>2, <1>3

\* Steps that neither end nor begin a write.
LEMMA IdleRun ==
  ASSUME WriteInv, ready # <<>>, Head(ready).kind # "written", NEW s, Idle(s), Leaves(s),
         posted' \in 0..MaxPubs, queue' \in Seq(Packets), sock' \in BOOLEAN,
         writing' = writing, Len(queue) <= Len(queue'), queue = <<>> => queue' = <<>>
  PROVE  WriteInv'
<1>1. IsSeq(ready) /\ IsSeq(s) /\ Zero(s, "written") /\ Len(queue) \in Nat /\ Len(queue') \in Nat
  BY IdleIsSeq DEF WriteInv, Fits, Idle
<1>2. /\ Zero(ready, "written") => Zero(ready', "written")
      /\ One(ready, "written") => One(ready', "written")
  BY <1>1, LeftKinds
<1>3. Fits(ready, Len(queue'))
  BY <1>1, FitsLonger DEF WriteInv
<1>4. Fits(ready', Len(queue'))
  BY <1>3, FitsLeft DEF Idle
<1>5. queue # <<>> => queue' # <<>> /\ 1..Len(queue) \subseteq 1..Len(queue')
  <2> SUFFICES ASSUME queue # <<>> PROVE queue' # <<>> /\ 1..Len(queue) \subseteq 1..Len(queue')
    OBVIOUS
  <2>1. Len(queue) > 0
    BY DEF WriteInv
  <2>2. Len(queue') > 0
    BY <1>1, <2>1
  <2> QED BY <1>1, <2>2
<1>6. Served'
  BY <1>2, <1>5 DEF WriteInv, Served
<1> QED BY <1>4, <1>6 DEF WriteInv

LEMMA IdleAdd ==
  ASSUME WriteInv, NEW h, h.kind # "written", h.kind = "post" => h.packet \in Packets,
         ready' = Append(ready, h), posted' \in 0..MaxPubs, sock' \in BOOLEAN,
         UNCHANGED <<queue, writing>>
  PROVE  WriteInv'
<1>1. IsSeq(ready)
  BY DEF WriteInv, Fits
<1>2. /\ Zero(ready, "written") => Zero(ready', "written")
      /\ One(ready, "written") => One(ready', "written")
  BY <1>1, AddedKinds
<1>3. Fits(ready, Len(queue))
  BY DEF WriteInv
<1>4. Fits(ready', Len(queue))
  BY <1>3, FitsAdded
<1>5. Served'
  BY <1>2 DEF WriteInv, Served
<1> QED BY <1>4, <1>5 DEF WriteInv

LEMMA IdleStep ==
  ASSUME WriteInv, UNCHANGED <<ready, queue, writing>>, posted' \in 0..MaxPubs, sock' \in BOOLEAN
  PROVE  WriteInv'
BY DEF WriteInv, Served

\* A write begins, or fails at once.
LEMMA WriteBegins ==
  ASSUME ClientAssumption, WriteInv, ready # <<>>, Zero(Tail(ready), "written"),
         NEW q \in Seq(Packets), q # <<>>, queue' = q, WriteOn(sock, q),
         Leaves(WriteFailed(sock, q)), UNCHANGED <<posted, sock>>
  PROVE  WriteInv'
<1> DEFINE s == WriteFailed(sock, q)
<1>1. Batch(q) \in 1..Len(q) /\ Len(q) \in Nat /\ Len(queue) \in Nat
  BY BatchInQueue DEF WriteInv
<1>2. IF sock THEN Idle(s) ELSE OneWrite(s, Batch(q))
  BY OperationsFit
<1>3. ready' = Tail(ready) \o s /\ writing' = IF sock THEN Batch(q) ELSE 0
  BY DEF Leaves, WriteOn
<1> HIDE DEF s
<1>4. Fits(s, Len(q))
  BY <1>1, <1>2 DEF Idle, OneWrite
<1>5. Fits(Tail(ready), Len(q))
  <2>1. Fits(Tail(ready), Len(queue))
    BY FitsRest DEF WriteInv
  <2> QED BY <1>1, <2>1, FitsLonger
<1>6. Fits(ready', Len(q))
  BY <1>3, <1>4, <1>5, FitsJoined
<1>7. IsSeq(s) /\ IsSeq(Tail(ready))
  BY <1>4, <1>5 DEF Fits
<1>8. IF sock THEN Zero(ready', "written") ELSE One(ready', "written")
  BY <1>2, <1>3, <1>7, ConcatenatedKinds DEF Idle, OneWrite
<1>9. Served'
  BY <1>1, <1>3, <1>8 DEF Served
<1> QED BY <1>6, <1>9 DEF WriteInv

\* The queue is empty, and nothing is left to be written.
LEMMA WriteEmpties ==
  ASSUME WriteInv, ready # <<>>, Zero(Tail(ready), "written"), queue' = <<>>, writing' = 0,
         Leaves(<<>>), UNCHANGED <<posted, sock>>
  PROVE  WriteInv'
<1> DEFINE s == <<>>
<1>1. Fits(Tail(ready), Len(queue)) /\ Len(queue) \in Nat
  BY FitsRest DEF WriteInv
<1>2. Fits(Tail(ready), 0)
  BY <1>1, FitsLonger
<1>3. Fits(s, 0) /\ Zero(s, "written") /\ IsSeq(s)
  BY FitsEmpty, EmptyKinds
<1>4. ready' = Tail(ready) \o s
  BY DEF Leaves
<1> HIDE DEF s
<1>5. Fits(ready', 0)
  BY <1>2, <1>3, <1>4, FitsJoined
<1>6. IsSeq(Tail(ready))
  BY <1>2 DEF Fits
<1>7. Zero(ready', "written")
  BY <1>3, <1>4, <1>6, ConcatenatedKinds
<1>8. Served' /\ queue' \in Seq(Packets) /\ Len(queue') = 0
  BY <1>7 DEF Served
<1> QED BY <1>5, <1>8 DEF WriteInv

\* Closing the socket ends the write that is outstanding.
LEMMA WriteAborts ==
  ASSUME WriteInv, ready # <<>>, Head(ready).kind # "written", NEW r, Leaves(Aborted(r, writing)),
         writing' = 0, UNCHANGED <<posted, queue>>, sock' \in BOOLEAN
  PROVE  WriteInv'
<1> DEFINE s == Aborted(r, writing)
<1>1. IF writing > 0 THEN OneWrite(s, writing) ELSE Idle(s)
  BY OperationsFit
<1>2. Leaves(s)
  OBVIOUS
<1> HIDE DEF s
<1>3. Fits(ready, Len(queue)) /\ IsSeq(ready) /\ Len(queue) \in Nat
  BY DEF WriteInv, Fits
<1>4. writing > 0 => writing \in 1..Len(queue)
  BY DEF WriteInv, Served
<1>5. Fits(s, Len(queue))
  BY <1>1, <1>4 DEF Idle, OneWrite
<1>6. Fits(ready', Len(queue))
  BY <1>2, <1>3, <1>5, FitsLeft
<1>7. IsSeq(s)
  BY <1>5 DEF Fits
<1>8. /\ Zero(ready, "written") /\ ~(writing > 0) => Zero(ready', "written")
      /\ Zero(ready, "written") /\ writing > 0 => One(ready', "written")
      /\ One(ready, "written") /\ ~(writing > 0) => One(ready', "written")
  BY <1>1, <1>2, <1>3, <1>7, LeftKinds DEF Idle, OneWrite
<1>9. Served'
  BY <1>3, <1>8 DEF WriteInv, Served
<1> QED BY <1>6, <1>9 DEF WriteInv

LEMMA PostWrites == ASSUME ClientAssumption, WriteInv, RunPost PROVE WriteInv'
<1> DEFINE packet == Head(ready).packet
<1>1. ready # <<>> /\ Head(ready).kind = "post" /\ UNCHANGED <<posted, sock>>
  BY DEF RunPost, Runs, connVars, appVars
<1>2. packet \in Packets /\ IsSeq(ready) /\ sock' \in BOOLEAN /\ posted' \in 0..MaxPubs
  BY <1>1, FitsRest DEF WriteInv, Fits
<1>3. queue \in Seq(Packets)
  BY DEF WriteInv
<1>4. CASE connected /\ queue = <<>>
  <2>1. queue' = Append(queue, packet) /\ WriteOn(sock, queue') /\ Leaves(WriteFailed(sock, queue'))
    BY <1>4 DEF RunPost
  <2> HIDE DEF packet, Packets
  <2>2. queue' \in Seq(Packets) /\ queue' # <<>>
    BY <1>2, <1>3, <2>1
  <2>3. Zero(ready, "written")
    BY <1>4 DEF WriteInv, Served
  <2>4. Zero(Tail(ready), "written")
    BY <1>1, <1>2, <2>3, RestKinds
  <2> QED BY <1>1, <2>1, <2>2, <2>4, WriteBegins
<1>5. CASE connected /\ queue # <<>>
  <2>1. queue' = Append(queue, packet) /\ Leaves(<<>>) /\ writing' = writing
    BY <1>5 DEF RunPost
  <2> HIDE DEF packet, Packets
  <2>2. queue' \in Seq(Packets) /\ Len(queue) <= Len(queue')
    BY <1>2, <1>3, <2>1
  <2> QED BY <1>1, <1>2, <1>5, <2>1, <2>2, HandlersFit, IdleRun
<1>6. CASE ~connected
  <2>1. Leaves(<<>>) /\ UNCHANGED <<queue, writing>>
    BY <1>6 DEF RunPost
  <2>2. Len(queue) <= Len(queue')
    BY <1>3, <2>1
  <2> QED BY <1>1, <1>2, <1>3, <2>1, <2>2, HandlersFit, IdleRun
<1> QED BY <1>4, <1>5, <1>6

LEMMA WrittenWrites == ASSUME ClientAssumption, WriteInv, RunWritten PROVE WriteInv'
<1> DEFINE h == Head(ready)
           rest == SubSeq(queue, h.count + 1, Len(queue))
<1>1. ready # <<>> /\ h.kind = "written" /\ UNCHANGED <<posted, sock>>
  BY DEF RunWritten, Runs, appVars
<1>2. IsSeq(ready) /\ queue \in Seq(Packets) /\ h.count \in 1..Len(queue)
  BY <1>1, FitsRest DEF WriteInv, Fits
<1>3. ~Zero(ready, "written")
  BY <1>1, <1>2, RestKinds
<1>4. One(ready, "written") /\ writing = 0
  BY <1>3 DEF WriteInv, Served
<1>5. Zero(Tail(ready), "written")
  BY <1>1, <1>2, <1>4, RestKinds
<1>6. \/ rest # <<>> /\ queue' = rest /\ WriteOn(sock, rest) /\ Leaves(WriteFailed(sock, rest))
      \/ queue' = <<>> /\ Leaves(<<>>) /\ writing' = writing
  BY DEF RunWritten
<1>7. rest \in Seq(Packets)
  <2> HIDE DEF h, Packets
  <2>1. h.count + 1 \in 1..(Len(queue) + 1) /\ Len(queue) \in Nat
    BY <1>2
  <2> QED BY <1>2, <2>1
<1> HIDE DEF rest
<1> QED BY <1>1, <1>4, <1>5, <1>6, <1>7, WriteBegins, WriteEmpties

LEMMA EndWrites == ASSUME WriteInv, WriteEnds PROVE WriteInv'
<1> DEFINE h == Written(wire, writing)
<1>1. /\ writing > 0 /\ writing' = 0 /\ ready' = Append(ready, h)
      /\ UNCHANGED <<posted, queue, sock>>
  BY DEF WriteEnds, Readied, Expired, connVars, appVars
<1>2. h.kind = "written" /\ h.count = writing
  BY DEF Written
<1> HIDE DEF h
<1>3. writing \in 1..Len(queue) /\ Zero(ready, "written") /\ Fits(ready, Len(queue)) /\ queue # <<>>
  BY <1>1 DEF WriteInv, Served
<1>4. Fits(ready', Len(queue))
  BY <1>1, <1>2, <1>3, FitsAdded
<1>5. One(ready', "written")
  BY <1>1, <1>2, <1>3, AddedKinds DEF Fits
<1>6. Served'
  BY <1>1, <1>3, <1>5 DEF Served
<1> QED BY <1>1, <1>4, <1>6 DEF WriteInv

LEMMA OwnPackets ==
  /\ Packet("connect") \in Packets /\ Packet("disconnect") \in Packets
  /\ Packet("pingreq") \in Packets
  /\ \A n \in 1..MaxPubs : PublishPacket(n) \in Packets
BY DEF Packet, PublishPacket, Packets

LEMMA WriteInvInit == ClientAssumption /\ Init => WriteInv
<1> SUFFICES ASSUME ClientAssumption, Init PROVE WriteInv
  OBVIOUS
<1>1. ready = <<>> /\ queue = <<>> /\ writing = 0 /\ posted = 0 /\ sock = FALSE /\ MaxPubs \in Nat
  BY DEF Init, ClientAssumption
<1>2. Served
  BY <1>1, EmptyKinds DEF Served
<1>3. Fits(ready, Len(queue))
  BY <1>1, FitsEmpty
<1>4. posted \in 0..MaxPubs /\ queue \in Seq(Packets)
  BY <1>1
<1>5. sock \in BOOLEAN
  BY <1>1
<1> QED BY <1>2, <1>3, <1>4, <1>5 DEF WriteInv

LEMMA AppWrites == ASSUME ClientAssumption, WriteInv, App PROVE WriteInv'
<1>1. MaxPubs \in Nat /\ posted \in 0..MaxPubs /\ sock \in BOOLEAN
  BY DEF ClientAssumption, WriteInv
<1>2. CASE AsyncConnect
  <2>1. sock' = FALSE /\ posted' = posted /\ UNCHANGED <<ready, queue, writing>>
    BY <1>2 DEF AsyncConnect, queueVars, appVars
  <2> QED BY <1>1, <2>1, IdleStep
<1>3. CASE AsyncPublish
  <2> DEFINE h == Posted(PublishPacket(posted + 1))
  <2>1. /\ posted < MaxPubs /\ posted' = posted + 1 /\ ready' = Append(ready, h)
        /\ UNCHANGED <<queue, writing, sock>>
    BY <1>3 DEF AsyncPublish, MayPublish, queueVars, connVars
  <2>2. posted + 1 \in 1..MaxPubs /\ posted' \in 0..MaxPubs
    BY <1>1, <2>1
  <2>3. h.kind = "post" /\ h.packet = PublishPacket(posted + 1)
    BY DEF Posted
  <2> HIDE DEF h
  <2>4. h.packet \in Packets /\ h.kind # "written"
    BY <2>2, <2>3, OwnPackets
  <2> QED BY <1>1, <2>1, <2>2, <2>4, IdleAdd
<1>4. CASE AsyncDisconnect
  <2> DEFINE h == Posted(Packet("disconnect"))
  <2>1. /\ UNCHANGED <<queue, writing, posted, sock>>
        /\ ready' = ready \/ ready' = Append(ready, h)
    BY <1>4 DEF AsyncDisconnect, queueVars
  <2>2. h.kind = "post" /\ h.packet = Packet("disconnect")
    BY DEF Posted
  <2> HIDE DEF h
  <2>3. h.packet \in Packets /\ h.kind # "written"
    BY <2>2, OwnPackets
  <2> QED BY <1>1, <2>1, <2>3, IdleAdd, IdleStep
<1> QED BY <1>2, <1>3, <1>4 DEF App

\* Handlers that leave the queue and its write alone.
LEMMA IdleHandlers ==
  ASSUME WriteInv, RunConnected \/ RunRead \/ RunPing \/ RunPingresp \/ RunClose
  PROVE  WriteInv'
<1>1. ready # <<>> /\ Head(ready).kind # "written" /\ UNCHANGED <<queue, writing, posted, sock>>
  BY DEF RunConnected, RunRead, RunPing, RunPingresp, RunClose, Runs, connVars, queueVars, appVars
<1>2. \E s : Idle(s) /\ Leaves(s)
  <2>1. CASE RunConnected
    <3>1. Idle(<<Posted(Packet("connect"))>>)
      BY HandlersFit, OwnPackets
    <3>2. Idle(ReadFailed(sock) \o <<Posted(Packet("connect"))>>)
      BY <3>1, OperationsFit, JoinedFit
    <3> QED BY <2>1, <3>2 DEF RunConnected
  <2>2. CASE RunRead
    <3> DEFINE more == IF Head(ready).what = "pingresp" /\ timPingresp
                       THEN <<Simple("pingresp cancelled")>> ELSE <<>>
    <3>1. Idle(more)
      BY HandlersFit
    <3>2. Leaves(ReadFailed(sock) \o more)
      BY <2>2 DEF RunRead
    <3> HIDE DEF more
    <3> QED BY <3>1, <3>2, OperationsFit, JoinedFit
  <2>3. CASE RunPing
    <3>1. Idle(<<Posted(Packet("pingreq"))>>)
      BY HandlersFit, OwnPackets
    <3>2. Leaves(<<Posted(Packet("pingreq"))>>) \/ Leaves(<<>>)
      BY <2>3 DEF RunPing
    <3> QED BY <3>1, <3>2, HandlersFit
  <2>4. CASE RunPingresp
    <3>1. Leaves(<<Simple("endpoint force")>>) \/ Leaves(<<>>)
      BY <2>4 DEF RunPingresp
    <3> QED BY <3>1, HandlersFit
  <2>5. CASE RunClose
    <3>1. Leaves(<<Simple("client force")>>)
      BY <2>5 DEF RunClose
    <3> QED BY <3>1, HandlersFit
  <2> QED BY <2>1, <2>2, <2>3, <2>4, <2>5
<1>3. /\ posted' \in 0..MaxPubs /\ queue' \in Seq(Packets) /\ sock' \in BOOLEAN
      /\ Len(queue) <= Len(queue')
  BY <1>1 DEF WriteInv
<1> QED BY <1>1, <1>2, <1>3, IdleRun

LEMMA EndsWrite == ASSUME WriteInv, RunReadFails \/ RunForce PROVE WriteInv'
<1>1. /\ ready # <<>> /\ Head(ready).kind # "written" /\ UNCHANGED <<queue, posted>>
      /\ sock' \in BOOLEAN
  BY DEF RunReadFails, RunForce, Runs, queueVars, appVars
<1>2. \/ Leaves(Aborted(FALSE, writing)) /\ writing' = 0
      \/ Leaves(Aborted(reading, writing)) /\ writing' = 0
      \/ Leaves(<<>>) /\ writing' = writing
  BY DEF RunReadFails, RunForce
<1>3. posted' \in 0..MaxPubs /\ queue' \in Seq(Packets) /\ Len(queue) <= Len(queue')
  BY <1>1 DEF WriteInv
<1>4. Idle(<<>>)
  BY HandlersFit
<1> QED BY <1>1, <1>2, <1>3, <1>4, WriteAborts, IdleRun

\* Operations end and timers expire.
LEMMA ReadyWrites ==
  ASSUME WriteInv, ConnectSucceeds \/ ReadEnds \/ BrokerAnswers \/ Expiries
  PROVE  WriteInv'
<1>1. UNCHANGED <<queue, writing, posted>> /\ sock' \in BOOLEAN /\ posted' \in 0..MaxPubs
  BY DEF ConnectSucceeds, ReadEnds, BrokerAnswers, Expiries, PingExpires, CloseExpires,
         PingrespExpires, WriteInv, connVars, queueVars, appVars
<1>2. \E h : h.kind \notin {"written", "post"} /\ ready' = Append(ready, h)
  <2>1. /\ \A kind : Simple(kind).kind = kind
        /\ \A ok, what : ReadDone(ok, what).kind = "read"
    BY DEF Simple, ReadDone
  <2>2. \/ \E kind \in {"connected", "ping", "close", "pingresp expired"} :
             ready' = Append(ready, Simple(kind))
        \/ \E ok, what : ready' = Append(ready, ReadDone(ok, what))
    BY DEF ConnectSucceeds, ReadEnds, BrokerAnswers, Expiries, PingExpires, CloseExpires,
           PingrespExpires, Readied, Expired
  <2>3. CASE \E kind \in {"connected", "ping", "close", "pingresp expired"} :
               ready' = Append(ready, Simple(kind))
    <3>1. PICK kind \in {"connected", "ping", "close", "pingresp expired"} :
            ready' = Append(ready, Simple(kind))
      BY <2>3
    <3>2. Simple(kind).kind \notin {"written", "post"}
      BY <2>1
    <3> QED BY <3>1, <3>2
  <2>4. CASE \E ok, what : ready' = Append(ready, ReadDone(ok, what))
    BY <2>1, <2>4
  <2> QED BY <2>2, <2>3, <2>4
<1> QED BY <1>1, <1>2, IdleAdd

LEMMA WriteInvStep == ASSUME ClientAssumption, WriteInv, [Next]_vars PROVE WriteInv'
<1>1. CASE Handlers
  BY <1>1, IdleHandlers, PostWrites, WrittenWrites, EndsWrite DEF Handlers
<1>2. CASE BrokerCloses \/ WireBreaks \/ BrokerFallsSilent \/ UNCHANGED vars
  <2>1. UNCHANGED <<ready, queue, writing, posted, sock>>
    BY <1>2 DEF BrokerCloses, WireBreaks, BrokerFallsSilent, vars, connVars, queueVars, appVars
  <2>2. posted' \in 0..MaxPubs /\ sock' \in BOOLEAN
    BY <2>1 DEF WriteInv
  <2> QED BY <2>1, <2>2, IdleStep
<1> QED BY <1>1, <1>2, AppWrites, ReadyWrites, EndWrites DEF Next

LEMMA WriteInvHolds == Spec => []WriteInv
<1>1. ClientAssumption
  BY ClientAssumption
<1> QED BY <1>1, WriteInvInit, WriteInvStep, PTL DEF Spec

\* However posts, writes, their failures and the ends of connections mix, a queue
\* that is not empty has exactly one write, outstanding or ended, of packets that are in
\* it (endpoint.hpp:10142-10218): no two writes overlap and none is forgotten.
THEOREM QueueIsServedHolds == Spec => []QueueIsServed
<1>1. WriteInv => QueueIsServed
  <2> SUFFICES ASSUME WriteInv PROVE QueueIsServed
    OBVIOUS
  <2>1. IsSeq(ready) /\ Served /\ Len(queue) \in Nat
    BY DEF WriteInv, Fits
  <2>2. Ready("written") = {n \in 1..Len(ready) : ready[n].kind = "written"}
    BY <2>1 DEF IsSeq, Ready
  <2>3. \A n \in Ready("written") : ready[n].count \in 1..Len(queue)
    BY <2>2 DEF WriteInv, Fits
  <2>4. /\ Zero(ready, "written") => Cardinality(Ready("written")) = 0
        /\ One(ready, "written") => Cardinality(Ready("written")) = 1
    <3>1. Zero(ready, "written") => Ready("written") = {}
      BY <2>2 DEF Zero
    <3>2. One(ready, "written") => \E n : Ready("written") = {n}
      BY <2>2 DEF One
    <3> QED BY <3>1, <3>2, FS_EmptySet, FS_Singleton
  <2>5. CASE queue = <<>>
    BY <2>1, <2>3, <2>4, <2>5 DEF Served, QueueIsServed
  <2>6. CASE queue # <<>> /\ writing \in 1..Len(queue)
    BY <2>1, <2>3, <2>4, <2>6 DEF Served, QueueIsServed
  <2>7. CASE queue # <<>> /\ writing = 0
    BY <2>1, <2>3, <2>4, <2>7 DEF Served, QueueIsServed
  <2> QED BY <2>1, <2>5, <2>6, <2>7 DEF Served
<1> QED BY <1>1, WriteInvHolds, PTL

-----------------------------------------------------------------------------
(* The numbers that a write sends.                                           *)

\* The fold of Numbers, as a recursive function on the sets of places up to k.
WithNumber(numbers, p) == IF p.kind = "publish" THEN Append(numbers, p.n) ELSE numbers
IsFold(f, s, k) ==
  f = [t \in SUBSET (1..k) |-> IF t = {} THEN <<>> ELSE WithNumber(f[t \ {Max(t)}], s[Max(t)])]

LEMMA GreatestOf ==
  ASSUME NEW k \in Nat, NEW t \in SUBSET (1..k), t # {}
  PROVE  /\ Max(t) \in t /\ Max(t) \in 1..k
         /\ t \ {Max(t)} \in SUBSET (1..(k - 1))
<1>1. t \in SUBSET (0..k)
  OBVIOUS
<1>2. \E a \in t : \A other \in t : other <= a
  BY <1>1, GreatestNumber
<1>3. \A a \in t : a \in Nat /\ 1 <= a /\ a <= k
  OBVIOUS
<1>4. \E a \in t : \A other \in t : a >= other
  BY <1>2, <1>3
<1>5. Max(t) \in t /\ \A other \in t : Max(t) >= other
  BY <1>4 DEF Max
<1>6. ASSUME NEW a \in t, a # Max(t) PROVE a \in 1..(k - 1)
  <2>1. /\ a \in Nat /\ 1 <= a /\ a <= k
        /\ Max(t) \in Nat /\ Max(t) <= k /\ Max(t) >= a
    BY <1>3, <1>5
  <2> QED BY <1>6, <2>1
<1> QED BY <1>3, <1>5, <1>6

LEMMA FoldExists ==
  ASSUME NEW s, NEW k \in Nat
  PROVE  \A m \in 0..k : \E f : IsFold(f, s, m)
<1> DEFINE S == {m \in 0..k : ~\E f : IsFold(f, s, m)}
<1> SUFFICES ASSUME S # {} PROVE FALSE
  OBVIOUS
<1>1. PICK a \in S : \A other \in S : a <= other
  <2>1. S \in SUBSET (0..k)
    OBVIOUS
  <2> HIDE DEF S
  <2> QED BY <2>1, LeastNumber
<1>2. a \in 0..k /\ ~\E f : IsFold(f, s, a)
  OBVIOUS
<1>3. CASE a = 0
  <2> DEFINE f == [t \in SUBSET (1..0) |-> <<>>]
  <2>1. \A t \in SUBSET (1..0) : t = {}
    OBVIOUS
  <2>2. f = [t \in SUBSET (1..0) |->
               IF t = {} THEN <<>> ELSE WithNumber(f[t \ {Max(t)}], s[Max(t)])]
    BY <2>1
  <2>3. IsFold(f, s, 0)
    BY <2>2 DEF IsFold
  <2> QED BY <1>2, <1>3, <2>3
<1>4. CASE a # 0
  <2>1. a - 1 \in 0..k /\ a - 1 \notin S
    BY <1>1, <1>2, <1>4
  <2>2. PICK e : IsFold(e, s, a - 1)
    BY <2>1
  <2> DEFINE f == [t \in SUBSET (1..a) |->
                     IF t = {} THEN <<>> ELSE WithNumber(e[t \ {Max(t)}], s[Max(t)])]
  <2>3. \A t \in SUBSET (1..(a - 1)) : t \in SUBSET (1..a)
    BY <1>2
  <2>4. ASSUME NEW t \in SUBSET (1..(a - 1)) PROVE f[t] = e[t]
    <3>1. e[t] = IF t = {} THEN <<>> ELSE WithNumber(e[t \ {Max(t)}], s[Max(t)])
      BY <2>2, Zenon DEF IsFold
    <3>2. t \in SUBSET (1..a)
      BY <2>3
    <3>3. f[t] = IF t = {} THEN <<>> ELSE WithNumber(e[t \ {Max(t)}], s[Max(t)])
      BY <3>2
    <3> QED BY <3>1, <3>3
  <2>5. \A t \in SUBSET (1..a) : t # {} => t \ {Max(t)} \in SUBSET (1..(a - 1))
    BY <1>2, GreatestOf
  <2>6. ASSUME NEW t \in SUBSET (1..a)
        PROVE  f[t] = IF t = {} THEN <<>> ELSE WithNumber(f[t \ {Max(t)}], s[Max(t)])
    <3>1. t # {} => f[t \ {Max(t)}] = e[t \ {Max(t)}]
      <4> HIDE DEF f
      <4> QED BY <2>4, <2>5
    <3>2. f[t] = IF t = {} THEN <<>> ELSE WithNumber(e[t \ {Max(t)}], s[Max(t)])
      OBVIOUS
    <3> HIDE DEF f
    <3> QED BY <3>1, <3>2
  <2>7. f = [t \in SUBSET (1..a) |-> f[t]]
    OBVIOUS
  <2> HIDE DEF f
  <2>8. IsFold(f, s, a)
    BY <2>6, <2>7 DEF IsFold
  <2> QED BY <1>2, <2>8
<1> QED BY <1>3, <1>4

LEMMA NumbersIsFold ==
  ASSUME NEW s, NEW k \in Nat, DOMAIN s = 1..k
  PROVE  \E f : IsFold(f, s, k) /\ Numbers(s) = f[1..k]
<1> DEFINE g == CHOOSE f : IsFold(f, s, k)
<1>1. Numbers(s) = g[1..k]
  BY Zenon DEF Numbers, FoldLeft, MapThenFoldSet, IsFold, WithNumber
<1>2. \E f : IsFold(f, s, k)
  <2>1. k \in 0..k
    OBVIOUS
  <2> QED BY <2>1, FoldExists
<1>3. IsFold(g, s, k)
  BY <1>2
<1> QED BY <1>1, <1>3

\* The numbers of the messages among the first m packets, in their order.
Picks(r, s, m) ==
  /\ r \in Seq(Nat)
  /\ \A k \in 1..Len(r) : \E i \in 1..m : s[i].n > 0 /\ r[k] = s[i].n
  /\ \A k, l \in 1..Len(r) : k < l =>
       \E i, j \in 1..m : i < j /\ s[i].n > 0 /\ s[j].n > 0 /\ r[k] = s[i].n /\ r[l] = s[j].n

LEMMA PacketNumber ==
  ASSUME NEW p \in Packets, MaxPubs \in Nat
  PROVE  p.n \in 0..MaxPubs /\ (p.kind = "publish" <=> p.n > 0)
BY DEF Packets

LEMMA PicksMore ==
  ASSUME NEW s \in Seq(Packets), NEW m \in 1..Len(s), NEW r, Picks(r, s, m - 1), MaxPubs \in Nat
  PROVE  Picks(WithNumber(r, s[m]), s, m)
<1>1. s[m] \in Packets /\ m \in Nat /\ m - 1 \in Nat
  <2> HIDE DEF Packets
  <2> QED OBVIOUS
<1>2. \A i \in 1..(m - 1) : i \in 1..m /\ i < m
  BY <1>1
<1>3. CASE s[m].kind # "publish"
  <2>1. WithNumber(r, s[m]) = r
    BY <1>3 DEF WithNumber
  <2> QED BY <1>2, <2>1 DEF Picks
<1>4. CASE s[m].kind = "publish"
  <2> DEFINE p == Append(r, s[m].n)
  <2>1. s[m].n \in Nat /\ s[m].n > 0 /\ r \in Seq(Nat) /\ m \in 1..m
    BY <1>1, <1>4, PacketNumber DEF Picks
  <2>2. /\ p \in Seq(Nat) /\ Len(p) = Len(r) + 1 /\ Len(r) \in Nat /\ p[Len(r) + 1] = s[m].n
        /\ \A k \in 1..Len(r) : p[k] = r[k]
    BY <2>1
  <2>3. WithNumber(r, s[m]) = p
    BY <1>4 DEF WithNumber
  <2> HIDE DEF p
  <2>4. \A k \in 1..Len(p) : k \in 1..Len(r) \/ k = Len(r) + 1
    BY <2>2
  <2>5. \A k \in 1..Len(p) : \E i \in 1..m : s[i].n > 0 /\ p[k] = s[i].n
    <3>1. ASSUME NEW k \in 1..Len(r) PROVE \E i \in 1..m : s[i].n > 0 /\ p[k] = s[i].n
      <4>1. PICK i \in 1..(m - 1) : s[i].n > 0 /\ r[k] = s[i].n
        BY DEF Picks
      <4>2. i \in 1..m /\ p[k] = s[i].n
        BY <1>2, <2>2, <4>1
      <4> QED BY <4>1, <4>2
    <3>2. p[Len(r) + 1] = s[m].n
      BY <2>2
    <3> QED BY <2>1, <2>4, <3>1, <3>2
  <2>6. ASSUME NEW k \in 1..Len(p), NEW l \in 1..Len(p), k < l
        PROVE  \E i, j \in 1..m : i < j /\ s[i].n > 0 /\ s[j].n > 0 /\ p[k] = s[i].n /\ p[l] = s[j].n
    <3>1. k \in 1..Len(r)
      BY <2>2, <2>6
    <3>2. CASE l \in 1..Len(r)
      <4>1. PICK i \in 1..(m - 1), j \in 1..(m - 1) :
              i < j /\ s[i].n > 0 /\ s[j].n > 0 /\ r[k] = s[i].n /\ r[l] = s[j].n
        BY <2>6, <3>1, <3>2 DEF Picks
      <4>2. i \in 1..m /\ j \in 1..m /\ p[k] = s[i].n /\ p[l] = s[j].n
        BY <1>2, <2>2, <3>1, <3>2, <4>1
      <4> QED BY <4>1, <4>2
    <3>3. CASE l = Len(r) + 1
      <4>1. PICK i \in 1..(m - 1) : s[i].n > 0 /\ r[k] = s[i].n
        BY <3>1 DEF Picks
      <4>2. i < m /\ i \in 1..m /\ p[k] = s[i].n /\ p[l] = s[m].n
        BY <1>2, <2>2, <3>1, <3>3, <4>1
      <4> QED BY <2>1, <4>1, <4>2
    <3> QED BY <2>4, <3>2, <3>3
  <2>7. Picks(p, s, m)
    BY <2>2, <2>5, <2>6 DEF Picks
  <2> QED BY <2>3, <2>7
<1> QED BY <1>3, <1>4

LEMMA NumbersPicks ==
  ASSUME NEW s \in Seq(Packets), MaxPubs \in Nat
  PROVE  Picks(Numbers(s), s, Len(s))
<1> DEFINE k == Len(s)
<1>1. k \in Nat /\ DOMAIN s = 1..k
  OBVIOUS
<1> HIDE DEF k
<1>2. PICK f : IsFold(f, s, k) /\ Numbers(s) = f[1..k]
  BY <1>1, NumbersIsFold
<1> DEFINE S == {m \in 0..k : ~Picks(f[1..m], s, m)}
<1>3. ASSUME S # {} PROVE FALSE
  <2>1. PICK a \in S : \A other \in S : a <= other
    <3>1. S \in SUBSET (0..k)
      OBVIOUS
    <3> HIDE DEF S
    <3> QED BY <1>1, <1>3, <3>1, LeastNumber
  <2>2. a \in 0..k /\ ~Picks(f[1..a], s, a)
    OBVIOUS
  <2>3. 1..a \in SUBSET (1..k)
    BY <1>1, <2>2
  <2>4. f[1..a] = IF 1..a = {} THEN <<>> ELSE WithNumber(f[(1..a) \ {Max(1..a)}], s[Max(1..a)])
    BY <1>2, <2>3, Zenon DEF IsFold
  <2>5. CASE a = 0
    <3>1. f[1..a] = <<>>
      BY <2>4, <2>5
    <3>2. Picks(<<>>, s, a)
      BY DEF Picks
    <3> QED BY <2>2, <3>1, <3>2
  <2>6. CASE a # 0
    <3>1. 1..a # {} /\ a \in 1..k /\ a \in Nat /\ a - 1 \in 0..k /\ a - 1 \notin S
      <4>1. 1 \in 1..a /\ a \in 1..k /\ a \in Nat /\ a - 1 \in 0..k /\ ~(a <= a - 1)
        BY <1>1, <2>2, <2>6
      <4> HIDE DEF S
      <4> QED BY <2>1, <4>1
    <3>2. Max(1..a) = a
      <4>1. Max(1..a) \in 1..a /\ (1..a) \ {Max(1..a)} \in SUBSET (1..(a - 1))
        <5> DEFINE t == 1..a
        <5>1. t \in SUBSET (1..a) /\ t # {} /\ a \in Nat
          BY <3>1
        <5> HIDE DEF t
        <5>2. Max(t) \in 1..a /\ t \ {Max(t)} \in SUBSET (1..(a - 1))
          BY <5>1, GreatestOf
        <5> QED BY <5>2 DEF t
      <4>2. a \in 1..a /\ a \notin 1..(a - 1)
        BY <3>1
      <4> QED BY <4>1, <4>2
    <3>3. (1..a) \ {a} = 1..(a - 1)
      BY <2>2, <3>1
    <3>4. f[1..a] = WithNumber(f[1..(a - 1)], s[a])
      BY <2>4, <3>1, <3>2, <3>3
    <3>5. Picks(f[1..(a - 1)], s, a - 1)
      BY <3>1
    <3>6. a \in 1..Len(s)
      BY <3>1 DEF k
    <3> HIDE DEF S
    <3> QED BY <2>2, <3>4, <3>5, <3>6, PicksMore
  <2> QED BY <2>5, <2>6
<1>4. k \in 0..k
  BY <1>1
<1> QED BY <1>2, <1>3, <1>4 DEF k

-----------------------------------------------------------------------------
(* Where handlers are that post a packet, end a write or make a connection.  *)
Vital(h) == h.kind \in {"post", "written", "connected"}

\* s has none but those of X.
Only(s, X) == IsSeq(s) /\ \A n \in 1..Len(s) : Vital(s[n]) => s[n] \in X

\* The first d of them have run, those of X may have joined behind the others.
Moved(d, X) ==
  /\ Len(ready') \in Nat
  /\ \A n \in 1..Len(ready') : Vital(ready'[n]) =>
       \/ n + d \in 1..Len(ready) /\ n + d > d /\ ready'[n] = ready[n + d]
       \/ n + d > Len(ready) /\ ready'[n] \in X
  /\ \A n \in 1..Len(ready) : n > d => n - d \in 1..Len(ready') /\ ready'[n - d] = ready[n]

LEMMA OnlySingle ==
  ASSUME NEW h, NEW X, Vital(h) => h \in X
  PROVE  Only(<<h>>, X)
<1> DEFINE s == <<h>>
<1>1. s \in Seq({h}) /\ Len(s) = 1 /\ s[1] = h
  OBVIOUS
<1> HIDE DEF s
<1>2. IsSeq(s)
  BY <1>1 DEF IsSeq
<1>3. \A n \in 1..Len(s) : s[n] = h
  BY <1>1
<1>4. Only(s, X)
  BY <1>2, <1>3 DEF Only
<1> QED BY <1>4 DEF s

LEMMA OnlyJoined ==
  ASSUME NEW X, NEW x, Only(x, X), NEW y, Only(y, X)
  PROVE  Only(x \o y, X)
<1> DEFINE z == x \o y
<1>1. /\ IsSeq(z) /\ Len(x) \in Nat /\ Len(y) \in Nat /\ Len(z) = Len(x) + Len(y)
      /\ \A n \in 1..(Len(x) + Len(y)) : z[n] = IF n <= Len(x) THEN x[n] ELSE y[n - Len(x)]
  BY Concatenated DEF Only
<1> HIDE DEF z
<1>2. \A n \in 1..Len(z) : \/ n \in 1..Len(x) /\ z[n] = x[n]
                           \/ n - Len(x) \in 1..Len(y) /\ z[n] = y[n - Len(x)]
  BY <1>1
<1>3. Only(z, X)
  BY <1>1, <1>2 DEF Only
<1> QED BY <1>3 DEF z

LEMMA OnlyOf ==
  /\ \A X : Only(<<>>, X)
  /\ \A p, X : Posted(p) \in X => Only(<<Posted(p)>>, X)
  /\ \A ok, c, X : Written(ok, c) \in X => Only(<<Written(ok, c)>>, X)
  /\ \A kind, X : kind \notin {"post", "written", "connected"} => Only(<<Simple(kind)>>, X)
  /\ \A ok, what, X : Only(<<ReadDone(ok, what)>>, X)
<1>1. \A X : Only(<<>>, X)
  BY EmptyKinds DEF Only
<1>2. \A p, X : Posted(p) \in X => Only(<<Posted(p)>>, X)
  BY OnlySingle
<1>3. \A ok, c, X : Written(ok, c) \in X => Only(<<Written(ok, c)>>, X)
  BY OnlySingle
<1>4. \A kind, X : kind \notin {"post", "written", "connected"} => Only(<<Simple(kind)>>, X)
  <2> SUFFICES ASSUME NEW kind, NEW X, kind \notin {"post", "written", "connected"}
               PROVE  Only(<<Simple(kind)>>, X)
    OBVIOUS
  <2>1. ~Vital(Simple(kind))
    BY DEF Vital, Simple
  <2> QED BY <2>1, OnlySingle
<1>5. \A ok, what, X : Only(<<ReadDone(ok, what)>>, X)
  <2> TAKE ok, what, X
  <2>1. ~Vital(ReadDone(ok, what))
    BY DEF Vital, ReadDone
  <2> QED BY <2>1, OnlySingle
<1> QED BY <1>1, <1>2, <1>3, <1>4, <1>5

LEMMA OperationsOnly ==
  /\ \A open, X : Only(ReadFailed(open), X)
  /\ \A open, q : Only(WriteFailed(open, q), {Written(FALSE, Batch(q))})
  /\ \A r, w : Only(Aborted(r, w), IF w > 0 THEN {Written(FALSE, w)} ELSE {})
<1>1. \A open, X : Only(ReadFailed(open), X)
  BY OnlyOf DEF ReadFailed
<1>2. \A open, q : Only(WriteFailed(open, q), {Written(FALSE, Batch(q))})
  BY OnlyOf DEF WriteFailed
<1>3. ASSUME NEW r, NEW w PROVE Only(Aborted(r, w), IF w > 0 THEN {Written(FALSE, w)} ELSE {})
  <2> DEFINE read == IF r THEN <<ReadDone(FALSE, "")>> ELSE <<>>
             write == IF w > 0 THEN <<Written(FALSE, w)>> ELSE <<>>
             X == IF w > 0 THEN {Written(FALSE, w)} ELSE {}
  <2>1. Only(read, X)
    BY OnlyOf
  <2>2. Only(write, X)
    BY OnlyOf
  <2>3. Aborted(r, w) = read \o write
    BY DEF Aborted
  <2> HIDE DEF read, write, X
  <2>4. Only(Aborted(r, w), X)
    BY <2>1, <2>2, <2>3, OnlyJoined
  <2> QED BY <2>4 DEF X
<1> QED BY <1>1, <1>2, <1>3

LEMMA MovedByRun ==
  ASSUME IsSeq(ready), ready # <<>>, NEW X, NEW s, Only(s, X), Leaves(s)
  PROVE  Moved(1, X)
<1> DEFINE t == Tail(ready)
<1>1. PICK S : ready \in Seq(S)
  BY DEF IsSeq
<1>2. /\ Len(t) = Len(ready) - 1 /\ Len(ready) \in Nat /\ Len(ready) > 0 /\ t \in Seq(S)
      /\ \A n \in 1..Len(t) : n + 1 \in 1..Len(ready) /\ t[n] = ready[n + 1]
      /\ \A n \in 1..Len(ready) : n # 1 => n - 1 \in 1..Len(t) /\ t[n - 1] = ready[n]
  BY <1>1, Taken
<1>3. ready' = t \o s
  BY DEF Leaves
<1> HIDE DEF t
<1>4. IsSeq(t) /\ IsSeq(s)
  BY <1>2 DEF Only, IsSeq
<1>5. /\ Len(s) \in Nat /\ Len(ready') = Len(t) + Len(s)
      /\ \A n \in 1..(Len(t) + Len(s)) : ready'[n] = IF n <= Len(t) THEN t[n] ELSE s[n - Len(t)]
  BY <1>3, <1>4, Concatenated
<1>6. \A n \in 1..Len(ready') :
        \/ n \in 1..Len(t) /\ ready'[n] = t[n]
        \/ n + 1 > Len(ready) /\ n - Len(t) \in 1..Len(s) /\ ready'[n] = s[n - Len(t)]
  BY <1>2, <1>5
<1>7. \A n \in 1..Len(ready') : Vital(ready'[n]) =>
        \/ n + 1 \in 1..Len(ready) /\ n + 1 > 1 /\ ready'[n] = ready[n + 1]
        \/ n + 1 > Len(ready) /\ ready'[n] \in X
  <2> TAKE n \in 1..Len(ready')
  <2>1. n + 1 > 1
    OBVIOUS
  <2> QED BY <1>2, <1>6, <2>1 DEF Only
<1>8. \A n \in 1..Len(ready) : n > 1 => n - 1 \in 1..Len(ready') /\ ready'[n - 1] = ready[n]
  <2> SUFFICES ASSUME NEW n \in 1..Len(ready), n > 1
               PROVE  n - 1 \in 1..Len(ready') /\ ready'[n - 1] = ready[n]
    OBVIOUS
  <2>1. n - 1 \in 1..Len(t) /\ t[n - 1] = ready[n]
    BY <1>2
  <2>2. n - 1 \in 1..(Len(t) + Len(s)) /\ n - 1 <= Len(t)
    BY <1>2, <1>5, <2>1
  <2> QED BY <1>5, <2>1, <2>2
<1> QED BY <1>2, <1>5, <1>7, <1>8 DEF Moved

LEMMA MovedByAdd ==
  ASSUME IsSeq(ready), NEW X, NEW h, Vital(h) => h \in X, ready' = Append(ready, h)
  PROVE  Moved(0, X) /\ Len(ready) \in Nat /\ Len(ready') = Len(ready) + 1 /\ ready'[Len(ready')] = h
<1>1. PICK S : ready \in Seq(S)
  BY DEF IsSeq
<1>2. /\ Len(ready) \in Nat /\ Len(ready') = Len(ready) + 1 /\ ready'[Len(ready) + 1] = h
      /\ \A n \in 1..Len(ready) : ready'[n] = ready[n]
  <2> DEFINE U == S \cup {h}
  <2>1. ready \in Seq(U)
    BY <1>1
  <2>2. h \in U
    OBVIOUS
  <2> HIDE DEF U
  <2> QED BY <2>1, <2>2
<1>3. \A n \in 1..Len(ready') : Vital(ready'[n]) =>
        \/ n + 0 \in 1..Len(ready) /\ n + 0 > 0 /\ ready'[n] = ready[n + 0]
        \/ n + 0 > Len(ready) /\ ready'[n] \in X
  <2> TAKE n \in 1..Len(ready')
  <2>1. n + 0 = n /\ n > 0 /\ (n \in 1..Len(ready) \/ n = Len(ready) + 1)
    BY <1>2
  <2>2. n = Len(ready) + 1 => n > Len(ready)
    BY <1>2
  <2> QED BY <1>2, <2>1, <2>2
<1>4. \A n \in 1..Len(ready) : n - 0 = n /\ n \in 1..Len(ready')
  BY <1>2
<1> QED BY <1>2, <1>3, <1>4 DEF Moved

LEMMA MovedByNone ==
  ASSUME IsSeq(ready), ready' = ready
  PROVE  Moved(0, {})
<1>1. Len(ready) \in Nat
  BY DEF IsSeq
<1>2. \A n \in 1..Len(ready) : n + 0 = n /\ n - 0 = n /\ n > 0
  BY <1>1
<1> QED BY <1>1, <1>2 DEF Moved

-----------------------------------------------------------------------------
(* CONNECT comes first.                                                      *)
IsConnect(h) == h.kind = "post" /\ h.packet.kind = "connect"
\* The message that a handler is to send, 0 for none.
Num(h) == IF h.kind = "post" THEN h.packet.n ELSE 0

\* A connection lasts from its success to the report of its end, and only while it lasts a
\* write is outstanding. Its success finds no packet posted before it, and CONNECT an
\* empty queue.
FirstInv ==
  /\ connected => Expecting
  /\ ~connected => writing = 0
  /\ \A n \in 1..Len(queue) : queue[n].kind = "connect" => n = 1
  /\ \A n \in 1..Len(ready) : ready[n].kind = "connected" =>
       \A m \in 1..Len(ready) : ready[m].kind \in {"post", "written"} => m < n
  /\ \A n \in 1..Len(ready) : IsConnect(ready[n]) =>
       queue = <<>> /\ \A m \in 1..Len(ready) : ready[m].kind = "post" => m >= n

LEMMA FirstInvInit == ReadInv /\ Init => FirstInv
<1> SUFFICES ASSUME ReadInv, Init PROVE FirstInv
  OBVIOUS
<1>1. ready = <<>> /\ queue = <<>> /\ writing = 0 /\ ~connected
  BY DEF Init
<1>2. (\A n \in 1..Len(ready) : FALSE) /\ \A n \in 1..Len(queue) : FALSE
  BY <1>1
<1> QED BY <1>1, <1>2 DEF FirstInv

\* Behind a success that is ready nothing is posted and no write ends.
LEMMA NoneWhileConnecting ==
  ASSUME ReadInv, FirstInv
  PROVE  /\ connected \/ ~connecting => Zero(ready, "connected")
         /\ writing # 0 => connected
BY DEF ReadInv, Attempt, FirstInv, Expecting

\* What a step that posts no CONNECT may do.
LEMMA FirstKept ==
  ASSUME ReadInv, WriteInv, FirstInv, NEW d \in {0, 1}, NEW X, Moved(d, X),
         \A h \in X : h.kind # "connected" /\ ~IsConnect(h),
         X = {} \/ Zero(ready, "connected"), queue = <<>> => queue' = <<>>
  PROVE  /\ \A n \in 1..Len(ready') : ready'[n].kind = "connected" =>
              \A m \in 1..Len(ready') : ready'[m].kind \in {"post", "written"} => m < n
         /\ \A n \in 1..Len(ready') : IsConnect(ready'[n]) =>
              queue' = <<>> /\ \A m \in 1..Len(ready') : ready'[m].kind = "post" => m >= n
<1>0. Len(ready) \in Nat /\ Len(ready') \in Nat
  BY DEF Moved, WriteInv, Fits, IsSeq
<1>1. ASSUME NEW n \in 1..Len(ready'), ready'[n].kind = "connected",
             NEW m \in 1..Len(ready'), ready'[m].kind \in {"post", "written"}
      PROVE  m < n
  <2>1. n + d \in 1..Len(ready) /\ ready'[n] = ready[n + d]
    BY <1>1 DEF Moved, Vital
  <2>2. X = {}
    BY <1>1, <2>1 DEF Zero
  <2>3. m + d \in 1..Len(ready) /\ ready'[m] = ready[m + d]
    BY <1>1, <2>2 DEF Moved, Vital
  <2>4. m + d < n + d
    BY <1>1, <2>1, <2>3 DEF FirstInv
  <2> QED BY <2>4
<1>2. ASSUME NEW n \in 1..Len(ready'), IsConnect(ready'[n])
      PROVE  queue' = <<>> /\ \A m \in 1..Len(ready') : ready'[m].kind = "post" => m >= n
  <2>1. Vital(ready'[n]) /\ ready'[n] \notin X
    BY <1>2 DEF IsConnect, Vital
  <2>2. n + d \in 1..Len(ready) /\ ready'[n] = ready[n + d]
    BY <2>1 DEF Moved
  <2>3. queue = <<>> /\ \A m \in 1..Len(ready) : ready[m].kind = "post" => m >= n + d
    BY <1>2, <2>2 DEF FirstInv
  <2>4. ASSUME NEW m \in 1..Len(ready'), ready'[m].kind = "post" PROVE m >= n
    <3>1. Vital(ready'[m])
      BY <2>4 DEF Vital
    <3>2. CASE m + d \in 1..Len(ready) /\ ready'[m] = ready[m + d]
      <4>1. m + d >= n + d
        BY <2>3, <2>4, <3>2
      <4> QED BY <4>1
    <3>3. CASE m + d > Len(ready)
      BY <1>0, <2>2, <3>3
    <3> QED BY <3>1, <3>2, <3>3 DEF Moved
  <2> QED BY <2>3, <2>4
<1> QED BY <1>1, <1>2

\* Steps that leave the connection and the queue as they are.
LEMMA FirstStep ==
  ASSUME ReadInv, WriteInv, FirstInv, NEW d \in {0, 1}, NEW X, Moved(d, X),
         \A h \in X : h.kind # "connected" /\ ~IsConnect(h),
         X = {} \/ Zero(ready, "connected"), queue' = queue,
         connected' => Expecting', ~connected' => writing' = 0
  PROVE  FirstInv'
<1>1. \A n \in 1..Len(queue') : queue'[n].kind = "connect" => n = 1
  BY DEF FirstInv
<1>2. queue = <<>> => queue' = <<>>
  OBVIOUS
<1>3. /\ \A n \in 1..Len(ready') : ready'[n].kind = "connected" =>
           \A m \in 1..Len(ready') : ready'[m].kind \in {"post", "written"} => m < n
      /\ \A n \in 1..Len(ready') : IsConnect(ready'[n]) =>
           queue' = <<>> /\ \A m \in 1..Len(ready') : ready'[m].kind = "post" => m >= n
  BY <1>2, FirstKept
<1>4. (connected' => Expecting') /\ (~connected' => writing' = 0)
  OBVIOUS
<1> QED BY <1>1, <1>3, <1>4 DEF FirstInv, IsConnect

LEMMA OwnHandlers ==
  /\ \A p : Posted(p).kind = "post" /\ Posted(p).packet = p
  /\ \A ok, c : /\ Written(ok, c).kind = "written" /\ Written(ok, c).ok = ok
                /\ Written(ok, c).count = c /\ ~IsConnect(Written(ok, c))
  /\ \A kind : Simple(kind).kind = kind
  /\ \A ok, what : ReadDone(ok, what).kind = "read"
BY DEF Posted, Written, Simple, ReadDone, IsConnect

LEMMA AppFirst ==
  ASSUME ReadInv, WriteInv, FirstInv, App
  PROVE  FirstInv'
<1>0. IsSeq(ready)
  BY DEF ReadInv, ClientTypes
<1>1. CASE AsyncConnect
  <2>1. /\ ~connecting /\ (conn # 0 => ended[conn] > 0)
        /\ UNCHANGED <<connected, writing, queue, ready>>
    BY <1>1 DEF AsyncConnect, MayConnect, queueVars
  <2>2. ~connected
    BY <2>1 DEF FirstInv, Expecting
  <2>3. writing = 0
    BY <2>2 DEF FirstInv
  <2>4. Moved(0, {})
    BY <1>0, <2>1, MovedByNone
  <2>5. ~connected' /\ writing' = 0 /\ queue' = queue
    BY <2>1, <2>2, <2>3
  <2> QED BY <2>4, <2>5, FirstStep
<1>2. CASE AsyncPublish
  <2> DEFINE h == Posted(PublishPacket(posted + 1))
  <2>1. /\ ~connecting /\ ready' = Append(ready, h)
        /\ UNCHANGED <<conn, connecting, connected, ended, writing, queue>>
    BY <1>2 DEF AsyncPublish, MayPublish, queueVars, connVars
  <2>2. h.kind = "post" /\ ~IsConnect(h)
    BY OwnHandlers DEF IsConnect, PublishPacket
  <2> HIDE DEF h
  <2>3. Moved(0, {h})
    BY <1>0, <2>1, MovedByAdd
  <2>4. Zero(ready, "connected")
    BY <2>1, NoneWhileConnecting
  <2>5. (connected' => Expecting') /\ (~connected' => writing' = 0)
    BY <2>1 DEF FirstInv, Expecting
  <2>6. \A x \in {h} : x.kind # "connected" /\ ~IsConnect(x)
    BY <2>2
  <2> QED BY <2>1, <2>3, <2>4, <2>5, <2>6, FirstStep
<1>3. CASE AsyncDisconnect
  <2> DEFINE h == Posted(Packet("disconnect"))
  <2>1. /\ connected /\ (ready' = ready \/ ready' = Append(ready, h))
        /\ UNCHANGED <<conn, connecting, connected, ended, writing, queue>>
    BY <1>3 DEF AsyncDisconnect, queueVars
  <2>2. h.kind = "post" /\ ~IsConnect(h)
    BY OwnHandlers DEF IsConnect, Packet
  <2> HIDE DEF h
  <2>3. Moved(0, {h}) \/ Moved(0, {})
    BY <1>0, <2>1, MovedByAdd, MovedByNone
  <2>4. Zero(ready, "connected")
    BY <2>1, NoneWhileConnecting
  <2>5. (connected' => Expecting') /\ (~connected' => writing' = 0)
    BY <2>1 DEF FirstInv, Expecting
  <2>6. \A x \in {h} : x.kind # "connected" /\ ~IsConnect(x)
    BY <2>2
  <2> QED BY <2>1, <2>3, <2>4, <2>5, <2>6, FirstStep
<1> QED BY <1>1, <1>2, <1>3 DEF App

\* CONNECT is posted when nothing else is and the queue is empty.
LEMMA ConnectedFirst ==
  ASSUME ReadInv, ReadInv', WriteInv, FirstInv, RunConnected
  PROVE  FirstInv'
<1> DEFINE c == Posted(Packet("connect"))
           s == ReadFailed(sock) \o <<c>>
           t == Tail(ready)
<1>1. /\ ready # <<>> /\ Head(ready).kind = "connected" /\ IsSeq(ready) /\ ready' = t \o s
      /\ connecting' = FALSE /\ connected' = TRUE /\ UNCHANGED <<conn, ended, queue, writing>>
  BY DEF RunConnected, Runs, ReadInv, ClientTypes, Leaves, queueVars
<1>2. connecting /\ conn > 0 /\ ended[conn] = 0
  <2>1. ~Zero(ready, "connected")
    BY <1>1, RestKinds
  <2> QED BY <2>1 DEF ReadInv, Attempt
<1>3. ~connected /\ writing = 0
  BY <1>2 DEF FirstInv, Expecting
<1>4. Zero(ready, "post") /\ Zero(ready, "written")
  <2>1. PICK S : ready \in Seq(S)
    BY <1>1 DEF IsSeq
  <2>2. 1 \in 1..Len(ready) /\ Head(ready) = ready[1]
    BY <1>1, <2>1
  <2>3. \A m \in 1..Len(ready) : ~(m < 1)
    BY <2>1
  <2>4. \A m \in 1..Len(ready) : ready[m].kind \in {"post", "written"} => m < 1
    BY <1>1, <2>2 DEF FirstInv
  <2>5. \A m \in 1..Len(ready) : ready[m].kind \notin {"post", "written"}
    BY <2>3, <2>4
  <2> QED BY <2>5 DEF Zero
<1>5. queue = <<>>
  <2>1. ~One(ready, "written")
    BY <1>4 DEF Zero, One
  <2> QED BY <1>3, <2>1 DEF WriteInv, Served
<1>6. Zero(t, "post") /\ IsSeq(t)
  BY <1>1, <1>4, RestKinds
<1>7. One(s, "post") /\ IsSeq(s)
  <2>1. IsSeq(ReadFailed(sock)) /\ Zero(ReadFailed(sock), "post")
    <3>1. IsSeq(<<>>) /\ Zero(<<>>, "post")
      BY EmptyKinds
    <3>2. IsSeq(<<ReadDone(FALSE, "")>>) /\ Zero(<<ReadDone(FALSE, "")>>, "post")
      BY OwnHandlers, SingleKinds
    <3> QED BY <3>1, <3>2 DEF ReadFailed
  <2>2. IsSeq(<<c>>) /\ One(<<c>>, "post")
    <3>1. c.kind = "post"
      BY OwnHandlers
    <3> QED BY <3>1, SingleKinds
  <2> HIDE DEF c
  <2> QED BY <2>1, <2>2, Concatenated, ConcatenatedKinds
<1> HIDE DEF s, t
<1>8. One(ready', "post")
  BY <1>1, <1>6, <1>7, ConcatenatedKinds
<1>9. \A n \in 1..Len(ready') : ready'[n].kind # "connected"
  <2>1. Zero(ready', "connected")
    BY <1>1 DEF ReadInv, Attempt
  <2> QED BY <2>1 DEF Zero
<1>10. \A n \in 1..Len(ready') : IsConnect(ready'[n]) =>
         queue' = <<>> /\ \A m \in 1..Len(ready') : ready'[m].kind = "post" => m >= n
  <2>1. PICK p \in 1..Len(ready') : \A m \in 1..Len(ready') : ready'[m].kind = "post" => m = p
    BY <1>8 DEF One
  <2>2. \A n \in 1..Len(ready') : n >= n
    OBVIOUS
  <2> QED BY <1>1, <1>5, <2>1, <2>2 DEF IsConnect
<1>11. connected' => Expecting'
  BY <1>1, <1>2 DEF Expecting
<1>12. \A n \in 1..Len(queue') : FALSE
  BY <1>1, <1>5
<1>13. ~connected' => writing' = 0
  BY <1>1
<1> QED BY <1>9, <1>10, <1>11, <1>12, <1>13 DEF FirstInv, IsConnect

LEMMA PostMoves ==
  ASSUME IsSeq(ready), RunPost
  PROVE  \E X : /\ Moved(1, X) /\ (connected \/ X = {})
                /\ \A h \in X : h.kind = "written"
<1>1. ready # <<>>
  BY DEF RunPost, Runs
<1>2. Leaves(<<>>) \/ (connected /\ Leaves(WriteFailed(sock, queue')))
  BY DEF RunPost
<1>3. CASE Leaves(<<>>)
  <2>1. Moved(1, {})
    BY <1>1, <1>3, OnlyOf, MovedByRun
  <2> QED BY <2>1
<1>4. CASE connected /\ Leaves(WriteFailed(sock, queue'))
  <2> DEFINE w == Written(FALSE, Batch(queue'))
  <2>1. Only(WriteFailed(sock, queue'), {w})
    BY OperationsOnly
  <2>2. w.kind = "written"
    BY OwnHandlers
  <2> HIDE DEF w
  <2>3. Moved(1, {w})
    BY <1>1, <1>4, <2>1, MovedByRun
  <2> QED BY <1>4, <2>2, <2>3
<1> QED BY <1>2, <1>3, <1>4

LEMMA PostFirst ==
  ASSUME ReadInv, WriteInv, FirstInv, RunPost
  PROVE  FirstInv'
<1> DEFINE p == Head(ready).packet
<1>1. /\ ready # <<>> /\ Head(ready).kind = "post" /\ IsSeq(ready)
      /\ UNCHANGED <<conn, connecting, connected, ended>>
  BY DEF RunPost, Runs, ReadInv, ClientTypes, connVars
<1>2. connected' => Expecting'
  BY <1>1 DEF FirstInv, Expecting
<1>3. CASE ~connected
  <2>1. Leaves(<<>>) /\ queue' = queue /\ writing' = writing
    BY <1>3 DEF RunPost
  <2>2. Moved(1, {})
    BY <1>1, <2>1, OnlyOf, MovedByRun
  <2>3. writing' = 0
    BY <1>3, <2>1 DEF FirstInv
  <2> QED BY <1>2, <2>1, <2>2, <2>3, FirstStep
<1>4. CASE connected
  <2>1. queue' = Append(queue, p)
    BY <1>4 DEF RunPost
  <2>2. PICK X : Moved(1, X) /\ \A h \in X : h.kind = "written"
    BY <1>1, PostMoves
  <2>3. Zero(ready, "connected")
    BY <1>4, NoneWhileConnecting
  <2>4. \A n \in 1..Len(ready') : ready'[n].kind # "connected"
    BY <2>2, <2>3 DEF Moved, Vital, Zero
  <2>5. PICK S : ready \in Seq(S)
    BY <1>1 DEF IsSeq
  <2>6. 1 \in 1..Len(ready) /\ ready[1] = Head(ready)
    BY <1>1, <2>5
  <2>7. \A n \in 1..Len(ready') : ~IsConnect(ready'[n])
    <3> SUFFICES ASSUME NEW n \in 1..Len(ready'), IsConnect(ready'[n]) PROVE FALSE
      OBVIOUS
    <3>1. Vital(ready'[n]) /\ ready'[n] \notin X
      BY <2>2 DEF IsConnect, Vital
    <3>2. n + 1 \in 1..Len(ready) /\ ready'[n] = ready[n + 1] /\ n + 1 > 1
      BY <2>2, <3>1 DEF Moved
    <3>3. 1 >= n + 1
      BY <1>1, <2>6, <3>2 DEF FirstInv
    <3> QED BY <3>2, <3>3
  <2>8. \A n \in 1..Len(queue') : queue'[n].kind = "connect" => n = 1
    <3>1. queue \in Seq(Packets) /\ p \in Packets
      BY <1>1, FitsRest DEF WriteInv
    <3>2. Len(queue) \in Nat /\ Len(queue') = Len(queue) + 1 /\ queue'[Len(queue) + 1] = p
          /\ \A n \in 1..Len(queue) : queue'[n] = queue[n]
      <4> HIDE DEF Packets, p
      <4> QED BY <2>1, <3>1
    <3>3. p.kind = "connect" => Len(queue) = 0
      BY <1>1, <2>6 DEF FirstInv, IsConnect
    <3>4. \A n \in 1..Len(queue') : n \in 1..Len(queue) \/ n = Len(queue) + 1
      BY <3>2
    <3> HIDE DEF p
    <3> QED BY <3>2, <3>3, <3>4 DEF FirstInv
  <2>9. connected'
    BY <1>1, <1>4
  <2> QED BY <1>2, <2>4, <2>7, <2>8, <2>9 DEF FirstInv, IsConnect
<1> QED BY <1>3, <1>4

LEMMA WrittenMoves ==
  ASSUME IsSeq(ready), RunWritten
  PROVE  \E X : /\ Moved(1, X) /\ (connected \/ X = {})
                /\ \A h \in X : h.kind = "written"
<1> DEFINE rest == SubSeq(queue, Head(ready).count + 1, Len(queue))
<1>1. ready # <<>>
  BY DEF RunWritten, Runs
<1>2. Leaves(<<>>) \/ (connected /\ Leaves(WriteFailed(sock, rest)))
  BY DEF RunWritten
<1>3. CASE Leaves(<<>>)
  <2>1. Moved(1, {})
    BY <1>1, <1>3, OnlyOf, MovedByRun
  <2> QED BY <2>1
<1>4. CASE connected /\ Leaves(WriteFailed(sock, rest))
  <2> DEFINE w == Written(FALSE, Batch(rest))
  <2>1. Only(WriteFailed(sock, rest), {w})
    BY OperationsOnly
  <2>2. w.kind = "written"
    BY OwnHandlers, ZenonT(60)
  <2> HIDE DEF w, rest
  <2>3. Moved(1, {w})
    BY <1>1, <1>4, <2>1, MovedByRun
  <2> QED BY <1>4, <2>2, <2>3
<1> QED BY <1>2, <1>3, <1>4

\* What a write leaves of the queue.
LEMMA RestOfQueue ==
  ASSUME NEW q \in Seq(Packets), NEW c \in 1..Len(q), NEW rest, rest = SubSeq(q, c + 1, Len(q))
  PROVE  \A n \in 1..Len(rest) : n + c \in 1..Len(q) /\ n + c > c /\ n + c # 1 /\ rest[n] = q[n + c]
<1> HIDE DEF Packets
<1>1. Len(q) \in Nat /\ c \in Nat /\ c >= 1 /\ c <= Len(q) /\ c + 1 \in 1..(Len(q) + 1)
  OBVIOUS
<1>2. Len(rest) = Len(q) - c /\ \A n \in 1..(Len(q) - c) : rest[n] = q[n + c]
  BY <1>1
<1> TAKE n \in 1..Len(rest)
<1>3. n \in Nat /\ n >= 1 /\ n <= Len(q) - c /\ n \in 1..(Len(q) - c)
  BY <1>1, <1>2
<1>4. n + c \in 1..Len(q) /\ n + c > c /\ n + c # 1
  BY <1>1, <1>3
<1> QED BY <1>2, <1>3, <1>4

\* The write that ends took the CONNECT of the queue with it.
LEMMA WrittenFirst ==
  ASSUME ReadInv, WriteInv, FirstInv, RunWritten
  PROVE  FirstInv'
<1> DEFINE h == Head(ready)
           rest == SubSeq(queue, h.count + 1, Len(queue))
<1>1. /\ ready # <<>> /\ h.kind = "written" /\ IsSeq(ready)
      /\ UNCHANGED <<conn, connecting, ended>> /\ (connected' => connected)
      /\ connected \/ ~connected'
  BY DEF RunWritten, Runs, ReadInv, ClientTypes
<1>2. queue \in Seq(Packets) /\ h.count \in 1..Len(queue)
  BY <1>1, FitsRest DEF WriteInv, Fits
<1>3. ~Zero(ready, "written")
  BY <1>1, RestKinds
<1>4. queue # <<>> /\ writing = 0
  BY <1>3 DEF WriteInv, Served
<1>5. \/ connected /\ connected' = connected /\ queue' = rest /\ Leaves(WriteFailed(sock, rest))
      \/ Leaves(<<>>) /\ writing' = writing /\ (queue' = <<>> \/ queue' = rest)
  BY DEF RunWritten
<1>6. PICK X : Moved(1, X) /\ (\A x \in X : x.kind = "written")
               /\ (X = {} \/ Zero(ready, "connected"))
  BY <1>1, WrittenMoves, NoneWhileConnecting
<1>7. \A x \in X : x.kind # "connected" /\ ~IsConnect(x)
  BY <1>6 DEF IsConnect
<1>8. /\ \A n \in 1..Len(ready') : ready'[n].kind = "connected" =>
           \A m \in 1..Len(ready') : ready'[m].kind \in {"post", "written"} => m < n
      /\ \A n \in 1..Len(ready') : IsConnect(ready'[n]) =>
           queue' = <<>> /\ \A m \in 1..Len(ready') : ready'[m].kind = "post" => m >= n
  <2> HIDE DEF h, rest
  <2> QED BY <1>4, <1>6, <1>7, FirstKept
<1>9. \A n \in 1..Len(queue') : queue'[n].kind = "connect" => n = 1
  <2>1. CASE queue' = <<>>
    BY <2>1
  <2>2. CASE queue' = rest
    <3>1. \A n \in 1..Len(queue') : n + h.count \in 1..Len(queue) /\ n + h.count # 1
                                    /\ queue'[n] = queue[n + h.count]
      <4> HIDE DEF h, Packets
      <4> QED BY <1>2, <2>2, RestOfQueue, ZenonT(60)
    <3> HIDE DEF h
    <3> QED BY <3>1 DEF FirstInv
  <2> QED BY <1>5, <2>1, <2>2
<1>10. connected' => Expecting'
  BY <1>1 DEF FirstInv, Expecting
<1>11. ~connected' => writing' = 0
  <2>1. CASE writing' = writing
    BY <1>4, <2>1
  <2>2. CASE connected /\ connected' = connected
    BY <2>2
  <2> QED BY <1>5, <2>1, <2>2
<1> QED BY <1>8, <1>9, <1>10, <1>11 DEF FirstInv, IsConnect

LEMMA SimpleOnly ==
  /\ Only(<<>>, {})
  /\ Only(<<Simple("pingresp cancelled")>>, {})
  /\ Only(<<Simple("endpoint force")>>, {})
  /\ Only(<<Simple("client force")>>, {})
<1>1. /\ ~Vital(Simple("pingresp cancelled"))
      /\ ~Vital(Simple("endpoint force"))
      /\ ~Vital(Simple("client force"))
  BY DEF Vital, Simple
<1>2. Only(<<>>, {})
  BY OnlyOf
<1> QED BY <1>1, <1>2, OnlySingle

\* The other handlers and events: none ends a write, and a success or CONNECT is not
\* among what they make ready.
Quiet ==
  \/ RunRead \/ RunPing \/ RunPingresp \/ RunClose
  \/ ReadEnds \/ BrokerAnswers \/ Expiries \/ BrokerCloses \/ WireBreaks \/ BrokerFallsSilent
  \/ UNCHANGED vars

LEMMA QuietMoves ==
  ASSUME ReadInv, FirstInv, Quiet
  PROVE  \E d, X : /\ d \in {0, 1} /\ Moved(d, X)
                   /\ \A h \in X : h.kind # "connected" /\ ~IsConnect(h) /\ Num(h) = 0
                   /\ X = {} \/ Zero(ready, "connected")
                   /\ d = 1 => ready # <<>> /\ Head(ready).kind # "written"
<1>0. IsSeq(ready)
  BY DEF ReadInv, ClientTypes
<1>1. CASE RunRead
  <2> DEFINE more == IF Head(ready).what = "pingresp" /\ timPingresp
                     THEN <<Simple("pingresp cancelled")>> ELSE <<>>
  <2>1. ready # <<>> /\ Head(ready).kind # "written" /\ Leaves(ReadFailed(sock) \o more)
    BY <1>1 DEF RunRead, Runs
  <2>2. Only(more, {})
    <3>1. Only(<<>>, {}) /\ Only(<<Simple("pingresp cancelled")>>, {})
      BY SimpleOnly
    <3> QED BY <3>1
  <2> HIDE DEF more
  <2>3. Only(ReadFailed(sock) \o more, {})
    BY <2>2, OperationsOnly, OnlyJoined
  <2>4. Moved(1, {})
    BY <1>0, <2>1, <2>3, MovedByRun
  <2> QED BY <2>1, <2>4
<1>2. CASE RunPing
  <2> DEFINE h == Posted(Packet("pingreq"))
  <2>1. ready # <<>> /\ Head(ready).kind # "written" /\ ((connected /\ Leaves(<<h>>)) \/ Leaves(<<>>))
    BY <1>2 DEF RunPing, Runs
  <2>2. h.kind = "post" /\ ~IsConnect(h) /\ Num(h) = 0
    BY OwnHandlers DEF IsConnect, Num, Packet
  <2> HIDE DEF h
  <2>3. CASE connected /\ Leaves(<<h>>)
    <3>1. Only(<<h>>, {h})
      BY OnlySingle
    <3>2. Moved(1, {h})
      BY <1>0, <2>1, <2>3, <3>1, MovedByRun
    <3>3. Zero(ready, "connected")
      BY <2>3, NoneWhileConnecting
    <3>4. \A x \in {h} : x.kind # "connected" /\ ~IsConnect(x) /\ Num(x) = 0
      BY <2>2
    <3> QED BY <2>1, <3>2, <3>3, <3>4
  <2>4. CASE Leaves(<<>>)
    <3>1. Moved(1, {})
      BY <1>0, <2>1, <2>4, OnlyOf, MovedByRun
    <3> QED BY <2>1, <3>1
  <2> QED BY <2>1, <2>3, <2>4
<1>3. CASE RunPingresp \/ RunClose
  <2>1. /\ ready # <<>> /\ Head(ready).kind # "written"
        /\ Leaves(<<>>) \/ Leaves(<<Simple("endpoint force")>>) \/ Leaves(<<Simple("client force")>>)
    BY <1>3 DEF RunPingresp, RunClose, Runs
  <2>2. Only(<<>>, {}) /\ Only(<<Simple("endpoint force")>>, {}) /\ Only(<<Simple("client force")>>, {})
    BY SimpleOnly
  <2>3. Moved(1, {})
    BY <1>0, <2>1, <2>2, MovedByRun
  <2>4. ready # <<>> /\ Head(ready).kind # "written"
    BY <2>1
  <2> QED BY <2>3, <2>4
<1>4. CASE ReadEnds \/ BrokerAnswers \/ Expiries
  <2>1. PICK h : ~Vital(h) /\ ready' = Append(ready, h)
    <3>1. \/ \E kind \in {"ping", "close", "pingresp expired"} : ready' = Append(ready, Simple(kind))
          \/ \E ok, what : ready' = Append(ready, ReadDone(ok, what))
      BY <1>4 DEF ReadEnds, BrokerAnswers, Expiries, PingExpires, CloseExpires,
                  PingrespExpires, Readied, Expired
    <3>2. \A kind \in {"ping", "close", "pingresp expired"} : ~Vital(Simple(kind))
      BY OwnHandlers DEF Vital
    <3>3. \A ok, what : ~Vital(ReadDone(ok, what))
      BY OwnHandlers DEF Vital
    <3> QED BY <3>1, <3>2, <3>3
  <2>2. Moved(0, {})
    BY <1>0, <2>1, MovedByAdd
  <2> QED BY <2>2
<1>5. CASE BrokerCloses \/ WireBreaks \/ BrokerFallsSilent \/ UNCHANGED vars
  <2>1. ready' = ready
    BY <1>5 DEF BrokerCloses, WireBreaks, BrokerFallsSilent, vars
  <2>2. Moved(0, {})
    BY <1>0, <2>1, MovedByNone
  <2> QED BY <2>2
<1> QED BY <1>1, <1>2, <1>3, <1>4, <1>5 DEF Quiet

LEMMA QuietFirst ==
  ASSUME ReadInv, WriteInv, FirstInv, Quiet
  PROVE  FirstInv'
<1>1. UNCHANGED <<conn, connecting, connected, ended, queue, writing>>
  BY DEF Quiet, RunRead, RunPing, RunPingresp, RunClose, ReadEnds, BrokerAnswers, Expiries, PingExpires,
         CloseExpires, PingrespExpires, BrokerCloses, WireBreaks, BrokerFallsSilent, vars,
         connVars, queueVars
<1>2. PICK d, X : /\ d \in {0, 1} /\ Moved(d, X)
                  /\ \A h \in X : h.kind # "connected" /\ ~IsConnect(h)
                  /\ X = {} \/ Zero(ready, "connected")
  BY QuietMoves
<1>3. (connected' => Expecting') /\ (~connected' => writing' = 0) /\ queue' = queue
  BY <1>1 DEF FirstInv, Expecting
<1> QED BY <1>2, <1>3, FirstStep

\* The connection ends, and with it the write that is outstanding.
LEMMA EndsMoves ==
  ASSUME ReadInv, WriteInv, FirstInv, RunReadFails \/ RunForce
  PROVE  /\ ready # <<>> /\ Head(ready).kind # "written"
         /\ \E X : /\ Moved(1, X) /\ (X = {} \/ Zero(ready, "connected"))
                  /\ \A h \in X : h.kind = "written"
<1>1. ready # <<>> /\ Head(ready).kind # "written" /\ IsSeq(ready)
  BY DEF RunReadFails, RunForce, Runs, ReadInv, ClientTypes
<1>2. Leaves(<<>>) \/ Leaves(Aborted(FALSE, writing)) \/ Leaves(Aborted(reading, writing))
  BY DEF RunReadFails, RunForce
<1> DEFINE w == Written(FALSE, writing)
           X == IF writing > 0 THEN {w} ELSE {}
<1>3. Only(<<>>, X) /\ Only(Aborted(FALSE, writing), X) /\ Only(Aborted(reading, writing), X)
  BY OnlyOf, OperationsOnly
<1>4. \A h \in X : h.kind = "written"
  <2>1. w.kind = "written"
    BY OwnHandlers
  <2> HIDE DEF w
  <2> QED BY <2>1
<1>5. X = {} \/ Zero(ready, "connected")
  <2>1. CASE writing > 0
    <3>1. writing # 0
      BY <2>1
    <3> QED BY <3>1, NoneWhileConnecting
  <2>2. CASE ~(writing > 0)
    BY <2>2
  <2> QED BY <2>1, <2>2
<1> HIDE DEF X, w
<1>6. Moved(1, X)
  BY <1>1, <1>2, <1>3, MovedByRun
<1> QED BY <1>1, <1>4, <1>5, <1>6

LEMMA EndsFirst ==
  ASSUME ReadInv, WriteInv, FirstInv, RunReadFails \/ RunForce
  PROVE  FirstInv'
<1>1. connected' = FALSE /\ queue' = queue /\ writing' = 0
  BY DEF RunReadFails, RunForce, queueVars, FirstInv
<1>2. PICK X : /\ Moved(1, X) /\ (X = {} \/ Zero(ready, "connected"))
               /\ \A h \in X : h.kind = "written"
  BY EndsMoves
<1>3. \A h \in X : h.kind # "connected" /\ ~IsConnect(h)
  BY <1>2 DEF IsConnect
<1>4. (connected' => Expecting') /\ (~connected' => writing' = 0)
  BY <1>1
<1> QED BY <1>1, <1>2, <1>3, <1>4, FirstStep

LEMMA WriteEndsFirst ==
  ASSUME ReadInv, WriteInv, FirstInv, WriteEnds
  PROVE  FirstInv'
<1> DEFINE h == Written(wire, writing)
<1>1. /\ writing > 0 /\ writing' = 0 /\ ready' = Append(ready, h) /\ IsSeq(ready)
      /\ UNCHANGED <<conn, connecting, connected, ended, queue>>
  BY DEF WriteEnds, Readied, Expired, connVars, ReadInv, ClientTypes
<1>2. h.kind = "written"
  BY OwnHandlers
<1> HIDE DEF h
<1>3. Moved(0, {h})
  BY <1>1, MovedByAdd
<1>4. Zero(ready, "connected")
  BY <1>1, NoneWhileConnecting
<1>5. \A x \in {h} : x.kind # "connected" /\ ~IsConnect(x)
  BY <1>2 DEF IsConnect
<1>6. (connected' => Expecting') /\ (~connected' => writing' = 0)
  BY <1>1 DEF FirstInv, Expecting
<1> QED BY <1>1, <1>3, <1>4, <1>5, <1>6, FirstStep

LEMMA SucceedsFirst ==
  ASSUME ReadInv, WriteInv, FirstInv, ConnectSucceeds
  PROVE  FirstInv'
<1> DEFINE h == Simple("connected")
<1>1. /\ ready' = Append(ready, h) /\ \A n \in DOMAIN ready : ready[n].kind # "connected"
      /\ UNCHANGED <<conn, connecting, connected, ended, queue, writing>> /\ IsSeq(ready)
  BY DEF ConnectSucceeds, Readied, Expired, queueVars, ReadInv, ClientTypes
<1>2. h.kind = "connected"
  BY OwnHandlers
<1> HIDE DEF h
<1>3. Moved(0, {h}) /\ Len(ready) \in Nat /\ Len(ready') = Len(ready) + 1 /\ ready'[Len(ready')] = h
  BY <1>1, MovedByAdd
<1>4. \A n \in 1..Len(ready) : ready[n].kind # "connected"
  BY <1>1 DEF IsSeq
<1>5. \A n \in 1..Len(ready') : n \in 1..Len(ready) \/ n = Len(ready')
  BY <1>3
<1>6. \A n \in 1..Len(ready') : Vital(ready'[n]) /\ ready'[n] # h => n \in 1..Len(ready) /\ ready'[n] = ready[n]
  <2> TAKE n \in 1..Len(ready')
  <2>1. n + 0 = n
    OBVIOUS
  <2> QED BY <1>3, <2>1 DEF Moved
<1>7. ASSUME NEW n \in 1..Len(ready'), ready'[n].kind = "connected",
             NEW m \in 1..Len(ready'), ready'[m].kind \in {"post", "written"}
      PROVE  m < n
  <2>1. n = Len(ready')
    <3>1. n \in 1..Len(ready) => ready'[n] = h
      BY <1>4, <1>6, <1>7 DEF Vital
    <3>2. n \in 1..Len(ready) => n - 0 = n /\ n > 0
      BY <1>3
    <3>3. n \in 1..Len(ready) => ready'[n] = ready[n]
      BY <1>3, <3>2 DEF Moved
    <3> QED BY <1>4, <1>5, <1>7, <3>3
  <2>2. m \in 1..Len(ready)
    BY <1>2, <1>6, <1>7 DEF Vital
  <2> QED BY <1>3, <2>1, <2>2
<1>8. ASSUME NEW n \in 1..Len(ready'), IsConnect(ready'[n])
      PROVE  queue' = <<>> /\ \A m \in 1..Len(ready') : ready'[m].kind = "post" => m >= n
  <2>1. n \in 1..Len(ready) /\ ready'[n] = ready[n]
    BY <1>2, <1>6, <1>8 DEF Vital, IsConnect
  <2>2. \A m \in 1..Len(ready') : ready'[m].kind = "post" => m \in 1..Len(ready) /\ ready'[m] = ready[m]
    BY <1>2, <1>6 DEF Vital
  <2> QED BY <1>1, <1>8, <2>1, <2>2 DEF FirstInv
<1>9. (connected' => Expecting') /\ (~connected' => writing' = 0)
  BY <1>1 DEF FirstInv, Expecting
<1>10. \A n \in 1..Len(queue') : queue'[n].kind = "connect" => n = 1
  BY <1>1 DEF FirstInv
<1> QED BY <1>7, <1>8, <1>9, <1>10 DEF FirstInv, IsConnect

LEMMA FirstInvStep ==
  ASSUME ReadInv, ReadInv', WriteInv, FirstInv, [Next]_vars
  PROVE  FirstInv'
BY AppFirst, ConnectedFirst, PostFirst, WrittenFirst, QuietFirst, EndsFirst, WriteEndsFirst,
   SucceedsFirst DEF Quiet, Next, Handlers

-----------------------------------------------------------------------------
(* The order of the messages: those that the broker has read come before     *)
(* those of the queue, and these before the ones that are posted.            *)

\* The handler of the write that sent the first i packets of the queue is yet to run.
Removed(i) ==
  \E n \in 1..Len(ready) : ready[n].kind = "written" /\ ready[n].ok /\ i <= ready[n].count

ArrivedOrder ==
  /\ arrived \in Seq(Nat)
  /\ \A k, l \in 1..Len(arrived) : k < l => arrived[k] < arrived[l]

QueueOrder ==
  \A i, j \in 1..Len(queue) :
    i < j /\ queue[i].n > 0 /\ queue[j].n > 0 => queue[i].n < queue[j].n

PostedOrder ==
  \A m, n \in 1..Len(ready) :
    m < n /\ Num(ready[m]) > 0 /\ Num(ready[n]) > 0 => Num(ready[m]) < Num(ready[n])

UpTo(limit) ==
  /\ \A k \in 1..Len(arrived) : arrived[k] <= limit
  /\ \A i \in 1..Len(queue) : queue[i].n > 0 => queue[i].n <= limit
  /\ \A n \in 1..Len(ready) : Num(ready[n]) > 0 => Num(ready[n]) <= limit

BeforePosted ==
  \A n \in 1..Len(ready) : Num(ready[n]) > 0 =>
    /\ \A k \in 1..Len(arrived) : arrived[k] < Num(ready[n])
    /\ \A i \in 1..Len(queue) : queue[i].n < Num(ready[n])

BeforeQueued ==
  \A k \in 1..Len(arrived), i \in 1..Len(queue) :
    queue[i].n > 0 => arrived[k] < queue[i].n \/ Removed(i)

OrderInv ==
  ArrivedOrder /\ QueueOrder /\ PostedOrder /\ UpTo(posted) /\ BeforePosted /\ BeforeQueued

LEMMA OrderInvInit == Init => OrderInv
<1> SUFFICES ASSUME Init PROVE OrderInv
  OBVIOUS
<1>1. arrived = <<>> /\ queue = <<>> /\ ready = <<>>
  BY DEF Init
<1>2. /\ arrived \in Seq(Nat) /\ (\A k \in 1..Len(arrived) : FALSE)
      /\ (\A k \in 1..Len(queue) : FALSE) /\ \A k \in 1..Len(ready) : FALSE
  BY <1>1
<1> QED BY <1>2 DEF OrderInv, ArrivedOrder, QueueOrder, PostedOrder, UpTo, BeforePosted, BeforeQueued

LEMMA NumTypes ==
  ASSUME WriteInv
  PROVE  /\ MaxPubs \in Nat => \A n \in 1..Len(ready) : Num(ready[n]) \in Nat
         /\ MaxPubs \in Nat => \A i \in 1..Len(queue) : queue[i].n \in Nat
         /\ Len(ready) \in Nat /\ Len(queue) \in Nat /\ posted \in Nat
<1>1. MaxPubs \in Nat => \A p \in Packets : p.n \in Nat
  BY PacketNumber
<1>2. /\ \A n \in 1..Len(ready) : ready[n].kind = "post" => ready[n].packet \in Packets
      /\ queue \in Seq(Packets) /\ Len(ready) \in Nat /\ posted \in Nat
  BY DEF WriteInv, Fits, IsSeq
<1> HIDE DEF Packets
<1>3. Len(queue) \in Nat /\ \A i \in 1..Len(queue) : queue[i] \in Packets
  BY <1>2
<1>4. MaxPubs \in Nat => \A n \in 1..Len(ready) : Num(ready[n]) \in Nat
  BY <1>1, <1>2 DEF Num
<1> QED BY <1>1, <1>2, <1>3, <1>4

\* What a step does that posts no message.
LEMMA PostedMoved ==
  ASSUME WriteInv, PostedOrder, NEW d \in {0, 1}, NEW X, Moved(d, X), \A h \in X : Num(h) = 0
  PROVE  /\ PostedOrder'
         /\ \A n \in 1..Len(ready') : Num(ready'[n]) > 0 =>
              n + d \in 1..Len(ready) /\ n + d > d /\ ready'[n] = ready[n + d]
<1>1. ASSUME NEW n \in 1..Len(ready'), Num(ready'[n]) > 0
      PROVE  n + d \in 1..Len(ready) /\ n + d > d /\ ready'[n] = ready[n + d]
  <2>1. Vital(ready'[n])
    BY <1>1 DEF Num, Vital
  <2>2. ready'[n] \notin X
    BY <1>1
  <2> QED BY <2>1, <2>2 DEF Moved
<1>2. ASSUME NEW m \in 1..Len(ready'), NEW n \in 1..Len(ready'), m < n,
             Num(ready'[m]) > 0, Num(ready'[n]) > 0
      PROVE  Num(ready'[m]) < Num(ready'[n])
  <2>1. m + d < n + d
    BY <1>2
  <2>2. /\ m + d \in 1..Len(ready) /\ ready'[m] = ready[m + d]
        /\ n + d \in 1..Len(ready) /\ ready'[n] = ready[n + d]
    BY <1>1, <1>2
  <2> QED BY <1>2, <2>1, <2>2 DEF PostedOrder
<1>3. PostedOrder'
  <2>1. PostedOrder' <=> \A m, n \in 1..Len(ready') :
          m < n /\ Num(ready'[m]) > 0 /\ Num(ready'[n]) > 0 => Num(ready'[m]) < Num(ready'[n])
    BY DEF PostedOrder, Num
  <2> QED BY <1>2, <2>1
<1> QED BY <1>1, <1>3

\* A write that has ended is known until its handler runs.
LEMMA RemovedKept ==
  ASSUME IsSeq(ready), NEW d \in {0, 1}, NEW X, Moved(d, X),
         d = 1 => ready # <<>> /\ Head(ready).kind # "written"
  PROVE  \A i : Removed(i) => Removed(i)'
<1> SUFFICES ASSUME NEW i, Removed(i) PROVE Removed(i)'
  OBVIOUS
<1>1. PICK n \in 1..Len(ready) : ready[n].kind = "written" /\ ready[n].ok /\ i <= ready[n].count
  BY DEF Removed
<1>2. n > d
  <2>1. PICK S : ready \in Seq(S)
    BY DEF IsSeq
  <2>2. CASE d = 1
    <3>1. Head(ready) = ready[1]
      BY <2>1, <2>2
    <3>2. n # 1 /\ Len(ready) \in Nat
      BY <1>1, <2>1, <2>2, <3>1
    <3> QED BY <2>2, <3>2
  <2>3. CASE d = 0
    BY <2>3
  <2> QED BY <2>2, <2>3
<1>3. n - d \in 1..Len(ready') /\ ready'[n - d] = ready[n]
  BY <1>2 DEF Moved
<1> QED BY <1>1, <1>3 DEF Removed

\* A step that leaves the queue and what the broker has read as they are, and of whose
\* handlers none ends a write.
LEMMA OrderKept ==
  ASSUME WriteInv, OrderInv, NEW d \in {0, 1}, NEW X, Moved(d, X), \A h \in X : Num(h) = 0,
         d = 1 => ready # <<>> /\ Head(ready).kind # "written",
         UNCHANGED <<queue, arrived, posted>>
  PROVE  OrderInv'
<1>1. /\ PostedOrder'
      /\ \A n \in 1..Len(ready') : Num(ready'[n]) > 0 =>
           n + d \in 1..Len(ready) /\ ready'[n] = ready[n + d]
  BY PostedMoved DEF OrderInv
<1>2. IsSeq(ready)
  BY DEF WriteInv, Fits
<1>3. \A i : Removed(i) => Removed(i)'
  BY <1>2, RemovedKept
<1>4. ArrivedOrder' /\ QueueOrder'
  BY DEF OrderInv, ArrivedOrder, QueueOrder
<1>5. UpTo(posted)'
  <2>1. \A n \in 1..Len(ready') : Num(ready'[n]) > 0 => Num(ready'[n]) <= posted'
    BY <1>1 DEF OrderInv, UpTo
  <2>2. /\ \A k \in 1..Len(arrived') : arrived'[k] <= posted'
        /\ \A i \in 1..Len(queue') : queue'[i].n > 0 => queue'[i].n <= posted'
    BY DEF OrderInv, UpTo
  <2> QED BY <2>1, <2>2 DEF UpTo, Num
<1>6. BeforePosted'
  <2>1. \A n \in 1..Len(ready') : Num(ready'[n]) > 0 =>
          /\ \A k \in 1..Len(arrived') : arrived'[k] < Num(ready'[n])
          /\ \A i \in 1..Len(queue') : queue'[i].n < Num(ready'[n])
    BY <1>1 DEF OrderInv, BeforePosted
  <2> QED BY <2>1 DEF BeforePosted, Num
<1>7. BeforeQueued'
  <2>1. \A k \in 1..Len(arrived'), i \in 1..Len(queue') :
          queue'[i].n > 0 => arrived'[k] < queue'[i].n \/ Removed(i)'
    BY <1>3 DEF OrderInv, BeforeQueued
  <2> QED BY <2>1 DEF BeforeQueued, Removed
<1> QED BY <1>1, <1>4, <1>5, <1>6, <1>7 DEF OrderInv

LEMMA QuietOrder == ASSUME ReadInv, WriteInv, FirstInv, OrderInv, Quiet PROVE OrderInv'
<1>1. UNCHANGED <<queue, arrived, posted>>
  BY DEF Quiet, RunRead, RunPing, RunPingresp, RunClose, ReadEnds, BrokerAnswers, Expiries,
         PingExpires, CloseExpires, PingrespExpires, BrokerCloses, WireBreaks, BrokerFallsSilent,
         vars, queueVars, appVars, netVars
<1>2. PICK d, X : /\ d \in {0, 1} /\ Moved(d, X)
                  /\ \A h \in X : Num(h) = 0
                  /\ d = 1 => ready # <<>> /\ Head(ready).kind # "written"
  BY QuietMoves
<1> QED BY <1>1, <1>2, OrderKept

LEMMA EndsOrder ==
  ASSUME ReadInv, WriteInv, FirstInv, OrderInv, RunReadFails \/ RunForce
  PROVE  OrderInv'
<1>1. UNCHANGED <<queue, arrived, posted>>
  BY DEF RunReadFails, RunForce, queueVars, appVars, netVars
<1>2. PICK X : Moved(1, X) /\ \A h \in X : h.kind = "written"
  BY EndsMoves
<1>3. \A h \in X : Num(h) = 0
  BY <1>2 DEF Num
<1>4. ready # <<>> /\ Head(ready).kind # "written"
  BY EndsMoves
<1> QED BY <1>1, <1>2, <1>3, <1>4, OrderKept

LEMMA ConnectedOrder ==
  ASSUME WriteInv, OrderInv, RunConnected \/ ConnectSucceeds
  PROVE  OrderInv'
<1>1. UNCHANGED <<queue, arrived, posted>> /\ IsSeq(ready)
  BY DEF RunConnected, ConnectSucceeds, queueVars, appVars, netVars, WriteInv, Fits
<1>2. CASE RunConnected
  <2> DEFINE c == Posted(Packet("connect"))
  <2>1. ready # <<>> /\ Head(ready).kind = "connected" /\ Leaves(ReadFailed(sock) \o <<c>>)
    BY <1>2 DEF RunConnected, Runs
  <2>2. Num(c) = 0
    BY OwnHandlers DEF Num, Packet
  <2> HIDE DEF c
  <2>3. Only(<<c>>, {c}) /\ Only(ReadFailed(sock), {c})
    BY OnlySingle, OperationsOnly
  <2>4. Only(ReadFailed(sock) \o <<c>>, {c})
    BY <2>3, OnlyJoined
  <2>5. Moved(1, {c})
    BY <1>1, <2>1, <2>4, MovedByRun
  <2>6. \A h \in {c} : Num(h) = 0
    BY <2>2
  <2>7. ready # <<>> /\ Head(ready).kind # "written"
    BY <2>1
  <2> QED BY <1>1, <2>5, <2>6, <2>7, OrderKept
<1>3. CASE ConnectSucceeds
  <2> DEFINE h == Simple("connected")
  <2>1. ready' = Append(ready, h)
    BY <1>3 DEF ConnectSucceeds, Readied, Expired
  <2>2. Num(h) = 0
    BY OwnHandlers DEF Num
  <2> HIDE DEF h
  <2>3. Moved(0, {h})
    BY <1>1, <2>1, MovedByAdd
  <2>4. \A x \in {h} : Num(x) = 0
    BY <2>2
  <2> QED BY <1>1, <2>3, <2>4, OrderKept
<1> QED BY <1>2, <1>3

\* A message is given the next number and posted behind all others.
LEMMA PublishOrder == ASSUME ClientAssumption, WriteInv, OrderInv, AsyncPublish PROVE OrderInv'
<1> DEFINE h == Posted(PublishPacket(posted + 1))
<1>1. /\ posted' = posted + 1 /\ ready' = Append(ready, h) /\ UNCHANGED <<queue, arrived>>
      /\ IsSeq(ready) /\ posted \in Nat
  BY NumTypes DEF AsyncPublish, queueVars, netVars, WriteInv, Fits
<1>2. Num(h) = posted + 1
  BY OwnHandlers DEF Num, PublishPacket
<1> HIDE DEF h
<1>3. Moved(0, {h}) /\ Len(ready) \in Nat /\ Len(ready') = Len(ready) + 1 /\ ready'[Len(ready')] = h
  BY <1>1, MovedByAdd
<1>4. \A n \in 1..Len(ready) : n \in 1..Len(ready') /\ ready'[n] = ready[n]
  <2> TAKE n \in 1..Len(ready)
  <2>1. n > 0 /\ n - 0 = n
    BY <1>3
  <2> QED BY <1>3, <2>1 DEF Moved
<1>5. \A n \in 1..Len(ready') : \/ n \in 1..Len(ready) /\ ready'[n] = ready[n]
                                \/ n = Len(ready') /\ ready'[n] = h /\ Num(ready'[n]) = posted + 1
  <2> TAKE n \in 1..Len(ready')
  <2>1. n \in 1..Len(ready) \/ n = Len(ready')
    BY <1>3
  <2> QED BY <1>2, <1>3, <1>4, <2>1
<1>6. /\ \A k \in 1..Len(arrived) : arrived[k] \in Nat
      /\ \A n \in 1..Len(ready) : Num(ready[n]) \in Nat
      /\ \A i \in 1..Len(queue) : queue[i].n \in Nat
  <2>1. MaxPubs \in Nat
    BY DEF ClientAssumption
  <2> QED BY <2>1, NumTypes DEF OrderInv, ArrivedOrder
<1>7. ArrivedOrder' /\ QueueOrder'
  BY <1>1 DEF OrderInv, ArrivedOrder, QueueOrder
<1>8. ASSUME NEW m \in 1..Len(ready'), NEW n \in 1..Len(ready'), m < n,
             Num(ready'[m]) > 0, Num(ready'[n]) > 0
      PROVE  Num(ready'[m]) < Num(ready'[n])
  <2>1. m \in 1..Len(ready) /\ ready'[m] = ready[m]
    <3>1. ~(m = Len(ready'))
      BY <1>3, <1>8
    <3> QED BY <1>5, <3>1
  <2>2. CASE n \in 1..Len(ready) /\ ready'[n] = ready[n]
    BY <1>8, <2>1, <2>2 DEF OrderInv, PostedOrder
  <2>3. CASE Num(ready'[n]) = posted + 1
    <3>1. Num(ready'[m]) <= posted /\ Num(ready'[m]) \in Nat
      BY <1>6, <1>8, <2>1 DEF OrderInv, UpTo
    <3> QED BY <1>1, <2>3, <3>1
  <2> QED BY <1>5, <2>2, <2>3
<1>9. PostedOrder'
  BY <1>8 DEF PostedOrder, Num
<1>10. \A k \in 1..Len(arrived) : arrived[k] <= posted /\ arrived[k] < posted + 1 /\ arrived[k] <= posted + 1
  BY <1>1, <1>6 DEF OrderInv, UpTo
<1>11. \A i \in 1..Len(queue) : queue[i].n < posted + 1 /\ queue[i].n <= posted + 1
  <2> TAKE i \in 1..Len(queue)
  <2>1. queue[i].n > 0 => queue[i].n <= posted
    BY DEF OrderInv, UpTo
  <2> QED BY <1>1, <1>6, <2>1
<1>12. \A n \in 1..Len(ready') : Num(ready'[n]) > 0 => Num(ready'[n]) <= posted + 1
  <2> SUFFICES ASSUME NEW n \in 1..Len(ready'), Num(ready'[n]) > 0 PROVE Num(ready'[n]) <= posted + 1
    OBVIOUS
  <2>1. CASE n \in 1..Len(ready) /\ ready'[n] = ready[n]
    <3>1. Num(ready'[n]) <= posted /\ Num(ready'[n]) \in Nat
      BY <1>6, <2>1 DEF OrderInv, UpTo
    <3> QED BY <1>1, <3>1
  <2>2. CASE Num(ready'[n]) = posted + 1
    BY <1>1, <2>2
  <2> QED BY <1>5, <2>1, <2>2
<1>13. UpTo(posted)'
  BY <1>1, <1>10, <1>11, <1>12 DEF UpTo, Num
<1>14. BeforePosted'
  <2>1. ASSUME NEW n \in 1..Len(ready'), Num(ready'[n]) > 0
        PROVE  /\ \A k \in 1..Len(arrived) : arrived[k] < Num(ready'[n])
               /\ \A i \in 1..Len(queue) : queue[i].n < Num(ready'[n])
    <3>1. CASE n \in 1..Len(ready) /\ ready'[n] = ready[n]
      BY <2>1, <3>1 DEF OrderInv, BeforePosted
    <3>2. CASE Num(ready'[n]) = posted + 1
      BY <1>10, <1>11, <3>2
    <3> QED BY <1>5, <3>1, <3>2
  <2> QED BY <1>1, <2>1 DEF BeforePosted, Num
<1>15. \A i : Removed(i) => Removed(i)'
  BY <1>4 DEF Removed
<1>16. BeforeQueued'
  <2>1. \A k \in 1..Len(arrived'), i \in 1..Len(queue') :
          queue'[i].n > 0 => arrived'[k] < queue'[i].n \/ Removed(i)'
    BY <1>1, <1>15 DEF OrderInv, BeforeQueued
  <2> QED BY <2>1 DEF BeforeQueued, Removed
<1> QED BY <1>7, <1>9, <1>13, <1>14, <1>16 DEF OrderInv

LEMMA AppOrder == ASSUME ClientAssumption, WriteInv, OrderInv, App PROVE OrderInv'
<1>0. IsSeq(ready)
  BY DEF WriteInv, Fits
<1>1. CASE AsyncConnect
  <2>1. UNCHANGED <<ready, queue, arrived, posted>>
    BY <1>1 DEF AsyncConnect, queueVars, appVars
  <2>2. Moved(0, {})
    BY <1>0, <2>1, MovedByNone
  <2> QED BY <2>1, <2>2, OrderKept
<1>2. CASE AsyncDisconnect
  <2> DEFINE h == Posted(Packet("disconnect"))
  <2>1. (ready' = ready \/ ready' = Append(ready, h)) /\ UNCHANGED <<queue, arrived, posted>>
    BY <1>2 DEF AsyncDisconnect, queueVars, netVars
  <2>2. Num(h) = 0
    BY OwnHandlers DEF Num, Packet
  <2> HIDE DEF h
  <2>3. Moved(0, {h}) \/ Moved(0, {})
    BY <1>0, <2>1, MovedByAdd, MovedByNone
  <2>4. \A x \in {h} : Num(x) = 0
    BY <2>2
  <2> QED BY <2>1, <2>3, <2>4, OrderKept
<1> QED BY <1>1, <1>2, PublishOrder DEF App

\* A posted packet joins the queue behind all others, and before all that are posted.
LEMMA PostOrder == ASSUME ClientAssumption, WriteInv, OrderInv, RunPost PROVE OrderInv'
<1> DEFINE p == Head(ready).packet
<1>1. /\ ready # <<>> /\ Head(ready).kind = "post" /\ IsSeq(ready) /\ p \in Packets
      /\ queue \in Seq(Packets) /\ MaxPubs \in Nat /\ UNCHANGED <<arrived, posted>>
  BY FitsRest DEF RunPost, Runs, appVars, netVars, WriteInv, Fits, ClientAssumption
<1>2. PICK X : Moved(1, X) /\ \A h \in X : h.kind = "written"
  BY <1>1, PostMoves
<1>3. \A h \in X : Num(h) = 0
  BY <1>2 DEF Num
<1>4. ready # <<>> /\ Head(ready).kind # "written"
  BY <1>1
<1>5. CASE ~connected
  <2>1. UNCHANGED <<queue, arrived, posted>>
    BY <1>1, <1>5 DEF RunPost
  <2> QED BY <1>2, <1>3, <1>4, <2>1, OrderKept
<1>6. CASE connected
  <2> DEFINE l == Len(queue) + 1
  <2>1. queue' = Append(queue, p)
    BY <1>6 DEF RunPost
  <2>2. /\ Len(queue) \in Nat /\ Len(queue') = l /\ queue'[l] = p
        /\ \A i \in 1..Len(queue) : queue'[i] = queue[i] /\ queue[i] \in Packets
    <3> HIDE DEF Packets, p
    <3> QED BY <1>1, <2>1
  <2>3. p.n \in Nat
    BY <1>1, PacketNumber
  <2>4. 1 \in 1..Len(ready) /\ Num(ready[1]) = p.n
    <3>1. PICK S : ready \in Seq(S)
      BY <1>1 DEF IsSeq
    <3>2. 1 \in 1..Len(ready) /\ ready[1] = Head(ready)
      BY <1>1, <3>1
    <3> QED BY <1>1, <3>2 DEF Num
  <2> HIDE DEF p
  <2>5. \A i \in 1..Len(queue') : (i \in 1..Len(queue) /\ queue'[i] = queue[i]) \/ i = l
    BY <2>2
  <2>6. /\ PostedOrder'
        /\ \A n \in 1..Len(ready') : Num(ready'[n]) > 0 =>
             n + 1 \in 1..Len(ready) /\ n + 1 > 1 /\ ready'[n] = ready[n + 1]
    BY <1>2, <1>3, PostedMoved DEF OrderInv
  <2>7. \A i : Removed(i) => Removed(i)'
    BY <1>1, <1>2, <1>4, RemovedKept
  <2>8. ArrivedOrder'
    BY <1>1 DEF OrderInv, ArrivedOrder
  <2>9. QueueOrder'
    <3>1. ASSUME NEW i \in 1..Len(queue'), NEW j \in 1..Len(queue'), i < j,
                 queue'[i].n > 0, queue'[j].n > 0
          PROVE  queue'[i].n < queue'[j].n
      <4>1. i \in 1..Len(queue) /\ queue'[i] = queue[i]
        <5>1. i # l
          BY <2>2, <3>1
        <5> QED BY <2>5, <5>1
      <4>2. CASE j \in 1..Len(queue) /\ queue'[j] = queue[j]
        BY <3>1, <4>1, <4>2 DEF OrderInv, QueueOrder
      <4>3. CASE j = l
        <5>1. Num(ready[1]) > 0
          BY <2>2, <2>4, <3>1, <4>3
        <5>2. queue[i].n < Num(ready[1])
          BY <2>4, <4>1, <5>1 DEF OrderInv, BeforePosted
        <5> QED BY <2>2, <2>4, <4>1, <4>3, <5>2
      <4> QED BY <2>5, <4>2, <4>3
    <3> QED BY <3>1 DEF QueueOrder
  <2>10. UpTo(posted)'
    <3>1. \A i \in 1..Len(queue') : queue'[i].n > 0 => queue'[i].n <= posted
      <4> TAKE i \in 1..Len(queue')
      <4>1. CASE i \in 1..Len(queue) /\ queue'[i] = queue[i]
        BY <4>1 DEF OrderInv, UpTo
      <4>2. CASE i = l
        BY <2>2, <2>4, <4>2 DEF OrderInv, UpTo
      <4> QED BY <2>5, <4>1, <4>2
    <3>2. \A n \in 1..Len(ready') : Num(ready'[n]) > 0 => Num(ready'[n]) <= posted
      BY <2>6 DEF OrderInv, UpTo
    <3>3. \A k \in 1..Len(arrived') : arrived'[k] <= posted
      BY <1>1 DEF OrderInv, UpTo
    <3> QED BY <1>1, <3>1, <3>2, <3>3 DEF UpTo, Num
  <2>11. BeforePosted'
    <3>1. ASSUME NEW n \in 1..Len(ready'), Num(ready'[n]) > 0
          PROVE  /\ \A k \in 1..Len(arrived') : arrived'[k] < Num(ready'[n])
                 /\ \A i \in 1..Len(queue') : queue'[i].n < Num(ready'[n])
      <4>1. n + 1 \in 1..Len(ready) /\ 1 < n + 1 /\ ready'[n] = ready[n + 1]
        BY <2>6, <3>1
      <4>2. p.n < Num(ready'[n])
        <5>1. CASE p.n > 0
          BY <2>4, <3>1, <4>1, <5>1 DEF OrderInv, PostedOrder
        <5>2. CASE p.n = 0
          BY <3>1, <5>2
        <5> QED BY <2>3, <5>1, <5>2
      <4>3. \A k \in 1..Len(arrived') : arrived'[k] < Num(ready'[n])
        BY <1>1, <3>1, <4>1 DEF OrderInv, BeforePosted
      <4>4. \A i \in 1..Len(queue) : queue[i].n < Num(ready'[n])
        BY <3>1, <4>1 DEF OrderInv, BeforePosted
      <4> QED BY <2>2, <2>5, <4>2, <4>3, <4>4
    <3> QED BY <3>1 DEF BeforePosted, Num
  <2>12. BeforeQueued'
    <3>1. ASSUME NEW k \in 1..Len(arrived'), NEW i \in 1..Len(queue'), queue'[i].n > 0
          PROVE  arrived'[k] < queue'[i].n \/ Removed(i)'
      <4>1. CASE i \in 1..Len(queue) /\ queue'[i] = queue[i]
        BY <1>1, <2>7, <3>1, <4>1 DEF OrderInv, BeforeQueued
      <4>2. CASE i = l
        BY <1>1, <2>2, <2>4, <3>1, <4>2 DEF OrderInv, BeforePosted
      <4> QED BY <2>5, <4>1, <4>2
    <3> QED BY <3>1 DEF BeforeQueued, Removed
  <2> QED BY <2>6, <2>8, <2>9, <2>10, <2>11, <2>12 DEF OrderInv
<1> QED BY <1>5, <1>6

\* The packets that a write has sent leave the queue.
LEMMA WrittenOrder == ASSUME WriteInv, OrderInv, RunWritten PROVE OrderInv'
<1> DEFINE c == Head(ready).count
<1>1. /\ ready # <<>> /\ Head(ready).kind = "written" /\ IsSeq(ready) /\ c \in 1..Len(queue)
      /\ queue \in Seq(Packets) /\ UNCHANGED <<arrived, posted>>
  BY FitsRest DEF RunWritten, Runs, appVars, netVars, WriteInv, Fits
<1>2. queue' = <<>> \/ queue' = SubSeq(queue, c + 1, Len(queue))
  BY DEF RunWritten
<1>3. \A i \in 1..Len(queue') : i + c \in 1..Len(queue) /\ i + c > c /\ queue'[i] = queue[i + c]
  <2>1. CASE queue' = <<>>
    <3>1. \A i \in 1..Len(queue') : FALSE
      BY <2>1
    <3> QED BY <3>1
  <2>2. CASE queue' = SubSeq(queue, c + 1, Len(queue))
    <3> HIDE DEF c, Packets
    <3> QED BY <1>1, <2>2, RestOfQueue
  <2> QED BY <1>2, <2>1, <2>2
<1>4. \A i \in 1..Len(queue') : queue'[i].n > 0 => \A k \in 1..Len(arrived) : arrived[k] < queue'[i].n
  <2> SUFFICES ASSUME NEW i \in 1..Len(queue'), queue'[i].n > 0, NEW k \in 1..Len(arrived)
               PROVE  arrived[k] < queue'[i].n
    OBVIOUS
  <2>1. ~Removed(i + c)
    <3>1. \A n \in 1..Len(ready) : ready[n].kind = "written" => ready[n].count = c
      <4>1. One(ready, "written")
        <5>1. ~Zero(ready, "written")
          BY <1>1, RestKinds
        <5> QED BY <5>1 DEF WriteInv, Served
      <4>2. PICK S : ready \in Seq(S)
        BY <1>1 DEF IsSeq
      <4>3. 1 \in 1..Len(ready) /\ ready[1] = Head(ready)
        BY <1>1, <4>2
      <4> QED BY <1>1, <4>1, <4>3 DEF One
    <3>2. ~(i + c <= c)
      BY <1>1
    <3> HIDE DEF c
    <3> QED BY <3>1, <3>2 DEF Removed
  <2> HIDE DEF c
  <2> QED BY <1>3, <2>1 DEF OrderInv, BeforeQueued
<1>5. PICK X : Moved(1, X) /\ \A h \in X : h.kind = "written"
  BY <1>1, WrittenMoves
<1>6. \A h \in X : Num(h) = 0
  BY <1>5 DEF Num
<1> HIDE DEF c
<1>7. /\ PostedOrder'
      /\ \A n \in 1..Len(ready') : Num(ready'[n]) > 0 =>
           n + 1 \in 1..Len(ready) /\ ready'[n] = ready[n + 1]
  BY <1>5, <1>6, PostedMoved DEF OrderInv
<1>8. ArrivedOrder'
  BY <1>1 DEF OrderInv, ArrivedOrder
<1>9. QueueOrder'
  <2>1. ASSUME NEW i \in 1..Len(queue'), NEW j \in 1..Len(queue'), i < j,
               queue'[i].n > 0, queue'[j].n > 0
        PROVE  queue'[i].n < queue'[j].n
    <3>1. i + c < j + c
      BY <1>1, <2>1
    <3> QED BY <1>3, <2>1, <3>1 DEF OrderInv, QueueOrder
  <2> QED BY <2>1 DEF QueueOrder
<1>10. UpTo(posted)'
  <2>1. \A i \in 1..Len(queue') : queue'[i].n > 0 => queue'[i].n <= posted
    BY <1>3 DEF OrderInv, UpTo
  <2>2. \A n \in 1..Len(ready') : Num(ready'[n]) > 0 => Num(ready'[n]) <= posted
    BY <1>7 DEF OrderInv, UpTo
  <2>3. \A k \in 1..Len(arrived') : arrived'[k] <= posted
    BY <1>1 DEF OrderInv, UpTo
  <2> QED BY <1>1, <2>1, <2>2, <2>3 DEF UpTo, Num
<1>11. BeforePosted'
  <2>1. ASSUME NEW n \in 1..Len(ready'), Num(ready'[n]) > 0
        PROVE  /\ \A k \in 1..Len(arrived') : arrived'[k] < Num(ready'[n])
               /\ \A i \in 1..Len(queue') : queue'[i].n < Num(ready'[n])
    BY <1>1, <1>3, <1>7, <2>1 DEF OrderInv, BeforePosted
  <2> QED BY <2>1 DEF BeforePosted, Num
<1>12. BeforeQueued'
  <2>1. \A k \in 1..Len(arrived'), i \in 1..Len(queue') :
          queue'[i].n > 0 => arrived'[k] < queue'[i].n \/ Removed(i)'
    BY <1>1, <1>4
  <2> QED BY <2>1 DEF BeforeQueued, Removed
<1> QED BY <1>7, <1>8, <1>9, <1>10, <1>11, <1>12 DEF OrderInv

\* A write that goes out sends the first messages of the queue, in their order.
LEMMA SentNumbers ==
  ASSUME NEW q \in Seq(Packets), NEW w \in 1..Len(q), MaxPubs \in Nat,
         NEW r, r = Numbers(SubSeq(q, 1, w))
  PROVE  Picks(r, q, w)
<1> DEFINE sent == SubSeq(q, 1, w)
<1>1. sent \in Seq(Packets) /\ Len(sent) = w /\ \A i \in 1..w : sent[i] = q[i]
  <2> HIDE DEF Packets
  <2>1. w \in Nat /\ w >= 1 /\ w <= Len(q) /\ Len(q) \in Nat /\ 1 \in 1..Len(q)
    OBVIOUS
  <2> QED BY <2>1
<1>2. r = Numbers(sent)
  OBVIOUS
<1> HIDE DEF sent
<1>3. Picks(r, sent, w)
  BY <1>1, <1>2, NumbersPicks
<1>4. \A i \in 1..w : sent[i] = q[i]
  BY <1>1
<1>5. \A k \in 1..Len(r) : \E i \in 1..w : q[i].n > 0 /\ r[k] = q[i].n
  <2> TAKE k \in 1..Len(r)
  <2>1. PICK i \in 1..w : sent[i].n > 0 /\ r[k] = sent[i].n
    BY <1>3 DEF Picks
  <2> QED BY <1>4, <2>1
<1>6. ASSUME NEW k \in 1..Len(r), NEW l \in 1..Len(r), k < l
      PROVE  \E i, j \in 1..w : i < j /\ q[i].n > 0 /\ q[j].n > 0 /\ r[k] = q[i].n /\ r[l] = q[j].n
  <2>1. PICK i \in 1..w, j \in 1..w :
          i < j /\ sent[i].n > 0 /\ sent[j].n > 0 /\ r[k] = sent[i].n /\ r[l] = sent[j].n
    BY <1>3, <1>6 DEF Picks
  <2> QED BY <1>4, <2>1
<1>7. r \in Seq(Nat)
  BY <1>3 DEF Picks
<1> QED BY <1>5, <1>6, <1>7 DEF Picks

LEMMA NothingSent ==
  ASSUME MaxPubs \in Nat, NEW r, r = Numbers(<<>>)
  PROVE  r \in Seq(Nat) /\ \A k \in 1..Len(r) : FALSE
<1> DEFINE sent == <<>>
<1>1. sent \in Seq(Packets) /\ Len(sent) = 0 /\ r = Numbers(sent)
  OBVIOUS
<1> HIDE DEF sent
<1>2. Picks(r, sent, 0)
  BY <1>1, NumbersPicks
<1> QED BY <1>2 DEF Picks

\* A write that ends was sent, or was lost with its connection.
LEMMA EndsOrdered == ASSUME ClientAssumption, WriteInv, OrderInv, WriteEnds PROVE OrderInv'
<1> DEFINE h == Written(wire, writing)
           w == writing
           r == Numbers(IF wire THEN SubSeq(queue, 1, writing) ELSE <<>>)
<1>1. /\ w > 0 /\ ready' = Append(ready, h) /\ arrived' = arrived \o r
      /\ UNCHANGED <<queue, posted>> /\ queue \in Seq(Packets) /\ MaxPubs \in Nat
      /\ IsSeq(ready)
  BY DEF WriteEnds, Readied, Expired, appVars, WriteInv, Fits, ClientAssumption
<1>2. w \in 1..Len(queue) /\ Zero(ready, "written")
  BY <1>1 DEF WriteInv, Served
<1>3. h.kind = "written" /\ h.ok = wire /\ h.count = w /\ Num(h) = 0
  BY OwnHandlers DEF Num
<1>4. /\ wire => r = Numbers(SubSeq(queue, 1, w))
      /\ ~wire => r = Numbers(<<>>)
  OBVIOUS
<1> HIDE DEF h, r, w, Packets
<1>5. /\ r \in Seq(Nat)
      /\ ~wire => \A k \in 1..Len(r) : FALSE
      /\ wire => Picks(r, queue, w)
  <2>1. queue \in Seq(Packets) /\ w \in 1..Len(queue) /\ MaxPubs \in Nat
    BY <1>1, <1>2
  <2>2. wire => Picks(r, queue, w)
    BY <1>4, <2>1, SentNumbers
  <2>3. ~wire => r \in Seq(Nat) /\ \A k \in 1..Len(r) : FALSE
    BY <1>4, <2>1, NothingSent
  <2>4. Picks(r, queue, w) => r \in Seq(Nat)
    BY DEF Picks
  <2> QED BY <2>2, <2>3, <2>4
<1>6. ASSUME NEW k \in 1..Len(r)
      PROVE  wire /\ \E i \in 1..w : queue[i].n > 0 /\ r[k] = queue[i].n
  <2>1. wire /\ Picks(r, queue, w)
    BY <1>5
  <2> QED BY <2>1 DEF Picks
<1>7. ASSUME NEW k \in 1..Len(r), NEW l \in 1..Len(r), k < l
      PROVE  \E i, j \in 1..w : i < j /\ queue[i].n > 0 /\ queue[j].n > 0
                                /\ r[k] = queue[i].n /\ r[l] = queue[j].n
  <2>1. Picks(r, queue, w)
    BY <1>5, <1>6
  <2> QED BY <1>7, <2>1 DEF Picks
<1>8. Moved(0, {h}) /\ Len(ready) \in Nat /\ Len(ready') = Len(ready) + 1 /\ ready'[Len(ready')] = h
  BY <1>1, MovedByAdd
<1>9. \A x \in {h} : Num(x) = 0
  BY <1>3
<1>10. /\ PostedOrder'
       /\ \A n \in 1..Len(ready') : Num(ready'[n]) > 0 =>
            n + 0 \in 1..Len(ready) /\ ready'[n] = ready[n + 0]
  BY <1>8, <1>9, PostedMoved DEF OrderInv
<1>11. \A i \in 1..w : i \in 1..Len(queue)
  BY <1>2
<1>12. /\ arrived \in Seq(Nat)
       /\ \A k, l \in 1..Len(arrived) : k < l => arrived[k] < arrived[l]
       /\ \A k \in 1..Len(arrived), i \in 1..Len(queue) : queue[i].n > 0 => arrived[k] < queue[i].n
  BY <1>2 DEF OrderInv, ArrivedOrder, BeforeQueued, Removed, Zero
<1>13. /\ arrived' \in Seq(Nat) /\ Len(arrived) \in Nat /\ Len(r) \in Nat
       /\ \A k \in 1..Len(arrived) : arrived'[k] = arrived[k]
       /\ \A k \in 1..Len(r) : arrived'[Len(arrived) + k] = r[k]
       /\ \A k \in 1..Len(arrived') : k \in 1..Len(arrived) \/ k - Len(arrived) \in 1..Len(r)
  BY <1>1, <1>12, <1>5, Joined
<1>14. \A k \in 1..Len(arrived') : \/ k \in 1..Len(arrived) /\ arrived'[k] = arrived[k]
                                   \/ k - Len(arrived) \in 1..Len(r) /\ arrived'[k] = r[k - Len(arrived)]
  <2> TAKE k \in 1..Len(arrived')
  <2>1. Len(arrived) + (k - Len(arrived)) = k
    BY <1>13
  <2> QED BY <1>13, <2>1
<1>15. ArrivedOrder'
  <2>1. ASSUME NEW k \in 1..Len(arrived'), NEW l \in 1..Len(arrived'), k < l
        PROVE  arrived'[k] < arrived'[l]
    <3>1. CASE l \in 1..Len(arrived) /\ arrived'[l] = arrived[l]
      <4>1. k \in 1..Len(arrived)
        BY <1>13, <2>1, <3>1
      <4> QED BY <1>12, <1>13, <2>1, <3>1, <4>1
    <3>2. CASE l - Len(arrived) \in 1..Len(r) /\ arrived'[l] = r[l - Len(arrived)]
      <4>1. CASE k \in 1..Len(arrived) /\ arrived'[k] = arrived[k]
        <5> DEFINE b == l - Len(arrived)
        <5>1. PICK i \in 1..w : queue[i].n > 0 /\ arrived'[l] = queue[i].n
          <6>1. b \in 1..Len(r) /\ arrived'[l] = r[b]
            BY <3>2
          <6> HIDE DEF b
          <6> QED BY <1>6, <6>1
        <5>2. i \in 1..Len(queue) /\ arrived[k] < queue[i].n
          BY <1>11, <1>12, <4>1, <5>1
        <5> QED BY <4>1, <5>1, <5>2
      <4>2. CASE k - Len(arrived) \in 1..Len(r) /\ arrived'[k] = r[k - Len(arrived)]
        <5>1. k - Len(arrived) < l - Len(arrived)
          BY <1>13, <2>1
        <5> DEFINE a == k - Len(arrived)
                   b == l - Len(arrived)
        <5>2. a \in 1..Len(r) /\ b \in 1..Len(r) /\ a < b /\ arrived'[k] = r[a] /\ arrived'[l] = r[b]
          BY <3>2, <4>2, <5>1
        <5> HIDE DEF a, b
        <5>3. PICK i \in 1..w, j \in 1..w :
                i < j /\ queue[i].n > 0 /\ queue[j].n > 0 /\ r[a] = queue[i].n /\ r[b] = queue[j].n
          BY <1>7, <5>2
        <5> QED BY <1>11, <5>2, <5>3 DEF OrderInv, QueueOrder
      <4> QED BY <1>14, <4>1, <4>2
    <3> QED BY <1>14, <3>1, <3>2
  <2> QED BY <1>13, <2>1 DEF ArrivedOrder
<1>16. QueueOrder'
  BY <1>1 DEF OrderInv, QueueOrder
<1>17. \A k \in 1..Len(arrived') :
         \/ k \in 1..Len(arrived) /\ arrived'[k] = arrived[k]
         \/ wire /\ \E i \in 1..w : i \in 1..Len(queue) /\ queue[i].n > 0 /\ arrived'[k] = queue[i].n
  <2> TAKE k \in 1..Len(arrived')
  <2> DEFINE b == k - Len(arrived)
  <2>1. (k \in 1..Len(arrived) /\ arrived'[k] = arrived[k]) \/ (b \in 1..Len(r) /\ arrived'[k] = r[b])
    BY <1>14
  <2> HIDE DEF b
  <2> QED BY <1>11, <1>6, <2>1
<1>18. UpTo(posted)'
  <2>1. \A k \in 1..Len(arrived') : arrived'[k] <= posted'
    BY <1>1, <1>17 DEF OrderInv, UpTo
  <2>2. \A n \in 1..Len(ready') : Num(ready'[n]) > 0 => Num(ready'[n]) <= posted'
    BY <1>1, <1>10 DEF OrderInv, UpTo
  <2>3. \A i \in 1..Len(queue') : queue'[i].n > 0 => queue'[i].n <= posted'
    BY <1>1 DEF OrderInv, UpTo
  <2> QED BY <2>1, <2>2, <2>3 DEF UpTo, Num
<1>19. BeforePosted'
  <2>1. ASSUME NEW n \in 1..Len(ready'), Num(ready'[n]) > 0
        PROVE  /\ \A k \in 1..Len(arrived') : arrived'[k] < Num(ready'[n])
               /\ \A i \in 1..Len(queue') : queue'[i].n < Num(ready'[n])
    <3>1. /\ \A k \in 1..Len(arrived) : arrived[k] < Num(ready'[n])
          /\ \A i \in 1..Len(queue) : queue[i].n < Num(ready'[n])
      BY <1>10, <2>1 DEF OrderInv, BeforePosted
    <3> QED BY <1>1, <1>17, <3>1
  <2> QED BY <2>1 DEF BeforePosted, Num
<1>20. BeforeQueued'
  <2>1. ASSUME NEW k \in 1..Len(arrived'), NEW j \in 1..Len(queue'), queue'[j].n > 0
        PROVE  arrived'[k] < queue'[j].n \/ Removed(j)'
    <3>1. CASE k \in 1..Len(arrived) /\ arrived'[k] = arrived[k]
      BY <1>1, <1>12, <2>1, <3>1
    <3>2. CASE wire /\ \E i \in 1..w : i \in 1..Len(queue) /\ queue[i].n > 0 /\ arrived'[k] = queue[i].n
      <4>1. PICK i \in 1..w : i \in 1..Len(queue) /\ queue[i].n > 0 /\ arrived'[k] = queue[i].n
        BY <3>2
      <4>2. CASE i < j
        BY <1>1, <2>1, <4>1, <4>2 DEF OrderInv, QueueOrder
      <4>3. CASE j <= i
        <5>1. j <= w
          BY <1>1, <1>2, <4>3
        <5>2. Len(ready') \in 1..Len(ready')
          BY <1>8
        <5> QED BY <1>3, <1>8, <3>2, <5>1, <5>2 DEF Removed
      <4>4. i < j \/ j <= i
        BY <1>1
      <4> QED BY <4>2, <4>3, <4>4
    <3> QED BY <1>17, <3>1, <3>2
  <2> QED BY <2>1 DEF BeforeQueued, Removed
<1> QED BY <1>10, <1>15, <1>16, <1>18, <1>19, <1>20 DEF OrderInv

LEMMA OrderInvStep ==
  ASSUME ClientAssumption, ReadInv, WriteInv, FirstInv, OrderInv, [Next]_vars
  PROVE  OrderInv'
BY AppOrder, ConnectedOrder, PostOrder, WrittenOrder, QuietOrder, EndsOrder, EndsOrdered
   DEF Quiet, Next, Handlers

\* Whichever writes are cut off and however connections follow each other, CONNECT is the
\* first of the queue, and the broker reads the messages in the order in which they were
\* published, none of them twice: what a write has sent leaves the queue with it, and what
\* a broken connection leaves there is dropped (endpoint.hpp:10084-10135), never sent again.
THEOREM SentInOrderHolds == Spec => []SentInOrder
<1>1. ClientAssumption
  BY ClientAssumption
<1>2. Spec => []ReadInv
  BY <1>1, ReadInvInit, ReadInvStep, PTL DEF Spec
<1>3. Spec => []FirstInv
  <2>1. ReadInv /\ Init => FirstInv
    BY FirstInvInit
  <2>2. ReadInv /\ ReadInv' /\ WriteInv /\ FirstInv /\ [Next]_vars => FirstInv'
    BY FirstInvStep
  <2> QED BY <1>2, <2>1, <2>2, WriteInvHolds, PTL DEF Spec
<1>4. Spec => []OrderInv
  <2>1. ReadInv /\ WriteInv /\ FirstInv /\ OrderInv /\ [Next]_vars => OrderInv'
    BY <1>1, OrderInvStep
  <2> QED BY <1>2, <1>3, <2>1, OrderInvInit, WriteInvHolds, PTL DEF Spec
<1>5. WriteInv /\ FirstInv /\ OrderInv => SentInOrder
  <2> SUFFICES ASSUME WriteInv, FirstInv, OrderInv PROVE SentInOrder
    OBVIOUS
  <2>1. DOMAIN arrived = 1..Len(arrived)
    BY DEF OrderInv, ArrivedOrder
  <2>2. DOMAIN queue = 1..Len(queue)
    <3>1. queue \in Seq(Packets)
      BY DEF WriteInv
    <3> HIDE DEF Packets
    <3> QED BY <3>1
  <2>3. \A n, k \in DOMAIN arrived : n < k => arrived[n] < arrived[k]
    BY <2>1 DEF OrderInv, ArrivedOrder
  <2>4. \A n \in DOMAIN queue : queue[n].kind = "connect" => n = 1
    BY <2>2 DEF FirstInv
  <2> QED BY <2>3, <2>4 DEF SentInOrder
<1> QED BY <1>3, <1>4, <1>5, WriteInvHolds, PTL
=============================================================================
