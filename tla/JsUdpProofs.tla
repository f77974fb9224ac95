----------------------------- MODULE JsUdpProofs -----------------------------
(***************************************************************************)
(* Proofs about module JsUdp, for any number of clients, server starts and *)
(* lines and any size of the network: the lines of a client are printed in *)
(* the order they were typed, each at most once, by whatever starts of the *)
(* server they reach.                                                      *)
(***************************************************************************)
EXTENDS JsUdp, SequenceTheorems, TLAPS

(* The datagrams of a queue.  What follows never says that one is there,   *)
(* only what those that are there may be: loss keeps it, and so do         *)
(* duplication and reordering.                                             *)
Ms(q) == {q[a] : a \in DOMAIN q}

(* Handshakes of one sender to one receiver, with one key.                 *)
HandshakesOf(ms, id, to, key) ==
  \A m \in Ms(ms) :
    /\ m.kind = "handshake" /\ m.id = id /\ m.to = to /\ m.key = key
    /\ m.for = 0 /\ key # NoKey

(* What the client hears of and talks to are starts of the server.         *)
ServersInv ==
  /\ \A m \in Ms(net.c) : m.id \in 1 .. server.id
  /\ client.peer \in 0 .. server.id
  /\ \A h \in Server : h > server.id => client.links[h].x.key = NoKey
  /\ \A m \in Ms(net.s) : m.kind = "handshake" => m.to <= server.id

(* Keys are fresh when they are drawn.                                     *)
KeysInv ==
  /\ \A m \in Ms(net.s) : m.key <= keys /\ m.for <= keys
  /\ \A m \in Ms(net.c) : m.key <= keys
  /\ \A h \in Server :
       client.links[h].x.key <= keys /\ client.links[h].x.eid <= keys
  /\ \A r \in Run : server.links[r].x.key <= keys
  /\ \A g, h \in Server :
       client.links[g].x.key = client.links[h].x.key
         /\ client.links[g].x.key # NoKey => g = h

(* A run has at most one key for the server that runs, the only one that   *)
(* server is ever synchronized to for it.                                  *)
Handshakes(r) ==
  {m \in Ms(net.s) : m.kind = "handshake" /\ m.id = r /\ m.to = server.id}
NoKeyOf(r) == Handshakes(r) = {} /\ server.links[r].x.eid = NoKey
KeyOf(r, k) ==
  /\ \A m \in Handshakes(r) : m.key = k
  /\ server.links[r].x.eid \in {NoKey, k}
  /\ client.on /\ run = r => client.links[server.id].x.key \in {NoKey, k}
OneKey ==
  \A r \in Run :
    /\ \E k \in Nat \ {NoKey} : KeyOf(r, k)
    /\ client.on /\ run = r /\ client.links[server.id].x.key = NoKey
         => NoKeyOf(r)

(* In one session the lines have channel ids in the order they were typed; *)
(* the next line of the client has a larger number and a larger id.        *)
LineMs == {m \in Ms(net.s) : m.kind = "line"}
LinesInv ==
  /\ \A m \in LineMs : m.key # NoKey /\ m.for # NoKey /\ m.n \in 1 .. MaxLines
  /\ \A m \in LineMs : client.on /\ m.id = run =>
       /\ m.n <= client.typed
       /\ \A h \in Server :
            m.key = client.links[h].x.key => m.c < client.links[h].x.cid
  /\ \A m, p \in LineMs : m.id = p.id /\ m.key = p.key /\ m.c < p.c => m.n < p.n
  /\ client.peer # 0 => client.links[client.peer].x.key # NoKey
  /\ ~client.on => client.peer = 0 /\ Ms(net.c) = {}

(* Nothing is known of the runs to come.                                   *)
RunsInv ==
  /\ \A m \in Ms(net.s) : m.id \in 1 .. run
  /\ \A r \in Run : r > run => server.links[r].x.eid = NoKey /\ printed[r] = <<>>
  /\ client.on => run # 0

(* A line for a session with the server that runs is larger than what is   *)
(* printed, by this server or one before, or will be refused: it is not of *)
(* the session that is there, or its id has been passed.                   *)
Refused(x, m) == x.eid # NoKey /\ (m.key # x.eid \/ m.c <= x.last)
PrintedInv ==
  /\ \A r \in Run : client.on /\ run = r /\ printed[r] # <<>> =>
       Last(printed[r]) <= client.typed
  /\ \A m \in LineMs :
       LET x == server.links[m.id].x IN
       x.key = m.for /\ printed[m.id] # <<>> =>
         m.n > Last(printed[m.id]) \/ Refused(x, m)
  /\ PrintedInOrder

UdpTypes == TypeOK /\ order \in [Run -> [Server -> {1, 2}]] /\ keys \in Nat
UdpInv ==
  /\ UdpTypes /\ ServersInv /\ KeysInv /\ OneKey /\ LinesInv /\ RunsInv
  /\ PrintedInv

Clients == [on : BOOLEAN, peer : 0 .. MaxServers, links : [Server -> Links],
            typed : 0 .. MaxLines]
Servers == [id : Server, links : [Run -> Links]]
-----------------------------------------------------------------------------
(* Lemmas about the network.                                               *)

(* The datagrams of short queues.                                          *)
LEMMA FewMs ==
  ASSUME NEW m \in Messages, NEW q \in Seq(Messages)
  PROVE  /\ Ms(<<>>) = {} /\ Ms(<<m>>) = {m} /\ <<m>> \in Seq(Messages)
         /\ <<>> \in Seq(Messages)
         /\ <<m>> \o q \in Seq(Messages) /\ Ms(<<m>> \o q) = {m} \cup Ms(q)
<1>1. Ms(<<>>) = {} /\ Ms(<<m>>) = {m} /\ <<m>> \in Seq(Messages)
      /\ <<>> \in Seq(Messages)
  BY DEF Ms
<1>2. /\ <<m>> \o q \in Seq(Messages) /\ Len(<<m>> \o q) = 1 + Len(q)
      /\ Len(q) \in Nat /\ DOMAIN q = 1 .. Len(q)
      /\ DOMAIN (<<m>> \o q) = 1 .. Len(q) + 1
      /\ (<<m>> \o q)[1] = m
      /\ \A a \in 1 .. Len(q) : (<<m>> \o q)[a + 1] = q[a]
  BY <1>1
<1> DEFINE z == <<m>> \o q
<1> HIDE DEF z
<1>3. Ms(z) \subseteq {m} \cup Ms(q)
  <2> SUFFICES ASSUME NEW a \in DOMAIN z PROVE z[a] \in {m} \cup Ms(q)
    BY DEF Ms
  <2>1. CASE a = 1
    BY <1>2, <2>1 DEF z
  <2>2. CASE a # 1
    <3>1. a - 1 \in 1 .. Len(q) /\ (a - 1) + 1 = a
      BY <1>2, <2>2 DEF z
    <3>2. z[a] = q[a - 1]
      BY <1>2, <3>1 DEF z
    <3> QED BY <1>2, <3>1, <3>2 DEF Ms
  <2> QED BY <2>1, <2>2
<1>4. {m} \cup Ms(q) \subseteq Ms(z)
  <2>1. m \in Ms(z)
    <3>1. 1 \in DOMAIN z /\ z[1] = m
      BY <1>2 DEF z
    <3> QED BY <3>1 DEF Ms
  <2>2. ASSUME NEW a \in DOMAIN q PROVE q[a] \in Ms(z)
    <3>1. a + 1 \in DOMAIN z /\ z[a + 1] = q[a]
      BY <1>2 DEF z
    <3> QED BY <3>1 DEF Ms
  <2> QED BY <2>1, <2>2 DEF Ms
<1> QED BY <1>1, <1>2, <1>3, <1>4 DEF z

(* Nothing comes into a queue but what is sent.                            *)
LEMMA SentMs ==
  ASSUME NEW q \in Seq(Messages), NEW ms \in Seq(Messages)
  PROVE  Sent(q, ms) \in Seq(Messages) /\ Ms(Sent(q, ms)) \subseteq Ms(q) \cup Ms(ms)
<1> DEFINE z == q \o ms
<1>1. /\ z \in Seq(Messages) /\ Len(z) = Len(q) + Len(ms)
      /\ Len(q) \in Nat /\ Len(ms) \in Nat
      /\ DOMAIN q = 1 .. Len(q) /\ DOMAIN ms = 1 .. Len(ms)
      /\ \A a \in 1 .. Len(q) + Len(ms) :
           z[a] = IF a <= Len(q) THEN q[a] ELSE ms[a - Len(q)]
  BY ConcatProperties
<1> HIDE DEF z
<1>2. \A a \in 1 .. Len(z) : z[a] \in Ms(q) \cup Ms(ms)
  <2> SUFFICES ASSUME NEW a \in 1 .. Len(q) + Len(ms)
               PROVE  z[a] \in Ms(q) \cup Ms(ms)
    BY <1>1
  <2>1. CASE a <= Len(q)
    BY <1>1, <2>1, SMTT(20) DEF Ms
  <2>2. CASE ~(a <= Len(q))
    <3>1. a - Len(q) \in DOMAIN ms
      BY <1>1, <2>2
    <3> QED BY <1>1, <2>2, <3>1 DEF Ms
  <2> QED BY <2>1, <2>2
<1>3. CASE ~Full(q, ms)
  <2>1. Sent(q, ms) = z
    BY <1>3 DEF Sent, z
  <2>2. DOMAIN z = 1 .. Len(z)
    BY <1>1
  <2> QED BY <1>1, <1>2, <2>1, <2>2 DEF Ms
<1>4. CASE Full(q, ms)
  <2> DEFINE y == SubSeq(z, 1, MaxNet)
  <2>1. Sent(q, ms) = y
    BY <1>4 DEF Sent, z
  <2>2. MaxNet \in Nat /\ MaxNet <= Len(z)
    BY <1>1, <1>4, JsUdpAssumption DEF Full
  <2>3. /\ y \in Seq(Messages) /\ DOMAIN y = 1 .. MaxNet
        /\ \A a \in 1 .. MaxNet : y[a] = z[a] /\ a \in 1 .. Len(z)
    BY <1>1, <2>2
  <2> HIDE DEF y
  <2> QED BY <1>2, <2>1, <2>3 DEF Ms
<1> QED BY <1>3, <1>4

(* Taking a datagram out adds nothing.                                     *)
LEMMA RemovedMs ==
  ASSUME NEW q \in Seq(Messages), NEW i \in 1 .. Len(q)
  PROVE  RemoveAt(q, i) \in Seq(Messages) /\ Ms(RemoveAt(q, i)) \subseteq Ms(q)
<1> DEFINE y == SubSeq(q, 1, i - 1)
           w == SubSeq(q, i + 1, Len(q))
           z == y \o w
<1>1. Len(q) \in Nat /\ i \in Nat /\ 1 <= i /\ i <= Len(q) /\ DOMAIN q = 1 .. Len(q)
  OBVIOUS
<1>2. /\ y \in Seq(Messages) /\ Len(y) = i - 1
      /\ \A a \in 1 .. i - 1 : y[a] = q[a]
  BY <1>1
<1>3. /\ w \in Seq(Messages) /\ Len(w) = Len(q) - i
      /\ \A a \in 1 .. Len(q) - i : w[a] = q[i + a]
  <2>1. \A a \in i + 1 .. Len(q) : q[a] \in Messages
    BY <1>1
  <2>2. i + 1 \in Int /\ Len(q) \in Int
    BY <1>1
  <2>3. /\ w \in Seq(Messages)
        /\ Len(w) = (IF i + 1 <= Len(q) THEN Len(q) - (i + 1) + 1 ELSE 0)
        /\ \A a \in 1 .. Len(q) - (i + 1) + 1 : w[a] = q[(i + 1) + a - 1]
    BY <2>1, <2>2, SubSeqProperties
  <2> HIDE DEF w
  <2>4. Len(w) = Len(q) - i /\ Len(q) - (i + 1) + 1 = Len(q) - i
    <3>1. \A n \in Nat : i <= n =>
            /\ n - (i + 1) + 1 = n - i
            /\ ~(i + 1 <= n) => n - i = 0
      BY <1>1
    <3>2. /\ Len(q) - (i + 1) + 1 = Len(q) - i
          /\ ~(i + 1 <= Len(q)) => Len(q) - i = 0
      BY <1>1, <3>1, Zenon
    <3> QED BY <2>3, <3>2, Zenon
  <2>5. ASSUME NEW a \in 1 .. Len(q) - i PROVE w[a] = q[i + a]
    <3>1. (i + 1) + a - 1 = i + a
      BY <1>1
    <3>2. w[a] = q[(i + 1) + a - 1]
      BY <2>3, <2>4, Zenon
    <3> QED BY <3>1, <3>2
  <2> QED BY <2>3, <2>4, <2>5
<1> HIDE DEF y, w
<1>4. /\ z \in Seq(Messages) /\ Len(z) = (i - 1) + (Len(q) - i)
      /\ \A a \in 1 .. (i - 1) + (Len(q) - i) :
           z[a] = IF a <= i - 1 THEN y[a] ELSE w[a - (i - 1)]
  <2>1. /\ z \in Seq(Messages) /\ Len(z) = Len(y) + Len(w)
        /\ \A a \in 1 .. Len(y) + Len(w) :
             z[a] = IF a <= Len(y) THEN y[a] ELSE w[a - Len(y)]
    BY <1>2, <1>3, ConcatProperties
  <2> HIDE DEF z
  <2> QED BY <1>2, <1>3, <2>1
<1>5. RemoveAt(q, i) = z
  BY DEF RemoveAt, y, w
<1> HIDE DEF z
<1>6. DOMAIN z = 1 .. (i - 1) + (Len(q) - i)
  BY <1>4
<1>7. ASSUME NEW a \in DOMAIN z PROVE z[a] \in Ms(q)
  <2>1. CASE a <= i - 1
    <3>1. a \in 1 .. i - 1 /\ a \in DOMAIN q
      BY <1>1, <1>6, <2>1
    <3>2. z[a] = q[a]
      BY <1>2, <1>4, <1>6, <2>1, <3>1
    <3> QED BY <3>1, <3>2 DEF Ms
  <2>2. CASE ~(a <= i - 1)
    <3>1. a - (i - 1) \in 1 .. Len(q) - i /\ i + (a - (i - 1)) \in DOMAIN q
      BY <1>1, <1>6, <2>2
    <3>2. z[a] = w[a - (i - 1)]
      BY <1>4, <1>6, <2>2
    <3>3. w[a - (i - 1)] = q[i + (a - (i - 1))]
      BY <1>3, <3>1
    <3> QED BY <3>1, <3>2, <3>3 DEF Ms
  <2> QED BY <2>1, <2>2
<1> QED BY <1>4, <1>5, <1>7 DEF Ms

(* A datagram that arrives is one of the queue, and leaves nothing new.    *)
LEMMA TakenMs ==
  ASSUME NEW q \in Seq(Messages), NEW i \in 1 .. Len(q), NEW rest \in Rest(q, i)
  PROVE  /\ q[i] \in Messages /\ q[i] \in Ms(q)
         /\ rest \in Seq(Messages) /\ Ms(rest) \subseteq Ms(q)
<1>1. q[i] \in Messages /\ q[i] \in Ms(q)
  BY DEF Ms
<1>2. rest = q \/ rest = RemoveAt(q, i)
  BY DEF Rest
<1> QED BY <1>1, <1>2, RemovedMs
-----------------------------------------------------------------------------
(* Lemmas about exchanges.                                                 *)

(* link_get_key: the link that is there, or one with a fresh exchange.     *)
LEMMA LinkedFacts ==
  ASSUME NEW l \in Links, NEW ord \in {1, 2}, NEW at \in Nat \ {0}, keys \in Nat
  PROVE  LET d == [Linked(l, ord, at) EXCEPT !.pipe = TRUE] IN
         /\ d \in Links /\ d.x.key # NoKey
         /\ l.x.key # NoKey => d.x = l.x
         /\ l.x.key = NoKey =>
              d.x.key = keys + 1 /\ d.x.eid = NoKey /\ d.x.cid = ord
<1> DEFINE d == [Linked(l, ord, at) EXCEPT !.pipe = TRUE]
<1>1. CASE l.x.key # NoKey
  <2>1. d = [l EXCEPT !.pipe = TRUE]
    BY <1>1 DEF Linked
  <2>2. d \in Links /\ d.x = l.x
    BY <2>1 DEF Links
  <2> QED BY <1>1, <2>2
<1>2. CASE l.x.key = NoKey
  <2> DEFINE n == XNew(ord, keys + 1)
             o == XOut(n, at)
  <2>1. /\ n \in Exchanges /\ n.order = ord /\ n.key = keys + 1
        /\ n.eid = NoKey /\ n.cid = ord
    BY DEF XNew, Exchanges, NoKey
  <2>2. Align(ord, at) \in Nat
    <3>1. (at + ord) % 2 \in 0 .. 1
      OBVIOUS
    <3> QED BY <3>1 DEF Align
  <2> HIDE DEF n
  <2>3. o \in Exchanges /\ o.key = n.key /\ o.eid = n.eid /\ o.cid = n.cid
    BY <2>1, <2>2 DEF XOut, Exchanges
  <2>4. d = [[l EXCEPT !.x = o] EXCEPT !.pipe = TRUE]
    BY <1>2 DEF Linked, n
  <2> HIDE DEF o
  <2>5. d \in Links /\ d.x = o
    BY <2>3, <2>4 DEF Links
  <2>6. keys + 1 # NoKey
    BY DEF NoKey
  <2> QED BY <1>2, <2>1, <2>3, <2>5, <2>6
<1> QED BY <1>1, <1>2

(* link_receive_handshake: the own key and channel ids stay; the session   *)
(* is the one that was, or that of the key that came.                      *)
LEMMA AppliedFacts ==
  ASSUME NEW x \in Exchanges, NEW m \in Messages
  PROVE  LET y == Applied(x, m).x IN
         /\ y \in Exchanges /\ y.key = x.key /\ y.cid = x.cid
         /\ y.eid \in {x.eid, m.key}
         /\ y.eid = x.eid => y.last = x.last
<1>1. m.at \in Nat /\ m.key \in Nat
  BY DEF Messages
<1> DEFINE y == XIn(x, m.at)
           z == XSync(y, m.key)
<1>2. /\ y \in Exchanges /\ y.key = x.key /\ y.cid = x.cid
      /\ y.eid = x.eid /\ y.last = x.last
  BY <1>1 DEF XIn, Exchanges
<1> HIDE DEF y
<1>3. /\ z \in Exchanges /\ z.key = y.key /\ z.cid = y.cid /\ z.eid = m.key
      /\ z.eid = y.eid => z.last = y.last
  BY <1>1, <1>2 DEF XSync, Exchanges
<1> HIDE DEF z
<1>4. Applied(x, m).x \in {y, z}
  <2>1. Applied(x, m) = IF y.in < x.out THEN [x |-> y, sync |-> TRUE]
                        ELSE [x |-> z, sync |-> z.out # x.out]
    BY DEF Applied, y, z
  <2>2. CASE y.in < x.out
    BY <2>1, <2>2
  <2>3. CASE ~(y.in < x.out)
    BY <2>1, <2>3
  <2> QED BY <2>2, <2>3
<1> QED BY <1>2, <1>3, <1>4

(* What link_pipe and link_sync send are handshakes with the own key.      *)
LEMMA SyncedFacts ==
  ASSUME NEW x \in Exchanges, NEW id \in Nat, NEW to \in Nat
  PROVE  /\ Synced(id, to, x) \in Seq(Messages)
         /\ HandshakesOf(Synced(id, to, x), id, to, x.key)
<1> DEFINE m == HandshakeMsg(id, to, x)
<1>1. m \in Messages /\ m.kind = "handshake" /\ m.id = id /\ m.key = x.key
      /\ m.to = to /\ m.for = 0
  BY DEF HandshakeMsg, Hello, Messages, Exchanges
<1> HIDE DEF m
<1>2. <<>> \in Seq(Messages) /\ Ms(<<>>) = {}
  BY DEF Ms
<1>3. CASE CanHandshake(x)
  <2>1. Synced(id, to, x) = <<m>>
    BY <1>3 DEF Synced, m
  <2>2. Ms(<<m>>) = {m} /\ <<m>> \in Seq(Messages)
    BY <1>1, <1>2, FewMs
  <2>3. x.key # NoKey
    BY <1>3 DEF CanHandshake
  <2> QED BY <1>1, <2>1, <2>2, <2>3 DEF HandshakesOf
<1>4. CASE ~CanHandshake(x)
  BY <1>2, <1>4 DEF Synced, HandshakesOf
<1> QED BY <1>3, <1>4

(* The datagrams the two sides make up.                                    *)
LEMMA HelloFacts ==
  ASSUME NEW id \in Nat
  PROVE  /\ Hello(id) \in Messages /\ Hello(id).kind = "hello"
         /\ Hello(id).id = id /\ Hello(id).key = 0 /\ Hello(id).for = 0
BY DEF Hello, Messages

(* A line carries the channel id its exchange has for it.                  *)
LEMMA LineFacts ==
  ASSUME NEW id \in Nat, NEW x \in Exchanges, NEW n \in Nat
  PROVE  LET m == Line(id, x, n) IN
         /\ m \in Messages /\ m.kind = "line" /\ m.id = id /\ m.key = x.key
         /\ m.for = x.eid /\ m.c = x.cid /\ m.n = n
BY DEF Line, Hello, Messages, Exchanges

(* The client's record with another link ...                               *)
LEMMA ClientFacts ==
  ASSUME NEW k \in Clients, NEW h \in Server, NEW l \in Links
  PROVE  LET d == [k EXCEPT !.links[h] = l] IN
         /\ d \in Clients /\ d.on = k.on /\ d.peer = k.peer
         /\ d.typed = k.typed /\ d.links[h] = l
         /\ \A g \in Server : g # h => d.links[g] = k.links[g]
<1> DEFINE f == [k.links EXCEPT ![h] = l]
<1>1. /\ f \in [Server -> Links] /\ f[h] = l
      /\ \A g \in Server : g # h => f[g] = k.links[g]
  BY DEF Clients
<1>2. [k EXCEPT !.links[h] = l] = [k EXCEPT !.links = f]
  OBVIOUS
<1> HIDE DEF f
<1> QED BY <1>1, <1>2 DEF Clients

(* ... and with another exchange in one.                                   *)
LEMMA ClientSync ==
  ASSUME NEW k \in Clients, NEW h \in Server, NEW y \in Exchanges
  PROVE  LET d == [k EXCEPT !.links[h].x = y] IN
         /\ d \in Clients /\ d.on = k.on /\ d.peer = k.peer
         /\ d.typed = k.typed /\ d.links[h].x = y
         /\ \A g \in Server : g # h => d.links[g] = k.links[g]
<1> DEFINE l == [k.links[h] EXCEPT !.x = y]
<1>1. l \in Links /\ l.x = y
  BY DEF Links, Clients
<1>2. [k EXCEPT !.links[h].x = y] = [k EXCEPT !.links[h] = l]
  OBVIOUS
<1> HIDE DEF l
<1> QED BY <1>1, <1>2, ClientFacts

(* The server's record with another exchange for one client ...            *)
LEMMA ServerFacts ==
  ASSUME NEW k \in Servers, NEW r \in Run, NEW l \in Links
  PROVE  LET d == [k EXCEPT !.links[r] = l] IN
         /\ d \in Servers /\ d.id = k.id /\ d.links[r] = l
         /\ \A q \in Run : q # r => d.links[q] = k.links[q]
<1> DEFINE f == [k.links EXCEPT ![r] = l]
<1>1. /\ f \in [Run -> Links] /\ f[r] = l
      /\ \A q \in Run : q # r => f[q] = k.links[q]
  BY DEF Servers
<1>2. [k EXCEPT !.links[r] = l] = [k EXCEPT !.links = f]
  OBVIOUS
<1> HIDE DEF f
<1> QED BY <1>1, <1>2 DEF Servers

(* ... which keeps the rest of the link.                                   *)
LEMMA ServerSync ==
  ASSUME NEW k \in Servers, NEW r \in Run, NEW y \in Exchanges
  PROVE  LET d == [k EXCEPT !.links[r].x = y] IN
         /\ d \in Servers /\ d.id = k.id /\ d.links[r].x = y
         /\ \A q \in Run : q # r => d.links[q] = k.links[q]
<1> DEFINE l == [k.links[r] EXCEPT !.x = y]
<1>1. l \in Links /\ l.x = y
  BY DEF Links, Servers
<1>2. [k EXCEPT !.links[r].x = y] = [k EXCEPT !.links[r] = l]
  OBVIOUS
<1> HIDE DEF l
<1> QED BY <1>1, <1>2, ServerFacts
-----------------------------------------------------------------------------
(* Steps.                                                                  *)

(* The parts of the types, one by one.                                     *)
LEMMA UdpTypeParts ==
  ASSUME UdpTypes
  PROVE  /\ run \in 0 .. MaxRuns /\ run \in Nat /\ client \in Clients
         /\ server \in Servers /\ server.id \in Server /\ server.id \in Nat
         /\ net = [c |-> net.c, s |-> net.s]
         /\ net.c \in Seq(Messages) /\ net.s \in Seq(Messages)
         /\ printed \in [Run -> Seq(1 .. MaxLines)] /\ keys \in Nat
         /\ lost \in BOOLEAN
         /\ \A r \in Run, h \in Server : order[r][h] \in {1, 2}
         /\ order \in [Run -> [Server -> {1, 2}]]
         /\ \A r \in Run : /\ server.links[r] \in Links
                           /\ server.links[r].x \in Exchanges
                           /\ server.links[r].x.key \in Nat
                           /\ server.links[r].x.eid \in Nat
                           /\ server.links[r].x.last \in Nat
         /\ \A h \in Server : /\ client.links[h] \in Links
                              /\ client.links[h].x \in Exchanges
                              /\ client.links[h].x.key \in Nat
                              /\ client.links[h].x.eid \in Nat
                              /\ client.links[h].x.cid \in Nat
         /\ client.peer \in Nat /\ client.peer \in 0 .. MaxServers
         /\ client.typed \in Nat /\ MaxServers \in Nat
<1>1. /\ run \in 0 .. MaxRuns /\ client \in Clients
      /\ server \in Servers /\ net \in [c : Seq(Messages), s : Seq(Messages)]
      /\ printed \in [Run -> Seq(1 .. MaxLines)] /\ keys \in Nat
      /\ order \in [Run -> [Server -> {1, 2}]] /\ lost \in BOOLEAN
  BY DEF UdpTypes, TypeOK, Clients, Servers
<1>2. /\ net = [c |-> net.c, s |-> net.s]
      /\ net.c \in Seq(Messages) /\ net.s \in Seq(Messages)
  BY <1>1
<1>3. \A r \in Run : server.links[r] \in Links /\ server.links[r].x \in Exchanges
  BY <1>1 DEF Servers, Links
<1>4. \A h \in Server : client.links[h] \in Links /\ client.links[h].x \in Exchanges
  BY <1>1 DEF Clients, Links
<1>5. \A x \in Exchanges : x.key \in Nat /\ x.cid \in Nat /\ x.eid \in Nat
                          /\ x.last \in Nat
  BY DEF Exchanges
<1>6. run \in Nat /\ MaxServers \in Nat
  BY <1>1, JsUdpAssumption
<1>7. server.id \in Server /\ server.id \in Nat
  BY <1>1, JsUdpAssumption DEF Servers, Server
<1>8. client.peer \in Nat /\ client.peer \in 0 .. MaxServers /\ client.typed \in Nat
  BY <1>1, JsUdpAssumption DEF Clients
<1>9. \A r \in Run, h \in Server : order[r][h] \in {1, 2}
  BY <1>1
<1> QED BY <1>1, <1>2, <1>3, <1>4, <1>5, <1>6, <1>7, <1>8, <1>9

(* And put together again.                                                 *)
LEMMA UdpTypeNext ==
  ASSUME NEW c \in Seq(Messages), NEW s \in Seq(Messages),
         net' = [c |-> c, s |-> s], run' \in 0 .. MaxRuns, client' \in Clients,
         server' \in Servers, printed' \in [Run -> Seq(1 .. MaxLines)],
         keys' \in Nat, order' \in [Run -> [Server -> {1, 2}]],
         lost' \in BOOLEAN
  PROVE  UdpTypes' /\ net'.c = c /\ net'.s = s
BY DEF UdpTypes, TypeOK, Clients, Servers

(* The numbers a datagram carries.                                         *)
LEMMA MessageParts ==
  ASSUME UdpTypes
  PROVE  /\ \A m \in Ms(net.s) : /\ m \in Messages /\ m.key \in Nat
                                 /\ m.for \in Nat /\ m.c \in Nat
                                 /\ m.n \in Nat /\ m.to \in Nat
                                 /\ m.id \in Nat
         /\ \A m \in Ms(net.c) : /\ m \in Messages /\ m.key \in Nat
                                 /\ m.id \in Nat
<1>1. net.s \in Seq(Messages) /\ net.c \in Seq(Messages)
  BY UdpTypeParts
<1>2. Ms(net.s) \subseteq Messages /\ Ms(net.c) \subseteq Messages
  BY <1>1 DEF Ms
<1> QED BY <1>2 DEF Messages

(* A datagram that goes, or stays to come again, changes nothing.          *)
LEMMA UdpQuiet ==
  ASSUME UdpInv, UNCHANGED <<order, run, client, server, keys, printed>>,
         NEW c \in Seq(Messages), NEW s \in Seq(Messages),
         net' = [c |-> c, s |-> s], Ms(c) \subseteq Ms(net.c),
         Ms(s) \subseteq Ms(net.s), lost' \in BOOLEAN
  PROVE  UdpInv'
<1>t. UdpTypes' /\ net'.c = c /\ net'.s = s
  BY UdpTypeParts, UdpTypeNext DEF UdpInv
<1>1. Ms(net'.c) \subseteq Ms(net.c) /\ Ms(net'.s) \subseteq Ms(net.s)
  BY <1>t
<1>2. LineMs' \subseteq LineMs /\ \A r : Handshakes(r)' \subseteq Handshakes(r)
  BY <1>1 DEF LineMs, Handshakes
<1>3. ServersInv'
  BY <1>1 DEF UdpInv, ServersInv
<1>4. KeysInv'
  BY <1>1 DEF UdpInv, KeysInv
<1>5. OneKey'
  BY <1>2 DEF UdpInv, OneKey, KeyOf, NoKeyOf
<1>6. LinesInv'
  BY <1>1, <1>2 DEF UdpInv, LinesInv
<1>7. RunsInv'
  BY <1>1 DEF UdpInv, RunsInv
<1>8. PrintedInv'
  BY <1>2 DEF UdpInv, PrintedInv, Refused, Last, PrintedInOrder
<1> QED BY <1>t, <1>3, <1>4, <1>5, <1>6, <1>7, <1>8 DEF UdpInv

(* Nobody's link.                                                          *)
LEMMA OffFacts ==
  /\ NoLink \in Links /\ NoLink.x.key = NoKey /\ NoLink.x.eid = NoKey
  /\ Off \in Clients /\ Off.peer = 0 /\ Off.typed = 0 /\ Off.on = FALSE
  /\ \A h \in Server : Off.links[h] = NoLink
  /\ LET d == [Off EXCEPT !.on = TRUE] IN
       /\ d \in Clients /\ d.peer = 0 /\ d.typed = 0 /\ d.on = TRUE
       /\ \A h \in Server : d.links[h] = NoLink
  /\ NoLinks \in [Run -> Links] /\ \A r \in Run : NoLinks[r] = NoLink
<1>1. XNew(1, NoKey) \in Exchanges /\ XNew(1, NoKey).key = NoKey
      /\ XNew(1, NoKey).eid = NoKey
  BY DEF XNew, Exchanges, NoKey
<1>2. NoLink \in Links /\ NoLink.x.key = NoKey /\ NoLink.x.eid = NoKey
  BY <1>1 DEF NoLink, Links
<1>3. NoLinks \in [Run -> Links] /\ \A r \in Run : NoLinks[r] = NoLink
  BY <1>2 DEF NoLinks
<1> HIDE DEF NoLink
<1>4. 0 \in 0 .. MaxServers /\ 0 \in 0 .. MaxLines
  BY JsUdpAssumption
<1>5. [h \in Server |-> NoLink] \in [Server -> Links]
      /\ \A h \in Server : [g \in Server |-> NoLink][h] = NoLink
  BY <1>2
<1> QED BY <1>2, <1>3, <1>4, <1>5 DEF Off, Clients

(* A client starts: nothing is known of it.                                *)
LEMMA UdpClientStart ==
  ASSUME UdpInv, ClientStart
  PROVE  UdpInv'
<1>t. UdpTypes
  BY DEF UdpInv
<1>r. PICK r \in Nat : r = run + 1
  BY <1>t, UdpTypeParts
<1> DEFINE g == Hello(r)
           s == Sent(net.s, <<g>>)
<1>1. /\ ~client.on /\ run < MaxRuns /\ run' = r
      /\ client' = [Off EXCEPT !.on = TRUE]
      /\ net' = [c |-> <<>>, s |-> s]
      /\ lost' = (lost \/ Full(net.s, <<g>>))
      /\ UNCHANGED <<order, server, keys, printed>>
  BY <1>r DEF ClientStart
<1>2. r \in Run /\ r \in 0 .. MaxRuns /\ r \in Nat /\ run \in Nat
      /\ r # 0 /\ \A q \in 1 .. run : q # r /\ q \in 1 .. r
  BY <1>1, <1>r, <1>t, UdpTypeParts, JsUdpAssumption, SMTT(20) DEF Run
<1>3. g \in Messages /\ g.kind = "hello" /\ g.id = r /\ g.key = 0 /\ g.for = 0
  BY <1>2, HelloFacts
<1>a. \A q \in Run : q > r => q > run
  BY <1>2, <1>r DEF Run
<1>b. ~(r <= run) /\ r > run
  BY <1>2, <1>r
<1> HIDE DEF g
<1>4. /\ s \in Seq(Messages) /\ Ms(s) \subseteq Ms(net.s) \cup {g}
      /\ Ms(<<>>) = {} /\ <<>> \in Seq(Messages)
  BY <1>3, <1>t, UdpTypeParts, FewMs, SentMs
<1> HIDE DEF s
<1>5. /\ UdpTypes' /\ net'.c = <<>> /\ net'.s = s
  <2>1. lost' \in BOOLEAN
    BY <1>1, Zenon
  <2>2. client' \in Clients
    BY <1>1, OffFacts
  <2> QED BY <1>1, <1>2, <1>4, <1>t, <2>1, <2>2, UdpTypeParts, UdpTypeNext
<1>6. /\ client'.peer = 0 /\ client'.typed = 0 /\ client'.on = TRUE
      /\ \A h \in Server : client'.links[h].x.key = NoKey
                           /\ client'.links[h].x.eid = NoKey
      /\ Ms(net'.c) = {} /\ Ms(net'.s) \subseteq Ms(net.s) \cup {g}
  BY <1>1, <1>4, <1>5, OffFacts
<1>7. /\ LineMs' \subseteq LineMs
      /\ \A q : Handshakes(q)' \subseteq Handshakes(q)
  BY <1>1, <1>3, <1>6 DEF LineMs, Handshakes
<1>8. /\ \A m \in Ms(net.s) : m.id \in 1 .. run
      /\ \A q \in Run : q > run => server.links[q].x.eid = NoKey /\ printed[q] = <<>>
  BY DEF UdpInv, RunsInv
<1>9. /\ \A m \in LineMs' : m.id # r
      /\ Handshakes(r)' = {}
      /\ server.links[r].x.eid = NoKey /\ printed[r] = <<>>
  <2>1. \A m \in Ms(net.s) : m.id # r
    BY <1>2, <1>8
  <2>2. Handshakes(r) = {}
    BY <2>1 DEF Handshakes
  <2>3. Handshakes(r)' = {}
    BY <1>7, <2>2
  <2>4. \A m \in LineMs' : m.id # r
    BY <1>7, <2>1 DEF LineMs
  <2> QED BY <1>2, <1>8, <1>b, <2>3, <2>4
<1>10. ServersInv'
  <2>1. server.id \in Nat
    BY <1>t, UdpTypeParts
  <2> QED BY <1>1, <1>3, <1>6, <2>1 DEF UdpInv, ServersInv
<1>11. KeysInv'
  BY <1>1, <1>3, <1>6, <1>t, UdpTypeParts DEF UdpInv, KeysInv, NoKey
<1>12. OneKey'
  <2> SUFFICES ASSUME NEW q \in Run
               PROVE  /\ \E k \in Nat \ {NoKey} : KeyOf(q, k)'
                      /\ client'.on /\ run' = q => NoKeyOf(q)'
    BY DEF OneKey
  <2>1. CASE q = r
    <3>0. Handshakes(q)' = {}
      BY <1>9, <2>1
    <3>1. NoKeyOf(q)'
      BY <1>1, <1>9, <2>1, <3>0 DEF NoKeyOf
    <3>2. server.id \in Server
      BY <1>t, UdpTypeParts
    <3>3. KeyOf(q, 1)' /\ 1 \in Nat \ {NoKey}
      BY <1>1, <1>6, <3>1, <3>2 DEF KeyOf, NoKeyOf, NoKey
    <3> QED BY <3>1, <3>3
  <2>2. CASE q # r
    <3>1. PICK k \in Nat \ {NoKey} : KeyOf(q, k)
      BY DEF UdpInv, OneKey
    <3>2. KeyOf(q, k)'
      BY <1>1, <1>7, <2>2, <3>1 DEF KeyOf
    <3> QED BY <1>1, <2>2, <3>2
  <2> QED BY <2>1, <2>2
<1>13. LinesInv'
  BY <1>1, <1>6, <1>7, <1>9 DEF UdpInv, LinesInv
<1>14. RunsInv'
  <2>1. \A m \in Ms(net'.s) : m.id \in 1 .. run'
    BY <1>1, <1>2, <1>3, <1>6, <1>8
  <2>2. \A q \in Run : q > run' =>
          server'.links[q].x.eid = NoKey /\ printed'[q] = <<>>
    BY <1>1, <1>8, <1>a
  <2> QED BY <1>1, <1>2, <2>1, <2>2 DEF RunsInv
<1>15. PrintedInv'
  BY <1>1, <1>7, <1>9 DEF UdpInv, PrintedInv, Refused, Last, PrintedInOrder
<1> QED BY <1>5, <1>10, <1>11, <1>12, <1>13, <1>14, <1>15 DEF UdpInv

(* A client ends: what it sent may still be under way.                     *)
LEMMA UdpClientEnd ==
  ASSUME UdpInv, ClientEnd
  PROVE  UdpInv'
<1>t. UdpTypes
  BY DEF UdpInv
<1>1. /\ client' = Off /\ net' = [c |-> <<>>, s |-> net.s]
      /\ UNCHANGED <<order, run, server, keys, printed, lost>>
  BY <1>t, UdpTypeParts DEF ClientEnd
<1>2. UdpTypes' /\ net'.c = <<>> /\ net'.s = net.s
  <2>1. <<>> \in Seq(Messages)
    OBVIOUS
  <2> QED BY <1>1, <1>t, <2>1, UdpTypeParts, OffFacts, UdpTypeNext
<1>3. /\ client'.peer = 0 /\ client'.typed = 0 /\ client'.on = FALSE
      /\ \A h \in Server : client'.links[h].x.key = NoKey
                           /\ client'.links[h].x.eid = NoKey
      /\ Ms(net'.c) = {} /\ Ms(net'.s) = Ms(net.s)
  BY <1>1, <1>2, OffFacts DEF Ms
<1>4. LineMs' = LineMs /\ \A q : Handshakes(q)' = Handshakes(q)
  BY <1>1, <1>3 DEF LineMs, Handshakes
<1>5. ServersInv'
  <2>1. server.id \in Nat
    BY <1>t, UdpTypeParts
  <2> QED BY <1>1, <1>3, <2>1 DEF UdpInv, ServersInv
<1>6. KeysInv'
  BY <1>1, <1>3, <1>t, UdpTypeParts DEF UdpInv, KeysInv, NoKey
<1>7. OneKey'
  BY <1>1, <1>3, <1>4 DEF UdpInv, OneKey, KeyOf
<1>8. LinesInv'
  BY <1>1, <1>3, <1>4 DEF UdpInv, LinesInv
<1>9. RunsInv'
  BY <1>1, <1>3 DEF UdpInv, RunsInv
<1>10. PrintedInv'
  BY <1>1, <1>3, <1>4 DEF UdpInv, PrintedInv, Refused, Last, PrintedInOrder
<1> QED BY <1>2, <1>5, <1>6, <1>7, <1>8, <1>9, <1>10 DEF UdpInv

(* A line is typed: it has the next channel id.                            *)
LEMMA UdpType ==
  ASSUME UdpInv, Type
  PROVE  UdpInv'
<1> DEFINE h == client.peer
           x == client.links[h].x
           y == XNextCid(x)
           n == client.typed + 1
           g == Line(run, x, n)
           ms == IF x.eid # NoKey THEN <<g>> ELSE <<>>
           s == Sent(net.s, ms)
<1>t. UdpTypes
  BY DEF UdpInv
<1>0. h \in Server /\ client \in Clients
  <2>1. h # 0 /\ h \in 0 .. MaxServers /\ MaxServers \in Nat /\ client \in Clients
    BY <1>t, UdpTypeParts DEF Type
  <2> QED BY <2>1 DEF Server
<1>1. /\ client.on /\ h # 0 /\ client.typed < MaxLines
      /\ client' = [[client EXCEPT !.links[h].x = y] EXCEPT !.typed = n]
      /\ net' = [c |-> net.c, s |-> s]
      /\ lost' = (lost \/ Full(net.s, ms))
      /\ UNCHANGED <<order, run, server, keys, printed>>
  <2>1. /\ client' = [client EXCEPT !.typed = n, !.links[h].x = y]
        /\ net' = [net EXCEPT !.s = s]
    BY DEF Type
  <2>2. client' = [[client EXCEPT !.links[h].x = y] EXCEPT !.typed = n]
    BY <2>1, <1>0 DEF Clients
  <2>3. net' = [c |-> net.c, s |-> s]
    BY <2>1, <1>t, UdpTypeParts
  <2> QED BY <2>2, <2>3 DEF Type
<1>2. /\ x.key # NoKey
      /\ run # 0 /\ run \in Run /\ run \in 1 .. run /\ run \in Nat
      /\ n \in 1 .. MaxLines /\ n \in Nat /\ client.typed \in Nat
      /\ n = client.typed + 1
  <2>1. x.key # NoKey /\ run # 0
    BY <1>1 DEF UdpInv, LinesInv, RunsInv
  <2>2. run \in Run /\ run \in 1 .. run /\ run \in Nat
    BY <2>1, <1>t, UdpTypeParts, JsUdpAssumption DEF Run
  <2>3. client.typed \in Nat
    BY <1>t, UdpTypeParts
  <2>4. n \in 1 .. MaxLines /\ n \in Nat
    BY <1>1, <2>3, JsUdpAssumption, SMTT(20)
  <2> QED BY <2>1, <2>2, <2>3, <2>4
<1>3. /\ x \in Exchanges /\ x.key \in Nat /\ x.eid \in Nat /\ x.cid \in Nat
      /\ x.key <= keys /\ x.eid <= keys
  <2>1. x.key <= keys /\ x.eid <= keys
    BY <1>0 DEF UdpInv, KeysInv
  <2> QED BY <1>0, <2>1, <1>t, UdpTypeParts
<1> HIDE DEF x, n
<1>4. /\ g \in Messages /\ g.kind = "line" /\ g.id = run /\ g.key = x.key
      /\ g.for = x.eid /\ g.c = x.cid /\ g.n = n
  BY <1>2, <1>3, LineFacts
<1>5. y \in Exchanges /\ y.key = x.key /\ y.cid = x.cid + 2 /\ y.eid = x.eid
  BY <1>3 DEF XNextCid, Exchanges
<1> HIDE DEF g, y
<1>6. /\ ms \in Seq(Messages) /\ Ms(ms) \subseteq {g}
      /\ x.eid = NoKey => Ms(ms) = {}
  <2>1. <<g>> \in Seq(Messages) /\ Ms(<<g>>) = {g}
        /\ <<>> \in Seq(Messages) /\ Ms(<<>>) = {}
    <3>1. <<>> \in Seq(Messages)
      OBVIOUS
    <3> QED BY <1>4, <3>1, FewMs
  <2> QED BY <2>1
<1> HIDE DEF ms
<1>7. s \in Seq(Messages) /\ Ms(s) \subseteq Ms(net.s) \cup Ms(ms)
  BY <1>6, <1>t, UdpTypeParts, SentMs
<1> HIDE DEF s
<1>8. /\ client' \in Clients /\ client'.on = client.on
      /\ client'.peer = h /\ client'.typed = n /\ client'.links[h].x = y
      /\ \A q \in Server : q # h => client'.links[q] = client.links[q]
  <2> DEFINE d == [client EXCEPT !.links[h].x = y]
  <2>1. /\ d \in Clients /\ d.on = client.on /\ d.peer = h
        /\ d.links[h].x = y
        /\ \A q \in Server : q # h => d.links[q] = client.links[q]
    BY <1>0, <1>5, ClientSync
  <2> HIDE DEF d
  <2>2. client' = [d EXCEPT !.typed = n] /\ n \in 0 .. MaxLines
    BY <1>1, <1>2 DEF d
  <2> QED BY <2>1, <2>2 DEF Clients
<1>9. /\ UdpTypes' /\ Ms(net'.c) = Ms(net.c)
      /\ \A m \in Ms(net'.s) : m \in Ms(net.s) \/ (m = g /\ x.eid # NoKey)
  <2>1. lost' \in BOOLEAN
    BY <1>1, <1>t, UdpTypeParts, Zenon
  <2>2. UdpTypes' /\ net'.c = net.c /\ net'.s = s
    BY <1>1, <1>7, <1>8, <1>t, <2>1, UdpTypeParts, UdpTypeNext
  <2> QED BY <1>6, <1>7, <2>2
<1>10. /\ \A m \in LineMs' : m \in LineMs \/ (m = g /\ x.eid # NoKey)
       /\ \A q : Handshakes(q)' \subseteq Handshakes(q)
  BY <1>1, <1>4, <1>9 DEF LineMs, Handshakes
<1>11. \A q \in Server : /\ client'.links[q].x.key = client.links[q].x.key
                         /\ client'.links[q].x.eid = client.links[q].x.eid
  BY <1>5, <1>8 DEF x
<1>12. ServersInv'
  BY <1>1, <1>4, <1>8, <1>9, <1>11 DEF UdpInv, ServersInv
<1>13. KeysInv'
  BY <1>1, <1>3, <1>4, <1>9, <1>11 DEF UdpInv, KeysInv
<1>14. OneKey'
  <2>1. server.id \in Server
    BY <1>t, UdpTypeParts
  <2> QED BY <1>1, <1>8, <1>10, <1>11, <2>1 DEF UdpInv, OneKey, KeyOf, NoKeyOf
<1>15. LinesInv'
  <2>1. \A m \in LineMs : /\ m.key # NoKey /\ m.for # NoKey /\ m.n \in 1 .. MaxLines
                          /\ m.n \in Nat /\ m.c \in Nat
    <3>1. \A m \in LineMs : m.key # NoKey /\ m.for # NoKey /\ m.n \in 1 .. MaxLines
      BY DEF UdpInv, LinesInv
    <3> QED BY <3>1, <1>t, MessageParts DEF LineMs
  <2>2. \A m \in LineMs : m.id = run =>
          m.n <= client.typed /\ (m.key = x.key => m.c < x.cid)
    BY <1>0, <1>1 DEF UdpInv, LinesInv, x
  <2>3. \A m \in LineMs' : m.key # NoKey /\ m.for # NoKey /\ m.n \in 1 .. MaxLines
    BY <1>2, <1>4, <1>10, <2>1
  <2>4. \A m \in LineMs' : m.id = run => m.n <= n
    <3>1. \A k \in Nat : k <= client.typed => k <= n
      BY <1>2
    <3> QED BY <1>2, <1>4, <1>10, <2>1, <2>2, <3>1
  <2>5. ASSUME NEW m \in LineMs', m.id = run, NEW q \in Server,
               m.key = client'.links[q].x.key
        PROVE  m.c < client'.links[q].x.cid
    <3>1. CASE q = h
      <4>1. client'.links[q].x.cid = x.cid + 2 /\ client'.links[q].x.key = x.key
        BY <1>5, <1>8, <3>1
      <4>2. CASE m \in LineMs
        <5>1. m.c < x.cid /\ m.c \in Nat
          BY <2>1, <2>2, <2>5, <4>1, <4>2
        <5> QED BY <1>3, <4>1, <5>1
      <4>3. CASE m = g
        BY <1>3, <1>4, <4>1, <4>3
      <4> QED BY <1>10, <4>2, <4>3
    <3>2. CASE q # h
      <4>1. client'.links[q] = client.links[q]
        BY <1>8, <3>2
      <4>2. m # g
        <5>1. client.links[q].x.key # x.key
          BY <1>0, <1>2, <3>2 DEF UdpInv, KeysInv, x
        <5> QED BY <1>4, <2>5, <4>1, <5>1
      <4> QED BY <1>1, <1>10, <2>5, <4>1, <4>2 DEF UdpInv, LinesInv
    <3> QED BY <3>1, <3>2
  <2>6. ASSUME NEW m \in LineMs', NEW p \in LineMs',
               m.id = p.id, m.key = p.key, m.c < p.c
        PROVE  m.n < p.n
    <3>1. CASE m \in LineMs /\ p \in LineMs
      BY <2>6, <3>1 DEF UdpInv, LinesInv
    <3>2. CASE m \in LineMs /\ p = g
      <4>1. m.n <= client.typed /\ m.n \in Nat
        BY <1>4, <2>1, <2>2, <2>6, <3>2
      <4> QED BY <1>2, <1>4, <3>2, <4>1
    <3>3. CASE m = g /\ p \in LineMs
      <4>1. p.c < x.cid /\ p.c \in Nat /\ x.cid < p.c
        BY <1>4, <2>1, <2>2, <2>6, <3>3
      <4> QED BY <1>3, <4>1
    <3>4. CASE m = g /\ p = g
      BY <1>3, <1>4, <2>6, <3>4
    <3> QED BY <1>10, <3>1, <3>2, <3>3, <3>4
  <2>7. client'.peer # 0 /\ client'.on /\ client'.links[client'.peer].x.key # NoKey
    BY <1>1, <1>2, <1>5, <1>8
  <2>8. /\ \A m \in LineMs' : client'.on /\ m.id = run' =>
             /\ m.n <= client'.typed
             /\ \A q \in Server : m.key = client'.links[q].x.key =>
                  m.c < client'.links[q].x.cid
    BY <1>1, <1>8, <2>4, <2>5
  <2> QED BY <2>3, <2>6, <2>7, <2>8 DEF LinesInv
<1>16. RunsInv'
  BY <1>1, <1>2, <1>4, <1>8, <1>9 DEF UdpInv, RunsInv
<1>17. PrintedInv'
  <2>1. printed[run] # <<>> =>
          /\ Last(printed[run]) <= client.typed
          /\ Last(printed[run]) \in Nat
    <3>1. printed[run] # <<>> => Last(printed[run]) <= client.typed
      BY <1>1, <1>2 DEF UdpInv, PrintedInv
    <3>2. printed[run] \in Seq(1 .. MaxLines)
      BY <1>2, <1>t, UdpTypeParts
    <3> QED BY <3>1, <3>2, JsUdpAssumption DEF Last
  <2>2. printed[run] # <<>> =>
          Last(printed[run]) <= client'.typed /\ n > Last(printed[run])
    BY <1>2, <1>8, <2>1
  <2> QED BY <1>1, <1>4, <1>10, <2>2 DEF UdpInv, PrintedInv, Refused, PrintedInOrder
<1> QED BY <1>9, <1>12, <1>13, <1>14, <1>15, <1>16, <1>17 DEF UdpInv

(* The server starts again: it knows no client, and no line is for a       *)
(* session with it.                                                        *)
LEMMA UdpServerRestart ==
  ASSUME UdpInv, ServerRestart
  PROVE  UdpInv'
<1>t. UdpTypes
  BY DEF UdpInv
<1> DEFINE i == server.id + 1
<1>1. /\ server.id < MaxServers
      /\ server' = [id |-> i, links |-> NoLinks] /\ lost' = TRUE
      /\ UNCHANGED <<order, run, client, net, keys, printed>>
  BY DEF ServerRestart
<1>2. /\ i \in Server /\ i \in Nat /\ i > server.id /\ server.id \in Nat
      /\ \A k \in Nat : k <= server.id => k <= i /\ k # i
      /\ \A k \in Nat : k > i => k > server.id
  <2>1. server.id \in Nat /\ server.id \in Server
    BY <1>t, UdpTypeParts
  <2>2. i \in Server
    BY <1>1, <2>1, JsUdpAssumption DEF Server
  <2> QED BY <2>1, <2>2
<1> HIDE DEF i
<1>3. server'.id = i /\ \A r \in Run : /\ server'.links[r].x.key = NoKey
                                       /\ server'.links[r].x.eid = NoKey
  BY <1>1, OffFacts
<1>4. UdpTypes'
  <2>1. server' \in Servers
    BY <1>1, <1>2, OffFacts DEF Servers
  <2>2. net' = [c |-> net.c, s |-> net.s] /\ lost' \in BOOLEAN
    BY <1>1, <1>t, UdpTypeParts
  <2> QED BY <1>1, <1>t, <2>1, <2>2, UdpTypeParts, UdpTypeNext
<1>5. /\ LineMs' = LineMs
      /\ \A r : Handshakes(r)' = {}
  <2>1. \A m \in Ms(net.s) : m.kind = "handshake" => m.to <= server.id /\ m.to \in Nat
    BY <1>t, MessageParts DEF UdpInv, ServersInv
  <2>2. \A m \in Ms(net.s) : m.kind = "handshake" => m.to # i
    BY <1>2, <2>1
  <2> QED BY <1>1, <1>3, <2>2 DEF LineMs, Handshakes
<1>6. client.links[i].x.key = NoKey
  BY <1>2 DEF UdpInv, ServersInv
<1>7. ServersInv'
  <2>1. \A m \in Ms(net.c) : m.id \in 1 .. i
    BY <1>2 DEF UdpInv, ServersInv
  <2>2. client.peer \in 0 .. i
    BY <1>2 DEF UdpInv, ServersInv
  <2>3. \A h \in Server : h > i => client.links[h].x.key = NoKey
    BY <1>2 DEF UdpInv, ServersInv, Server
  <2>4. \A m \in Ms(net.s) : m.kind = "handshake" => m.to <= i
    BY <1>2, <1>t, MessageParts DEF UdpInv, ServersInv
  <2> QED BY <1>1, <1>3, <2>1, <2>2, <2>3, <2>4 DEF ServersInv
<1>8. KeysInv'
  BY <1>1, <1>3, <1>t, UdpTypeParts DEF UdpInv, KeysInv, NoKey
<1>9. OneKey'
  <2>1. \A r \in Run : NoKeyOf(r)' /\ KeyOf(r, 1)'
    BY <1>1, <1>3, <1>5, <1>6 DEF NoKeyOf, KeyOf
  <2>2. 1 \in Nat \ {NoKey}
    BY DEF NoKey
  <2> QED BY <2>1, <2>2 DEF OneKey
<1>10. LinesInv'
  BY <1>1, <1>5 DEF UdpInv, LinesInv
<1>11. RunsInv'
  BY <1>1, <1>3 DEF UdpInv, RunsInv
<1>12. PrintedInv'
  <2>1. \A m \in LineMs : m.for # NoKey /\ m.id \in Run
    <3>1. \A m \in LineMs : m.for # NoKey /\ m.id \in 1 .. run
      BY DEF UdpInv, LinesInv, RunsInv, LineMs
    <3> QED BY <3>1, <1>t, UdpTypeParts, JsUdpAssumption DEF Run
  <2> QED BY <1>1, <1>3, <1>5, <2>1 DEF UdpInv, PrintedInv, PrintedInOrder
<1> QED BY <1>4, <1>7, <1>8, <1>9, <1>10, <1>11, <1>12 DEF UdpInv

(* A datagram is lost.                                                     *)
LEMMA UdpLose ==
  ASSUME UdpInv, NEW e \in {"c", "s"}, Lose(e)
  PROVE  UdpInv'
<1>t. UdpTypes
  BY DEF UdpInv
<1>1. /\ lost' = TRUE
      /\ UNCHANGED <<order, run, client, server, keys, printed>>
  BY DEF Lose
<1>2. PICK i \in 1 .. Len(net[e]) : net' = [net EXCEPT ![e] = RemoveAt(@, i)]
  BY DEF Lose
<1>3. CASE e = "c"
  <2> DEFINE c == RemoveAt(net.c, i)
  <2>1. i \in 1 .. Len(net.c)
    BY <1>2, <1>3
  <2>2. c \in Seq(Messages) /\ Ms(c) \subseteq Ms(net.c)
    BY <1>t, <2>1, UdpTypeParts, RemovedMs
  <2>3. net' = [net EXCEPT !.c = c]
    BY <1>2, <1>3
  <2> HIDE DEF c
  <2>4. net' = [c |-> c, s |-> net.s]
    BY <1>t, <2>3, UdpTypeParts
  <2> QED BY <1>1, <1>t, <2>2, <2>4, UdpTypeParts, UdpQuiet
<1>4. CASE e = "s"
  <2> DEFINE s == RemoveAt(net.s, i)
  <2>1. i \in 1 .. Len(net.s)
    BY <1>2, <1>4
  <2>2. s \in Seq(Messages) /\ Ms(s) \subseteq Ms(net.s)
    BY <1>t, <2>1, UdpTypeParts, RemovedMs
  <2>3. net' = [net EXCEPT !.s = s]
    BY <1>2, <1>4
  <2> HIDE DEF s
  <2>4. net' = [c |-> net.c, s |-> s]
    BY <1>t, <2>3, UdpTypeParts
  <2> QED BY <1>1, <1>t, <2>2, <2>4, UdpTypeParts, UdpQuiet
<1> QED BY <1>3, <1>4

(* The client's link to one start of the server gets an exchange, or       *)
(* learns a key, and the client sends its handshake to that start.         *)
LEMMA UdpClientLink ==
  ASSUME UdpInv, UdpTypes', client.on, NEW h \in Server, h <= server.id,
         UNCHANGED <<order, run, server, printed>>,
         client'.on, client'.typed = client.typed,
         client'.peer \in {client.peer, h},
         \A g \in Server : g # h => client'.links[g] = client.links[g],
         NEW y \in Exchanges, y = client'.links[h].x,
         y.key # NoKey, y.eid <= keys',
         \/ /\ client.links[h].x.key = y.key /\ client.links[h].x.cid = y.cid
            /\ keys' = keys
         \/ /\ client.links[h].x.key = NoKey /\ y.key = keys + 1
            /\ keys' = keys + 1,
         Ms(net'.c) \subseteq Ms(net.c),
         \A p \in Ms(net'.s) : \/ p \in Ms(net.s)
                               \/ /\ p.kind = "handshake" /\ p.id = run /\ p.to = h
                                  /\ p.key = y.key /\ p.for = 0
  PROVE  UdpInv'
<1>t. UdpTypes
  BY DEF UdpInv
<1>1. /\ run # 0 /\ run \in Nat /\ run \in 1 .. run
      /\ keys \in Nat /\ keys' \in Nat /\ keys <= keys' /\ y.key <= keys'
      /\ y.key \in Nat /\ server.id \in Server /\ h \in Nat /\ server.id \in Nat
      /\ client.links[h].x.key <= keys
  <2>1. run # 0 /\ client.links[h].x.key <= keys
    BY DEF UdpInv, RunsInv, KeysInv
  <2>2. keys' \in Nat
    BY DEF UdpTypes
  <2>3. y.key \in Nat /\ h \in Nat
    BY JsUdpAssumption DEF Exchanges, Server
  <2>4. keys \in Nat /\ server.id \in Server /\ server.id \in Nat /\ run \in Nat
    BY <1>t, UdpTypeParts
  <2>5. keys <= keys' /\ y.key <= keys'
    <3>1. CASE client.links[h].x.key = y.key /\ keys' = keys
      BY <2>1, <2>2, <2>3, <3>1
    <3>2. CASE y.key = keys + 1 /\ keys' = keys + 1
      BY <2>4, <3>2
    <3> QED BY <3>1, <3>2
  <2>6. run \in 1 .. run
    BY <2>1, <2>4
  <2> QED BY <2>1, <2>2, <2>3, <2>4, <2>5, <2>6
<1>2. LineMs' \subseteq LineMs
  BY DEF LineMs
<1>3. \A q \in Run : \A p \in Handshakes(q)' :
        p \in Handshakes(q) \/ (q = run /\ h = server.id /\ p.key = y.key)
  BY DEF Handshakes
<1>4. ServersInv'
  <2>1. \A p \in Ms(net'.s) : p.kind = "handshake" => p.to <= server.id
    BY DEF UdpInv, ServersInv
  <2>2. client'.peer \in 0 .. server.id
    BY <1>1 DEF UdpInv, ServersInv
  <2>3. \A g \in Server : g > server.id => client'.links[g].x.key = NoKey
    <3> SUFFICES ASSUME NEW g \in Server, g > server.id
                 PROVE  client'.links[g].x.key = NoKey
      OBVIOUS
    <3>1. g # h
      BY <1>1
    <3> QED BY <3>1 DEF UdpInv, ServersInv
  <2> QED BY <2>1, <2>2, <2>3 DEF UdpInv, ServersInv
<1>5. KeysInv'
  <2>1. \A p \in Ms(net'.s) : p.key <= keys' /\ p.for <= keys'
    <3> SUFFICES ASSUME NEW p \in Ms(net'.s) PROVE p.key <= keys' /\ p.for <= keys'
      OBVIOUS
    <3>1. CASE p \in Ms(net.s)
      <4>1. p.key <= keys /\ p.for <= keys /\ p.key \in Nat /\ p.for \in Nat
        BY <1>t, <3>1, MessageParts DEF UdpInv, KeysInv
      <4> QED BY <1>1, <4>1
    <3>2. CASE p.key = y.key /\ p.for = 0
      BY <1>1, <3>2
    <3> QED BY <3>1, <3>2
  <2>2. \A p \in Ms(net'.c) : p.key <= keys'
    <3>1. \A p \in Ms(net.c) : p.key <= keys /\ p.key \in Nat
      BY <1>t, MessageParts DEF UdpInv, KeysInv
    <3> QED BY <1>1, <3>1
  <2>3. \A g \in Server :
          client'.links[g].x.key <= keys' /\ client'.links[g].x.eid <= keys'
    <3> SUFFICES ASSUME NEW g \in Server
                 PROVE  /\ client'.links[g].x.key <= keys'
                        /\ client'.links[g].x.eid <= keys'
      OBVIOUS
    <3>1. CASE g = h
      BY <1>1, <3>1
    <3>2. CASE g # h
      <4>1. /\ client.links[g].x.key <= keys /\ client.links[g].x.eid <= keys
            /\ client.links[g].x.key \in Nat /\ client.links[g].x.eid \in Nat
        BY <1>t, UdpTypeParts DEF UdpInv, KeysInv
      <4> QED BY <1>1, <3>2, <4>1
    <3> QED BY <3>1, <3>2
  <2>4. \A q \in Run : server'.links[q].x.key <= keys'
    <3>1. \A q \in Run : server.links[q].x.key <= keys /\ server.links[q].x.key \in Nat
      BY <1>t, UdpTypeParts DEF UdpInv, KeysInv
    <3> QED BY <1>1, <3>1
  <2>5. \A g \in Server : g # h => client.links[g].x.key # y.key
    <3> SUFFICES ASSUME NEW g \in Server, g # h PROVE client.links[g].x.key # y.key
      OBVIOUS
    <3>1. /\ client.links[g].x.key <= keys /\ client.links[g].x.key \in Nat
      BY <1>t, UdpTypeParts DEF UdpInv, KeysInv
    <3>2. CASE client.links[h].x.key = y.key
      BY <3>2 DEF UdpInv, KeysInv
    <3>3. CASE y.key = keys + 1
      BY <1>1, <3>1, <3>3
    <3> QED BY <3>2, <3>3
  <2>6. \A f, g \in Server :
          client'.links[f].x.key = client'.links[g].x.key
            /\ client'.links[f].x.key # NoKey => f = g
    BY <2>5 DEF UdpInv, KeysInv
  <2> QED BY <2>1, <2>2, <2>3, <2>4, <2>6 DEF KeysInv
<1>6. OneKey'
  <2> SUFFICES ASSUME NEW q \in Run
               PROVE  /\ \E k \in Nat \ {NoKey} : KeyOf(q, k)'
                      /\ run = q /\ client'.links[server.id].x.key = NoKey
                           => NoKeyOf(q)'
    BY DEF OneKey
  <2>0. PICK k \in Nat \ {NoKey} : KeyOf(q, k)
    BY DEF UdpInv, OneKey
  <2>1. CASE ~(q = run /\ h = server.id)
    <3>1. \A p \in Handshakes(q)' : p \in Handshakes(q)
      BY <1>3, <2>1
    <3>2. run = q => client'.links[server.id] = client.links[server.id]
      BY <1>1, <2>1
    <3>3. KeyOf(q, k)'
      BY <2>0, <3>1, <3>2 DEF KeyOf
    <3>4. run = q /\ client'.links[server.id].x.key = NoKey => NoKeyOf(q)'
      BY <3>1, <3>2 DEF UdpInv, OneKey, NoKeyOf
    <3> QED BY <3>3, <3>4
  <2>2. CASE q = run /\ h = server.id /\ client.links[h].x.key = y.key
    <3>1. k = y.key
      BY <2>0, <2>2 DEF KeyOf
    <3>2. KeyOf(q, k)'
      BY <1>3, <2>0, <2>2, <3>1 DEF KeyOf
    <3> QED BY <2>2, <3>2
  <2>3. CASE q = run /\ h = server.id /\ client.links[h].x.key = NoKey
    <3>1. NoKeyOf(q)
      BY <2>3 DEF UdpInv, OneKey
    <3>2. PICK j \in Nat \ {NoKey} : j = y.key
      BY <1>1
    <3>3. KeyOf(q, j)'
      BY <1>3, <2>3, <3>1, <3>2 DEF KeyOf, NoKeyOf
    <3> QED BY <2>3, <3>3
  <2> QED BY <2>1, <2>2, <2>3
<1>7. LinesInv'
  <2>1. ASSUME NEW p \in LineMs', p.id = run, NEW g \in Server,
               p.key = client'.links[g].x.key
        PROVE  p.c < client'.links[g].x.cid
    <3>1. p \in LineMs /\ p.key <= keys /\ p.key \in Nat
      BY <1>2, <1>t, MessageParts DEF UdpInv, KeysInv, LineMs
    <3>2. CASE g = h /\ client.links[h].x.key = y.key /\ client.links[h].x.cid = y.cid
      BY <2>1, <3>1, <3>2 DEF UdpInv, LinesInv
    <3>3. CASE g = h /\ y.key = keys + 1
      BY <1>1, <2>1, <3>1, <3>3
    <3>4. CASE g # h
      BY <2>1, <3>1, <3>4 DEF UdpInv, LinesInv
    <3> QED BY <3>2, <3>3, <3>4
  <2>2. \A p \in LineMs' : p.id = run => p.n <= client'.typed
    BY <1>2 DEF UdpInv, LinesInv
  <2>3. client'.peer # 0 => client'.links[client'.peer].x.key # NoKey
    <3>1. CASE client'.peer = h
      BY <3>1
    <3>2. CASE client'.peer # h
      <4>1. CASE client.peer = 0
        BY <3>2, <4>1
      <4>2. CASE client.peer # 0
        <5>1. client.peer \in Server
          <6>1. client.peer \in 0 .. MaxServers /\ MaxServers \in Nat
            BY <1>t, UdpTypeParts
          <6> QED BY <4>2, <6>1 DEF Server
        <5>2. client'.links[client.peer] = client.links[client.peer]
          BY <3>2, <5>1
        <5> QED BY <3>2, <4>2, <5>2 DEF UdpInv, LinesInv
      <4> QED BY <4>1, <4>2
    <3> QED BY <3>1, <3>2
  <2> QED BY <1>2, <2>1, <2>2, <2>3 DEF UdpInv, LinesInv
<1>8. RunsInv'
  BY <1>1 DEF UdpInv, RunsInv
<1>9. PrintedInv'
  BY <1>2 DEF UdpInv, PrintedInv, Refused, Last, PrintedInOrder
<1> QED BY <1>4, <1>5, <1>6, <1>7, <1>8, <1>9 DEF UdpInv

(* A hello reaches the client: it links the start of the server it is of.  *)
LEMMA UdpClientHello ==
  ASSUME UdpInv, NEW m \in Messages, m \in Ms(net.c),
         NEW rest \in Seq(Messages), Ms(rest) \subseteq Ms(net.c),
         ClientHello(m, rest)
  PROVE  UdpInv'
<1>t. UdpTypes
  BY DEF UdpInv
<1>h. PICK h \in Server : h = m.id /\ h <= server.id /\ h \in Nat
                          /\ h \in 0 .. MaxServers
  <2>1. m.id \in 1 .. server.id
    BY DEF UdpInv, ServersInv
  <2>2. server.id \in 1 .. MaxServers /\ MaxServers \in Nat
    BY <1>t, UdpTypeParts DEF Server
  <2> QED BY <2>1, <2>2 DEF Server
<1> DEFINE old == client.links[h]
<1>1. PICK now \in 1 .. MaxClock :
        LET l == [Linked(old, order[run][h], now) EXCEPT !.pipe = TRUE]
            ms == Synced(run, h, l.x)
        IN  /\ client' = [client EXCEPT !.peer = h, !.links[h] = l]
            /\ keys' = IF old.x.key = NoKey THEN keys + 1 ELSE keys
            /\ net' = [c |-> rest, s |-> Sent(net.s, ms)]
            /\ lost' = (lost \/ Full(net.s, ms))
            /\ UNCHANGED <<order, run, server, printed>>
  BY <1>h DEF ClientHello
<1> DEFINE d == [Linked(old, order[run][h], now) EXCEPT !.pipe = TRUE]
           ms == Synced(run, h, d.x)
           s == Sent(net.s, ms)
<1>2. /\ client.on /\ run \in Run /\ run \in Nat /\ client \in Clients
      /\ order[run][h] \in {1, 2} /\ old \in Links /\ keys \in Nat
      /\ now \in Nat \ {0} /\ old.x.eid \in Nat /\ old.x.eid <= keys
  <2>1. client.on /\ run # 0 /\ old.x.eid <= keys
    BY DEF UdpInv, LinesInv, RunsInv, KeysInv
  <2>2. run \in Run /\ run \in Nat
    BY <2>1, <1>t, UdpTypeParts, JsUdpAssumption, SMTT(20) DEF Run
  <2> QED BY <2>1, <2>2, <1>t, UdpTypeParts, JsUdpAssumption, SMTT(30)
<1>3. /\ client' = [client EXCEPT !.peer = h, !.links[h] = d]
      /\ keys' = IF old.x.key = NoKey THEN keys + 1 ELSE keys
      /\ net' = [c |-> rest, s |-> s]
      /\ lost' = (lost \/ Full(net.s, ms))
      /\ UNCHANGED <<order, run, server, printed>>
  BY <1>1
<1>4. /\ d \in Links /\ d.x.key # NoKey
      /\ old.x.key # NoKey => d.x = old.x
      /\ old.x.key = NoKey => d.x.key = keys + 1 /\ d.x.eid = NoKey
  BY <1>2, LinkedFacts, SMTT(30)
<1> HIDE DEF d
<1>5. PICK y \in Exchanges : y = d.x /\ y.key \in Nat /\ y.eid \in Nat
  <2>1. d.x \in Exchanges
    BY <1>4 DEF Links
  <2> QED BY <2>1 DEF Exchanges
<1>6. ms \in Seq(Messages) /\ HandshakesOf(ms, run, h, y.key)
  BY <1>2, <1>5, <1>h, SyncedFacts
<1> HIDE DEF ms
<1>7. s \in Seq(Messages) /\ Ms(s) \subseteq Ms(net.s) \cup Ms(ms)
  BY <1>6, <1>t, UdpTypeParts, SentMs
<1> HIDE DEF s
<1>8. /\ client' \in Clients /\ client'.on /\ client'.peer = h
      /\ client'.typed = client.typed /\ client'.links[h].x = y
      /\ \A g \in Server : g # h => client'.links[g] = client.links[g]
  <2> DEFINE e == [client EXCEPT !.links[h] = d]
  <2>1. /\ e \in Clients /\ e.on = client.on /\ e.typed = client.typed
        /\ e.links[h] = d
        /\ \A g \in Server : g # h => e.links[g] = client.links[g]
    <3>1. client \in Clients /\ d \in Links
      BY <1>2, <1>4
    <3> QED BY <3>1, ClientFacts
  <2>2. client' = [e EXCEPT !.peer = h]
    BY <1>2, <1>3 DEF Clients
  <2> HIDE DEF e
  <2> QED BY <1>2, <1>5, <1>h, <2>1, <2>2 DEF Clients
<1>9. UdpTypes' /\ net'.c = rest /\ net'.s = s
  <2>1. lost' \in BOOLEAN
    BY <1>3, <1>t, UdpTypeParts, Zenon
  <2>2. keys' \in Nat
    BY <1>2, <1>3
  <2> QED BY <1>3, <1>7, <1>8, <1>t, <2>1, <2>2, UdpTypeParts, UdpTypeNext
<1>10. y.eid <= keys'
  BY <1>2, <1>3, <1>4, <1>5 DEF NoKey
<1>11. \/ old.x.key = y.key /\ old.x.cid = y.cid /\ keys' = keys
       \/ old.x.key = NoKey /\ y.key = keys + 1 /\ keys' = keys + 1
  BY <1>3, <1>4, <1>5
<1>12. \A p \in Ms(net'.s) : \/ p \in Ms(net.s)
                             \/ /\ p.kind = "handshake" /\ p.id = run /\ p.to = h
                                /\ p.key = y.key /\ p.for = 0
  BY <1>6, <1>7, <1>9 DEF HandshakesOf
<1>13. /\ UNCHANGED <<order, run, server, printed>> /\ y.key # NoKey
       /\ Ms(net'.c) \subseteq Ms(net.c)
  BY <1>3, <1>4, <1>5, <1>9
<1> QED BY <1>2, <1>8, <1>9, <1>10, <1>11, <1>12, <1>13, <1>h,
           UdpClientLink, ZenonT(40)

(* Anything else that reaches the client: a handshake of a link.           *)
LEMMA UdpClientReceive ==
  ASSUME UdpInv, NEW m \in Messages, m \in Ms(net.c),
         NEW rest \in Seq(Messages), Ms(rest) \subseteq Ms(net.c),
         ClientReceive(m, rest)
  PROVE  UdpInv'
<1>t. UdpTypes
  BY DEF UdpInv
<1>h. PICK h \in Server : h = m.id /\ h <= server.id /\ h \in Nat
  <2>1. m.id \in 1 .. server.id
    BY DEF UdpInv, ServersInv
  <2>2. server.id \in 1 .. MaxServers /\ MaxServers \in Nat
    BY <1>t, UdpTypeParts DEF Server
  <2> QED BY <2>1, <2>2 DEF Server
<1> DEFINE x == client.links[h].x
           known == m.to = run /\ x.key # NoKey
           a == Applied(x, m)
           ms == IF a.sync THEN Synced(run, h, a.x) ELSE <<>>
           s == Sent(net.s, ms)
<1>1. /\ client' = IF known THEN [client EXCEPT !.links[h].x = a.x] ELSE client
      /\ net' = [c |-> rest, s |-> IF known THEN s ELSE net.s]
      /\ lost' = (lost \/ (known /\ Full(net.s, ms)))
      /\ UNCHANGED <<order, run, server, keys, printed>>
  BY <1>h DEF ClientReceive
<1>2. lost' \in BOOLEAN
  BY <1>1, <1>t, UdpTypeParts, Zenon
<1>3. CASE ~known
  <2>1. client' = client /\ net' = [c |-> rest, s |-> net.s]
    BY <1>1, <1>3
  <2> QED BY <1>1, <1>2, <1>t, <2>1, UdpTypeParts, UdpQuiet
<1>4. CASE known
  <2>1. /\ client' = [client EXCEPT !.links[h].x = a.x] /\ net' = [c |-> rest, s |-> s]
        /\ x.key # NoKey
    BY <1>1, <1>4
  <2> HIDE DEF known
  <2>2. /\ client.on /\ run \in Nat /\ x \in Exchanges /\ client \in Clients
        /\ x.eid <= keys /\ m.key <= keys /\ keys \in Nat
    <3>1. client.on /\ x.eid <= keys /\ m.key <= keys
      BY DEF UdpInv, LinesInv, KeysInv
    <3> QED BY <3>1, <1>t, UdpTypeParts
  <2> HIDE DEF x
  <2>3. PICK y \in Exchanges : /\ y = a.x /\ y.key = x.key /\ y.cid = x.cid
                               /\ y.eid \in {x.eid, m.key}
    BY <2>2, AppliedFacts
  <2>4. ms \in Seq(Messages) /\ HandshakesOf(ms, run, h, y.key)
    <3>1. CASE a.sync
      <4>1. ms = Synced(run, h, y)
        BY <2>3, <3>1
      <4> HIDE DEF ms
      <4> QED BY <1>h, <2>2, <2>3, <4>1, SyncedFacts
    <3>2. CASE ~a.sync
      <4>1. ms = <<>> /\ ms \in Seq(Messages) /\ Ms(ms) = {}
        BY <3>2 DEF Ms
      <4> QED BY <4>1 DEF HandshakesOf
    <3> QED BY <3>1, <3>2
  <2> HIDE DEF ms, a
  <2>5. s \in Seq(Messages) /\ Ms(s) \subseteq Ms(net.s) \cup Ms(ms)
    BY <1>t, <2>4, UdpTypeParts, SentMs
  <2> HIDE DEF s
  <2>6. /\ client' \in Clients /\ client'.on = client.on
        /\ client'.peer = client.peer /\ client'.typed = client.typed
        /\ client'.links[h].x = y
        /\ \A g \in Server : g # h => client'.links[g] = client.links[g]
    <3> DEFINE e == [client EXCEPT !.links[h].x = y]
    <3>1. /\ e \in Clients /\ e.on = client.on /\ e.peer = client.peer
          /\ e.typed = client.typed /\ e.links[h].x = y
          /\ \A g \in Server : g # h => e.links[g] = client.links[g]
      BY <2>2, ClientSync, ZenonT(40)
    <3>2. client' = e
      BY <2>1, <2>3
    <3> HIDE DEF e
    <3> QED BY <3>1, <3>2
  <2>7. UdpTypes' /\ net'.c = rest /\ net'.s = s
    BY <1>1, <1>2, <1>t, <2>1, <2>5, <2>6, UdpTypeParts, UdpTypeNext
  <2>8. \A p \in Ms(net'.s) : \/ p \in Ms(net.s)
                              \/ /\ p.kind = "handshake" /\ p.id = run /\ p.to = h
                                 /\ p.key = y.key /\ p.for = 0
    BY <2>4, <2>5, <2>7 DEF HandshakesOf
  <2>9. y.eid <= keys' /\ y.key # NoKey
    BY <1>1, <2>1, <2>2, <2>3
  <2>10. client.links[h].x.key = y.key /\ client.links[h].x.cid = y.cid /\ keys' = keys
    BY <1>1, <2>3 DEF x
  <2> QED BY <1>1, <1>h, <2>2, <2>6, <2>7, <2>8, <2>9, <2>10,
             UdpClientLink, SMTT(30)
<1> QED BY <1>3, <1>4

(* The server's link to one run of the client gets an exchange, keeps what *)
(* it has, or learns a key from a handshake that was under way.            *)
LEMMA UdpServerLink ==
  ASSUME UdpInv, UdpTypes', NEW r \in Run,
         UNCHANGED <<order, run, client, printed>>, server'.id = server.id,
         \A q \in Run : q # r => server'.links[q] = server.links[q],
         NEW x \in Exchanges, x = server.links[r].x,
         NEW y \in Exchanges, y = server'.links[r].x,
         \/ y.key = keys + 1 /\ keys' = keys + 1 /\ y.eid = NoKey
         \/ /\ y.key = x.key /\ keys' = keys
            /\ y.eid = x.eid /\ y.last = x.last
         \/ /\ y.key = x.key /\ keys' = keys /\ x.eid = NoKey
            /\ \E m \in Handshakes(r) : y.eid = m.key,
         Ms(net'.s) \subseteq Ms(net.s),
         \A p \in Ms(net'.c) : \/ p \in Ms(net.c)
                               \/ /\ client.on /\ p.id = server.id
                                  /\ p.key \in {0, y.key}
  PROVE  UdpInv'
<1>t. UdpTypes
  BY DEF UdpInv
<1>1. /\ keys \in Nat /\ keys' \in Nat /\ keys <= keys' /\ y.key <= keys'
      /\ y.key \in Nat /\ server.id \in Server /\ server.id \in 1 .. server.id
      /\ x.key <= keys /\ x.key \in Nat
  <2>1. x.key <= keys
    BY DEF UdpInv, KeysInv
  <2>2. keys' \in Nat
    BY DEF UdpTypes
  <2>3. y.key \in Nat /\ x.key \in Nat
    BY DEF Exchanges
  <2>4. server.id \in Server /\ server.id \in 1 .. server.id
    <3>1. server.id \in Server /\ server.id \in 1 .. MaxServers
      BY <1>t, UdpTypeParts DEF Server
    <3> QED BY <3>1, JsUdpAssumption
  <2>5. keys \in Nat
    BY <1>t, UdpTypeParts
  <2>6. keys <= keys' /\ y.key <= keys'
    <3>1. CASE y.key = keys + 1 /\ keys' = keys + 1
      BY <2>5, <3>1
    <3>2. CASE y.key = x.key /\ keys' = keys
      BY <2>1, <2>2, <2>3, <3>2
    <3> QED BY <3>1, <3>2
  <2> QED BY <2>1, <2>2, <2>3, <2>4, <2>5, <2>6
<1>2. LineMs' \subseteq LineMs /\ \A q : Handshakes(q)' \subseteq Handshakes(q)
  BY DEF LineMs, Handshakes
<1>3. ServersInv'
  BY <1>1 DEF UdpInv, ServersInv
<1>4. KeysInv'
  <2>1. \A p \in Ms(net'.s) : p.key <= keys' /\ p.for <= keys'
    <3>1. \A p \in Ms(net.s) : p.key <= keys /\ p.for <= keys
                               /\ p.key \in Nat /\ p.for \in Nat
      BY <1>t, MessageParts DEF UdpInv, KeysInv
    <3> QED BY <1>1, <3>1
  <2>2. \A p \in Ms(net'.c) : p.key <= keys'
    <3>1. \A p \in Ms(net.c) : p.key <= keys /\ p.key \in Nat
      BY <1>t, MessageParts DEF UdpInv, KeysInv
    <3> QED BY <1>1, <3>1
  <2>3. \A g \in Server :
          client.links[g].x.key <= keys' /\ client.links[g].x.eid <= keys'
    <3>1. \A g \in Server :
            /\ client.links[g].x.key <= keys /\ client.links[g].x.eid <= keys
            /\ client.links[g].x.key \in Nat /\ client.links[g].x.eid \in Nat
      BY <1>t, UdpTypeParts DEF UdpInv, KeysInv
    <3> QED BY <1>1, <3>1
  <2>4. \A q \in Run : server'.links[q].x.key <= keys'
    <3> SUFFICES ASSUME NEW q \in Run PROVE server'.links[q].x.key <= keys'
      OBVIOUS
    <3>1. CASE q = r
      BY <1>1, <3>1
    <3>2. CASE q # r
      <4>1. server.links[q].x.key <= keys /\ server.links[q].x.key \in Nat
        BY <1>t, UdpTypeParts DEF UdpInv, KeysInv
      <4> QED BY <1>1, <3>2, <4>1
    <3> QED BY <3>1, <3>2
  <2> QED BY <2>1, <2>2, <2>3, <2>4 DEF UdpInv, KeysInv
<1>5. OneKey'
  <2> SUFFICES ASSUME NEW q \in Run
               PROVE  /\ \E k \in Nat \ {NoKey} : KeyOf(q, k)'
                      /\ NoKeyOf(q) => NoKeyOf(q)'
    BY DEF UdpInv, OneKey
  <2>1. PICK k \in Nat \ {NoKey} : KeyOf(q, k)
    BY DEF UdpInv, OneKey
  <2>2. CASE q # r
    <3>1. KeyOf(q, k)'
      BY <1>2, <2>1, <2>2 DEF KeyOf
    <3>2. NoKeyOf(q) => NoKeyOf(q)'
      BY <1>2, <2>2 DEF NoKeyOf
    <3> QED BY <3>1, <3>2
  <2>3. CASE q = r
    <3>1. y.eid \in {NoKey, k}
      BY <2>1, <2>3 DEF KeyOf
    <3>2. KeyOf(q, k)'
      BY <1>2, <2>1, <2>3, <3>1 DEF KeyOf
    <3>3. NoKeyOf(q) => NoKeyOf(q)'
      BY <1>2, <2>3 DEF NoKeyOf
    <3> QED BY <3>2, <3>3
  <2> QED BY <2>2, <2>3
<1>6. LinesInv'
  <2>1. ~client.on => Ms(net'.c) = {}
    BY DEF UdpInv, LinesInv
  <2> QED BY <1>2, <2>1 DEF UdpInv, LinesInv
<1>7. RunsInv'
  <2>1. \A q \in Run : q > run => server'.links[q].x.eid = NoKey
    <3> SUFFICES ASSUME NEW q \in Run, q > run PROVE server'.links[q].x.eid = NoKey
      OBVIOUS
    <3>1. server.links[q].x.eid = NoKey
      BY DEF UdpInv, RunsInv
    <3>2. CASE q # r
      BY <3>1, <3>2
    <3>3. CASE q = r
      <4>1. \A m \in Handshakes(r) : r \in 1 .. run
        BY DEF UdpInv, RunsInv, Handshakes
      <4>2. run \in Nat
        BY <1>t, UdpTypeParts
      <4>3. r \in Nat
        BY JsUdpAssumption DEF Run
      <4>4. ~(r \in 1 .. run)
        BY <4>2, <4>3, <3>3
      <4> QED BY <3>1, <3>3, <4>1, <4>4
    <3> QED BY <3>2, <3>3
  <2> QED BY <2>1 DEF UdpInv, RunsInv
<1>8. PrintedInv'
  <2>1. ASSUME NEW m \in LineMs', server'.links[m.id].x.key = m.for,
               printed[m.id] # <<>>
        PROVE  m.n > Last(printed[m.id]) \/ Refused(server'.links[m.id].x, m)
    <3>1. m \in LineMs /\ m.for <= keys /\ m.for \in Nat /\ m.id \in Run
      <4>1. m \in LineMs /\ m \in Ms(net.s)
        BY <1>2 DEF LineMs
      <4>2. m.for <= keys /\ m.for \in Nat /\ m.id \in 1 .. run
        BY <1>t, <4>1, MessageParts DEF UdpInv, KeysInv, RunsInv
      <4>3. m.id \in Run
        <5>1. run \in 0 .. MaxRuns
          BY <1>t, UdpTypeParts
        <5> QED BY <4>2, <5>1, JsUdpAssumption, SMTT(20) DEF Run
      <4> QED BY <4>1, <4>2, <4>3
    <3>2. CASE m.id # r
      <4>1. server'.links[m.id] = server.links[m.id]
        BY <3>1, <3>2
      <4> QED BY <2>1, <3>1, <4>1 DEF UdpInv, PrintedInv
    <3>3. CASE m.id = r /\ y.key = keys + 1
      <4>1. m.for = keys + 1
        BY <2>1, <3>3
      <4> QED BY <1>1, <3>1, <4>1
    <3>4. CASE m.id = r /\ y.key = x.key
      <4>1. m.n > Last(printed[m.id]) \/ Refused(x, m)
        BY <2>1, <3>1, <3>4 DEF UdpInv, PrintedInv
      <4>2. Refused(x, m) => Refused(y, m) \/ y.key = keys + 1
        BY DEF Refused
      <4>3. y.key # keys + 1
        BY <1>1, <3>4
      <4> QED BY <3>4, <4>1, <4>2, <4>3
    <3> QED BY <3>2, <3>3, <3>4
  <2> QED BY <2>1 DEF UdpInv, PrintedInv, PrintedInOrder
<1> QED BY <1>3, <1>4, <1>5, <1>6, <1>7, <1>8 DEF UdpInv

(* A hello reaches the server: it links the client, says hello back, and   *)
(* forgets nothing of a client it knows.                                   *)
LEMMA UdpServerHello ==
  ASSUME UdpInv, NEW m \in Messages, m \in Ms(net.s),
         NEW rest \in Seq(Messages), Ms(rest) \subseteq Ms(net.s),
         ServerHello(m, rest)
  PROVE  UdpInv'
<1>t. UdpTypes
  BY DEF UdpInv
<1>r. PICK r \in Run : r = m.id /\ r \in Nat
  <2>1. m.id \in 1 .. run
    BY DEF UdpInv, RunsInv
  <2> QED BY <2>1, <1>t, UdpTypeParts, JsUdpAssumption, SMTT(20) DEF Run
<1>i. PICK i \in Server : i = server.id /\ i \in Nat
  BY <1>t, UdpTypeParts
<1> DEFINE old == server.links[r]
<1>1. PICK now \in 1 .. MaxClock :
        LET l == [Linked(old, 3 - order[r][i], now) EXCEPT !.pipe = TRUE]
            ms == <<Hello(i)>> \o Synced(i, r, l.x)
            there == client.on /\ r = run
        IN  /\ server' = [server EXCEPT !.links[r] = l]
            /\ keys' = IF old.x.key = NoKey THEN keys + 1 ELSE keys
            /\ net' = [c |-> IF there THEN Sent(net.c, ms) ELSE net.c, s |-> rest]
            /\ lost' = (lost \/ (there /\ Full(net.c, ms)))
            /\ UNCHANGED <<order, run, client, printed>>
  BY <1>i, <1>r DEF ServerHello
<1>2. PICK ord \in {1, 2} : ord = 3 - order[r][i]
  <2>1. order[r][i] \in {1, 2}
    BY <1>t, UdpTypeParts
  <2> QED BY <2>1
<1> DEFINE d == [Linked(old, ord, now) EXCEPT !.pipe = TRUE]
           hs == Synced(i, r, d.x)
           ms == <<Hello(i)>> \o hs
           there == client.on /\ r = run
           c == IF there THEN Sent(net.c, ms) ELSE net.c
<1>3. /\ server' = [server EXCEPT !.links[r] = d]
      /\ keys' = IF old.x.key = NoKey THEN keys + 1 ELSE keys
      /\ net' = [c |-> c, s |-> rest]
      /\ lost' = (lost \/ (there /\ Full(net.c, ms)))
      /\ UNCHANGED <<order, run, client, printed>>
  BY <1>1, <1>2
<1>4. /\ old \in Links /\ server \in Servers /\ keys \in Nat
      /\ now \in Nat \ {0} /\ net.c \in Seq(Messages)
  BY <1>t, UdpTypeParts, JsUdpAssumption, SMTT(20)
<1>5. /\ d \in Links /\ d.x.key # NoKey
      /\ old.x.key # NoKey => d.x = old.x
      /\ old.x.key = NoKey => d.x.key = keys + 1 /\ d.x.eid = NoKey
  BY <1>4, LinkedFacts
<1> HIDE DEF d
<1>6. PICK y \in Exchanges : y = d.x
  BY <1>5 DEF Links
<1>7. hs \in Seq(Messages) /\ HandshakesOf(hs, i, r, y.key)
  BY <1>6, <1>i, <1>r, SyncedFacts
<1> HIDE DEF hs
<1>8. /\ ms \in Seq(Messages)
      /\ \A p \in Ms(ms) : p.id = i /\ p.key \in {0, y.key}
  <2> DEFINE g == Hello(i)
  <2>1. g \in Messages /\ g.kind = "hello" /\ g.id = i /\ g.key = 0
    BY <1>i, HelloFacts
  <2>2. ms = <<g>> \o hs
    OBVIOUS
  <2> HIDE DEF g, ms
  <2>3. ms \in Seq(Messages) /\ Ms(ms) = {g} \cup Ms(hs)
    BY <1>7, <2>1, <2>2, FewMs
  <2> QED BY <1>7, <2>1, <2>3 DEF HandshakesOf
<1> HIDE DEF ms
<1>9. /\ c \in Seq(Messages)
      /\ \A p \in Ms(c) : \/ p \in Ms(net.c)
                          \/ client.on /\ p.id = i /\ p.key \in {0, y.key}
  <2>1. CASE there
    <3>1. c = Sent(net.c, ms)
      BY <2>1
    <3> HIDE DEF c
    <3>2. c \in Seq(Messages) /\ Ms(c) \subseteq Ms(net.c) \cup Ms(ms)
      BY <1>4, <1>8, <3>1, SentMs
    <3> QED BY <1>8, <2>1, <3>2
  <2>2. CASE ~there
    <3>1. c = net.c
      BY <2>2
    <3> QED BY <1>4, <3>1
  <2> QED BY <2>1, <2>2
<1> HIDE DEF c
<1>10. /\ server' \in Servers /\ server'.id = server.id
       /\ server'.links[r].x = y
       /\ \A q \in Run : q # r => server'.links[q] = server.links[q]
  <2> DEFINE e == [server EXCEPT !.links[r] = d]
  <2>1. /\ e \in Servers /\ e.id = server.id /\ e.links[r] = d
        /\ \A q \in Run : q # r => e.links[q] = server.links[q]
    BY <1>4, <1>5, ServerFacts, ZenonT(40)
  <2>2. server' = e
    BY <1>3
  <2> HIDE DEF e
  <2> QED BY <1>6, <2>1, <2>2
<1>11. UdpTypes' /\ net'.c = c /\ net'.s = rest
  <2>1. lost' \in BOOLEAN
    BY <1>3, <1>t, UdpTypeParts, Zenon
  <2>2. keys' \in Nat
    BY <1>3, <1>4
  <2> QED BY <1>3, <1>9, <1>10, <1>t, <2>1, <2>2, UdpTypeParts, UdpTypeNext
<1>12. PICK x \in Exchanges : x = server.links[r].x
  BY <1>4 DEF Links
<1>13. \/ y.key = keys + 1 /\ keys' = keys + 1 /\ y.eid = NoKey
       \/ y.key = x.key /\ keys' = keys /\ y.eid = x.eid /\ y.last = x.last
  BY <1>3, <1>5, <1>6, <1>12
<1>14. \A p \in Ms(net'.c) : \/ p \in Ms(net.c)
                             \/ /\ client.on /\ p.id = server.id
                                /\ p.key \in {0, y.key}
  BY <1>9, <1>11, <1>i
<1>15. UNCHANGED <<order, run, client, printed>> /\ Ms(net'.s) \subseteq Ms(net.s)
  BY <1>3, <1>11
<1> QED BY <1>10, <1>11, <1>12, <1>13, <1>14, <1>15, UdpServerLink

(* A handshake reaches the server: it is of the one key of its client, so  *)
(* a session that is there goes on.                                        *)
LEMMA UdpServerReceive ==
  ASSUME UdpInv, NEW m \in Messages, m \in Ms(net.s),
         NEW rest \in Seq(Messages), Ms(rest) \subseteq Ms(net.s),
         ServerReceive(m, rest)
  PROVE  UdpInv'
<1>t. UdpTypes
  BY DEF UdpInv
<1>r. PICK r \in Run : r = m.id /\ r \in Nat
  <2>1. m.id \in 1 .. run
    BY DEF UdpInv, RunsInv
  <2> QED BY <2>1, <1>t, UdpTypeParts, JsUdpAssumption, SMTT(20) DEF Run
<1>i. PICK i \in Server : i = server.id /\ i \in Nat
  BY <1>t, UdpTypeParts
<1>x. PICK x \in Exchanges : x = server.links[r].x
  BY <1>t, UdpTypeParts
<1> DEFINE known == m.to = i /\ x.key # NoKey
           a == Applied(x, m)
           there == client.on /\ r = run
           ms == IF known /\ a.sync /\ there THEN Synced(i, r, a.x) ELSE <<>>
           c == Sent(net.c, ms)
<1>1. /\ m.kind = "handshake"
      /\ server' = IF known THEN [server EXCEPT !.links[r].x = a.x] ELSE server
      /\ net' = [c |-> c, s |-> rest]
      /\ lost' = (lost \/ Full(net.c, ms))
      /\ UNCHANGED <<order, run, client, keys, printed>>
  BY <1>i, <1>r, <1>x DEF ServerReceive
<1>2. server \in Servers /\ net.c \in Seq(Messages) /\ keys \in Nat
  BY <1>t, UdpTypeParts
<1>3. PICK z \in Exchanges : /\ z = a.x /\ z.key = x.key /\ z.eid \in {x.eid, m.key}
                             /\ z.eid = x.eid => z.last = x.last
  BY AppliedFacts
<1>4. /\ ms \in Seq(Messages)
      /\ \A p \in Ms(ms) : client.on /\ p.id = i /\ p.key = x.key
  <2>1. CASE known /\ a.sync /\ there
    <3>1. ms = Synced(i, r, z)
      BY <1>3, <2>1
    <3> HIDE DEF ms
    <3>2. ms \in Seq(Messages) /\ HandshakesOf(ms, i, r, z.key)
      BY <1>i, <1>r, <1>3, <3>1, SyncedFacts
    <3> QED BY <1>3, <2>1, <3>2 DEF HandshakesOf
  <2>2. CASE ~(known /\ a.sync /\ there)
    <3>1. ms = <<>> /\ ms \in Seq(Messages) /\ Ms(ms) = {}
      BY <2>2 DEF Ms
    <3> QED BY <3>1
  <2> QED BY <2>1, <2>2
<1> HIDE DEF ms
<1>5. c \in Seq(Messages) /\ Ms(c) \subseteq Ms(net.c) \cup Ms(ms)
  BY <1>2, <1>4, SentMs
<1> HIDE DEF c
<1>6. PICK y \in Exchanges : /\ y = IF known THEN z ELSE x
                             /\ y.key = x.key
  BY <1>3
<1>7. /\ server' \in Servers /\ server'.id = server.id
      /\ server'.links[r].x = y
      /\ \A q \in Run : q # r => server'.links[q] = server.links[q]
  <2>1. CASE known
    <3> DEFINE e == [server EXCEPT !.links[r].x = z]
    <3>1. /\ e \in Servers /\ e.id = server.id /\ e.links[r].x = z
          /\ \A q \in Run : q # r => e.links[q] = server.links[q]
      BY <1>2, <1>3, ServerSync
    <3>2. server' = e /\ y = z
      BY <1>1, <1>3, <1>6, <2>1
    <3> HIDE DEF e
    <3> QED BY <3>1, <3>2
  <2>2. CASE ~known
    BY <1>1, <1>2, <1>6, <1>x, <2>2
  <2> QED BY <2>1, <2>2
<1>8. UdpTypes' /\ net'.c = c /\ net'.s = rest
  <2>1. lost' \in BOOLEAN
    BY <1>1, <1>t, UdpTypeParts, Zenon
  <2> QED BY <1>1, <1>2, <1>5, <1>7, <1>t, <2>1, UdpTypeParts, UdpTypeNext
<1>9. \/ y.eid = x.eid /\ y.last = x.last
      \/ x.eid = NoKey /\ \E p \in Handshakes(r) : y.eid = p.key
  <2>1. CASE y.eid = x.eid
    BY <1>3, <1>6, <2>1
  <2>2. CASE y.eid # x.eid
    <3>1. known /\ y.eid = m.key /\ m.key # x.eid
      BY <1>3, <1>6, <2>2
    <3>2. m \in Handshakes(r)
      BY <1>1, <1>i, <1>r, <3>1 DEF Handshakes
    <3>3. PICK k \in Nat \ {NoKey} : KeyOf(r, k)
      BY DEF UdpInv, OneKey
    <3>4. m.key = k /\ x.eid \in {NoKey, k}
      BY <1>x, <3>2, <3>3 DEF KeyOf
    <3> QED BY <3>1, <3>2, <3>4
  <2> QED BY <2>1, <2>2
<1>10. \A p \in Ms(net'.c) : \/ p \in Ms(net.c)
                             \/ /\ client.on /\ p.id = server.id
                                /\ p.key \in {0, y.key}
  BY <1>4, <1>5, <1>6, <1>8, <1>i
<1>11. /\ UNCHANGED <<order, run, client, printed>> /\ Ms(net'.s) \subseteq Ms(net.s)
       /\ keys' = keys
  BY <1>1, <1>8
<1> QED BY <1>6, <1>7, <1>8, <1>9, <1>10, <1>11, <1>x, UdpServerLink

(* What a sequence holds, and what it holds with one more.                 *)
LEMMA SeqParts ==
  ASSUME NEW S, NEW p \in Seq(S), NEW n \in S
  PROVE  LET z == Append(p, n) IN
         /\ z \in Seq(S) /\ Len(z) = Len(p) + 1 /\ z[Len(p) + 1] = n
         /\ \A i \in 1 .. Len(p) : z[i] = p[i] /\ p[i] \in S
         /\ Len(p) \in Nat /\ DOMAIN p = 1 .. Len(p)
         /\ DOMAIN z = 1 .. Len(p) + 1 /\ z # <<>>
         /\ p # <<>> => Len(p) \in 1 .. Len(p)
OBVIOUS

(* A line is added that is larger than the last one.                       *)
LEMMA LargerAppended ==
  ASSUME NEW p \in Seq(1 .. MaxLines), NEW n \in 1 .. MaxLines,
         \A i, j \in DOMAIN p : i < j => p[i] < p[j],
         p # <<>> => p[Len(p)] < n
  PROVE  LET z == Append(p, n) IN
         /\ z \in Seq(1 .. MaxLines) /\ z # <<>> /\ z[Len(z)] = n
         /\ \A i, j \in DOMAIN z : i < j => z[i] < z[j]
<1> DEFINE z == Append(p, n)
<1>1. /\ z \in Seq(1 .. MaxLines) /\ Len(z) = Len(p) + 1 /\ z[Len(p) + 1] = n
      /\ \A i \in 1 .. Len(p) : z[i] = p[i] /\ p[i] \in 1 .. MaxLines
      /\ Len(p) \in Nat /\ DOMAIN p = 1 .. Len(p) /\ DOMAIN z = 1 .. Len(p) + 1
      /\ z # <<>>
  <2> DEFINE S == 1 .. MaxLines
  <2>1. p \in Seq(S) /\ n \in S
    OBVIOUS
  <2> HIDE DEF S
  <2>2. /\ z \in Seq(S) /\ Len(z) = Len(p) + 1 /\ z[Len(p) + 1] = n
        /\ \A i \in 1 .. Len(p) : z[i] = p[i] /\ p[i] \in S
        /\ Len(p) \in Nat /\ DOMAIN p = 1 .. Len(p)
        /\ DOMAIN z = 1 .. Len(p) + 1 /\ z # <<>>
    BY <2>1, SeqParts
  <2> HIDE DEF z
  <2> QED BY <2>2, Zenon DEF S
<1>2. \A i \in 1 .. Len(p) : p[i] \in Nat /\ p[i] < n
  <2> SUFFICES ASSUME NEW i \in 1 .. Len(p) PROVE p[i] \in Nat /\ p[i] < n
    OBVIOUS
  <2>1. /\ p # <<>> /\ Len(p) \in DOMAIN p /\ i \in DOMAIN p
        /\ i \in Nat /\ i <= Len(p)
    BY <1>1
  <2>2. p[i] \in 1 .. MaxLines /\ p[Len(p)] \in 1 .. MaxLines
    BY <1>1, <2>1
  <2>3. p[Len(p)] < n
    BY <2>1
  <2>4. CASE i = Len(p)
    BY <2>2, <2>3, <2>4, JsUdpAssumption
  <2>5. CASE i < Len(p)
    <3>1. p[i] < p[Len(p)]
      BY <2>1, <2>5
    <3> QED BY <2>2, <2>3, <3>1, JsUdpAssumption
  <2> QED BY <1>1, <2>1, <2>4, <2>5
<1> HIDE DEF z
<1>3. ASSUME NEW i \in DOMAIN z, NEW j \in DOMAIN z, i < j
      PROVE  z[i] < z[j]
  <2>1. i \in 1 .. Len(p)
    BY <1>1, <1>3
  <2>2. CASE j \in 1 .. Len(p)
    <3>1. p[i] < p[j]
      BY <1>1, <1>3, <2>1, <2>2
    <3> QED BY <1>1, <2>1, <2>2, <3>1
  <2>3. CASE j = Len(p) + 1
    BY <1>1, <1>2, <2>1, <2>3
  <2> QED BY <1>1, <2>2, <2>3
<1> QED BY <1>1, <1>3 DEF z

(* A line reaches the server: it is printed behind the smaller ones.       *)
LEMMA UdpPrintLine ==
  ASSUME UdpInv, NEW m \in Messages, m \in Ms(net.s),
         NEW rest \in Seq(Messages), Ms(rest) \subseteq Ms(net.s),
         PrintLine(m, rest)
  PROVE  UdpInv'
<1>t. UdpTypes
  BY DEF UdpInv
<1>r. PICK r \in Run : r = m.id /\ r \in 1 .. run /\ r \in Nat
  <2>1. m.id \in 1 .. run
    BY DEF UdpInv, RunsInv
  <2> QED BY <2>1, <1>t, UdpTypeParts, JsUdpAssumption DEF Run
<1>x. PICK x \in Exchanges : x = server.links[r].x
  BY <1>t, UdpTypeParts
<1>p. PICK p \in Seq(1 .. MaxLines) : p = printed[r]
  BY <1>t, UdpTypeParts
<1> DEFINE ok == x.eid = m.key /\ x.key = m.for /\ ValidCid(x, m.c)
           u == XTakeCid(x, m.c)
           z == Append(p, m.n)
<1>1. /\ m.kind = "line"
      /\ server' = IF ok THEN [server EXCEPT !.links[r].x = u] ELSE server
      /\ printed' = IF ok THEN [printed EXCEPT ![r] = z] ELSE printed
      /\ net' = [c |-> net.c, s |-> rest]
      /\ UNCHANGED <<order, run, client, keys, lost>>
  <2>1. net' = [net EXCEPT !.s = rest]
    BY DEF PrintLine
  <2>2. net' = [c |-> net.c, s |-> rest]
    BY <2>1, <1>t, UdpTypeParts
  <2>3. printed' = IF ok THEN [printed EXCEPT ![r] = z] ELSE printed
    BY <1>p, <1>r, <1>x DEF PrintLine
  <2> QED BY <1>r, <1>x, <2>2, <2>3 DEF PrintLine
<1>2. CASE ~ok
  <2>1. server' = server /\ printed' = printed
    BY <1>1, <1>2
  <2> QED BY <1>1, <1>t, <2>1, UdpTypeParts, UdpQuiet
<1>3. CASE ok
  <2>1. /\ x.eid = m.key /\ x.key = m.for /\ m.c > x.last
        /\ server' = [server EXCEPT !.links[r].x = u]
        /\ printed' = [printed EXCEPT ![r] = z]
    BY <1>1, <1>3 DEF ValidCid
  <2> HIDE DEF ok
  <2>2. /\ m \in LineMs /\ m.key # NoKey /\ m.n \in 1 .. MaxLines
        /\ m.n \in Nat /\ m.c \in Nat /\ x.last \in Nat /\ server \in Servers
    <3>1. m \in LineMs
      BY <1>1 DEF LineMs
    <3>2. m.key # NoKey /\ m.n \in 1 .. MaxLines
      BY <3>1 DEF UdpInv, LinesInv
    <3>3. m.n \in Nat /\ m.c \in Nat /\ x.last \in Nat
      BY DEF Messages, Exchanges
    <3> QED BY <3>1, <3>2, <3>3, <1>t, UdpTypeParts
  <2>3. PICK y \in Exchanges : y = u /\ y.key = x.key /\ y.eid = x.eid /\ y.last = m.c
    <3>1. u \in Exchanges /\ u.key = x.key /\ u.eid = x.eid /\ u.last = m.c
      BY <2>2 DEF XTakeCid, Exchanges
    <3> HIDE DEF u
    <3> QED BY <3>1
  <2> HIDE DEF u
  <2>4. p # <<>> => p[Len(p)] < m.n
    <3> SUFFICES ASSUME p # <<>> PROVE p[Len(p)] < m.n
      OBVIOUS
    <3>1. m.n > Last(p) \/ Refused(x, m)
      BY <1>p, <1>r, <1>x, <2>1, <2>2 DEF UdpInv, PrintedInv
    <3>2. ~Refused(x, m)
      BY <2>1, <2>2 DEF Refused
    <3>3. Last(p) = p[Len(p)]
      BY DEF Last
    <3>4. p[Len(p)] \in 1 .. MaxLines
      BY SeqParts, <2>2, Zenon
    <3>5. p[Len(p)] \in Nat
      BY <3>4, JsUdpAssumption
    <3> QED BY <2>2, <3>1, <3>2, <3>3, <3>5
  <2>5. \A i, j \in DOMAIN p : i < j => p[i] < p[j]
    BY <1>p DEF UdpInv, PrintedInv, PrintedInOrder
  <2>6. /\ z \in Seq(1 .. MaxLines) /\ z # <<>> /\ Last(z) = m.n
        /\ \A i, j \in DOMAIN z : i < j => z[i] < z[j]
    BY <2>2, <2>4, <2>5, LargerAppended DEF Last
  <2> HIDE DEF z
  <2>7. /\ server' \in Servers /\ server'.id = server.id
        /\ server'.links[r].x = y
        /\ \A q \in Run : q # r => server'.links[q] = server.links[q]
    <3> DEFINE e == [server EXCEPT !.links[r].x = y]
    <3>1. /\ e \in Servers /\ e.id = server.id /\ e.links[r].x = y
          /\ \A q \in Run : q # r => e.links[q] = server.links[q]
      BY <2>2, ServerSync
    <3>2. server' = e
      BY <2>1, <2>3
    <3> HIDE DEF e
    <3> QED BY <3>1, <3>2
  <2>8. /\ printed' \in [Run -> Seq(1 .. MaxLines)] /\ printed'[r] = z
        /\ \A q \in Run : q # r => printed'[q] = printed[q]
    <3>1. printed \in [Run -> Seq(1 .. MaxLines)]
      BY <1>t, UdpTypeParts
    <3> QED BY <2>1, <2>6, <3>1
  <2>9. UdpTypes' /\ net'.c = net.c /\ net'.s = rest
    BY <1>1, <1>t, <2>7, <2>8, UdpTypeParts, UdpTypeNext
  <2>10. /\ Ms(net'.s) \subseteq Ms(net.s) /\ Ms(net'.c) = Ms(net.c)
         /\ LineMs' \subseteq LineMs
         /\ \A q : Handshakes(q)' \subseteq Handshakes(q)
         /\ \A q \in Run : /\ server'.links[q].x.eid = server.links[q].x.eid
                           /\ server'.links[q].x.key = server.links[q].x.key
    <3>1. ASSUME NEW q \in Run
          PROVE  /\ server'.links[q].x.eid = server.links[q].x.eid
                 /\ server'.links[q].x.key = server.links[q].x.key
      <4>1. CASE q = r
        BY <1>x, <2>3, <2>7, <4>1
      <4>2. CASE q # r
        BY <2>7, <4>2
      <4> QED BY <4>1, <4>2
    <3> QED BY <2>7, <2>9, <3>1 DEF LineMs, Handshakes
  <2>11. ServersInv'
    BY <1>1, <2>7, <2>10 DEF UdpInv, ServersInv
  <2>12. KeysInv'
    BY <1>1, <2>10 DEF UdpInv, KeysInv
  <2>13. OneKey'
    <3>1. \A q \in Run, k \in Nat \ {NoKey} : KeyOf(q, k) => KeyOf(q, k)'
      BY <1>1, <2>7, <2>10 DEF KeyOf
    <3>2. \A q \in Run : NoKeyOf(q) => NoKeyOf(q)'
      BY <1>1, <2>10 DEF NoKeyOf
    <3> QED BY <1>1, <2>7, <3>1, <3>2 DEF UdpInv, OneKey
  <2>14. LinesInv'
    BY <1>1, <2>10 DEF UdpInv, LinesInv
  <2>15. RunsInv'
    <3>1. \A q \in Run : q > run => printed'[q] = <<>>
      <4> SUFFICES ASSUME NEW q \in Run, q > run PROVE printed'[q] = <<>>
        OBVIOUS
      <4>1. q # r
        BY <1>r, <1>t, UdpTypeParts DEF Run
      <4> QED BY <2>8, <4>1 DEF UdpInv, RunsInv
    <3> QED BY <1>1, <2>10, <3>1 DEF UdpInv, RunsInv
  <2>16. PrintedInv'
    <3>1. ASSUME NEW q \in Run, client.on, run = q, printed'[q] # <<>>
          PROVE  Last(printed'[q]) <= client.typed
      <4>1. CASE q = r
        <5>1. m.n <= client.typed
          BY <1>r, <2>2, <3>1, <4>1 DEF UdpInv, LinesInv
        <5> QED BY <2>6, <2>8, <4>1, <5>1
      <4>2. CASE q # r
        BY <2>8, <3>1, <4>2 DEF UdpInv, PrintedInv
      <4> QED BY <4>1, <4>2
    <3>2. ASSUME NEW g \in LineMs, server'.links[g.id].x.key = g.for,
                 printed'[g.id] # <<>>
          PROVE  g.n > Last(printed'[g.id]) \/ Refused(server'.links[g.id].x, g)
      <4>0. g.id \in Run /\ g.c \in Nat /\ g.n \in Nat
        <5>1. g.id \in 1 .. run /\ g.c \in Nat /\ g.n \in Nat
          BY <1>t, MessageParts DEF UdpInv, RunsInv, LineMs
        <5>2. run \in 0 .. MaxRuns
          BY <1>t, UdpTypeParts
        <5> QED BY <5>1, <5>2, JsUdpAssumption, SMTT(20) DEF Run
      <4>1. CASE g.id # r
        <5>1. /\ server'.links[g.id] = server.links[g.id]
              /\ printed'[g.id] = printed[g.id]
          BY <2>7, <2>8, <4>0, <4>1
        <5> QED BY <3>2, <5>1 DEF UdpInv, PrintedInv
      <4>2. CASE g.id = r /\ (g.key # m.key \/ g.c <= m.c)
        <5>1. Refused(y, g)
          BY <2>1, <2>2, <2>3, <4>2 DEF Refused
        <5> QED BY <2>7, <4>2, <5>1
      <4>3. CASE g.id = r /\ g.key = m.key /\ ~(g.c <= m.c)
        <5>1. m.c < g.c
          BY <2>2, <4>0, <4>3
        <5>2. m.n < g.n
          BY <1>r, <2>2, <4>3, <5>1 DEF UdpInv, LinesInv
        <5> QED BY <2>2, <2>6, <2>8, <4>0, <4>3, <5>2
      <4> QED BY <4>1, <4>2, <4>3
    <3>3. PrintedInOrder'
      <4> SUFFICES ASSUME NEW q \in Run
                   PROVE  \A i, j \in DOMAIN printed'[q] :
                            i < j => printed'[q][i] < printed'[q][j]
        BY DEF PrintedInOrder
      <4>1. CASE q = r
        BY <2>6, <2>8, <4>1
      <4>2. CASE q # r
        BY <2>8, <4>2 DEF UdpInv, PrintedInv, PrintedInOrder
      <4> QED BY <4>1, <4>2
    <3> QED BY <1>1, <2>10, <3>1, <3>2, <3>3 DEF PrintedInv
  <2> QED BY <2>9, <2>11, <2>12, <2>13, <2>14, <2>15, <2>16 DEF UdpInv
<1> QED BY <1>2, <1>3

(* Any step.                                                               *)
LEMMA UdpStep ==
  ASSUME UdpInv, [Next]_vars
  PROVE  UdpInv'
<1>t. net.c \in Seq(Messages) /\ net.s \in Seq(Messages)
  BY UdpTypeParts DEF UdpInv
<1>1. CASE ClientStart
  BY <1>1, UdpClientStart
<1>2. CASE ClientEnd
  BY <1>2, UdpClientEnd
<1>3. CASE Type
  BY <1>3, UdpType
<1>4. CASE ServerRestart
  BY <1>4, UdpServerRestart
<1>5. ASSUME NEW e \in {"c", "s"}, Lose(e)
      PROVE  UdpInv'
  BY <1>5, UdpLose
<1>6. ASSUME NEW i \in 1 .. Len(net.c), NEW rest \in Rest(net.c, i),
             ToClient(i, rest)
      PROVE  UdpInv'
  <2>1. /\ net.c[i] \in Messages /\ net.c[i] \in Ms(net.c)
        /\ rest \in Seq(Messages) /\ Ms(rest) \subseteq Ms(net.c)
    BY <1>t, TakenMs
  <2>2. PICK m \in Messages : m = net.c[i]
    BY <2>1
  <2>3. ClientHello(m, rest) \/ ClientReceive(m, rest)
    BY <1>6, <2>2 DEF ToClient
  <2>4. m \in Ms(net.c)
    BY <2>1, <2>2
  <2> QED BY <2>1, <2>3, <2>4, UdpClientHello, UdpClientReceive
<1>7. ASSUME NEW i \in 1 .. Len(net.s), NEW rest \in Rest(net.s, i),
             ToServer(i, rest)
      PROVE  UdpInv'
  <2>1. /\ net.s[i] \in Messages /\ net.s[i] \in Ms(net.s)
        /\ rest \in Seq(Messages) /\ Ms(rest) \subseteq Ms(net.s)
    BY <1>t, TakenMs
  <2>2. PICK m \in Messages : m = net.s[i]
    BY <2>1
  <2>3. \/ ServerHello(m, rest) \/ ServerReceive(m, rest) \/ PrintLine(m, rest)
    BY <1>7, <2>2 DEF ToServer
  <2>4. m \in Ms(net.s)
    BY <2>1, <2>2
  <2> QED BY <2>1, <2>3, <2>4, UdpServerHello, UdpServerReceive, UdpPrintLine
<1>8. CASE UNCHANGED vars
  <2>1. /\ UNCHANGED <<order, run, client, server, keys, printed>>
        /\ net' = net /\ lost' = lost
    BY <1>8 DEF vars
  <2>2. lost' \in BOOLEAN /\ net' = [c |-> net.c, s |-> net.s]
    BY <2>1, UdpTypeParts DEF UdpInv
  <2> QED BY <1>t, <2>1, <2>2, UdpQuiet
<1> QED BY <1>1, <1>2, <1>3, <1>4, <1>5, <1>6, <1>7, <1>8 DEF Next

(* Nothing is under way at first.                                          *)
LEMMA UdpInit ==
  ASSUME Init
  PROVE  UdpInv
<1>1. /\ order \in [Run -> [Server -> {1, 2}]] /\ run = 0 /\ client = Off
      /\ server = [id |-> 1, links |-> NoLinks]
      /\ net = [c |-> <<>>, s |-> <<>>] /\ keys = 0
      /\ printed = [r \in Run |-> <<>>] /\ lost = FALSE
  BY DEF Init
<1>2. /\ Ms(net.c) = {} /\ Ms(net.s) = {} /\ LineMs = {}
      /\ \A r \in Run : /\ server.links[r].x.key = NoKey
                        /\ server.links[r].x.eid = NoKey
                        /\ printed[r] = <<>>
                        /\ Handshakes(r) = {}
      /\ client.peer = 0 /\ client.typed = 0 /\ client.on = FALSE
      /\ \A h \in Server : client.links[h].x.key = NoKey
                           /\ client.links[h].x.eid = NoKey
  BY <1>1, OffFacts DEF Ms, LineMs, Handshakes
<1>3. UdpTypes
  <2>1. client \in Clients /\ server \in Servers /\ run \in 0 .. MaxRuns
    BY <1>1, OffFacts, JsUdpAssumption DEF Servers, Server
  <2>2. <<>> \in Seq(Messages) /\ <<>> \in Seq(1 .. MaxLines)
    OBVIOUS
  <2>3. printed \in [Run -> Seq(1 .. MaxLines)]
    BY <1>1, <2>2
  <2> QED BY <1>1, <2>1, <2>2, <2>3 DEF UdpTypes, TypeOK, Clients, Servers
<1>4. ServersInv
  <2>1. server.id = 1
    BY <1>1
  <2> QED BY <1>2, <2>1 DEF ServersInv
<1>5. KeysInv
  BY <1>1, <1>2 DEF KeysInv, NoKey
<1>6. OneKey
  <2>1. 1 \in Nat \ {NoKey}
    BY DEF NoKey
  <2> QED BY <1>2, <2>1 DEF OneKey, KeyOf, NoKeyOf
<1>7. LinesInv /\ RunsInv
  BY <1>2 DEF LinesInv, RunsInv
<1>8. PrintedInv
  BY <1>2 DEF PrintedInv, PrintedInOrder
<1> QED BY <1>3, <1>4, <1>5, <1>6, <1>7, <1>8 DEF UdpInv

(* UdpInv holds throughout.                                                *)
LEMMA UdpInvariant == Spec => []UdpInv
<1>1. Init => UdpInv
  BY UdpInit
<1>2. UdpInv /\ [Next]_vars => UdpInv'
  BY UdpStep
<1> QED BY <1>1, <1>2, PTL DEF Spec

(* The samples keep to the types of TypeOK: peers and lines are within     *)
(* their bounds, and links hold exchanges.                                 *)
THEOREM JsUdpTypeCorrect == Spec => []TypeOK
<1>1. UdpInv => TypeOK
  BY DEF UdpInv, UdpTypes
<1> QED BY <1>1, UdpInvariant, PTL

(* The server prints the lines of a client in the order they were typed,   *)
(* each at most once, whatever the network loses, repeats or reorders and  *)
(* however often either side starts again: hellos, handshakes and lines    *)
(* meant for one start of the server reach the next one too.               *)
THEOREM JsUdpPrintedInOrder == Spec => []PrintedInOrder
<1>1. UdpInv => PrintedInOrder
  BY DEF UdpInv, PrintedInv
<1> QED BY <1>1, UdpInvariant, PTL
=============================================================================
