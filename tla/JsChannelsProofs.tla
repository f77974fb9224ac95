-------------------------- MODULE JsChannelsProofs --------------------------
(***************************************************************************)
(* Proofs about module JsChannels, for any channels, any number of packets *)
(* and function pointers: an application that does not pause a stream      *)
(* never sends on memory the library has freed, and every channel is a     *)
(* pipe in the sense of module PacketPipe.                                 *)
(***************************************************************************)
EXTENDS JsChannels, SequenceTheorems, TLAPS

(* The packets both ends have sent and got are sequences of packets.       *)
Histories == [Chan -> [{1, 2} -> Seq(Packets)]]
TypeInv == TypeOK /\ sent \in Histories /\ got \in Histories

(* What nextTick has still to do for a channel.                            *)
Queued(q, kind, i) == \E t \in DOMAIN q : q[t].kind = kind /\ q[t].ch = i
Resuming(i) == Queued(ticks, "resume", i)
Opening(i) == Queued(ticks, "open", i)

(* A stream that was never paused has nothing buffered: it flows, or the   *)
(* tick that makes it flow is still to come.  So its listener has heard    *)
(* the end by the time the library frees the C channel.                    *)
InStep(k, i) ==
  /\ k.obj <=> k.flow # "off"
  /\ k.flow = "off" => k.buf = <<>>
  /\ k.c = "ended" => k.ended /\ i \in calling
  /\ ~k.lag => /\ ~k.bad /\ k.buf = <<>> /\ k.flow # "paused"
               /\ k.flow = "start" => Resuming(i)
               /\ k.c = "freed" /\ k.obj => k.ended /\ i \notin calling

(* No packet comes in before the ticks of the constructors have run.       *)
StreamInv ==
  /\ TypeInv
  /\ \A i \in Chan : InStep(chan[i], i)
  /\ (\E i \in Chan : Resuming(i)) => ~busy

-----------------------------------------------------------------------------
(* Queue q brings, for channel i and in this order, what is left of the    *)
(* packets s after the first n.                                            *)
Brings(q, i, s, n) ==
  /\ n <= Len(s)
  /\ \A a \in DOMAIN q : q[a].ch = i =>
       /\ q[a].p.n \in n .. Len(s) - 1
       /\ q[a].p = s[q[a].p.n + 1]
  /\ \A m \in n .. Len(s) - 1 :
       \E a \in DOMAIN q : q[a].ch = i /\ q[a].p.n = m
  /\ \A a \in DOMAIN q : \A b \in DOMAIN q :
       a < b /\ q[a].ch = i /\ q[b].ch = i => q[a].p.n < q[b].p.n

(* Packets of the peer are numbered; none of them is the error packet.     *)
Numbered(s) == \A n \in DOMAIN s : s[n].n = n - 1 /\ n <= MaxSent + 1

(* Before there is a C channel nobody has sent or got anything on it but   *)
(* the open packet of the peer, which may wait in nextTick.                *)
Unopened(i) ==
  /\ ~chan[i].obj
  /\ sent[i][1] = <<>> /\ got[i][1] = <<>> /\ got[i][2] = <<>>
  /\ Len(sent[i][2]) <= 1
  /\ sent[i][2] # <<>> => i \in In /\ ~sent[i][2][1].end
  /\ up => Brings(toJs, i, sent[i][2], IF Opening(i) THEN 1 ELSE 0)

(* What is buffered are the next packets, and at the end perhaps the error *)
(* packet of link_down.                                                    *)
Buffered(k, s, n) ==
  \A b \in DOMAIN k.buf :
    IF b = Len(k.buf) /\ k.buf[b] = ErrPacket THEN k.c = "freed"
    ELSE n + b <= Len(s) /\ k.buf[b] = s[n + b]

ChanInv(i) ==
  LET k == chan[i] IN
  /\ Numbered(sent[i][2])
  /\ Buffered(k, sent[i][2], Len(got[i][1]))
  /\ k.c = "none" => Unopened(i)
  /\ Opening(i) => k.c = "none"
  /\ up => Brings(toPeer, i, sent[i][1], Len(got[i][2]))
  /\ up /\ k.c = "live" /\ k.obj =>
       Brings(toJs, i, sent[i][2], Len(got[i][1]) + Len(k.buf))
  /\ ~up => k.c \in {"none", "freed"}

(* nextTick never has two callbacks of mesh_on_open for one channel.       *)
OpensOnce(q) ==
  \A t \in DOMAIN q : \A u \in DOMAIN q :
    q[t].kind = "open" /\ q[u].kind = "open" /\ q[t].ch = q[u].ch => t = u

Pipes ==
  /\ \A i \in Chan : ChanInv(i)
  /\ OpensOnce(ticks)
  /\ ~up => toPeer = <<>>

PipesInv == StreamInv /\ Pipes
-----------------------------------------------------------------------------
(* Lemmas about the queues of packets.                                     *)
Parcels == [ch : Chan, p : Packets]

(* What a queue holds are packets, which have numbers.                     *)
LEMMA ParcelType ==
  ASSUME NEW q \in Seq(Parcels)
  PROVE  \A a \in DOMAIN q : q[a] \in Parcels /\ q[a].p.n \in Nat
<1> SUFFICES ASSUME NEW a \in DOMAIN q
             PROVE  q[a] \in Parcels /\ q[a].p.n \in Nat
  OBVIOUS
<1>1. q[a] \in Parcels
  OBVIOUS
<1>2. q[a].p \in Packets
  BY <1>1 DEF Parcels
<1>3. q[a].p.n \in 0 .. MaxSent + 1
  BY <1>2 DEF Packets
<1> QED BY <1>1, <1>3, JsChannelsAssumption

(* A packet sent next goes behind what its channel has under way.          *)
LEMMA BringsSent ==
  ASSUME NEW q \in Seq(Parcels), NEW i \in Chan, NEW s \in Seq(Packets),
         NEW n \in Nat, NEW p \in Packets,
         Brings(q, i, s, n), p.n = Len(s)
  PROVE  Brings(Append(q, [ch |-> i, p |-> p]), i, Append(s, p), n)
<1> DEFINE m == [ch |-> i, p |-> p]
           r == Append(q, m)
           z == Append(s, p)
<1>1. /\ Len(r) = Len(q) + 1 /\ r[Len(q) + 1] = m
      /\ \A a \in DOMAIN q : r[a] = q[a]
      /\ DOMAIN q = 1 .. Len(q) /\ DOMAIN r = 1 .. Len(q) + 1
  BY DEF Parcels
<1>2. /\ Len(z) = Len(s) + 1 /\ z[Len(s) + 1] = p
      /\ \A a \in 1 .. Len(s) : z[a] = s[a]
      /\ Len(s) \in Nat /\ Len(q) \in Nat
  OBVIOUS
<1>3. m.ch = i /\ m.p = p /\ m.p.n = Len(s)
  OBVIOUS
<1>4. \A a \in DOMAIN q : q[a] \in Parcels /\ q[a].p.n \in Nat
  BY ParcelType
<1> HIDE DEF m, r, z
<1>5. n <= Len(z)
  BY <1>2 DEF Brings
<1>6. ASSUME NEW a \in DOMAIN r, r[a].ch = i
      PROVE  r[a].p.n \in n .. Len(z) - 1 /\ r[a].p = z[r[a].p.n + 1]
  <2>1. CASE a \in DOMAIN q
    <3>1. q[a].p.n \in n .. Len(s) - 1 /\ q[a].p = s[q[a].p.n + 1]
      BY <1>1, <1>6, <2>1 DEF Brings
    <3>2. q[a].p.n \in Nat
      BY <1>4, <2>1, Zenon
    <3>3. r[a] = q[a]
      BY <1>1, <2>1, Zenon
    <3>4. z[q[a].p.n + 1] = s[q[a].p.n + 1]
      <4>1. \A k, l \in Nat : k \in n .. l - 1 => k + 1 \in 1 .. l
        OBVIOUS
      <4>2. q[a].p.n + 1 \in 1 .. Len(s)
        BY <1>2, <3>1, <3>2, <4>1, Zenon
      <4> QED BY <1>2, <4>2, Zenon
    <3>5. q[a].p.n \in n .. Len(z) - 1
      BY <1>2, <3>1, <3>2
    <3>6. q[a].p = z[q[a].p.n + 1]
      BY <3>1, <3>4
    <3> QED BY <3>3, <3>5, <3>6, Zenon
  <2>2. CASE a = Len(q) + 1
    BY <1>1, <1>2, <1>3, <2>2 DEF Brings
  <2> QED BY <1>1, <1>2, <2>1, <2>2
<1>7. ASSUME NEW k \in n .. Len(z) - 1
      PROVE  \E a \in DOMAIN r : r[a].ch = i /\ r[a].p.n = k
  <2>1. CASE k = Len(s)
    BY <1>1, <1>2, <1>3, <2>1
  <2>2. CASE k \in n .. Len(s) - 1
    <3>1. PICK a \in DOMAIN q : q[a].ch = i /\ q[a].p.n = k
      BY <2>2 DEF Brings
    <3> QED BY <1>1, <1>2, <3>1
  <2> QED BY <1>2, <2>1, <2>2
<1>8. ASSUME NEW a \in DOMAIN r, NEW b \in DOMAIN r,
             a < b, r[a].ch = i, r[b].ch = i
      PROVE  r[a].p.n < r[b].p.n
  <2>1. a \in DOMAIN q
    BY <1>1, <1>2, <1>8
  <2>2. CASE b \in DOMAIN q
    BY <1>1, <1>8, <2>1, <2>2 DEF Brings
  <2>3. CASE b = Len(q) + 1
    <3>1. q[a].p.n \in n .. Len(s) - 1
      BY <1>1, <1>8, <2>1 DEF Brings
    <3> QED BY <1>1, <1>2, <1>3, <1>4, <2>1, <2>3, <3>1
  <2> QED BY <1>1, <1>2, <2>2, <2>3
<1> QED BY <1>5, <1>6, <1>7, <1>8 DEF Brings, m, r, z

(* A packet of another channel makes no difference.                        *)
LEMMA BringsOther ==
  ASSUME NEW q \in Seq(Parcels), NEW i \in Chan, NEW s \in Seq(Packets),
         NEW n \in Nat, NEW m \in Parcels,
         Brings(q, i, s, n), m.ch # i
  PROVE  Brings(Append(q, m), i, s, n)
<1>1. /\ Append(q, m)[Len(q) + 1] = m
      /\ \A a \in DOMAIN q : Append(q, m)[a] = q[a]
      /\ DOMAIN q = 1 .. Len(q) /\ DOMAIN Append(q, m) = 1 .. Len(q) + 1
      /\ Len(q) \in Nat
  BY DEF Parcels
<1> DEFINE r == Append(q, m)
<1>2. \A a \in DOMAIN r : r[a].ch = i => a \in DOMAIN q /\ r[a] = q[a]
  BY <1>1
<1>3. \A a \in DOMAIN q : a \in DOMAIN r /\ r[a] = q[a]
  BY <1>1
<1> HIDE DEF r
<1> QED BY <1>2, <1>3 DEF Brings, r

(* The first packet of the channel is the next of its packets.             *)
LEMMA BringsTaken ==
  ASSUME NEW q \in Seq(Parcels), NEW i \in Chan, NEW s \in Seq(Packets),
         NEW n \in Nat, q # <<>>, Brings(q, i, s, n), Head(q).ch = i
  PROVE  /\ n < Len(s) /\ Head(q).p.n = n /\ Head(q).p = s[n + 1]
         /\ Brings(Tail(q), i, s, n + 1)
<1>1. /\ DOMAIN q = 1 .. Len(q) /\ Len(q) \in Nat \ {0} /\ Head(q) = q[1]
      /\ DOMAIN Tail(q) = 1 .. Len(q) - 1
      /\ \A a \in 1 .. Len(q) - 1 : Tail(q)[a] = q[a + 1]
      /\ Len(s) \in Nat
  BY DEF Parcels
<1>2. \A a \in DOMAIN q : q[a] \in Parcels /\ q[a].p.n \in Nat
  BY ParcelType
<1> DEFINE r == Tail(q)
<1>3. /\ DOMAIN r = 1 .. Len(q) - 1
      /\ \A a \in DOMAIN r : a + 1 \in DOMAIN q /\ r[a] = q[a + 1]
  BY <1>1
<1>4. 1 \in DOMAIN q /\ q[1].ch = i
  BY <1>1
<1> HIDE DEF r
<1>5. q[1].p.n \in n .. Len(s) - 1 /\ q[1].p = s[q[1].p.n + 1]
  BY <1>4 DEF Brings
<1>6. n \in n .. Len(s) - 1
  BY <1>1, <1>2, <1>4, <1>5
<1>7. PICK a \in DOMAIN q : q[a].ch = i /\ q[a].p.n = n
  BY <1>6 DEF Brings
<1>8. a = 1
  <2>1. CASE 1 < a
    <3>1. q[1].p.n < q[a].p.n
      BY <1>4, <1>7, <2>1 DEF Brings
    <3> QED BY <1>2, <1>4, <1>5, <1>7, <3>1
  <2> QED BY <1>1, <2>1
<1>9. \A b \in DOMAIN r : r[b].ch = i => r[b].p.n > n
  <2> SUFFICES ASSUME NEW b \in DOMAIN r, r[b].ch = i PROVE r[b].p.n > n
    OBVIOUS
  <2>1. 1 < b + 1 /\ b + 1 \in DOMAIN q /\ r[b] = q[b + 1]
    BY <1>1, <1>3
  <2>2. q[1].p.n < q[b + 1].p.n
    BY <1>4, <2>1 DEF Brings
  <2> QED BY <1>2, <1>4, <1>7, <1>8, <2>1, <2>2
<1>10. ASSUME NEW b \in DOMAIN r, r[b].ch = i
       PROVE  r[b].p.n \in n + 1 .. Len(s) - 1 /\ r[b].p = s[r[b].p.n + 1]
  <2>1. q[b + 1].p.n \in n .. Len(s) - 1 /\ q[b + 1].p = s[q[b + 1].p.n + 1]
    BY <1>3, <1>10 DEF Brings
  <2>2. r[b].p.n > n
    BY <1>9, <1>10
  <2> QED BY <1>1, <1>2, <1>3, <2>1, <2>2
<1>11. ASSUME NEW k \in n + 1 .. Len(s) - 1
       PROVE  \E b \in DOMAIN r : r[b].ch = i /\ r[b].p.n = k
  <2>1. PICK c \in DOMAIN q : q[c].ch = i /\ q[c].p.n = k
    BY <1>1 DEF Brings
  <2>2. c # 1
    BY <1>7, <1>8, <2>1
  <2>3. c - 1 \in DOMAIN r /\ r[c - 1] = q[c]
    <3>1. c - 1 \in DOMAIN r
      BY <1>1, <1>3, <2>2
    <3> QED BY <1>1, <1>3, <3>1
  <2> QED BY <2>1, <2>3
<1>12. ASSUME NEW b \in DOMAIN r, NEW c \in DOMAIN r,
              b < c, r[b].ch = i, r[c].ch = i
       PROVE  r[b].p.n < r[c].p.n
  <2>1. b + 1 < c + 1 /\ b + 1 \in DOMAIN q /\ c + 1 \in DOMAIN q
        /\ r[b] = q[b + 1] /\ r[c] = q[c + 1]
    BY <1>1, <1>3, <1>12
  <2> QED BY <1>12, <2>1 DEF Brings
<1>13. n + 1 <= Len(s)
  BY <1>1, <1>6
<1>14. Brings(r, i, s, n + 1)
  BY <1>10, <1>11, <1>12, <1>13 DEF Brings
<1> QED BY <1>1, <1>5, <1>7, <1>8, <1>13, <1>14 DEF r

(* The first packet is one of another channel.                             *)
LEMMA BringsSkipped ==
  ASSUME NEW q \in Seq(Parcels), NEW i \in Chan, NEW s \in Seq(Packets),
         NEW n \in Nat, q # <<>>, Brings(q, i, s, n), Head(q).ch # i
  PROVE  Brings(Tail(q), i, s, n)
<1>1. /\ DOMAIN q = 1 .. Len(q) /\ Len(q) \in Nat \ {0} /\ Head(q) = q[1]
      /\ DOMAIN Tail(q) = 1 .. Len(q) - 1
      /\ \A a \in 1 .. Len(q) - 1 : Tail(q)[a] = q[a + 1]
  BY DEF Parcels
<1> DEFINE r == Tail(q)
<1>3. /\ DOMAIN r = 1 .. Len(q) - 1
      /\ \A a \in DOMAIN r : a + 1 \in DOMAIN q /\ r[a] = q[a + 1]
  BY <1>1
<1>4. \A a \in DOMAIN q : q[a].ch = i => a - 1 \in DOMAIN r /\ r[a - 1] = q[a]
  <2> SUFFICES ASSUME NEW a \in DOMAIN q, q[a].ch = i
               PROVE  a - 1 \in DOMAIN r /\ r[a - 1] = q[a]
    OBVIOUS
  <2>1. a - 1 \in DOMAIN r
    BY <1>1
  <2> QED BY <1>1, <2>1
<1> HIDE DEF r
<1>5. n <= Len(s)
  BY DEF Brings
<1>6. ASSUME NEW b \in DOMAIN r, r[b].ch = i
      PROVE  r[b].p.n \in n .. Len(s) - 1 /\ r[b].p = s[r[b].p.n + 1]
  BY <1>3, <1>6 DEF Brings
<1>7. ASSUME NEW k \in n .. Len(s) - 1
      PROVE  \E b \in DOMAIN r : r[b].ch = i /\ r[b].p.n = k
  <2>1. PICK c \in DOMAIN q : q[c].ch = i /\ q[c].p.n = k
    BY DEF Brings
  <2> QED BY <1>4, <2>1
<1>8. ASSUME NEW b \in DOMAIN r, NEW c \in DOMAIN r,
             b < c, r[b].ch = i, r[c].ch = i
      PROVE  r[b].p.n < r[c].p.n
  <2>1. b + 1 < c + 1 /\ b + 1 \in DOMAIN q /\ c + 1 \in DOMAIN q
        /\ r[b] = q[b + 1] /\ r[c] = q[c + 1]
    BY <1>1, <1>3, <1>8
  <2> QED BY <1>8, <2>1 DEF Brings
<1> QED BY <1>5, <1>6, <1>7, <1>8 DEF Brings, r
-----------------------------------------------------------------------------
(* Types.                                                                  *)
ChanRecs == [c : {"none", "live", "ended", "freed"},
             obj : BOOLEAN, flow : {"off", "start", "yes", "paused"},
             buf : Seq(Packets), ended : BOOLEAN, lag : BOOLEAN, bad : BOOLEAN]
Tasks == [kind : {"resume", "open"}, ch : Chan]

(* The parts of the type invariant, one by one.                            *)
LEMMA TypeParts ==
  TypeInv <=>
    /\ up \in BOOLEAN /\ busy \in BOOLEAN /\ slots \in Nat
    /\ chan \in [Chan -> ChanRecs]
    /\ toJs \in Seq(Parcels) /\ toPeer \in Seq(Parcels)
    /\ ticks \in Seq(Tasks) /\ calling \subseteq Chan
    /\ sent \in Histories /\ got \in Histories
BY DEF TypeInv, TypeOK, ChanRecs, Parcels, Tasks

(* The packets of a channel, and the error packet of link_down.            *)
LEMMA PacketTypes ==
  /\ ErrPacket \in Packets
  /\ \A n \in 0 .. MaxSent, end \in BOOLEAN : Packet(n, end) \in Packets
  /\ \A n \in 0 .. MaxSent, end \in BOOLEAN :
       /\ Packet(n, end).n = n /\ Packet(n, end).end = end
       /\ Packet(n, end) # ErrPacket
BY JsChannelsAssumption DEF ErrPacket, Packet, Packets

(* The open packet.                                                        *)
LEMMA OpenPacket ==
  /\ Packet(0, FALSE) \in Packets /\ Packet(0, FALSE) # ErrPacket
  /\ Packet(0, FALSE).n = 0 /\ Packet(0, FALSE).end = FALSE
BY JsChannelsAssumption DEF ErrPacket, Packet, Packets

(* A packet appended to one side of a history.                             *)
LEMMA HistoryType ==
  ASSUME NEW h \in Histories, NEW i \in Chan, NEW e \in {1, 2},
         NEW p \in Packets
  PROVE  /\ [h EXCEPT ![i][e] = Append(@, p)] \in Histories
         /\ [h EXCEPT ![i][e] = Append(@, p)][i][e] = Append(h[i][e], p)
         /\ \A j \in Chan : \A d \in {1, 2} : j # i \/ d # e =>
              [h EXCEPT ![i][e] = Append(@, p)][j][d] = h[j][d]
<1>1. h[i] \in [{1, 2} -> Seq(Packets)] /\ h[i][e] \in Seq(Packets)
  BY DEF Histories
<1>2. Append(h[i][e], p) \in Seq(Packets)
  BY <1>1
<1> DEFINE g == [h[i] EXCEPT ![e] = Append(@, p)]
<1>3. /\ g \in [{1, 2} -> Seq(Packets)] /\ g[e] = Append(h[i][e], p)
      /\ \A d \in {1, 2} : d # e => g[d] = h[i][d]
  BY <1>1, <1>2
<1>4. [h EXCEPT ![i][e] = Append(@, p)] = [h EXCEPT ![i] = g]
  OBVIOUS
<1> HIDE DEF g
<1>5. /\ [h EXCEPT ![i] = g] \in Histories /\ [h EXCEPT ![i] = g][i] = g
      /\ \A j \in Chan : j # i => [h EXCEPT ![i] = g][j] = h[j]
  BY <1>3 DEF Histories
<1> QED BY <1>3, <1>4, <1>5

(* History g is h with p behind what side e of channel i has.              *)
Gains(g, h, i, e, p) == g = [h EXCEPT ![i][e] = Append(@, p)]

(* What that means for the one side ...                                    *)
LEMMA HistoryHere ==
  ASSUME NEW h \in Histories, NEW i \in Chan, NEW p \in Packets, NEW g,
         Gains(g, h, i, 1, p)
  PROVE  /\ g \in Histories
         /\ g[i][1] = Append(h[i][1], p) /\ g[i][2] = h[i][2]
         /\ \A j \in Chan : j # i => g[j] = h[j]
<1> USE DEF Gains
<1>1. g[i] = [h[i] EXCEPT ![1] = Append(@, p)]
  BY DEF Histories
<1>2. h[i] \in [{1, 2} -> Seq(Packets)]
  BY DEF Histories
<1>3. g[i][1] = Append(h[i][1], p) /\ g[i][2] = h[i][2]
  BY <1>1, <1>2
<1>4. \A j \in Chan : j # i => g[j] = h[j]
  BY DEF Histories
<1>5. g \in Histories
  BY HistoryType
<1> QED BY <1>3, <1>4, <1>5

(* ... and for the other.                                                  *)
LEMMA HistoryThere ==
  ASSUME NEW h \in Histories, NEW i \in Chan, NEW p \in Packets, NEW g,
         Gains(g, h, i, 2, p)
  PROVE  /\ g \in Histories
         /\ g[i][2] = Append(h[i][2], p) /\ g[i][1] = h[i][1]
         /\ \A j \in Chan : j # i => g[j] = h[j]
<1> USE DEF Gains
<1>1. g[i] = [h[i] EXCEPT ![2] = Append(@, p)]
  BY DEF Histories
<1>2. h[i] \in [{1, 2} -> Seq(Packets)]
  BY DEF Histories
<1>3. g[i][2] = Append(h[i][2], p) /\ g[i][1] = h[i][1]
  BY <1>1, <1>2
<1>4. \A j \in Chan : j # i => g[j] = h[j]
  BY DEF Histories
<1>5. g \in Histories
  BY HistoryType
<1> QED BY <1>3, <1>4, <1>5

(* The handler keeps the shape of the record of a channel.                 *)
LEMMA RecordTypes ==
  ASSUME NEW k \in ChanRecs, NEW p \in Packets
  PROVE  Pushed(k, p) \in ChanRecs /\ Taken(k, p) \in ChanRecs
<1>1. p.end \in BOOLEAN
  BY DEF Packets
<1>2. Append(k.buf, p) \in Seq(Packets) /\ (k.ended \/ p.end) \in BOOLEAN
  BY <1>1 DEF ChanRecs
<1>3. Pushed(k, p) \in ChanRecs
  BY <1>2 DEF Pushed, ChanRecs
<1>4. Taken(k, p) \in ChanRecs
  BY DEF Taken, ChanRecs
<1> QED BY <1>3, <1>4

(* link_down keeps it too.                                                 *)
LEMMA DownedType ==
  ASSUME NEW k \in ChanRecs
  PROVE  Downed(k) \in ChanRecs
<1>1. Pushed(k, ErrPacket) \in ChanRecs
  BY RecordTypes, PacketTypes
<1>2. [Pushed(k, ErrPacket) EXCEPT !.c = "freed"] \in ChanRecs
  BY <1>1 DEF ChanRecs
<1>3. [k EXCEPT !.c = "freed"] \in ChanRecs
  BY DEF ChanRecs
<1> QED BY <1>2, <1>3 DEF Downed

(* What the constructor does: channel i is live, and has an object iff     *)
(* there was a function pointer; no other channel changes.                 *)
LEMMA ConstructFacts ==
  ASSUME TypeInv, NEW i \in Chan, Construct(i)
  PROVE  /\ slots' \in Nat /\ chan' \in [Chan -> ChanRecs]
         /\ \A j \in Chan : j # i => chan'[j] = chan[j]
         /\ chan'[i].c = "live" /\ chan'[i].buf = chan[i].buf
         /\ chan'[i].ended = chan[i].ended /\ chan'[i].lag = chan[i].lag
         /\ chan'[i].bad = chan[i].bad
         /\ CanWrap => chan'[i].obj = TRUE /\ chan'[i].flow = "start"
         /\ ~CanWrap => chan'[i].obj = chan[i].obj /\ chan'[i].flow = chan[i].flow
<1>1. slots \in Nat /\ chan \in [Chan -> ChanRecs] /\ chan[i] \in ChanRecs
  BY TypeParts
<1>2. CASE CanWrap
  <2> DEFINE k == [chan[i] EXCEPT !.c = "live", !.obj = TRUE, !.flow = "start"]
  <2>1. k \in ChanRecs
    BY <1>1 DEF ChanRecs
  <2>2. chan' = [chan EXCEPT ![i] = k] /\ slots' = slots - 1
    BY <1>2 DEF Construct
  <2>3. slots' \in Nat
    BY <1>1, <1>2, <2>2 DEF CanWrap
  <2>4. /\ k.c = "live" /\ k.obj = TRUE /\ k.flow = "start" /\ k.buf = chan[i].buf
        /\ k.ended = chan[i].ended /\ k.lag = chan[i].lag /\ k.bad = chan[i].bad
    BY <1>1 DEF ChanRecs
  <2> HIDE DEF k
  <2> QED BY <1>1, <1>2, <2>1, <2>2, <2>3, <2>4
<1>3. CASE ~CanWrap
  <2> DEFINE k == [chan[i] EXCEPT !.c = "live"]
  <2>1. k \in ChanRecs
    BY <1>1 DEF ChanRecs
  <2>2. chan' = [chan EXCEPT ![i] = k] /\ slots' = slots
    BY <1>3 DEF Construct
  <2>4. /\ k.c = "live" /\ k.obj = chan[i].obj /\ k.flow = chan[i].flow
        /\ k.buf = chan[i].buf
        /\ k.ended = chan[i].ended /\ k.lag = chan[i].lag /\ k.bad = chan[i].bad
    BY <1>1 DEF ChanRecs
  <2> HIDE DEF k
  <2> QED BY <1>1, <1>3, <2>1, <2>2, <2>4
<1> QED BY <1>2, <1>3

(* A queue with one more element.                                          *)
LEMMA AppendType ==
  ASSUME NEW S, NEW q \in Seq(S), NEW x \in S
  PROVE  /\ Append(q, x) \in Seq(S) /\ Len(Append(q, x)) = Len(q) + 1
         /\ Len(q) \in Nat /\ DOMAIN q = 1 .. Len(q)
         /\ DOMAIN Append(q, x) = 1 .. Len(q) + 1
         /\ Append(q, x)[Len(q) + 1] = x
         /\ \A a \in DOMAIN q : Append(q, x)[a] = q[a]
OBVIOUS

(* The head of a queue and what is behind it.                              *)
LEMMA HeadType ==
  ASSUME NEW S, NEW q \in Seq(S), q # <<>>
  PROVE  /\ Head(q) \in S /\ Tail(q) \in Seq(S) /\ Head(q) = q[1]
         /\ Len(q) \in Nat \ {0} /\ 1 \in DOMAIN q
         /\ Len(Tail(q)) = Len(q) - 1 /\ DOMAIN Tail(q) = 1 .. Len(q) - 1
         /\ \A a \in DOMAIN Tail(q) : a + 1 \in DOMAIN q /\ Tail(q)[a] = q[a + 1]
OBVIOUS

(* Every variable keeps its type in every step.                            *)
LEMMA TypeStep == TypeInv /\ [Next]_vars => TypeInv'
<1> SUFFICES ASSUME TypeInv, [Next]_vars PROVE TypeInv'
  OBVIOUS
<1> DEFINE Types == /\ up \in BOOLEAN /\ busy \in BOOLEAN /\ slots \in Nat
                    /\ chan \in [Chan -> ChanRecs]
                    /\ toJs \in Seq(Parcels) /\ toPeer \in Seq(Parcels)
                    /\ ticks \in Seq(Tasks) /\ calling \subseteq Chan
                    /\ sent \in Histories /\ got \in Histories
<1>t. Types
  BY TypeParts
<1> SUFFICES Types'
  BY DEF TypeInv, TypeOK, ChanRecs, Parcels, Tasks
<1>s. \A i \in Chan : chan[i] \in ChanRecs /\ chan[i].buf \in Seq(Packets)
  BY <1>t DEF ChanRecs
<1>a. \A i \in Chan : /\ sent[i][1] \in Seq(Packets) /\ sent[i][2] \in Seq(Packets)
                      /\ Len(sent[i][1]) \in Nat /\ Len(sent[i][2]) \in Nat
  BY <1>t DEF Histories
<1>r. \A q \in Seq(Tasks), i \in Chan :
        /\ Append(q, [kind |-> "resume", ch |-> i]) \in Seq(Tasks)
        /\ Append(q, [kind |-> "open", ch |-> i]) \in Seq(Tasks)
  <2>1. \A i \in Chan : [kind |-> "resume", ch |-> i] \in Tasks
                        /\ [kind |-> "open", ch |-> i] \in Tasks
    BY DEF Tasks
  <2> QED BY <2>1, AppendType, Zenon
<1>p. \A q \in Seq(Parcels), i \in Chan, p \in Packets :
        Append(q, [ch |-> i, p |-> p]) \in Seq(Parcels)
  <2>1. \A i \in Chan, p \in Packets : [ch |-> i, p |-> p] \in Parcels
    BY DEF Parcels
  <2> QED BY <2>1, AppendType, Zenon
<1>1. ASSUME NEW i \in Out, Open(i) PROVE Types'
  <2>1. i \in Chan /\ Construct(i)
    BY <1>1 DEF Chan, Open
  <2>2. slots' \in Nat /\ chan' \in [Chan -> ChanRecs]
    BY <2>1, ConstructFacts
  <2>3. Packet(0, FALSE) \in Packets
    BY OpenPacket
  <2>4. /\ ticks' \in Seq(Tasks) /\ sent' \in Histories /\ toPeer' \in Seq(Parcels)
    <3>1. /\ [sent EXCEPT ![i][1] = Append(@, Packet(0, FALSE))] \in Histories
          /\ Append(toPeer, [ch |-> i, p |-> Packet(0, FALSE)]) \in Seq(Parcels)
          /\ Append(ticks, [kind |-> "resume", ch |-> i]) \in Seq(Tasks)
      BY <1>t, <1>r, <1>p, <2>1, <2>3, HistoryType, Zenon
    <3>2. /\ ticks' = Append(ticks, [kind |-> "resume", ch |-> i]) \/ ticks' = ticks
          /\ \/ sent' = [sent EXCEPT ![i][1] = Append(@, Packet(0, FALSE))]
             \/ sent' = sent
          /\ \/ toPeer' = Append(toPeer, [ch |-> i, p |-> Packet(0, FALSE)])
             \/ toPeer' = toPeer
      BY <1>1 DEF Open
    <3> QED BY <1>t, <3>1, <3>2, Zenon
  <2> QED BY <1>1, <1>t, <2>2, <2>4 DEF Open
<1>2. ASSUME NEW i \in Chan, Send(i) PROVE Types'
  <2> DEFINE p == Packet(Len(sent[i][1]), FALSE)
  <2>1. p \in Packets
    <3>1. Len(sent[i][1]) \in 0 .. MaxSent
      BY <1>2, <1>a, JsChannelsAssumption DEF Send
    <3> QED BY <3>1, PacketTypes
  <2>2. [sent EXCEPT ![i][1] = Append(@, p)] \in Histories
    BY <1>t, <2>1, HistoryType
  <2>3. [chan EXCEPT ![i].bad = TRUE] \in [Chan -> ChanRecs]
    <3>1. [chan[i] EXCEPT !.bad = TRUE] \in ChanRecs
      BY <1>s DEF ChanRecs
    <3> QED BY <1>t, <3>1
  <2>4. Append(toPeer, [ch |-> i, p |-> p]) \in Seq(Parcels)
    BY <1>t, <1>p, <2>1, Zenon
  <2> QED BY <1>2, <1>t, <2>2, <2>3, <2>4 DEF Send
<1>3. ASSUME NEW i \in Chan, Pause(i) PROVE Types'
  <2>1. [chan[i] EXCEPT !.flow = "paused", !.lag = TRUE] \in ChanRecs
    BY <1>s DEF ChanRecs
  <2>2. chan' = [chan EXCEPT ![i] = [chan[i] EXCEPT !.flow = "paused", !.lag = TRUE]]
    BY <1>3 DEF Pause
  <2>3. chan' \in [Chan -> ChanRecs]
    BY <1>t, <2>1, <2>2
  <2> QED BY <1>3, <1>t, <2>3 DEF Pause
<1>4. ASSUME NEW i \in Chan, Resume(i) PROVE Types'
  <2>1. [chan[i] EXCEPT !.flow = "start"] \in ChanRecs
    BY <1>s DEF ChanRecs
  <2>2. chan' \in [Chan -> ChanRecs]
    BY <1>4, <1>t, <2>1 DEF Resume
  <2>3. ticks' \in Seq(Tasks)
    BY <1>4, <1>t, <1>r, Zenon DEF Resume
  <2> QED BY <1>4, <1>t, <2>2, <2>3 DEF Resume
<1>5. ASSUME NEW i \in Chan, Flow(i) PROVE Types'
  <2> DEFINE p == Head(chan[i].buf)
             k == [chan[i] EXCEPT !.buf = Tail(@), !.ended = @ \/ p.end]
  <2>1. p \in Packets /\ Tail(chan[i].buf) \in Seq(Packets)
    BY <1>5, <1>s, HeadType DEF Flow, Draining
  <2>2. k \in ChanRecs
    <3>1. (chan[i].ended \/ p.end) \in BOOLEAN
      BY <1>s, <2>1 DEF ChanRecs, Packets
    <3> HIDE DEF p
    <3> QED BY <1>s, <2>1, <3>1 DEF ChanRecs
  <2>3. chan' = [chan EXCEPT ![i] = k]
    BY <1>5 DEF Flow
  <2>4. chan' \in [Chan -> ChanRecs]
    BY <1>t, <2>2, <2>3
  <2>5. got' \in Histories
    <3>1. [got EXCEPT ![i][1] = Append(@, p)] \in Histories
      BY <1>t, <2>1, HistoryType
    <3> QED BY <1>5, <1>t, <3>1 DEF Flow
  <2> QED BY <1>5, <1>t, <2>4, <2>5 DEF Flow
<1>6. ASSUME NEW i \in Chan, NEW p \in Packets, PeerSends(i, p) PROVE Types'
  <2>1. [sent EXCEPT ![i][2] = Append(@, p)] \in Histories
    BY <1>t, HistoryType
  <2>2. Append(toJs, [ch |-> i, p |-> p]) \in Seq(Parcels)
    BY <1>t, <1>p, Zenon
  <2> QED BY <1>6, <1>t, <2>1, <2>2 DEF PeerSends
<1>7. ASSUME NEW i \in In, PeerOpen(i) PROVE Types'
  <2>1. Packet(0, FALSE) \in Packets /\ i \in Chan
    BY OpenPacket DEF Chan
  <2> QED BY <1>6, <1>7, <2>1 DEF PeerOpen
<1>8. ASSUME NEW i \in Chan, NEW end \in BOOLEAN, PeerSend(i, end) PROVE Types'
  <2>1. Len(sent[i][2]) \in 0 .. MaxSent
    BY <1>8, <1>a, JsChannelsAssumption DEF PeerSend
  <2>2. Packet(Len(sent[i][2]), end) \in Packets
    BY <2>1, PacketTypes
  <2>3. PeerSends(i, Packet(Len(sent[i][2]), end))
    BY <1>8 DEF PeerSend
  <2> QED BY <1>6, <2>2, <2>3
<1>9. CASE PeerTake
  <2>1. Head(toPeer) \in Parcels /\ Tail(toPeer) \in Seq(Parcels)
    BY <1>9, <1>t, HeadType DEF PeerTake
  <2>2. Head(toPeer).ch \in Chan /\ Head(toPeer).p \in Packets
    BY <2>1 DEF Parcels
  <2>3. [got EXCEPT ![Head(toPeer).ch][2] = Append(@, Head(toPeer).p)] \in Histories
    BY <1>t, <2>2, HistoryType
  <2> QED BY <1>9, <1>t, <2>1, <2>3 DEF PeerTake
<1>10. CASE Receive
  <2> DEFINE i == Head(toJs).ch
             p == Head(toJs).p
  <2>1. Head(toJs) \in Parcels /\ Tail(toJs) \in Seq(Parcels)
    BY <1>10, <1>t, HeadType DEF Receive
  <2>2. i \in Chan /\ p \in Packets
    BY <2>1 DEF Parcels
  <2>3. Pushed(Taken(chan[i], p), p) \in ChanRecs
    BY <1>s, <2>2, RecordTypes
  <2>4. [got EXCEPT ![i][1] = Append(@, p)] \in Histories
    BY <1>t, <2>2, HistoryType
  <2>5. chan' = [chan EXCEPT ![i] = Pushed(Taken(chan[i], p), p)] \/ chan' = chan
    BY <1>10 DEF Receive
  <2>6. calling' = {i} \/ calling' = calling
    BY <1>10 DEF Receive
  <2>7. got' = [got EXCEPT ![i][1] = Append(@, p)] \/ got' = got
    BY <1>10 DEF Receive
  <2>8. ticks' = Append(ticks, [kind |-> "open", ch |-> i]) \/ ticks' = ticks
    BY <1>10 DEF Receive
  <2>9. /\ busy' = TRUE /\ toJs' = Tail(toJs)
        /\ UNCHANGED <<up, slots, toPeer, sent>>
    BY <1>10 DEF Receive
  <2> HIDE DEF i, p
  <2>10. chan' \in [Chan -> ChanRecs]
    BY <1>t, <2>2, <2>3, <2>5
  <2>11. ticks' \in Seq(Tasks)
    BY <1>t, <1>r, <2>2, <2>8, Zenon
  <2>12. calling' \subseteq Chan /\ got' \in Histories
    BY <1>t, <2>2, <2>4, <2>6, <2>7
  <2> QED BY <1>t, <2>1, <2>9, <2>10, <2>11, <2>12
<1>11. CASE Return
  <2>1. \A i \in Chan : [chan[i] EXCEPT !.c = "freed"] \in ChanRecs
    BY <1>s DEF ChanRecs
  <2>2. chan' \in [Chan -> ChanRecs]
    BY <1>11, <1>s, <2>1 DEF Return
  <2> QED BY <1>11, <1>t, <2>2 DEF Return
<1>12. CASE EndData
  BY <1>12, <1>t DEF EndData
<1>13. CASE TickResume
  <2>1. Head(ticks) \in Tasks /\ Tail(ticks) \in Seq(Tasks)
    BY <1>13, <1>t, HeadType DEF TickResume
  <2>2. Head(ticks).ch \in Chan
    BY <2>1 DEF Tasks
  <2> DEFINE i == Head(ticks).ch
             k == [chan[i] EXCEPT !.flow = IF @ = "start" THEN "yes" ELSE @]
  <2>3. k \in ChanRecs
    BY <1>s, <2>2 DEF ChanRecs
  <2>4. chan' = [chan EXCEPT ![i] = k]
    BY <1>13 DEF TickResume
  <2>5. chan' \in [Chan -> ChanRecs]
    BY <1>t, <2>2, <2>3, <2>4
  <2> QED BY <1>13, <1>t, <2>1, <2>5 DEF TickResume
<1>14. CASE TickOpen
  <2> DEFINE i == Head(ticks).ch
  <2>1. Head(ticks) \in Tasks /\ Tail(ticks) \in Seq(Tasks)
    BY <1>14, <1>t, HeadType DEF TickOpen
  <2>2. i \in Chan
    BY <2>1 DEF Tasks
  <2>3. CASE ~up
    BY <1>14, <1>t, <2>1, <2>3 DEF TickOpen
  <2>4. CASE up
    <3>1. Construct(i)
      BY <1>14, <2>4 DEF TickOpen
    <3>2. slots' \in Nat /\ chan' \in [Chan -> ChanRecs]
      BY <2>2, <3>1, ConstructFacts
    <3>3. [got EXCEPT ![i][1] = Append(@, Packet(0, FALSE))] \in Histories
      BY <1>t, <2>2, OpenPacket, HistoryType
    <3>4. /\ got' = [got EXCEPT ![i][1] = Append(@, Packet(0, FALSE))]
          /\ ticks' = Append(Tail(ticks), [kind |-> "resume", ch |-> i])
             \/ ticks' = Tail(ticks)
          /\ UNCHANGED <<up, toJs, toPeer, busy, calling, sent>>
      BY <1>14, <2>4 DEF TickOpen
    <3> HIDE DEF i
    <3>5. ticks' \in Seq(Tasks)
      BY <1>r, <2>1, <2>2, <3>4, Zenon
    <3> QED BY <1>t, <3>2, <3>3, <3>4, <3>5
  <2> QED BY <2>3, <2>4
<1>15. CASE LinkDown
  <2>1. \A i \in Chan : Downed(chan[i]) \in ChanRecs
    BY <1>s, DownedType
  <2>2. chan' \in [Chan -> ChanRecs]
    BY <1>15, <2>1, Zenon DEF LinkDown
  <2>3. <<>> \in Seq(Parcels)
    OBVIOUS
  <2>4. /\ up' = FALSE /\ toJs' = <<>> /\ toPeer' = <<>>
        /\ UNCHANGED <<slots, ticks, busy, calling, sent, got>>
    BY <1>15 DEF LinkDown
  <2> QED BY <1>t, <2>2, <2>3, <2>4
<1>16. CASE UNCHANGED vars
  BY <1>16, <1>t DEF vars
<1> QED
  BY <1>1, <1>2, <1>3, <1>4, <1>5, <1>7, <1>8, <1>9, <1>10, <1>11, <1>12, <1>13,
     <1>14, <1>15, <1>16 DEF Next

-----------------------------------------------------------------------------
(* Streams.                                                                *)

(* Asking nextTick for one more callback ...                               *)
LEMMA QueuedMore ==
  ASSUME NEW q \in Seq(Tasks), NEW kind \in {"resume", "open"}, NEW i \in Chan,
         NEW l, NEW j
  PROVE  Queued(Append(q, [kind |-> kind, ch |-> i]), l, j)
           <=> Queued(q, l, j) \/ (l = kind /\ j = i)
<1> DEFINE m == [kind |-> kind, ch |-> i]
<1>1. m \in Tasks /\ m.kind = kind /\ m.ch = i
  BY DEF Tasks
<1> HIDE DEF m
<1>2. /\ DOMAIN q = 1 .. Len(q) /\ DOMAIN Append(q, m) = 1 .. Len(q) + 1
      /\ Append(q, m)[Len(q) + 1] = m /\ Len(q) \in Nat
      /\ \A a \in DOMAIN q : Append(q, m)[a] = q[a]
  BY <1>1, AppendType
<1>3. /\ \A a \in DOMAIN q : a \in DOMAIN Append(q, m)
      /\ Len(q) + 1 \in DOMAIN Append(q, m)
      /\ \A a \in DOMAIN Append(q, m) : a \in DOMAIN q \/ a = Len(q) + 1
  BY <1>2
<1> QED BY <1>1, <1>2, <1>3, Zenon DEF Queued, m

(* ... and running the first one.                                          *)
LEMMA QueuedRest ==
  ASSUME NEW q \in Seq(Tasks), q # <<>>, NEW l, NEW j
  PROVE  /\ Queued(Tail(q), l, j) => Queued(q, l, j)
         /\ Queued(q, l, j) =>
              Queued(Tail(q), l, j) \/ (Head(q).kind = l /\ Head(q).ch = j)
<1>1. /\ Head(q) = q[1] /\ DOMAIN q = 1 .. Len(q) /\ Len(q) \in Nat \ {0}
      /\ DOMAIN Tail(q) = 1 .. Len(q) - 1
      /\ \A a \in DOMAIN Tail(q) : a + 1 \in DOMAIN q /\ Tail(q)[a] = q[a + 1]
  BY HeadType
<1>2. \A a \in DOMAIN q : a = 1 \/ (a - 1 \in DOMAIN Tail(q) /\ Tail(q)[a - 1] = q[a])
  <2> SUFFICES ASSUME NEW a \in DOMAIN q, a # 1
               PROVE  a - 1 \in DOMAIN Tail(q) /\ Tail(q)[a - 1] = q[a]
    OBVIOUS
  <2>1. a - 1 \in DOMAIN Tail(q) /\ (a - 1) + 1 = a
    BY <1>1
  <2> QED BY <1>1, <2>1
<1> QED BY <1>1, <1>2, ZenonT(40) DEF Queued

(* What was asked for last is queued.                                      *)
LEMMA QueuedLast ==
  ASSUME NEW q \in Seq(Tasks), NEW i \in Chan
  PROVE  /\ Queued(Append(q, [kind |-> "resume", ch |-> i]), "resume", i)
         /\ Queued(Append(q, [kind |-> "open", ch |-> i]), "open", i)
BY QueuedMore

(* The two kinds of callbacks, each seen from both.                        *)
LEMMA QueuedKinds ==
  ASSUME NEW q \in Seq(Tasks), NEW i \in Chan, NEW j
  PROVE  /\ Queued(Append(q, [kind |-> "open", ch |-> i]), "resume", j)
              <=> Queued(q, "resume", j)
         /\ Queued(Append(q, [kind |-> "resume", ch |-> i]), "open", j)
              <=> Queued(q, "open", j)
         /\ Queued(q, "resume", j) =>
              Queued(Append(q, [kind |-> "resume", ch |-> i]), "resume", j)
         /\ j # i => (Queued(Append(q, [kind |-> "open", ch |-> i]), "open", j)
                        <=> Queued(q, "open", j))
BY QueuedMore

(* A channel whose record stays, whose tick to resume does not get lost,   *)
(* and whose listener neither starts nor returns, stays in step.           *)
LEMMA InStepKept ==
  ASSUME NEW j \in Chan, InStep(chan[j], j), chan'[j] = chan[j],
         Resuming(j) => Resuming(j)', j \in calling <=> j \in calling'
  PROVE  InStep(chan[j], j)'
BY DEF InStep

(* Nothing is queued in an empty queue.                                    *)
LEMMA NothingQueued ==
  ticks = <<>> => \A i : ~Resuming(i) /\ ~Opening(i)
BY DEF Resuming, Opening, Queued

(* A channel just constructed flows from the tick on that it asks for.     *)
LEMMA ConstructInStep ==
  ASSUME TypeInv, NEW i \in Chan, InStep(chan[i], i), Construct(i),
         CanWrap => Resuming(i)', Resuming(i) => Resuming(i)'
  PROVE  InStep(chan[i], i)'
<1>1. /\ chan'[i].c = "live" /\ chan'[i].buf = chan[i].buf
      /\ chan'[i].ended = chan[i].ended /\ chan'[i].lag = chan[i].lag
      /\ chan'[i].bad = chan[i].bad
      /\ CanWrap => chan'[i].obj = TRUE /\ chan'[i].flow = "start"
      /\ ~CanWrap => chan'[i].obj = chan[i].obj /\ chan'[i].flow = chan[i].flow
  BY ConstructFacts
<1>2. CASE CanWrap
  BY <1>1, <1>2 DEF InStep
<1>3. CASE ~CanWrap
  BY <1>1, <1>3 DEF InStep
<1> QED BY <1>2, <1>3

(* What the two steps that run a handler make of the record of a channel.  *)
LEMMA PushedFacts ==
  ASSUME NEW k \in ChanRecs, NEW p \in Packets
  PROVE  LET n == Pushed(Taken(k, p), p) IN
         /\ n.obj = k.obj /\ n.flow = k.flow /\ n.lag = k.lag /\ n.bad = k.bad
         /\ n.c = (IF p.end THEN IF Emits(k) THEN "ended" ELSE "freed" ELSE k.c)
         /\ Emits(k) => n.buf = k.buf /\ n.ended = (k.ended \/ p.end)
         /\ ~Emits(k) => n.buf = Append(k.buf, p) /\ n.ended = k.ended
<1> DEFINE t == Taken(k, p)
           n == Pushed(t, p)
<1>1. /\ t \in ChanRecs /\ t.obj = k.obj /\ t.flow = k.flow /\ t.lag = k.lag
      /\ t.bad = k.bad /\ t.buf = k.buf /\ t.ended = k.ended
      /\ t.c = (IF p.end THEN IF Emits(k) THEN "ended" ELSE "freed" ELSE k.c)
  BY DEF Taken, ChanRecs
<1>2. Emits(t) <=> Emits(k)
  BY <1>1 DEF Emits
<1> HIDE DEF t
<1>3. /\ n.obj = t.obj /\ n.flow = t.flow /\ n.lag = t.lag
      /\ n.bad = t.bad /\ n.c = t.c
      /\ Emits(t) => n.buf = t.buf /\ n.ended = (t.ended \/ p.end)
      /\ ~Emits(t) => n.buf = Append(t.buf, p) /\ n.ended = t.ended
  BY <1>1 DEF Pushed, ChanRecs
<1> QED BY <1>1, <1>2, <1>3 DEF t

(* link_down frees the C channel; the error packet is buffered or emitted. *)
LEMMA DownedFacts ==
  ASSUME NEW k \in ChanRecs
  PROVE  LET n == Downed(k) IN
         /\ n.obj = k.obj /\ n.flow = k.flow /\ n.lag = k.lag /\ n.bad = k.bad
         /\ n.c = (IF k.c = "live" THEN "freed" ELSE k.c)
         /\ k.c = "live" /\ k.obj /\ ~Emits(k) => n.buf = Append(k.buf, ErrPacket)
         /\ ~(k.c = "live" /\ k.obj /\ ~Emits(k)) => n.buf = k.buf
         /\ k.c = "live" /\ k.obj /\ Emits(k) => n.ended = TRUE
         /\ ~(k.c = "live" /\ k.obj /\ Emits(k)) => n.ended = k.ended
<1>1. ErrPacket.end = TRUE
  BY DEF ErrPacket, Packet
<1>2. CASE k.c = "live" /\ k.obj
  <2> DEFINE u == Pushed(k, ErrPacket)
  <2>1. /\ u \in ChanRecs /\ u.obj = k.obj /\ u.flow = k.flow /\ u.lag = k.lag
        /\ u.bad = k.bad
        /\ Emits(k) => u.buf = k.buf /\ u.ended = TRUE
        /\ ~Emits(k) => u.buf = Append(k.buf, ErrPacket) /\ u.ended = k.ended
    <3>1. u \in ChanRecs
      BY RecordTypes, PacketTypes
    <3> QED BY <1>1, <3>1 DEF Pushed, ChanRecs
  <2>2. Downed(k) = [u EXCEPT !.c = "freed"]
    BY <1>2 DEF Downed
  <2> HIDE DEF u
  <2> QED BY <1>2, <2>1, <2>2 DEF ChanRecs
<1>3. CASE k.c = "live" /\ ~k.obj
  BY <1>3 DEF Downed, ChanRecs
<1>4. CASE k.c # "live"
  BY <1>4 DEF Downed
<1> QED BY <1>2, <1>3, <1>4

(* Every step keeps the streams in step with the library.                  *)
LEMMA StreamStep == StreamInv /\ [Next]_vars => StreamInv'
<1> SUFFICES ASSUME StreamInv, [Next]_vars PROVE StreamInv'
  OBVIOUS
<1> DEFINE Streams == /\ \A i \in Chan : InStep(chan[i], i)
                      /\ (\E i \in Chan : Resuming(i)) => ~busy
<1>t. TypeInv /\ TypeInv'
  BY TypeStep DEF StreamInv
<1> SUFFICES Streams'
  BY <1>t DEF StreamInv
<1>i. Streams
  BY DEF StreamInv
<1>v. /\ chan \in [Chan -> ChanRecs] /\ ticks \in Seq(Tasks) /\ busy \in BOOLEAN
      /\ toJs \in Seq(Parcels) /\ calling \subseteq Chan
      /\ \A i \in Chan : chan[i] \in ChanRecs
  BY <1>t, TypeParts
<1>q. Quiet => ticks = <<>> /\ calling = {} /\ ~busy
  BY DEF Quiet, Turn
<1>d. Quiet => \A i \in Chan : chan[i].flow = "yes" => chan[i].buf = <<>>
  BY DEF Quiet, Draining
<1>1. ASSUME NEW i \in Out, Open(i) PROVE Streams'
  <2>1. i \in Chan /\ Construct(i) /\ Quiet /\ busy' = busy /\ calling' = calling
    BY <1>1 DEF Chan, Open
  <2>2. \/ CanWrap /\ ticks' = Append(ticks, [kind |-> "resume", ch |-> i])
        \/ ~CanWrap /\ ticks' = ticks
    BY <1>1 DEF Open
  <2>3. CanWrap => Resuming(i)'
    BY <1>v, <2>1, <2>2, QueuedLast, Zenon DEF Resuming
  <2>4. \A j \in Chan : ~Resuming(j)
    BY <1>q, <2>1, NothingQueued
  <2>5. InStep(chan[i], i)'
    BY <1>i, <1>t, <2>1, <2>3, <2>4, ConstructInStep
  <2>6. \A j \in Chan : j # i => InStep(chan[j], j)'
    BY <1>i, <1>t, <2>1, <2>4, ConstructFacts, InStepKept
  <2> QED BY <1>q, <2>1, <2>5, <2>6
<1>2. ASSUME NEW i \in Chan, Send(i) PROVE Streams'
  <2>1. /\ \A j \in Chan : Resuming(j)' <=> Resuming(j)
        /\ calling' = calling /\ busy' = busy
    BY <1>2 DEF Send, Resuming, Queued
  <2>2. CASE chan' = chan
    BY <1>i, <2>1, <2>2 DEF InStep
  <2>3. CASE chan[i].c = "freed" /\ chan' = [chan EXCEPT ![i].bad = TRUE]
    <3>1. chan[i].lag
      <4>1. chan[i].obj /\ (i \in calling \/ ~chan[i].ended)
        BY <1>2 DEF Send
      <4> QED BY <1>i, <2>3, <4>1 DEF InStep
    <3>2. /\ chan'[i].obj = chan[i].obj /\ chan'[i].flow = chan[i].flow
          /\ chan'[i].buf = chan[i].buf /\ chan'[i].c = chan[i].c
          /\ chan'[i].lag = chan[i].lag
      BY <1>v, <2>3 DEF ChanRecs
    <3>3. InStep(chan[i], i)'
      BY <1>i, <2>1, <2>3, <3>1, <3>2 DEF InStep
    <3>4. \A j \in Chan : j # i => chan'[j] = chan[j]
      BY <1>v, <2>3
    <3>5. \A j \in Chan : j # i => InStep(chan[j], j)'
      BY <1>i, <2>1, <3>4, InStepKept
    <3> QED BY <1>i, <2>1, <3>3, <3>5
  <2> QED BY <1>2, <2>2, <2>3 DEF Send
<1>3. ASSUME NEW i \in Chan, Pause(i) PROVE Streams'
  <2>1. /\ \A j \in Chan : Resuming(j)' <=> Resuming(j)
        /\ calling' = calling /\ busy' = busy
    BY <1>3 DEF Pause, Resuming, Queued
  <2>2. /\ chan[i].flow \in {"start", "yes"}
        /\ chan' = [chan EXCEPT ![i] = [chan[i] EXCEPT !.flow = "paused", !.lag = TRUE]]
    BY <1>3 DEF Pause
  <2>3. /\ chan'[i].obj = chan[i].obj /\ chan'[i].flow = "paused"
        /\ chan'[i].c = chan[i].c /\ chan'[i].lag
        /\ chan'[i].ended = chan[i].ended
        /\ \A j \in Chan : j # i => chan'[j] = chan[j]
    BY <1>v, <2>2 DEF ChanRecs
  <2>4. InStep(chan[i], i)'
    BY <1>i, <2>1, <2>2, <2>3 DEF InStep
  <2>5. \A j \in Chan : j # i => InStep(chan[j], j)'
    BY <1>i, <2>1, <2>3, InStepKept
  <2> QED BY <1>i, <2>1, <2>4, <2>5
<1>4. ASSUME NEW i \in Chan, Resume(i) PROVE Streams'
  <2>1. /\ ticks' = Append(ticks, [kind |-> "resume", ch |-> i]) /\ Quiet
        /\ calling' = calling /\ busy' = busy
        /\ chan[i].flow = "paused" /\ chan' = [chan EXCEPT ![i].flow = "start"]
    BY <1>4 DEF Resume
  <2>2. /\ chan'[i].obj = chan[i].obj /\ chan'[i].flow = "start"
        /\ chan'[i].c = chan[i].c /\ chan'[i].lag = chan[i].lag
        /\ chan'[i].ended = chan[i].ended
        /\ \A j \in Chan : j # i => chan'[j] = chan[j]
    BY <1>v, <2>1 DEF ChanRecs
  <2>3. \A j \in Chan : ~Resuming(j)
    BY <1>q, <2>1, NothingQueued
  <2>4. InStep(chan[i], i)'
    BY <1>i, <2>1, <2>2 DEF InStep
  <2>5. \A j \in Chan : j # i => InStep(chan[j], j)'
    BY <1>i, <2>1, <2>2, <2>3, InStepKept
  <2> QED BY <1>q, <2>1, <2>4, <2>5
<1>5. ASSUME NEW i \in Chan, Flow(i) PROVE Streams'
  <2>1. /\ \A j \in Chan : Resuming(j)' <=> Resuming(j)
        /\ busy' = busy /\ calling = {} /\ calling' = {i}
        /\ chan[i].flow = "yes" /\ chan[i].buf # <<>>
    BY <1>5 DEF Flow, Resuming, Queued, Turn, Draining
  <2> DEFINE e == Head(chan[i].buf).end
             k == [chan[i] EXCEPT !.buf = Tail(@), !.ended = @ \/ e]
  <2>2. chan' = [chan EXCEPT ![i] = k]
    BY <1>5 DEF Flow
  <2>3. /\ chan'[i].obj = chan[i].obj /\ chan'[i].flow = "yes"
        /\ chan'[i].c = chan[i].c /\ chan'[i].lag = chan[i].lag
        /\ \A j \in Chan : j # i => chan'[j] = chan[j]
    BY <1>v, <2>1, <2>2 DEF ChanRecs
  <2>4. chan[i].lag /\ chan[i].c # "ended" /\ chan[i].obj
    BY <1>i, <2>1 DEF InStep
  <2>5. InStep(chan[i], i)'
    BY <1>i, <2>1, <2>3, <2>4 DEF InStep
  <2>6. \A j \in Chan : j # i => InStep(chan[j], j)'
    <3> SUFFICES ASSUME NEW j \in Chan, j # i PROVE InStep(chan[j], j)'
      OBVIOUS
    <3> QED BY <1>i, <2>1, <2>3, InStepKept
  <2> QED BY <1>i, <2>1, <2>5, <2>6
<1>6. ASSUME UNCHANGED <<chan, ticks, busy, calling>> PROVE Streams'
  BY <1>i, <1>6 DEF InStep, Resuming, Queued
<1>7. ASSUME NEW i \in In, PeerOpen(i) PROVE Streams'
  BY <1>6, <1>7 DEF PeerOpen, PeerSends
<1>8. ASSUME NEW i \in Chan, NEW end \in BOOLEAN, PeerSend(i, end) PROVE Streams'
  BY <1>6, <1>8 DEF PeerSend, PeerSends
<1>9. CASE PeerTake
  BY <1>6, <1>9 DEF PeerTake
<1>10. CASE Receive
  <2>1. /\ Head(toJs) \in Parcels /\ calling = {} /\ busy' = TRUE
        /\ busy \/ Quiet
    BY <1>10, <1>v, HeadType DEF Receive
  <2>p. PICK i \in Chan, p \in Packets : i = Head(toJs).ch /\ p = Head(toJs).p
    BY <2>1 DEF Parcels
  <2> DEFINE k == chan[i]
  <2>2. i \in Chan /\ p \in Packets /\ k \in ChanRecs
    BY <1>v
  <2>3. ticks' = Append(ticks, [kind |-> "open", ch |-> i]) \/ ticks' = ticks
    BY <1>10, <2>p DEF Receive
  <2>4. \/ /\ k.c = "live" /\ k.obj
           /\ chan' = [chan EXCEPT ![i] = Pushed(Taken(k, p), p)]
           /\ calling' = IF Emits(k) THEN {i} ELSE {}
        \/ chan' = chan /\ calling' = calling
    BY <1>10, <2>1, <2>p DEF Receive
  <2>5. \A j \in Chan : ~Resuming(j)
    BY <1>i, <1>q, <2>1, NothingQueued
  <2>6. \A j \in Chan : ~Resuming(j)'
    <3> SUFFICES ASSUME NEW j \in Chan PROVE ~Resuming(j)'
      OBVIOUS
    <3>1. CASE ticks' = ticks
      BY <2>5, <3>1 DEF Resuming, Queued
    <3>2. CASE ticks' = Append(ticks, [kind |-> "open", ch |-> i])
      BY <1>v, <2>2, <2>5, <3>2, QueuedKinds, Zenon DEF Resuming
    <3> QED BY <2>3, <3>1, <3>2
  <2>7. CASE chan' = chan /\ calling' = calling
    BY <1>i, <2>5, <2>6, <2>7, InStepKept
  <2>8. CASE /\ k.c = "live" /\ k.obj
             /\ chan' = [chan EXCEPT ![i] = Pushed(Taken(k, p), p)]
             /\ calling' = IF Emits(k) THEN {i} ELSE {}
    <3> DEFINE n == Pushed(Taken(k, p), p)
    <3>1. /\ n.obj = k.obj /\ n.flow = k.flow /\ n.lag = k.lag /\ n.bad = k.bad
          /\ n.c = (IF p.end THEN IF Emits(k) THEN "ended" ELSE "freed" ELSE k.c)
          /\ Emits(k) => n.buf = k.buf /\ n.ended = (k.ended \/ p.end)
      BY <2>2, PushedFacts
    <3>2. chan'[i] = n /\ \A j \in Chan : j # i => chan'[j] = chan[j]
      BY <1>v, <2>2, <2>8
    <3> HIDE DEF n
    <3>3. ~k.lag => Emits(k)
      <4>1. k.flow \in {"off", "start", "yes", "paused"}
        BY <2>2 DEF ChanRecs
      <4> QED BY <1>i, <2>2, <2>5, <2>8, <4>1 DEF InStep, Emits
    <3>4. InStep(chan[i], i)'
      <4>1. CASE Emits(k)
        <5>1. i \in calling'
          BY <2>8, <4>1
        <5>2. n.c # "freed"
          BY <2>8, <3>1, <4>1
        <5>3. n.c = "ended" => n.ended
          BY <2>8, <3>1, <4>1
        <5>4. k.flow = "yes" /\ k.buf = <<>>
          BY <4>1 DEF Emits
        <5>5. ~k.lag => ~k.bad
          BY <1>i, <2>2 DEF InStep
        <5> QED BY <2>8, <3>1, <3>2, <4>1, <5>1, <5>2, <5>3, <5>4, <5>5 DEF InStep
      <4>2. CASE ~Emits(k)
        <5>1. n.c # "ended" /\ k.lag
          BY <2>8, <3>1, <3>3, <4>2
        <5>2. k.obj /\ k.flow # "off"
          BY <1>i, <2>2, <2>8 DEF InStep
        <5> QED BY <3>1, <3>2, <5>1, <5>2 DEF InStep
      <4> QED BY <4>1, <4>2
    <3>5. \A j \in Chan : j # i => InStep(chan[j], j)'
      <4> SUFFICES ASSUME NEW j \in Chan, j # i PROVE InStep(chan[j], j)'
        OBVIOUS
      <4>1. j \notin calling /\ j \notin calling'
        BY <2>1, <2>8
      <4> QED BY <1>i, <2>5, <3>2, <4>1, InStepKept
    <3> QED BY <2>6, <3>4, <3>5
  <2> QED BY <2>4, <2>7, <2>8
<1>11. CASE Return
  <2>1. /\ \A j \in Chan : Resuming(j)' <=> Resuming(j)
        /\ busy' = busy /\ calling' = {}
        /\ chan' = [j \in Chan |-> IF j \in calling /\ chan[j].c = "ended"
                             THEN [chan[j] EXCEPT !.c = "freed"] ELSE chan[j]]
    BY <1>11 DEF Return, Resuming, Queued
  <2>2. ASSUME NEW j \in Chan PROVE InStep(chan[j], j)'
    <3>1. CASE j \in calling /\ chan[j].c = "ended"
      <4>1. chan'[j] = [chan[j] EXCEPT !.c = "freed"]
        BY <2>1, <2>2, <3>1
      <4>2. /\ chan'[j].obj = chan[j].obj /\ chan'[j].flow = chan[j].flow
            /\ chan'[j].buf = chan[j].buf /\ chan'[j].ended = chan[j].ended
            /\ chan'[j].lag = chan[j].lag /\ chan'[j].bad = chan[j].bad
            /\ chan'[j].c = "freed"
        BY <1>v, <2>2, <4>1 DEF ChanRecs
      <4> QED BY <1>i, <2>1, <2>2, <3>1, <4>2 DEF InStep
    <3>2. CASE ~(j \in calling /\ chan[j].c = "ended")
      <4>1. chan'[j] = chan[j]
        BY <2>1, <2>2, <3>2
      <4> QED BY <1>i, <2>1, <2>2, <3>2, <4>1 DEF InStep
    <3> QED BY <3>1, <3>2
  <2> QED BY <1>i, <2>1, <2>2
<1>12. CASE EndData
  <2>1. /\ \A j \in Chan : Resuming(j)' <=> Resuming(j)
        /\ busy' = FALSE /\ calling' = calling /\ chan' = chan
    BY <1>12 DEF EndData, Resuming, Queued
  <2> QED BY <1>i, <2>1, InStepKept
<1>13. CASE TickResume
  <2>h. ticks # <<>>
    BY <1>13 DEF TickResume
  <2>p. PICK i \in Chan : i = Head(ticks).ch
    <3>1. Head(ticks) \in Tasks
      BY <1>v, <2>h, HeadType
    <3> QED BY <3>1 DEF Tasks
  <2> DEFINE k == [chan[i] EXCEPT !.flow = IF @ = "start" THEN "yes" ELSE @]
  <2>1. /\ ticks # <<>> /\ ticks' = Tail(ticks) /\ ~busy /\ busy' = busy
        /\ calling' = calling /\ Head(ticks).kind = "resume"
        /\ chan' = [chan EXCEPT ![i] = k]
    BY <1>13, <2>p DEF TickResume, Turn
  <2>2. i \in Chan
    OBVIOUS
  <2>3. \A j \in Chan : j # i => (Resuming(j) => Resuming(j)')
    BY <1>v, <2>1, <2>p, QueuedRest DEF Resuming
  <2>4. /\ chan'[i].obj = chan[i].obj /\ chan'[i].buf = chan[i].buf
        /\ chan'[i].ended = chan[i].ended /\ chan'[i].lag = chan[i].lag
        /\ chan'[i].bad = chan[i].bad /\ chan'[i].c = chan[i].c
        /\ chan'[i].flow = IF chan[i].flow = "start" THEN "yes" ELSE chan[i].flow
        /\ \A j \in Chan : j # i => chan'[j] = chan[j]
    BY <1>v, <2>1, <2>2 DEF ChanRecs
  <2>5. InStep(chan[i], i)'
    <3> HIDE DEF k
    <3> QED BY <1>i, <2>1, <2>2, <2>4 DEF InStep
  <2>6. \A j \in Chan : j # i => InStep(chan[j], j)'
    BY <1>i, <2>1, <2>3, <2>4, InStepKept
  <2> QED BY <2>1, <2>5, <2>6
<1>14. CASE TickOpen
  <2>1. /\ ticks # <<>> /\ ~busy /\ busy' = busy
        /\ calling' = calling /\ Head(ticks).kind = "open"
    BY <1>14 DEF TickOpen, Turn
  <2>h. Head(ticks) \in Tasks /\ Tail(ticks) \in Seq(Tasks)
    BY <1>v, <2>1, HeadType
  <2>p. PICK i \in Chan : i = Head(ticks).ch
    BY <2>h DEF Tasks
  <2>2. i \in Chan /\ Tail(ticks) \in Seq(Tasks)
    BY <2>h
  <2>3. \/ ~up /\ chan' = chan /\ ticks' = Tail(ticks)
        \/ /\ Construct(i)
           /\ \/ CanWrap /\ ticks' = Append(Tail(ticks), [kind |-> "resume", ch |-> i])
              \/ ~CanWrap /\ ticks' = Tail(ticks)
    BY <1>14, <2>p DEF TickOpen
  <2>4. \A j \in Chan : Resuming(j) => Queued(Tail(ticks), "resume", j)
    BY <1>v, <2>1, QueuedRest DEF Resuming
  <2>5. \A j \in Chan : Resuming(j) => Resuming(j)'
    <3> SUFFICES ASSUME NEW j \in Chan, Resuming(j) PROVE Resuming(j)'
      OBVIOUS
    <3>1. CASE ticks' = Tail(ticks)
      BY <2>4, <3>1 DEF Resuming, Queued
    <3>2. CASE ticks' = Append(Tail(ticks), [kind |-> "resume", ch |-> i])
      BY <2>2, <2>4, <3>2, QueuedKinds, Zenon DEF Resuming
    <3> QED BY <2>3, <3>1, <3>2
  <2>6. CASE chan' = chan
    BY <1>i, <2>1, <2>5, <2>6, InStepKept
  <2>7. CASE Construct(i) /\ (CanWrap => Resuming(i)')
    <3>1. InStep(chan[i], i)'
      BY <1>i, <1>t, <2>2, <2>5, <2>7, ConstructInStep
    <3>2. \A j \in Chan : j # i => InStep(chan[j], j)'
      BY <1>i, <1>t, <2>1, <2>2, <2>5, <2>7, ConstructFacts, InStepKept
    <3> QED BY <2>1, <3>1, <3>2
  <2>8. ticks' = Append(Tail(ticks), [kind |-> "resume", ch |-> i]) => Resuming(i)'
    BY <2>2, QueuedLast, Zenon DEF Resuming
  <2> QED BY <2>3, <2>6, <2>7, <2>8
<1>15. CASE LinkDown
  <2>1. /\ Quiet /\ chan' = [j \in Chan |-> Downed(chan[j])]
        /\ UNCHANGED <<ticks, busy, calling>>
    BY <1>15 DEF LinkDown
  <2>2. \A j \in Chan : ~Resuming(j)
    BY <1>q, <2>1, NothingQueued
  <2>3. ASSUME NEW j \in Chan PROVE InStep(chan[j], j)'
    <3> DEFINE k == chan[j]
               n == Downed(k)
    <3>1. /\ n.obj = k.obj /\ n.flow = k.flow /\ n.lag = k.lag /\ n.bad = k.bad
          /\ n.c = (IF k.c = "live" THEN "freed" ELSE k.c)
          /\ ~(k.c = "live" /\ k.obj /\ ~Emits(k)) => n.buf = k.buf
          /\ k.c = "live" /\ k.obj /\ Emits(k) => n.ended = TRUE
          /\ ~(k.c = "live" /\ k.obj /\ Emits(k)) => n.ended = k.ended
      BY <1>v, <2>3, DownedFacts
    <3>2. chan'[j] = n /\ k \in ChanRecs
      BY <1>v, <2>1, <2>3
    <3> HIDE DEF n
    <3>3. ~k.lag /\ k.obj => Emits(k)
      <4>1. k.flow \in {"off", "start", "yes", "paused"}
        BY <3>2 DEF ChanRecs
      <4> QED BY <1>i, <2>2, <2>3, <4>1 DEF InStep, Emits
    <3>4. InStep(k, j) /\ calling = {} /\ calling' = {} /\ ~Resuming(j)
      BY <1>i, <1>q, <2>1, <2>2, <2>3
    <3>5. ~k.obj => n.buf = k.buf
      BY <3>1
    <3> QED BY <3>1, <3>2, <3>3, <3>4, <3>5 DEF InStep
  <2>4. busy' = busy /\ ~busy
    BY <1>q, <2>1
  <2> QED BY <2>3, <2>4
<1>16. CASE UNCHANGED vars
  BY <1>6, <1>16 DEF vars
<1> QED
  BY <1>1, <1>2, <1>3, <1>4, <1>5, <1>7, <1>8, <1>9, <1>10, <1>11, <1>12, <1>13,
     <1>14, <1>15, <1>16 DEF Next

(* In the beginning there is neither channel nor packet nor callback.      *)
LEMMA StreamInit == Init => StreamInv
<1> SUFFICES ASSUME Init PROVE StreamInv
  OBVIOUS
<1>1. slots \in Nat
  BY JsChannelsAssumption DEF Init
<1>2. NoChan \in ChanRecs
  BY DEF NoChan, ChanRecs
<1>3. chan \in [Chan -> ChanRecs]
  BY <1>2 DEF Init
<1>4. /\ <<>> \in Seq(Parcels) /\ <<>> \in Seq(Tasks)
      /\ [e \in {1, 2} |-> <<>>] \in [{1, 2} -> Seq(Packets)]
  OBVIOUS
<1>5. sent \in Histories /\ got \in Histories
  BY <1>4 DEF Init, Histories
<1>6. TypeInv
  BY <1>1, <1>3, <1>4, <1>5, TypeParts DEF Init
<1>7. ~busy /\ \A i \in Chan : chan[i] = NoChan
  BY DEF Init
<1>8. \A i \in Chan : InStep(chan[i], i)
  BY <1>7 DEF InStep, NoChan
<1> QED BY <1>6, <1>7, <1>8 DEF StreamInv

(* The transport's queues, nextTick and the records of the channels hold   *)
(* what their declarations say, whatever the peer sends.                   *)
THEOREM JsChannelsTypeCorrect == Spec => []TypeOK
<1>1. StreamInv => TypeOK
  BY DEF StreamInv, TypeInv
<1> QED BY <1>1, StreamInit, StreamStep, PTL DEF Spec

(* chan_send is never called on a channel that chan_process or link_down   *)
(* has freed, unless the application has paused the Duplex: its listener   *)
(* hears the end before the library frees the channel.                     *)
THEOREM JsChannelsSafeSend == Spec => []SafeSend
<1>1. StreamInv => SafeSend
  BY DEF StreamInv, InStep, SafeSend
<1> QED BY <1>1, StreamInit, StreamStep, PTL DEF Spec

-----------------------------------------------------------------------------
(* Pipes.                                                                  *)

(* One more callback keeps the opens single, if it opens nothing new or    *)
(* something that waited for no open.                                      *)
LEMMA OpensOnceMore ==
  ASSUME NEW q \in Seq(Tasks), NEW m \in Tasks, OpensOnce(q),
         m.kind = "open" => ~Queued(q, "open", m.ch)
  PROVE  OpensOnce(Append(q, m))
<1> DEFINE r == Append(q, m)
<1>1. /\ DOMAIN q = 1 .. Len(q) /\ DOMAIN r = 1 .. Len(q) + 1
      /\ r[Len(q) + 1] = m /\ Len(q) \in Nat
      /\ \A a \in DOMAIN q : r[a] = q[a]
  BY AppendType
<1> HIDE DEF r
<1>2. \A a \in DOMAIN r : a \in DOMAIN q \/ a = Len(q) + 1
  BY <1>1
<1> SUFFICES ASSUME NEW t \in DOMAIN r, NEW u \in DOMAIN r,
                    r[t].kind = "open", r[u].kind = "open", r[t].ch = r[u].ch
             PROVE  t = u
  BY DEF OpensOnce, r
<1>3. CASE t \in DOMAIN q /\ u \in DOMAIN q
  BY <1>1, <1>3 DEF OpensOnce
<1>4. CASE t = Len(q) + 1 /\ u \in DOMAIN q
  BY <1>1, <1>4 DEF Queued
<1>5. CASE u = Len(q) + 1 /\ t \in DOMAIN q
  BY <1>1, <1>5 DEF Queued
<1> QED BY <1>2, <1>3, <1>4, <1>5

(* An open that runs was the only one of its channel.                      *)
LEMMA OpensOnceRest ==
  ASSUME NEW q \in Seq(Tasks), q # <<>>, OpensOnce(q)
  PROVE  /\ OpensOnce(Tail(q))
         /\ Head(q).kind = "open" => ~Queued(Tail(q), "open", Head(q).ch)
<1> DEFINE r == Tail(q)
<1>1. /\ Head(q) = q[1] /\ 1 \in DOMAIN q
      /\ DOMAIN r = 1 .. Len(q) - 1
      /\ \A a \in DOMAIN r : a + 1 \in DOMAIN q /\ r[a] = q[a + 1]
  BY HeadType
<1>2. DOMAIN q = 1 .. Len(q) /\ Len(q) \in Nat
  OBVIOUS
<1> HIDE DEF r
<1>3. OpensOnce(r)
  <2> SUFFICES ASSUME NEW t \in DOMAIN r, NEW u \in DOMAIN r,
                      r[t].kind = "open", r[u].kind = "open", r[t].ch = r[u].ch
               PROVE  t = u
    BY DEF OpensOnce
  <2>1. t + 1 = u + 1
    BY <1>1 DEF OpensOnce
  <2> QED BY <1>1, <1>2, <2>1
<1>4. ASSUME Head(q).kind = "open", Queued(r, "open", Head(q).ch)
      PROVE  FALSE
  <2>1. PICK t \in DOMAIN r : r[t].kind = "open" /\ r[t].ch = Head(q).ch
    BY <1>4 DEF Queued
  <2>2. t + 1 = 1
    BY <1>1, <1>4, <2>1 DEF OpensOnce
  <2> QED BY <1>1, <1>2, <2>1, <2>2
<1> QED BY <1>3, <1>4 DEF r

(* What one channel does is a step of its pipe, or none.                   *)
Moves(j) == [Pipe(j)!Next]_<<sent[j], got[j]>>

(* Nothing sent, nothing got.                                              *)
LEMMA NoMove ==
  ASSUME UNCHANGED <<sent, got>>
  PROVE  \A j \in Chan : Moves(j)
BY DEF Moves

(* One end sends a packet.                                                 *)
LEMMA SentMove ==
  ASSUME sent \in Histories, NEW i \in Chan, NEW e \in {1, 2}, NEW p \in Packets,
         sent' = [sent EXCEPT ![i][e] = Append(@, p)], got' = got
  PROVE  \A j \in Chan : Moves(j)
<1> SUFFICES ASSUME NEW j \in Chan PROVE Moves(j)
  OBVIOUS
<1>1. CASE j # i
  <2>1. sent'[j] = sent[j]
    BY <1>1 DEF Histories
  <2> QED BY <2>1 DEF Moves
<1>2. CASE j = i
  <2>1. sent'[i] = [sent[i] EXCEPT ![e] = Append(@, p)]
    BY DEF Histories
  <2>2. Pipe(i)!Send(e)
    BY <2>1 DEF Pipe!Send
  <2>3. Pipe(i)!Next
    BY <2>2 DEF Pipe!Next, Pipe!End
  <2> QED BY <1>2, <2>3 DEF Moves
<1> QED BY <1>1, <1>2

(* One end gets the next packet of the other.                              *)
LEMMA GotMove ==
  ASSUME got \in Histories, NEW i \in Chan, NEW e \in {1, 2}, NEW p,
         got' = [got EXCEPT ![i][e] = Append(@, p)], sent' = sent,
         Len(got[i][e]) < Len(sent[i][3 - e]),
         p = sent[i][3 - e][Len(got[i][e]) + 1]
  PROVE  \A j \in Chan : Moves(j)
<1> SUFFICES ASSUME NEW j \in Chan PROVE Moves(j)
  OBVIOUS
<1>1. CASE j # i
  <2>1. got'[j] = got[j]
    BY <1>1 DEF Histories
  <2> QED BY <2>1 DEF Moves
<1>2. CASE j = i
  <2>1. got'[i] = [got[i] EXCEPT ![e] = Append(@, p)]
    BY DEF Histories
  <2>2. Pipe(i)!Deliver(e)
    BY <2>1 DEF Pipe!Deliver, Pipe!Other
  <2>3. Pipe(i)!Next
    BY <2>2 DEF Pipe!Next, Pipe!End
  <2> QED BY <1>2, <2>3 DEF Moves
<1> QED BY <1>1, <1>2

(* A queue that loses nothing of channel j, whatever it brings.            *)
Same(q, r, j) == \A s \in Seq(Packets), n \in Nat :
                   Brings(q, j, s, n) => Brings(r, j, s, n)

(* Packets of other channels come and go.                                  *)
LEMMA SameMore ==
  ASSUME NEW q \in Seq(Parcels), NEW i \in Chan, NEW p \in Packets,
         NEW j \in Chan, j # i
  PROVE  Same(q, Append(q, [ch |-> i, p |-> p]), j)
<1>1. [ch |-> i, p |-> p] \in Parcels /\ [ch |-> i, p |-> p].ch # j
  BY DEF Parcels
<1> QED BY <1>1, BringsOther DEF Same

(* The first packet of a queue goes, and is another channel's.             *)
LEMMA SameRest ==
  ASSUME NEW q \in Seq(Parcels), q # <<>>, NEW j \in Chan, Head(q).ch # j
  PROVE  Same(q, Tail(q), j)
BY BringsSkipped DEF Same

(* The types of what is known of a channel.                                *)
LEMMA ChanTypes ==
  ASSUME TypeInv, NEW j \in Chan
  PROVE  /\ chan[j] \in ChanRecs /\ chan[j].buf \in Seq(Packets)
         /\ Len(chan[j].buf) \in Nat
         /\ sent[j][1] \in Seq(Packets) /\ sent[j][2] \in Seq(Packets)
         /\ Len(sent[j][1]) \in Nat /\ Len(sent[j][2]) \in Nat
         /\ got[j][1] \in Seq(Packets) /\ got[j][2] \in Seq(Packets)
         /\ Len(got[j][1]) \in Nat /\ Len(got[j][2]) \in Nat
<1>1. chan \in [Chan -> ChanRecs] /\ sent \in Histories /\ got \in Histories
  BY TypeParts
<1>2. chan[j] \in ChanRecs /\ chan[j].buf \in Seq(Packets)
  BY <1>1 DEF ChanRecs
<1>3. /\ sent[j][1] \in Seq(Packets) /\ sent[j][2] \in Seq(Packets)
      /\ got[j][1] \in Seq(Packets) /\ got[j][2] \in Seq(Packets)
  BY <1>1 DEF Histories
<1>4. \A s \in Seq(Packets) : Len(s) \in Nat
  OBVIOUS
<1> QED BY <1>2, <1>3, <1>4, Zenon

(* A channel that takes no part in a step keeps its invariant.             *)
LEMMA ChanKept ==
  ASSUME TypeInv, NEW j \in Chan, ChanInv(j), up' = up,
         chan'[j].c = chan[j].c, chan'[j].obj = chan[j].obj,
         chan'[j].buf = chan[j].buf, sent'[j] = sent[j], got'[j] = got[j],
         Opening(j)' <=> Opening(j),
         Same(toPeer, toPeer', j), Same(toJs, toJs', j)
  PROVE  ChanInv(j)'
<1>1. /\ sent[j][1] \in Seq(Packets) /\ sent[j][2] \in Seq(Packets)
      /\ Len(chan[j].buf) \in Nat
      /\ Len(got[j][1]) \in Nat /\ Len(got[j][2]) \in Nat
  BY ChanTypes
<1>2. Buffered(chan'[j], sent'[j][2], Len(got'[j][1]))
  BY DEF ChanInv, Buffered
<1>3. up => Brings(toPeer', j, sent'[j][1], Len(got'[j][2]))
  BY <1>1 DEF ChanInv, Same
<1>4. up /\ chan[j].c = "live" /\ chan[j].obj =>
        Brings(toJs', j, sent'[j][2], Len(got'[j][1]) + Len(chan'[j].buf))
  <2> DEFINE n == Len(got[j][1]) + Len(chan[j].buf)
  <2>1. n \in Nat /\ n = Len(got'[j][1]) + Len(chan'[j].buf)
    <3>1. got'[j][1] = got[j][1] /\ chan'[j].buf = chan[j].buf
      OBVIOUS
    <3>2. \A a, b \in Nat : a + b \in Nat
      OBVIOUS
    <3> QED BY <1>1, <3>1, <3>2, Zenon
  <2>2. up /\ chan[j].c = "live" /\ chan[j].obj => Brings(toJs, j, sent[j][2], n)
    BY DEF ChanInv
  <2> HIDE DEF n
  <2>3. Brings(toJs, j, sent[j][2], n) => Brings(toJs', j, sent[j][2], n)
    BY <1>1, <2>1 DEF Same
  <2>4. sent'[j][2] = sent[j][2]
    OBVIOUS
  <2> QED BY <2>1, <2>2, <2>3, <2>4
<1>5. Unopened(j) => Unopened(j)'
  <2>1. (IF Opening(j) THEN 1 ELSE 0) \in Nat
    OBVIOUS
  <2>2. Brings(toJs, j, sent[j][2], IF Opening(j) THEN 1 ELSE 0) =>
          Brings(toJs', j, sent[j][2], IF Opening(j)' THEN 1 ELSE 0)
    BY <1>1, <2>1 DEF Same
  <2> QED BY <2>2 DEF Unopened
<1> QED BY <1>2, <1>3, <1>4, <1>5 DEF ChanInv

(* The variables as the proofs below use them.                             *)
LEMMA PipeTypes ==
  ASSUME PipesInv
  PROVE  /\ TypeInv /\ (\A j \in Chan : ChanInv(j) /\ InStep(chan[j], j))
         /\ chan \in [Chan -> ChanRecs] /\ ticks \in Seq(Tasks)
         /\ toJs \in Seq(Parcels) /\ toPeer \in Seq(Parcels)
         /\ sent \in Histories /\ got \in Histories
         /\ up \in BOOLEAN /\ calling \subseteq Chan
BY TypeParts DEF PipesInv, Pipes, StreamInv

(* A step that changes nothing of what the pipes are made of.              *)
LEMMA PipesKept ==
  ASSUME PipesInv, UNCHANGED <<up, toJs, toPeer, sent, got>>,
         OpensOnce(ticks)', \A j \in Chan : Opening(j)' <=> Opening(j),
         \A j \in Chan : /\ chan'[j].c = chan[j].c /\ chan'[j].obj = chan[j].obj
                         /\ chan'[j].buf = chan[j].buf
  PROVE  Pipes' /\ \A j \in Chan : Moves(j)
<1>1. \A j \in Chan : Same(toPeer, toPeer', j) /\ Same(toJs, toJs', j)
  BY DEF Same
<1>2. \A j \in Chan : ChanInv(j)'
  BY <1>1, PipeTypes, ChanKept
<1>3. (~up => toPeer = <<>>)'
  BY DEF PipesInv, Pipes
<1> QED BY <1>2, <1>3, NoMove DEF Pipes

(* Nothing is buffered for a channel without an object.                    *)
LEMMA NoObject ==
  ASSUME NEW j \in Chan, InStep(chan[j], j), ~chan[j].obj
  PROVE  chan[j].buf = <<>> /\ chan[j].flow = "off"
BY DEF InStep

(* init and console: the open packet is the first of its channel.          *)
LEMMA PipesOpen ==
  ASSUME PipesInv, NEW i \in Out, Open(i)
  PROVE  Pipes' /\ \A j \in Chan : Moves(j)
<1>t. /\ TypeInv /\ (\A j \in Chan : ChanInv(j) /\ InStep(chan[j], j))
      /\ ticks \in Seq(Tasks) /\ toPeer \in Seq(Parcels) /\ sent \in Histories
  BY PipeTypes
<1>1. /\ i \in Chan /\ i \notin In /\ Quiet /\ up /\ Construct(i)
      /\ chan[i].c = "none" /\ UNCHANGED <<up, toJs, got>>
  BY JsChannelsAssumption DEF Chan, Open
<1>2. ticks = <<>>
  BY <1>1 DEF Quiet
<1>3. \A j \in Chan : ~Opening(j)
  BY <1>2, NothingQueued
<1>4. /\ ~chan[i].obj /\ sent[i][1] = <<>> /\ sent[i][2] = <<>>
      /\ got[i][1] = <<>> /\ got[i][2] = <<>>
      /\ Brings(toJs, i, sent[i][2], 0)
  BY <1>1, <1>3, <1>t DEF ChanInv, Unopened
<1>5. chan[i].buf = <<>>
  BY <1>1, <1>4, <1>t, NoObject
<1>6. /\ chan'[i].c = "live" /\ chan'[i].buf = <<>>
      /\ CanWrap => chan'[i].obj = TRUE
      /\ ~CanWrap => chan'[i].obj = FALSE
      /\ \A j \in Chan : j # i => chan'[j] = chan[j]
  BY <1>1, <1>4, <1>5, <1>t, ConstructFacts DEF ChanRecs
<1>7. CASE ~CanWrap
  <2>1. UNCHANGED <<ticks, sent, toPeer>>
    BY <1>7 DEF Open
  <2>2. \A j \in Chan : /\ Same(toPeer, toPeer', j) /\ Same(toJs, toJs', j)
                        /\ Opening(j)' <=> Opening(j)
    BY <1>1, <2>1 DEF Same, Opening, Queued
  <2>3. \A j \in Chan : j # i => ChanInv(j)'
    BY <1>1, <1>6, <1>t, <2>1, <2>2, ChanKept
  <2>4. ChanInv(i)'
    <3>1. Numbered(sent'[i][2]) /\ Brings(toPeer', i, sent'[i][1], Len(got'[i][2]))
      BY <1>1, <1>t, <2>1 DEF ChanInv
    <3>2. Buffered(chan'[i], sent'[i][2], Len(got'[i][1]))
      BY <1>6 DEF Buffered
    <3>3. ~Opening(i)' /\ up' = TRUE
      BY <1>1, <1>3, <1>t, <2>2 DEF Opening, Queued
    <3> QED BY <1>6, <1>7, <3>1, <3>2, <3>3 DEF ChanInv
  <2>5. (OpensOnce(ticks) /\ (~up => toPeer = <<>>))'
    BY <1>1, <2>1 DEF PipesInv, Pipes, OpensOnce
  <2> QED BY <1>1, <2>1, <2>3, <2>4, <2>5, NoMove DEF Pipes
<1>8. CASE CanWrap
  <2> DEFINE p == Packet(0, FALSE)
  <2>1. /\ ticks' = Append(ticks, [kind |-> "resume", ch |-> i])
        /\ sent' = [sent EXCEPT ![i][1] = Append(@, p)]
        /\ toPeer' = Append(toPeer, [ch |-> i, p |-> p])
    BY <1>8 DEF Open
  <2>p. p \in Packets /\ p.n = 0
    BY OpenPacket
  <2> HIDE DEF p
  <2>2. /\ sent'[i][1] = Append(sent[i][1], p) /\ sent'[i][2] = sent[i][2]
        /\ \A j \in Chan : j # i => sent'[j] = sent[j]
    <3>1. Gains(sent', sent, i, 1, p)
      BY <2>1 DEF Gains
    <3> QED BY <1>1, <1>t, <2>p, <3>1, HistoryHere
  <2>4. \A j \in Chan : Opening(j)' <=> Opening(j)
    BY <1>1, <1>t, <2>1, QueuedKinds, Zenon DEF Opening
  <2>5. \A j \in Chan : j # i => Same(toPeer, toPeer', j) /\ Same(toJs, toJs', j)
    <3> SUFFICES ASSUME NEW j \in Chan, j # i
                 PROVE  Same(toPeer, toPeer', j) /\ Same(toJs, toJs', j)
      OBVIOUS
    <3>1. Same(toPeer, toPeer', j)
      BY <1>1, <1>t, <2>1, <2>p, SameMore, Zenon
    <3> QED BY <1>1, <3>1 DEF Same
  <2>6. \A j \in Chan : j # i => ChanInv(j)'
    BY <1>1, <1>6, <1>t, <2>2, <2>4, <2>5, ChanKept
  <2>7. Brings(toPeer', i, sent'[i][1], 0)
    <3>1. Brings(toPeer, i, sent[i][1], 0)
      BY <1>1, <1>4, <1>t DEF ChanInv
    <3>2. sent[i][1] \in Seq(Packets) /\ 0 \in Nat /\ p.n = Len(sent[i][1])
      BY <1>1, <1>4, <1>t, <2>p, ChanTypes
    <3> QED BY <1>1, <1>t, <2>1, <2>2, <2>p, <3>1, <3>2, BringsSent, ZenonT(40)
  <2>8. ChanInv(i)'
    <3>1. Numbered(sent[i][2])
      BY <1>1, <1>t DEF ChanInv
    <3>2. Buffered(chan'[i], sent'[i][2], Len(got'[i][1]))
      BY <1>6 DEF Buffered
    <3>3. Brings(toJs', i, sent'[i][2], Len(got'[i][1]) + Len(chan'[i].buf))
      BY <1>1, <1>4, <1>6, <2>2
    <3>4. Brings(toPeer', i, sent'[i][1], Len(got'[i][2]))
      BY <1>1, <1>4, <2>7
    <3> QED BY <1>1, <1>3, <1>6, <2>2, <2>4, <3>1, <3>2, <3>3, <3>4 DEF ChanInv
  <2>9. OpensOnce(ticks)'
    <3>1. [kind |-> "resume", ch |-> i] \in Tasks
      BY <1>1 DEF Tasks
    <3>2. OpensOnce(ticks)
      BY DEF PipesInv, Pipes
    <3>3. OpensOnce(Append(ticks, [kind |-> "resume", ch |-> i]))
      BY <1>t, <3>1, <3>2, OpensOnceMore
    <3> QED BY <2>1, <3>3
  <2>10. \A j \in Chan : Moves(j)
    BY <1>1, <1>t, <2>1, <2>p, SentMove
  <2> QED BY <1>1, <2>6, <2>8, <2>9, <2>10 DEF Pipes
<1> QED BY <1>7, <1>8

(* Numbered packets stay numbered, and what is buffered of them stays in   *)
(* step, when the peer sends one more.                                     *)
LEMMA NumberedMore ==
  ASSUME NEW s \in Seq(Packets), NEW p \in Packets, Numbered(s),
         p.n = Len(s), Len(s) <= MaxSent
  PROVE  Numbered(Append(s, p))
<1>1. /\ DOMAIN Append(s, p) = 1 .. Len(s) + 1 /\ Append(s, p)[Len(s) + 1] = p
      /\ DOMAIN s = 1 .. Len(s) /\ Len(s) \in Nat
      /\ \A a \in DOMAIN s : Append(s, p)[a] = s[a]
  BY AppendType
<1> DEFINE z == Append(s, p)
<1> HIDE DEF z
<1> SUFFICES ASSUME NEW n \in DOMAIN z
             PROVE  z[n].n = n - 1 /\ n <= MaxSent + 1
  BY DEF Numbered, z
<1>2. CASE n \in DOMAIN s
  BY <1>1, <1>2 DEF Numbered, z
<1>3. CASE n = Len(s) + 1
  BY <1>1, <1>3, JsChannelsAssumption DEF z
<1> QED BY <1>1, <1>2, <1>3 DEF z

(* What is buffered is not disturbed by a packet sent later.               *)
LEMMA BufferedMore ==
  ASSUME NEW k \in ChanRecs, NEW s \in Seq(Packets), NEW p \in Packets,
         NEW n \in Nat, Buffered(k, s, n)
  PROVE  Buffered(k, Append(s, p), n)
<1>1. /\ Len(Append(s, p)) = Len(s) + 1 /\ Len(s) \in Nat
      /\ \A a \in 1 .. Len(s) : Append(s, p)[a] = s[a]
  BY AppendType
<1>2. \A b \in DOMAIN k.buf : b \in Nat \ {0}
  BY DEF ChanRecs
<1> DEFINE z == Append(s, p)
<1> HIDE DEF z
<1> SUFFICES ASSUME NEW b \in DOMAIN k.buf
             PROVE  IF b = Len(k.buf) /\ k.buf[b] = ErrPacket THEN k.c = "freed"
                    ELSE n + b <= Len(z) /\ k.buf[b] = z[n + b]
  BY DEF Buffered, z
<1>3. CASE b = Len(k.buf) /\ k.buf[b] = ErrPacket
  BY <1>3 DEF Buffered
<1>4. CASE ~(b = Len(k.buf) /\ k.buf[b] = ErrPacket)
  <2>1. n + b <= Len(s) /\ k.buf[b] = s[n + b]
    BY <1>4 DEF Buffered
  <2>2. n + b \in 1 .. Len(s)
    BY <1>1, <1>2, <2>1
  <2> QED BY <1>1, <1>4, <2>1, <2>2 DEF z
<1> QED BY <1>3, <1>4

(* send: the packet goes behind what this side has sent.                   *)
LEMMA PipesSend ==
  ASSUME PipesInv, NEW i \in Chan, Send(i)
  PROVE  Pipes' /\ \A j \in Chan : Moves(j)
<1>t. /\ TypeInv /\ (\A j \in Chan : ChanInv(j) /\ InStep(chan[j], j))
      /\ toPeer \in Seq(Parcels) /\ sent \in Histories
      /\ chan \in [Chan -> ChanRecs]
  BY PipeTypes
<1>1. /\ UNCHANGED <<up, toJs, ticks, got>> /\ chan[i].obj
      /\ Len(sent[i][1]) <= MaxSent
  BY DEF Send
<1>2. OpensOnce(ticks)' /\ \A j \in Chan : Opening(j)' <=> Opening(j)
  BY <1>1 DEF PipesInv, Pipes, OpensOnce, Opening, Queued
<1>3. CASE chan[i].c = "freed"
  <2>1. UNCHANGED <<sent, toPeer>> /\ chan' = [chan EXCEPT ![i].bad = TRUE]
    BY <1>3 DEF Send
  <2>2. \A j \in Chan : /\ chan'[j].c = chan[j].c /\ chan'[j].obj = chan[j].obj
                        /\ chan'[j].buf = chan[j].buf
    BY <1>t, <2>1 DEF ChanRecs
  <2> QED BY <1>1, <1>2, <2>1, <2>2, PipesKept
<1>4. CASE chan[i].c # "freed"
  <2> DEFINE p == Packet(Len(sent[i][1]), FALSE)
  <2>1. /\ chan' = chan /\ sent' = [sent EXCEPT ![i][1] = Append(@, p)]
        /\ toPeer' = Append(toPeer, [ch |-> i, p |-> p])
    BY <1>4 DEF Send
  <2>p. p \in Packets /\ p.n = Len(sent[i][1])
    <3>1. Len(sent[i][1]) \in 0 .. MaxSent
      BY <1>1, <1>t, ChanTypes, JsChannelsAssumption
    <3> QED BY <3>1, PacketTypes
  <2> HIDE DEF p
  <2>2. /\ sent'[i][1] = Append(sent[i][1], p) /\ sent'[i][2] = sent[i][2]
        /\ \A j \in Chan : j # i => sent'[j] = sent[j]
    <3>1. Gains(sent', sent, i, 1, p)
      BY <2>1 DEF Gains
    <3> QED BY <1>t, <2>p, <3>1, HistoryHere
  <2>3. \A j \in Chan : j # i => Same(toPeer, toPeer', j) /\ Same(toJs, toJs', j)
    <3> SUFFICES ASSUME NEW j \in Chan, j # i
                 PROVE  Same(toPeer, toPeer', j) /\ Same(toJs, toJs', j)
      OBVIOUS
    <3>1. Same(toPeer, toPeer', j)
      BY <1>t, <2>1, <2>p, SameMore, Zenon
    <3> QED BY <1>1, <3>1 DEF Same
  <2>4. \A j \in Chan : j # i => ChanInv(j)'
    BY <1>1, <1>2, <1>t, <2>1, <2>2, <2>3, ChanKept
  <2>5. chan[i].c # "none" /\ up
    BY <1>1, <1>4, <1>t DEF ChanInv, Unopened
  <2>6. Brings(toPeer', i, sent'[i][1], Len(got'[i][2]))
    <3>1. Brings(toPeer, i, sent[i][1], Len(got[i][2]))
      BY <1>t, <2>5 DEF ChanInv
    <3>2. sent[i][1] \in Seq(Packets) /\ Len(got[i][2]) \in Nat
      BY <1>t, ChanTypes
    <3>3. Brings(Append(toPeer, [ch |-> i, p |-> p]), i, Append(sent[i][1], p),
                 Len(got[i][2]))
      BY <1>t, <2>p, <3>1, <3>2, BringsSent
    <3> QED BY <1>1, <2>1, <2>2, <3>3
  <2>7. ChanInv(i)'
    <3>1. /\ Numbered(sent'[i][2])
          /\ Buffered(chan'[i], sent'[i][2], Len(got'[i][1]))
          /\ Opening(i)' => chan'[i].c = "none"
          /\ up' /\ chan'[i].c = "live" /\ chan'[i].obj =>
              Brings(toJs', i, sent'[i][2], Len(got'[i][1]) + Len(chan'[i].buf))
      BY <1>1, <1>2, <1>t, <2>1, <2>2 DEF ChanInv
    <3> QED BY <1>1, <2>1, <2>5, <2>6, <3>1 DEF ChanInv
  <2>8. \A j \in Chan : Moves(j)
    BY <1>1, <1>t, <2>1, <2>p, SentMove
  <2> QED BY <1>1, <1>2, <2>4, <2>5, <2>7, <2>8 DEF Pipes
<1> QED BY <1>3, <1>4

(* The peer sends: before there is a C channel only the open packet.       *)
LEMMA PipesPeerSends ==
  ASSUME PipesInv, NEW i \in Chan, NEW p \in Packets, PeerSends(i, p),
         p.n = Len(sent[i][2]), Len(sent[i][2]) <= MaxSent,
         chan[i].c = "none" => i \in In /\ sent[i][2] = <<>> /\ ~p.end
  PROVE  Pipes' /\ \A j \in Chan : Moves(j)
<1>t. /\ TypeInv /\ (\A j \in Chan : ChanInv(j) /\ InStep(chan[j], j))
      /\ toJs \in Seq(Parcels) /\ sent \in Histories
      /\ chan \in [Chan -> ChanRecs]
  BY PipeTypes
<1>1. /\ UNCHANGED <<up, toPeer, ticks, got, chan>>
      /\ sent' = [sent EXCEPT ![i][2] = Append(@, p)]
      /\ toJs' = Append(toJs, [ch |-> i, p |-> p])
  BY DEF PeerSends
<1>2. OpensOnce(ticks)' /\ \A j \in Chan : Opening(j)' <=> Opening(j)
  BY <1>1 DEF PipesInv, Pipes, OpensOnce, Opening, Queued
<1>3. /\ sent'[i][2] = Append(sent[i][2], p) /\ sent'[i][1] = sent[i][1]
      /\ \A j \in Chan : j # i => sent'[j] = sent[j]
  <2>1. Gains(sent', sent, i, 2, p)
    BY <1>1 DEF Gains
  <2> QED BY <1>t, <2>1, HistoryThere
<1>4. \A j \in Chan : j # i => Same(toPeer, toPeer', j) /\ Same(toJs, toJs', j)
  <2> SUFFICES ASSUME NEW j \in Chan, j # i
               PROVE  Same(toPeer, toPeer', j) /\ Same(toJs, toJs', j)
    OBVIOUS
  <2>1. Same(toJs, toJs', j)
    BY <1>t, <1>1, SameMore, Zenon
  <2> QED BY <1>1, <2>1 DEF Same
<1>5. \A j \in Chan : j # i => ChanInv(j)'
  BY <1>1, <1>2, <1>t, <1>3, <1>4, ChanKept
<1>s. /\ sent[i][2] \in Seq(Packets) /\ Len(sent[i][2]) \in Nat
      /\ chan[i] \in ChanRecs /\ Len(got[i][1]) \in Nat
      /\ Len(chan[i].buf) \in Nat
  BY <1>t, ChanTypes
<1>6. \A n \in Nat : Brings(toJs, i, sent[i][2], n) => Brings(toJs', i, sent'[i][2], n)
  <2> SUFFICES ASSUME NEW n \in Nat, Brings(toJs, i, sent[i][2], n)
               PROVE  Brings(toJs', i, sent'[i][2], n)
    OBVIOUS
  <2>1. Brings(Append(toJs, [ch |-> i, p |-> p]), i, Append(sent[i][2], p), n)
    BY <1>t, <1>s, BringsSent
  <2> QED BY <1>1, <1>3, <2>1
<1>7. Numbered(sent'[i][2])
  BY <1>3, <1>s, <1>t, NumberedMore DEF ChanInv
<1>8. Buffered(chan'[i], sent'[i][2], Len(got'[i][1]))
  BY <1>1, <1>3, <1>s, <1>t, BufferedMore DEF ChanInv
<1>9. up' /\ chan'[i].c = "live" /\ chan'[i].obj =>
        Brings(toJs', i, sent'[i][2], Len(got'[i][1]) + Len(chan'[i].buf))
  <2> DEFINE n == Len(got[i][1]) + Len(chan[i].buf)
  <2>1. n \in Nat
    <3>1. \A a, b \in Nat : a + b \in Nat
      OBVIOUS
    <3> QED BY <1>s, <3>1, Zenon
  <2>2. up /\ chan[i].c = "live" /\ chan[i].obj => Brings(toJs, i, sent[i][2], n)
    BY <1>t DEF ChanInv
  <2>3. n = Len(got'[i][1]) + Len(chan'[i].buf)
    BY <1>1
  <2> HIDE DEF n
  <2> QED BY <1>1, <1>6, <2>1, <2>2, <2>3
<1>10. chan'[i].c = "none" => Unopened(i)'
  <2> SUFFICES ASSUME chan[i].c = "none" PROVE Unopened(i)'
    BY <1>1
  <2>1. Unopened(i) /\ i \in In /\ sent[i][2] = <<>> /\ ~p.end
    BY <1>t DEF ChanInv
  <2>2. sent'[i][2] = <<p>>
    BY <1>3, <2>1
  <2>3. Len(sent'[i][2]) <= 1 /\ ~sent'[i][2][1].end
    BY <2>1, <2>2
  <2>4. up => ~Opening(i) /\ Brings(toJs, i, sent[i][2], 0)
    BY <2>1 DEF Unopened, Brings
  <2>5. up' => Brings(toJs', i, sent'[i][2], IF Opening(i)' THEN 1 ELSE 0)
    BY <1>1, <1>2, <1>6, <2>4
  <2> QED BY <1>1, <1>3, <2>1, <2>3, <2>5 DEF Unopened
<1>11. ChanInv(i)'
  <2>1. up' => Brings(toPeer', i, sent'[i][1], Len(got'[i][2]))
    BY <1>1, <1>3, <1>t DEF ChanInv
  <2>2. /\ Opening(i)' => chan'[i].c = "none"
        /\ ~up' => chan'[i].c \in {"none", "freed"}
    BY <1>1, <1>2, <1>t DEF ChanInv
  <2> QED BY <1>7, <1>8, <1>9, <1>10, <2>1, <2>2 DEF ChanInv
<1>12. \A j \in Chan : Moves(j)
  BY <1>1, <1>t, SentMove
<1>13. (~up => toPeer = <<>>)'
  BY <1>1 DEF PipesInv, Pipes
<1> QED BY <1>2, <1>5, <1>11, <1>12, <1>13 DEF Pipes

(* The peer takes a packet: the next one this side has sent.               *)
LEMMA PipesTake ==
  ASSUME PipesInv, PeerTake
  PROVE  Pipes' /\ \A j \in Chan : Moves(j)
<1>t. /\ TypeInv /\ (\A j \in Chan : ChanInv(j) /\ InStep(chan[j], j))
      /\ toPeer \in Seq(Parcels) /\ got \in Histories
      /\ chan \in [Chan -> ChanRecs]
  BY PipeTypes
<1>1. /\ toPeer # <<>> /\ toPeer' = Tail(toPeer)
      /\ UNCHANGED <<up, toJs, ticks, sent, chan>>
  BY DEF PeerTake
<1>h. Head(toPeer) \in Parcels
  BY <1>1, <1>t, HeadType
<1>i. PICK i \in Chan, p \in Packets : i = Head(toPeer).ch /\ p = Head(toPeer).p
  BY <1>h DEF Parcels
<1>2. got' = [got EXCEPT ![i][2] = Append(@, p)]
  BY <1>i DEF PeerTake
<1>3. OpensOnce(ticks)' /\ \A j \in Chan : Opening(j)' <=> Opening(j)
  BY <1>1 DEF PipesInv, Pipes, OpensOnce, Opening, Queued
<1>4. /\ got'[i][2] = Append(got[i][2], p) /\ got'[i][1] = got[i][1]
      /\ \A j \in Chan : j # i => got'[j] = got[j]
  <2>1. Gains(got', got, i, 2, p)
    BY <1>2 DEF Gains
  <2> QED BY <1>t, <2>1, HistoryThere
<1>5. \A j \in Chan : j # i => Same(toPeer, toPeer', j) /\ Same(toJs, toJs', j)
  <2> SUFFICES ASSUME NEW j \in Chan, j # i
               PROVE  Same(toPeer, toPeer', j) /\ Same(toJs, toJs', j)
    OBVIOUS
  <2>1. Same(toPeer, toPeer', j)
    BY <1>t, <1>1, <1>i, SameRest
  <2> QED BY <1>1, <2>1 DEF Same
<1>6. \A j \in Chan : j # i => ChanInv(j)'
  BY <1>1, <1>3, <1>t, <1>4, <1>5, ChanKept
<1>s. /\ sent[i][1] \in Seq(Packets) /\ Len(sent[i][1]) \in Nat
      /\ got[i][2] \in Seq(Packets) /\ Len(got[i][2]) \in Nat
  BY <1>t, ChanTypes
<1>7. up /\ Brings(toPeer, i, sent[i][1], Len(got[i][2]))
  BY <1>1, <1>t DEF PipesInv, Pipes, ChanInv
<1>8. /\ Len(got[i][2]) < Len(sent[i][1])
      /\ p = sent[i][1][Len(got[i][2]) + 1]
      /\ Brings(toPeer', i, sent[i][1], Len(got[i][2]) + 1)
  BY <1>1, <1>7, <1>i, <1>s, <1>t, BringsTaken, SMTT(20)
<1>9. Len(got'[i][2]) = Len(got[i][2]) + 1
  <2>1. Len(Append(got[i][2], p)) = Len(got[i][2]) + 1
    BY <1>s
  <2>2. got'[i][2] = Append(got[i][2], p)
    BY <1>4
  <2> QED BY <2>1, <2>2, Zenon
<1>10. chan[i].c # "none"
  <2>1. ASSUME sent[i][1] = <<>> PROVE FALSE
    <3>1. Len(sent[i][1]) = 0
      BY <2>1
    <3>2. Len(got[i][2]) < Len(sent[i][1])
      BY <1>8
    <3> QED BY <1>s, <3>1, <3>2
  <2> QED BY <1>t, <2>1, Zenon DEF ChanInv, Unopened
<1>11. ChanInv(i)'
  <2>1. up' => Brings(toPeer', i, sent'[i][1], Len(got'[i][2]))
    BY <1>1, <1>8, <1>9
  <2>2. /\ Numbered(sent'[i][2])
        /\ Buffered(chan'[i], sent'[i][2], Len(got'[i][1]))
        /\ Opening(i)' => chan'[i].c = "none"
        /\ ~up' => chan'[i].c \in {"none", "freed"}
        /\ up' /\ chan'[i].c = "live" /\ chan'[i].obj =>
             Brings(toJs', i, sent'[i][2], Len(got'[i][1]) + Len(chan'[i].buf))
    BY <1>1, <1>3, <1>4, <1>t DEF ChanInv
  <2> QED BY <1>1, <1>10, <2>1, <2>2 DEF ChanInv
<1>12. \A j \in Chan : Moves(j)
  <2>1. 3 - 2 = 1 /\ 2 \in {1, 2}
    OBVIOUS
  <2> QED BY <1>1, <1>2, <1>8, <1>t, <2>1, GotMove
<1> QED BY <1>1, <1>3, <1>6, <1>7, <1>11, <1>12 DEF Pipes

(* A numbered packet is not the error packet.                              *)
LEMMA RealPacket ==
  ASSUME NEW s \in Seq(Packets), Numbered(s), NEW x \in 1 .. Len(s)
  PROVE  s[x] # ErrPacket
<1>1. s[x].n = x - 1 /\ x <= MaxSent + 1
  BY DEF Numbered
<1>2. ErrPacket.n = MaxSent + 1
  BY DEF ErrPacket, Packet
<1> QED BY <1>1, <1>2, JsChannelsAssumption

(* The next packet of the peer is buffered.                                *)
LEMMA BufferedTaken ==
  ASSUME NEW k \in ChanRecs, NEW m \in ChanRecs, NEW s \in Seq(Packets),
         NEW n \in Nat, NEW x \in Packets,
         Numbered(s), Buffered(k, s, n), k.c # "freed",
         n + Len(k.buf) < Len(s), x = s[n + Len(k.buf) + 1],
         m.buf = Append(k.buf, x)
  PROVE  Buffered(m, s, n)
<1> DEFINE l == Len(k.buf)
<1>1. k.buf \in Seq(Packets) /\ l \in Nat /\ Len(s) \in Nat
  BY DEF ChanRecs
<1>2. /\ DOMAIN k.buf = 1 .. l /\ DOMAIN m.buf = 1 .. l + 1
      /\ m.buf[l + 1] = x /\ \A a \in 1 .. l : m.buf[a] = k.buf[a]
  BY <1>1, AppendType
<1>3. n + l < Len(s) /\ x = s[n + l + 1]
  OBVIOUS
<1>4. \A b \in 1 .. l : n + b <= Len(s) /\ k.buf[b] = s[n + b]
  BY <1>2 DEF Buffered
<1> HIDE DEF l
<1>5. ASSUME NEW b \in 1 .. l + 1
      PROVE  n + b <= Len(s) /\ m.buf[b] = s[n + b]
  <2>1. CASE b \in 1 .. l
    BY <1>2, <1>4, <2>1
  <2>2. CASE b = l + 1
    <3>1. n + (l + 1) = n + l + 1 /\ n + (l + 1) <= Len(s)
      BY <1>1, <1>3
    <3>2. m.buf[l + 1] = s[n + (l + 1)]
      BY <1>2, <1>3, <3>1, Zenon
    <3> QED BY <2>2, <3>1, <3>2, Zenon
  <2>3. b \in 1 .. l \/ b = l + 1
    BY <1>1
  <2> QED BY <2>1, <2>2, <2>3
<1>6. \A b \in 1 .. l + 1 : m.buf[b] # ErrPacket
  <2> SUFFICES ASSUME NEW b \in 1 .. l + 1 PROVE m.buf[b] # ErrPacket
    OBVIOUS
  <2>1. n + b \in 1 .. Len(s)
    <3>1. n + b <= Len(s)
      BY <1>5
    <3>2. b \in Nat \ {0} /\ n \in Nat
      BY <1>1
    <3> QED BY <1>1, <3>1, <3>2
  <2> QED BY <1>5, <2>1, RealPacket, Zenon
<1> QED BY <1>2, <1>5, <1>6, Zenon DEF Buffered

(* The first packet buffered is the next one, or the error packet and then *)
(* the last.                                                               *)
LEMMA BufferedRest ==
  ASSUME NEW k \in ChanRecs, NEW m \in ChanRecs, NEW s \in Seq(Packets),
         NEW n \in Nat, Numbered(s), Buffered(k, s, n), k.buf # <<>>,
         m.buf = Tail(k.buf), m.c = k.c
  PROVE  /\ Head(k.buf) = ErrPacket => Buffered(m, s, n) /\ k.c = "freed"
         /\ Head(k.buf) # ErrPacket =>
              n < Len(s) /\ Head(k.buf) = s[n + 1] /\ Buffered(m, s, n + 1)
<1> DEFINE l == Len(k.buf)
<1>1. /\ k.buf \in Seq(Packets) /\ l \in Nat \ {0} /\ Len(s) \in Nat
      /\ DOMAIN k.buf = 1 .. l /\ Head(k.buf) = k.buf[1] /\ 1 \in 1 .. l
      /\ Len(m.buf) = l - 1 /\ DOMAIN m.buf = 1 .. l - 1
      /\ \A a \in 1 .. l - 1 : a + 1 \in 1 .. l /\ m.buf[a] = k.buf[a + 1]
  <2>1. k.buf \in Seq(Packets)
    BY DEF ChanRecs
  <2> QED BY <2>1, HeadType
<1>2. \A b \in 1 .. l : IF b = l /\ k.buf[b] = ErrPacket THEN k.c = "freed"
                        ELSE n + b <= Len(s) /\ k.buf[b] = s[n + b]
  BY <1>1 DEF Buffered
<1> HIDE DEF l
<1>3. CASE Head(k.buf) = ErrPacket
  <2>1. ASSUME l # 1 PROVE FALSE
    <3>1. n + 1 <= Len(s) /\ k.buf[1] = s[n + 1]
      BY <1>1, <1>2, <2>1
    <3>2. n + 1 \in 1 .. Len(s)
      BY <1>1, <3>1
    <3> QED BY <1>1, <1>3, <3>1, <3>2, RealPacket
  <2>2. DOMAIN m.buf = {}
    BY <1>1, <2>1
  <2>3. k.c = "freed"
    BY <1>1, <1>2, <1>3, <2>1
  <2> QED BY <1>3, <2>2, <2>3 DEF Buffered
<1>4. CASE Head(k.buf) # ErrPacket
  <2>1. n + 1 <= Len(s) /\ k.buf[1] = s[n + 1]
    BY <1>1, <1>2, <1>4
  <2>2. n < Len(s)
    BY <1>1, <2>1
  <2>3. ASSUME NEW b \in 1 .. l - 1
        PROVE  IF b = l - 1 /\ m.buf[b] = ErrPacket THEN m.c = "freed"
               ELSE (n + 1) + b <= Len(s) /\ m.buf[b] = s[(n + 1) + b]
    <3>1. m.buf[b] = k.buf[b + 1] /\ b + 1 \in 1 .. l
      BY <1>1
    <3>2. (b + 1 = l <=> b = l - 1) /\ n + (b + 1) = (n + 1) + b
      BY <1>1
    <3> QED BY <1>2, <3>1, <3>2
  <2>4. Buffered(m, s, n + 1)
    BY <1>1, <2>3, Zenon DEF Buffered
  <2> QED BY <1>1, <1>4, <2>1, <2>2, <2>4
<1> QED BY <1>3, <1>4

(* The resumed stream emits what it has buffered.                          *)
LEMMA PipesFlow ==
  ASSUME PipesInv, NEW i \in Chan, Flow(i)
  PROVE  Pipes' /\ \A j \in Chan : Moves(j)
<1>t. /\ TypeInv /\ (\A j \in Chan : ChanInv(j) /\ InStep(chan[j], j))
      /\ got \in Histories /\ chan \in [Chan -> ChanRecs]
  BY PipeTypes
<1>1. /\ UNCHANGED <<up, toJs, toPeer, ticks, sent>>
      /\ chan[i].flow = "yes" /\ chan[i].buf # <<>>
  BY DEF Flow, Draining
<1> DEFINE k == chan[i]
           p == Head(k.buf)
           m == [k EXCEPT !.buf = Tail(@), !.ended = @ \/ p.end]
           s == sent[i][2]
           n == Len(got[i][1])
<1>s. /\ k \in ChanRecs /\ k.buf \in Seq(Packets) /\ s \in Seq(Packets)
      /\ n \in Nat /\ got[i][1] \in Seq(Packets) /\ Len(k.buf) \in Nat
  BY <1>t, ChanTypes
<1>p. p \in Packets /\ Tail(k.buf) \in Seq(Packets)
      /\ Len(Tail(k.buf)) = Len(k.buf) - 1
  BY <1>1, <1>s, HeadType
<1>2. chan' = [chan EXCEPT ![i] = m]
  BY DEF Flow
<1>3. /\ m \in ChanRecs /\ m.buf = Tail(k.buf) /\ m.c = k.c /\ m.obj = k.obj
  <2>1. (k.ended \/ p.end) \in BOOLEAN
    BY <1>p, <1>s DEF ChanRecs, Packets
  <2> HIDE DEF p
  <2> QED BY <1>p, <1>s, <2>1 DEF ChanRecs
<1>4. got' = IF p = ErrPacket THEN got ELSE [got EXCEPT ![i][1] = Append(@, p)]
  BY DEF Flow
<1> HIDE DEF m
<1>5. chan'[i] = m /\ \A j \in Chan : j # i => chan'[j] = chan[j]
  BY <1>t, <1>2
<1>6. OpensOnce(ticks)' /\ \A j \in Chan : Opening(j)' <=> Opening(j)
  BY <1>1 DEF PipesInv, Pipes, OpensOnce, Opening, Queued
<1>7. \A j \in Chan : Same(toPeer, toPeer', j) /\ Same(toJs, toJs', j)
  BY <1>1 DEF Same
<1>8. Numbered(s) /\ Buffered(k, s, n) /\ k.obj /\ k.c # "none"
  BY <1>1, <1>t DEF ChanInv, InStep, Unopened
<1>9. /\ p = ErrPacket => Buffered(m, s, n) /\ k.c = "freed"
      /\ p # ErrPacket => n < Len(s) /\ p = s[n + 1] /\ Buffered(m, s, n + 1)
  BY <1>1, <1>3, <1>8, <1>s, BufferedRest
<1>10. /\ p = ErrPacket => got' = got
       /\ p # ErrPacket => /\ Len(got'[i][1]) = n + 1 /\ got'[i][2] = got[i][2]
                           /\ \A j \in Chan : j # i => got'[j] = got[j]
  <2>1. ASSUME p # ErrPacket
        PROVE  /\ got'[i][1] = Append(got[i][1], p) /\ got'[i][2] = got[i][2]
               /\ \A j \in Chan : j # i => got'[j] = got[j]
    <3>1. Gains(got', got, i, 1, p)
      BY <1>4, <2>1 DEF Gains
    <3> QED BY <1>p, <1>t, <3>1, HistoryHere
  <2>2. Len(Append(got[i][1], p)) = n + 1
    BY <1>p, <1>s
  <2> QED BY <1>4, <2>1, <2>2
<1>11. \A j \in Chan : j # i => ChanInv(j)'
  <2>1. \A j \in Chan : j # i => got'[j] = got[j]
    BY <1>10
  <2> QED BY <1>1, <1>5, <1>6, <1>7, <1>t, <2>1, ChanKept
<1>12. ChanInv(i)'
  <2>1. up => Brings(toPeer, i, sent[i][1], Len(got[i][2]))
    BY <1>t DEF ChanInv
  <2>2. up' => Brings(toPeer', i, sent'[i][1], Len(got'[i][2]))
    BY <1>1, <1>10, <2>1
  <2>3. Buffered(chan'[i], sent'[i][2], Len(got'[i][1]))
    BY <1>1, <1>5, <1>9, <1>10
  <2>4. up' /\ chan'[i].c = "live" /\ chan'[i].obj =>
          Brings(toJs', i, sent'[i][2], Len(got'[i][1]) + Len(chan'[i].buf))
    <3> SUFFICES ASSUME up', m.c = "live", m.obj
                 PROVE  Brings(toJs', i, sent'[i][2], Len(got'[i][1]) + Len(m.buf))
      BY <1>5
    <3>1. p # ErrPacket /\ up /\ k.c = "live"
      BY <1>1, <1>3, <1>9
    <3>2. Brings(toJs, i, s, n + Len(k.buf))
      BY <1>8, <1>t, <3>1 DEF ChanInv
    <3>3. Len(got'[i][1]) = n + 1 /\ Len(m.buf) = Len(k.buf) - 1
      BY <1>3, <1>10, <1>p, <3>1
    <3>4. Len(got'[i][1]) + Len(m.buf) = n + Len(k.buf)
      <4>1. \A a, b \in Nat : (a + 1) + (b - 1) = a + b
        OBVIOUS
      <4>2. n \in Nat /\ Len(k.buf) \in Nat
        BY <1>s
      <4> HIDE DEF n, k
      <4> QED BY <3>3, <4>1, <4>2, Zenon
    <3> QED BY <1>1, <3>2, <3>4
  <2>5. /\ Opening(i)' => chan'[i].c = "none"
        /\ ~up' => chan'[i].c \in {"none", "freed"}
    BY <1>1, <1>3, <1>5, <1>6, <1>t DEF ChanInv
  <2>6. Numbered(sent'[i][2]) /\ chan'[i].c # "none"
    BY <1>1, <1>3, <1>5, <1>8
  <2> QED BY <2>2, <2>3, <2>4, <2>5, <2>6 DEF ChanInv
<1>13. \A j \in Chan : Moves(j)
  <2>1. CASE p = ErrPacket
    BY <1>1, <1>4, <2>1, NoMove
  <2>2. CASE p # ErrPacket
    <3>1. 3 - 1 = 2 /\ 1 \in {1, 2}
      OBVIOUS
    <3> QED BY <1>1, <1>4, <1>9, <1>t, <2>2, <3>1, GotMove
  <2> QED BY <2>1, <2>2
<1>14. (~up => toPeer = <<>>)'
  BY <1>1 DEF PipesInv, Pipes
<1> QED BY <1>6, <1>11, <1>12, <1>13, <1>14 DEF Pipes

(* A packet of a channel that nobody has opened here: the open packet, and *)
(* the only one of its channel.                                            *)
LEMMA UnopenedTaken ==
  ASSUME PipesInv, up, toJs # <<>>, NEW i \in Chan, i = Head(toJs).ch,
         chan[i].c = "none"
  PROVE  /\ ~Opening(i) /\ Head(toJs).p.n = 0
         /\ Brings(Tail(toJs), i, sent[i][2], 1)
<1>t. /\ TypeInv /\ ChanInv(i) /\ toJs \in Seq(Parcels)
  BY PipeTypes
<1>1. /\ sent[i][2] \in Seq(Packets) /\ Len(sent[i][2]) \in Nat
  BY <1>t, ChanTypes
<1>2. /\ Len(sent[i][2]) <= 1
      /\ Brings(toJs, i, sent[i][2], IF Opening(i) THEN 1 ELSE 0)
  BY <1>t DEF ChanInv, Unopened
<1>3. ASSUME Opening(i) PROVE FALSE
  <2>1. Brings(toJs, i, sent[i][2], 1) /\ 1 \in Nat
    BY <1>2, <1>3
  <2>2. 1 < Len(sent[i][2])
    BY <1>1, <1>t, <2>1, BringsTaken
  <2> QED BY <1>1, <1>2, <2>2
<1>4. Brings(toJs, i, sent[i][2], 0) /\ 0 \in Nat /\ 0 + 1 = 1
  BY <1>2, <1>3
<1>5. Head(toJs).p.n = 0 /\ Brings(Tail(toJs), i, sent[i][2], 0 + 1)
  BY <1>1, <1>4, <1>t, BringsTaken
<1> QED BY <1>3, <1>4, <1>5

(* The handler of a channel takes a packet: it is the next one.            *)
LEMMA PipesTaken ==
  ASSUME PipesInv, up, toJs # <<>>, NEW i \in Chan, NEW p \in Packets,
         i = Head(toJs).ch, p = Head(toJs).p,
         chan[i].c = "live", chan[i].obj,
         UNCHANGED <<up, toPeer, ticks, sent>>, toJs' = Tail(toJs),
         chan' = [chan EXCEPT ![i] = Pushed(Taken(chan[i], p), p)],
         Emits(chan[i]) => got' = [got EXCEPT ![i][1] = Append(@, p)],
         ~Emits(chan[i]) => got' = got
  PROVE  Pipes' /\ \A j \in Chan : Moves(j)
<1>t. /\ TypeInv /\ (\A j \in Chan : ChanInv(j) /\ InStep(chan[j], j))
      /\ toJs \in Seq(Parcels) /\ got \in Histories
      /\ chan \in [Chan -> ChanRecs]
  BY PipeTypes
<1> DEFINE k == chan[i]
           m == Pushed(Taken(k, p), p)
           s == sent[i][2]
           n == Len(got[i][1])
           l == Len(k.buf)
<1>s. /\ k \in ChanRecs /\ s \in Seq(Packets) /\ Len(s) \in Nat
      /\ n \in Nat /\ got[i][1] \in Seq(Packets)
      /\ k.buf \in Seq(Packets) /\ l \in Nat
  BY <1>t, ChanTypes
<1>1. /\ m \in ChanRecs /\ m.obj = k.obj
      /\ m.c = (IF p.end THEN IF Emits(k) THEN "ended" ELSE "freed" ELSE k.c)
      /\ Emits(k) => m.buf = k.buf
      /\ ~Emits(k) => m.buf = Append(k.buf, p)
  <2>1. m \in ChanRecs
    BY <1>s, RecordTypes
  <2> HIDE DEF k
  <2> QED BY <1>s, <2>1, PushedFacts
<1>2. chan'[i] = m /\ \A j \in Chan : j # i => chan'[j] = chan[j]
  BY <1>t
<1> HIDE DEF m
<1>3. OpensOnce(ticks)' /\ \A j \in Chan : Opening(j)' <=> Opening(j)
  BY DEF PipesInv, Pipes, OpensOnce, Opening, Queued
<1>4. \A j \in Chan : j # i => Same(toPeer, toPeer', j) /\ Same(toJs, toJs', j)
  <2> SUFFICES ASSUME NEW j \in Chan, j # i
               PROVE  Same(toPeer, toPeer', j) /\ Same(toJs, toJs', j)
    OBVIOUS
  <2>1. Same(toJs, toJs', j)
    BY <1>t, SameRest
  <2> QED BY <2>1 DEF Same
<1>5. ~Opening(i) /\ Numbered(s) /\ Buffered(k, s, n) /\ Brings(toJs, i, s, n + l)
      /\ m.c # "none"
  BY <1>1, <1>t DEF ChanInv
<1>6. /\ n + l < Len(s) /\ p = s[n + l + 1]
      /\ Brings(toJs', i, s, n + l + 1)
  <2>1. n + l \in Nat
    <3>1. \A a, b \in Nat : a + b \in Nat
      OBVIOUS
    <3> QED BY <1>s, <3>1, Zenon
  <2> DEFINE x == n + l
  <2> HIDE DEF x, n, l
  <2>2. x \in Nat /\ Brings(toJs, i, s, x)
    BY <1>5, <2>1 DEF x
  <2>3. x < Len(s) /\ p = s[x + 1] /\ Brings(toJs', i, s, x + 1)
    BY <1>s, <1>t, <2>2, BringsTaken, SMTT(20)
  <2> QED BY <2>3 DEF x
<1>7. CASE Emits(k)
  <2>1. /\ got'[i][1] = Append(got[i][1], p) /\ got'[i][2] = got[i][2]
        /\ \A j \in Chan : j # i => got'[j] = got[j]
    <3>1. Gains(got', got, i, 1, p)
      BY <1>7 DEF Gains
    <3> QED BY <1>t, <3>1, HistoryHere
  <2>2. \A j \in Chan : j # i => ChanInv(j)'
    BY <1>2, <1>3, <1>4, <1>t, <2>1, ChanKept
  <2>3. k.buf = <<>> /\ m.buf = <<>> /\ l = 0
    BY <1>1, <1>7 DEF Emits
  <2>4. Buffered(chan'[i], sent'[i][2], Len(got'[i][1]))
    BY <1>2, <2>3 DEF Buffered
  <2>5. Brings(toJs', i, sent'[i][2], Len(got'[i][1]) + Len(chan'[i].buf))
    <3>1. Len(Append(got[i][1], p)) = n + 1
      BY <1>s
    <3>2. Len(chan'[i].buf) = 0
      BY <1>2, <2>3
    <3>3. Len(got'[i][1]) = n + 1
      BY <2>1, <3>1, Zenon
    <3>4. n + l + 1 = (n + 1) + 0
      BY <1>s, <2>3
    <3>5. Len(got'[i][1]) + Len(chan'[i].buf) = n + l + 1
      BY <3>2, <3>3, <3>4, Zenon
    <3> QED BY <1>6, <3>5
  <2>6. /\ Numbered(sent'[i][2]) /\ chan'[i].c # "none" /\ ~Opening(i)' /\ up'
        /\ Brings(toPeer', i, sent'[i][1], Len(got'[i][2]))
    BY <1>2, <1>3, <1>5, <1>t, <2>1 DEF ChanInv
  <2>7. ChanInv(i)'
    BY <2>4, <2>5, <2>6 DEF ChanInv
  <2>8. \A j \in Chan : Moves(j)
    <3>1. 3 - 1 = 2 /\ 1 \in {1, 2}
      OBVIOUS
    <3>2. n < Len(s) /\ p = s[n + 1]
      <4>1. \A a \in Nat : a + 0 = a
        OBVIOUS
      <4>2. n + l = n
        BY <1>s, <2>3, <4>1, Zenon
      <4> QED BY <1>6, <4>2, Zenon
    <3>3. got' = [got EXCEPT ![i][1] = Append(@, p)]
      BY <1>7
    <3>4. /\ Len(got[i][1]) < Len(sent[i][3 - 1])
          /\ p = sent[i][3 - 1][Len(got[i][1]) + 1]
      BY <3>1, <3>2
    <3> HIDE DEF n, s, k
    <3> QED BY <1>t, <3>1, <3>3, <3>4, GotMove
  <2> QED BY <1>3, <2>2, <2>7, <2>8 DEF Pipes
<1>8. CASE ~Emits(k)
  <2>1. got' = got /\ m.buf = Append(k.buf, p)
    BY <1>1, <1>8
  <2>2. \A j \in Chan : j # i => ChanInv(j)'
    BY <1>2, <1>3, <1>4, <1>t, <2>1, ChanKept
  <2>3. Buffered(chan'[i], sent'[i][2], Len(got'[i][1]))
    <3>1. Buffered(m, s, n)
      <4> HIDE DEF k, s, n
      <4>1. k.c # "freed" /\ n + Len(k.buf) < Len(s) /\ p = s[n + Len(k.buf) + 1]
        BY <1>6 DEF k
      <4> QED BY <1>1, <1>5, <1>s, <2>1, <4>1, BufferedTaken
    <3> QED BY <1>2, <2>1, <3>1
  <2>4. Brings(toJs', i, sent'[i][2], Len(got'[i][1]) + Len(chan'[i].buf))
    <3>1. Len(Append(k.buf, p)) = l + 1
      BY <1>s
    <3>2. Len(chan'[i].buf) = l + 1
      BY <1>2, <2>1, <3>1, Zenon
    <3>3. \A a, b \in Nat : a + (b + 1) = a + b + 1
      OBVIOUS
    <3>4. n + (l + 1) = n + l + 1
      BY <1>s, <3>3, Zenon
    <3>5. Len(got'[i][1]) + Len(chan'[i].buf) = n + l + 1
      BY <2>1, <3>2, <3>4, Zenon
    <3> QED BY <1>6, <3>5
  <2>5. /\ Numbered(sent'[i][2]) /\ chan'[i].c # "none" /\ ~Opening(i)' /\ up'
        /\ Brings(toPeer', i, sent'[i][1], Len(got'[i][2]))
    BY <1>2, <1>3, <1>5, <1>t, <2>1 DEF ChanInv
  <2>6. ChanInv(i)'
    BY <2>3, <2>4, <2>5 DEF ChanInv
  <2> QED BY <1>3, <2>1, <2>2, <2>6, NoMove DEF Pipes
<1> QED BY <1>7, <1>8

(* link_receive: the next packet of the transport.                         *)
LEMMA PipesReceive ==
  ASSUME PipesInv, Receive
  PROVE  Pipes' /\ \A j \in Chan : Moves(j)
<1>t. /\ TypeInv /\ (\A j \in Chan : ChanInv(j) /\ InStep(chan[j], j))
      /\ toJs \in Seq(Parcels) /\ got \in Histories /\ ticks \in Seq(Tasks)
      /\ chan \in [Chan -> ChanRecs]
  BY PipeTypes
<1>1. /\ up /\ toJs # <<>> /\ toJs' = Tail(toJs)
      /\ UNCHANGED <<up, toPeer, sent>>
  BY DEF Receive
<1>h. Head(toJs) \in Parcels
  BY <1>1, <1>t, HeadType
<1>i. PICK i \in Chan, p \in Packets : i = Head(toJs).ch /\ p = Head(toJs).p
  BY <1>h DEF Parcels
<1>2. \A j \in Chan : j # i => Same(toPeer, toPeer', j) /\ Same(toJs, toJs', j)
  <2> SUFFICES ASSUME NEW j \in Chan, j # i
               PROVE  Same(toPeer, toPeer', j) /\ Same(toJs, toJs', j)
    OBVIOUS
  <2>1. Same(toJs, toJs', j)
    BY <1>1, <1>i, <1>t, SameRest
  <2> QED BY <1>1, <2>1 DEF Same
<1>3. CASE /\ chan[i].c = "live" /\ chan[i].obj
           /\ chan' = [chan EXCEPT ![i] = Pushed(Taken(chan[i], p), p)]
           /\ IF Emits(chan[i]) THEN got' = [got EXCEPT ![i][1] = Append(@, p)]
              ELSE got' = got
           /\ ticks' = ticks
  BY <1>1, <1>3, <1>i, PipesTaken
<1>4. CASE /\ chan[i].c = "none" /\ p.n = 0
           /\ ticks' = Append(ticks, [kind |-> "open", ch |-> i])
           /\ UNCHANGED <<chan, got>>
  <2>1. ~Opening(i) /\ Brings(toJs', i, sent[i][2], 1)
    BY <1>1, <1>4, <1>i, UnopenedTaken
  <2>2. \A j \in Chan : j # i => (Opening(j)' <=> Opening(j))
    BY <1>4, <1>t, QueuedKinds, Zenon DEF Opening
  <2>3. Opening(i)'
    BY <1>4, <1>t, QueuedLast, Zenon DEF Opening
  <2>4. OpensOnce(ticks)'
    <3> DEFINE m == [kind |-> "open", ch |-> i]
    <3>1. m \in Tasks /\ m.ch = i
      BY DEF Tasks
    <3>2. OpensOnce(ticks) /\ ~Queued(ticks, "open", i)
      BY <2>1 DEF PipesInv, Pipes, Opening
    <3>4. ticks' = Append(ticks, m)
      BY <1>4
    <3> HIDE DEF m
    <3>3. OpensOnce(Append(ticks, m))
      BY <1>t, <3>1, <3>2, OpensOnceMore
    <3> QED BY <3>3, <3>4
  <2>5. \A j \in Chan : j # i => ChanInv(j)'
    BY <1>1, <1>2, <1>4, <1>t, <2>2, ChanKept
  <2>6. ChanInv(i)'
    <3>1. Unopened(i) /\ Numbered(sent[i][2])
      BY <1>4, <1>t DEF ChanInv
    <3>2. Unopened(i)'
      BY <1>1, <1>4, <2>1, <2>3, <3>1 DEF Unopened
    <3>3. Buffered(chan'[i], sent'[i][2], Len(got'[i][1]))
      BY <1>1, <1>4, <1>t DEF ChanInv
    <3>4. Brings(toPeer', i, sent'[i][1], Len(got'[i][2]))
      BY <1>1, <1>4, <1>t DEF ChanInv
    <3> QED BY <1>1, <1>4, <3>1, <3>2, <3>3, <3>4 DEF ChanInv
  <2>7. \A j \in Chan : Moves(j)
    BY <1>1, <1>4, NoMove
  <2> QED BY <1>1, <2>4, <2>5, <2>6, <2>7 DEF Pipes
<1>5. CASE /\ ~(chan[i].c = "live" /\ chan[i].obj)
           /\ ~(chan[i].c = "none" /\ p.n = 0)
           /\ UNCHANGED <<chan, got, ticks>>
  <2>1. chan[i].c # "none"
    BY <1>1, <1>5, <1>i, UnopenedTaken
  <2>2. OpensOnce(ticks)' /\ \A j \in Chan : Opening(j)' <=> Opening(j)
    BY <1>5 DEF PipesInv, Pipes, OpensOnce, Opening, Queued
  <2>3. \A j \in Chan : j # i => ChanInv(j)'
    BY <1>1, <1>2, <1>5, <1>t, <2>2, ChanKept
  <2>4. ChanInv(i)'
    <3>1. /\ Numbered(sent'[i][2])
          /\ Buffered(chan'[i], sent'[i][2], Len(got'[i][1]))
          /\ Opening(i)' => chan'[i].c = "none"
          /\ Brings(toPeer', i, sent'[i][1], Len(got'[i][2]))
      BY <1>1, <1>5, <1>t, <2>2 DEF ChanInv
    <3> QED BY <1>1, <1>5, <2>1, <3>1 DEF ChanInv
  <2>5. \A j \in Chan : Moves(j)
    BY <1>1, <1>5, NoMove
  <2> QED BY <1>1, <2>2, <2>3, <2>4, <2>5 DEF Pipes
<1> QED BY <1>3, <1>4, <1>5, <1>i DEF Receive

(* A listener that returns frees its channel at most.                      *)
LEMMA PipesReturn ==
  ASSUME PipesInv, Return
  PROVE  Pipes' /\ \A j \in Chan : Moves(j)
<1>t. /\ TypeInv /\ (\A j \in Chan : ChanInv(j) /\ InStep(chan[j], j))
      /\ chan \in [Chan -> ChanRecs]
  BY PipeTypes
<1>1. /\ UNCHANGED <<up, toJs, toPeer, ticks, sent, got>>
      /\ chan' = [j \in Chan |-> IF j \in calling /\ chan[j].c = "ended"
                             THEN [chan[j] EXCEPT !.c = "freed"] ELSE chan[j]]
  BY DEF Return
<1>2. OpensOnce(ticks)' /\ \A j \in Chan : Opening(j)' <=> Opening(j)
  BY <1>1 DEF PipesInv, Pipes, OpensOnce, Opening, Queued
<1>3. \A j \in Chan : Same(toPeer, toPeer', j) /\ Same(toJs, toJs', j)
  BY <1>1 DEF Same
<1>4. ASSUME NEW j \in Chan PROVE ChanInv(j)'
  <2>1. CASE j \in calling /\ chan[j].c = "ended"
    <3>1. chan'[j] = [chan[j] EXCEPT !.c = "freed"]
      BY <1>1, <2>1
    <3>2. /\ chan'[j].c = "freed" /\ chan'[j].obj = chan[j].obj
          /\ chan'[j].buf = chan[j].buf
      BY <1>t, <3>1 DEF ChanRecs
    <3>3. Buffered(chan'[j], sent'[j][2], Len(got'[j][1]))
      <4>1. Buffered(chan[j], sent[j][2], Len(got[j][1]))
        BY <1>t DEF ChanInv
      <4>2. Buffered(chan'[j], sent[j][2], Len(got[j][1]))
        BY <3>2, <4>1 DEF Buffered
      <4> QED BY <1>1, <4>2
    <3>4. ~Opening(j)'
      BY <1>2, <1>t, <2>1 DEF ChanInv
    <3>5. up' => Brings(toPeer', j, sent'[j][1], Len(got'[j][2]))
      BY <1>1, <1>t DEF ChanInv
    <3>6. Numbered(sent'[j][2])
      BY <1>1, <1>t DEF ChanInv
    <3> QED BY <3>2, <3>3, <3>4, <3>5, <3>6 DEF ChanInv
  <2>2. CASE ~(j \in calling /\ chan[j].c = "ended")
    <3>1. chan'[j] = chan[j]
      BY <1>1, <2>2
    <3> QED BY <1>1, <1>2, <1>3, <1>t, <3>1, ChanKept
  <2> QED BY <2>1, <2>2
<1>5. (~up => toPeer = <<>>)'
  BY <1>1 DEF PipesInv, Pipes
<1> QED BY <1>1, <1>2, <1>4, <1>5, NoMove DEF Pipes

(* The callback of mesh_on_open: the application makes the channel and has *)
(* the open packet, the first of the peer's.                               *)
LEMMA PipesTickOpen ==
  ASSUME PipesInv, TickOpen
  PROVE  Pipes' /\ \A j \in Chan : Moves(j)
<1>t. /\ TypeInv /\ (\A j \in Chan : ChanInv(j) /\ InStep(chan[j], j))
      /\ toJs \in Seq(Parcels) /\ got \in Histories /\ ticks \in Seq(Tasks)
      /\ chan \in [Chan -> ChanRecs]
  BY PipeTypes
<1>1. /\ ticks # <<>> /\ Head(ticks).kind = "open"
      /\ UNCHANGED <<up, toJs, toPeer, sent>>
  BY DEF TickOpen
<1>h. Head(ticks) \in Tasks /\ Tail(ticks) \in Seq(Tasks)
  BY <1>1, <1>t, HeadType
<1>i. PICK i \in Chan : i = Head(ticks).ch
  BY <1>h DEF Tasks
<1>2. /\ OpensOnce(Tail(ticks)) /\ ~Queued(Tail(ticks), "open", i)
      /\ \A j \in Chan : j # i => (Queued(Tail(ticks), "open", j) <=> Opening(j))
  <2>1. OpensOnce(ticks)
    BY DEF PipesInv, Pipes
  <2>2. OpensOnce(Tail(ticks)) /\ ~Queued(Tail(ticks), "open", i)
    BY <1>1, <1>i, <1>t, <2>1, OpensOnceRest
  <2>3. \A j \in Chan : j # i => (Queued(Tail(ticks), "open", j) <=> Opening(j))
    BY <1>1, <1>i, <1>t, QueuedRest, Zenon DEF Opening
  <2> QED BY <2>2, <2>3
<1>3. Opening(i)
  <2>1. 1 \in DOMAIN ticks /\ Head(ticks) = ticks[1]
    BY <1>1, <1>t, HeadType
  <2> QED BY <1>1, <1>i, <2>1 DEF Opening, Queued
<1>4. chan[i].c = "none" /\ Unopened(i)
  BY <1>3, <1>t DEF ChanInv
<1>5. \A j \in Chan : Same(toPeer, toPeer', j) /\ Same(toJs, toJs', j)
  BY <1>1 DEF Same
<1>s. /\ sent[i][2] \in Seq(Packets) /\ Len(sent[i][2]) \in Nat
      /\ got[i][1] \in Seq(Packets)
  BY <1>t, ChanTypes
<1>6. CASE ~up
  <2>1. ticks' = Tail(ticks) /\ UNCHANGED <<chan, got>>
    BY <1>6 DEF TickOpen
  <2>2. OpensOnce(ticks)' /\ ~Opening(i)'
        /\ \A j \in Chan : j # i => (Opening(j)' <=> Opening(j))
    BY <1>2, <2>1 DEF OpensOnce, Opening, Queued
  <2>3. \A j \in Chan : j # i => ChanInv(j)'
    BY <1>1, <1>5, <1>t, <2>1, <2>2, ChanKept
  <2>4. ChanInv(i)'
    <3>1. Unopened(i)'
      BY <1>1, <1>4, <1>6, <2>1 DEF Unopened
    <3>2. Buffered(chan'[i], sent'[i][2], Len(got'[i][1])) /\ Numbered(sent'[i][2])
      BY <1>1, <1>t, <2>1 DEF ChanInv
    <3> QED BY <1>1, <1>4, <1>6, <2>1, <2>2, <3>1, <3>2 DEF ChanInv
  <2>5. (~up => toPeer = <<>>)'
    BY <1>1 DEF PipesInv, Pipes
  <2> QED BY <1>1, <2>1, <2>2, <2>3, <2>4, <2>5, NoMove DEF Pipes
<1>7. CASE up
  <2> DEFINE p == Packet(0, FALSE)
             s == sent[i][2]
  <2>p. p \in Packets /\ p.n = 0
    BY OpenPacket
  <2>1. /\ Construct(i) /\ got' = [got EXCEPT ![i][1] = Append(@, p)]
        /\ \/ CanWrap /\ ticks' = Append(Tail(ticks), [kind |-> "resume", ch |-> i])
           \/ ~CanWrap /\ ticks' = Tail(ticks)
    BY <1>7, <1>i DEF TickOpen
  <2>2. /\ ~chan[i].obj /\ got[i][1] = <<>> /\ Len(s) <= 1 /\ Brings(toJs, i, s, 1)
        /\ s # <<>> => ~s[1].end
    BY <1>3, <1>4, <1>7 DEF Unopened
  <2>3. Len(s) = 1 /\ s[1] = p
    <3>s. s \in Seq(Packets) /\ Len(s) \in Nat /\ Numbered(s)
      BY <1>s, <1>t DEF ChanInv
    <3> HIDE DEF s
    <3>1. Len(s) = 1
      <4>1. 1 <= Len(s)
        BY <2>2, Zenon DEF Brings
      <4>2. Len(s) <= 1 /\ Len(s) \in Nat
        BY <2>2, <3>s, Zenon
      <4>3. \A a \in Nat : 1 <= a /\ a <= 1 => a = 1
        OBVIOUS
      <4> QED BY <4>1, <4>2, <4>3, Zenon
    <3>2. 1 \in DOMAIN s /\ s # <<>>
      BY <3>s, <3>1
    <3>3. s[1].n = 0 /\ s[1] \in Packets
      BY <3>s, <3>2 DEF Numbered
    <3>4. ~s[1].end
      BY <2>2, <3>2
    <3>5. s[1].end = FALSE
      BY <3>3, <3>4 DEF Packets
    <3> QED BY <3>1, <3>3, <3>5 DEF Packets, Packet
  <2> HIDE DEF p
  <2>4. /\ got'[i][1] = Append(got[i][1], p) /\ got'[i][2] = got[i][2]
        /\ \A j \in Chan : j # i => got'[j] = got[j]
    <3>1. Gains(got', got, i, 1, p)
      BY <2>1 DEF Gains
    <3> QED BY <1>t, <2>p, <3>1, HistoryHere
  <2>5. OpensOnce(ticks)' /\ ~Opening(i)'
        /\ \A j \in Chan : j # i => (Opening(j)' <=> Opening(j))
    <3>1. CASE ticks' = Tail(ticks)
      BY <1>2, <3>1 DEF OpensOnce, Opening, Queued
    <3>2. CASE ticks' = Append(Tail(ticks), [kind |-> "resume", ch |-> i])
      <4> DEFINE m == [kind |-> "resume", ch |-> i]
      <4>1. m \in Tasks /\ m.kind # "open"
        BY DEF Tasks
      <4>2. \A j \in Chan : Opening(j)' <=> Queued(Tail(ticks), "open", j)
        BY <1>h, <3>2, QueuedKinds, Zenon DEF Opening
      <4>3. ticks' = Append(Tail(ticks), m)
        BY <3>2
      <4> HIDE DEF m
      <4>4. OpensOnce(Append(Tail(ticks), m))
        BY <1>2, <1>h, <4>1, OpensOnceMore
      <4>5. OpensOnce(ticks')
        BY <4>3, <4>4
      <4> QED BY <1>2, <4>2, <4>5 DEF OpensOnce
    <3> QED BY <2>1, <3>1, <3>2
  <2>6. chan[i].buf = <<>>
    BY <1>t, <2>2, NoObject
  <2>7. /\ chan'[i].c = "live" /\ chan'[i].buf = <<>>
        /\ \A j \in Chan : j # i => chan'[j] = chan[j]
    BY <1>t, <2>1, <2>6, ConstructFacts
  <2>8. \A j \in Chan : j # i => ChanInv(j)'
    BY <1>1, <1>5, <1>t, <2>4, <2>5, <2>7, ChanKept
  <2>9. ChanInv(i)'
    <3>1. /\ Numbered(sent'[i][2])
          /\ Brings(toPeer', i, sent'[i][1], Len(got'[i][2]))
      BY <1>1, <1>7, <1>t, <2>4 DEF ChanInv
    <3>2. Buffered(chan'[i], sent'[i][2], Len(got'[i][1]))
      BY <2>7 DEF Buffered
    <3>3. Brings(toJs', i, sent'[i][2], Len(got'[i][1]) + Len(chan'[i].buf))
      <4>1. got'[i][1] = <<p>>
        BY <2>2, <2>4
      <4>2. Len(got'[i][1]) = 1 /\ Len(chan'[i].buf) = 0
        BY <2>7, <4>1
      <4>3. Len(got'[i][1]) + Len(chan'[i].buf) = 1
        BY <4>2
      <4> QED BY <1>1, <2>2, <4>3
    <3> QED BY <1>1, <1>7, <2>5, <2>7, <3>1, <3>2, <3>3 DEF ChanInv
  <2>10. \A j \in Chan : Moves(j)
    <3>1. 3 - 1 = 2 /\ 1 \in {1, 2}
      OBVIOUS
    <3>2. Len(got[i][1]) = 0
      BY <2>2
    <3>3. /\ Len(got[i][1]) < Len(sent[i][3 - 1])
          /\ p = sent[i][3 - 1][Len(got[i][1]) + 1]
      BY <2>3, <3>1, <3>2
    <3> HIDE DEF s
    <3> QED BY <1>1, <1>t, <2>1, <3>1, <3>3, GotMove
  <2> QED BY <1>1, <1>7, <2>5, <2>8, <2>9, <2>10 DEF Pipes
<1> QED BY <1>6, <1>7

(* link_down: the error packet goes behind what each channel has buffered. *)
LEMMA PipesDown ==
  ASSUME PipesInv, LinkDown
  PROVE  Pipes' /\ \A j \in Chan : Moves(j)
<1>t. /\ TypeInv /\ (\A j \in Chan : ChanInv(j) /\ InStep(chan[j], j))
      /\ chan \in [Chan -> ChanRecs]
  BY PipeTypes
<1>1. /\ up' = FALSE /\ toPeer' = <<>> /\ UNCHANGED <<ticks, sent, got>>
      /\ chan' = [j \in Chan |-> Downed(chan[j])] /\ Quiet
  BY DEF LinkDown
<1>2. OpensOnce(ticks)' /\ \A j \in Chan : Opening(j)' <=> Opening(j)
  BY <1>1 DEF PipesInv, Pipes, OpensOnce, Opening, Queued
<1>3. calling = {}
  BY <1>1 DEF Quiet, Turn
<1>4. ASSUME NEW j \in Chan PROVE ChanInv(j)'
  <2> DEFINE k == chan[j]
             m == Downed(k)
             s == sent[j][2]
             n == Len(got[j][1])
  <2>s. /\ k \in ChanRecs /\ k.buf \in Seq(Packets) /\ Len(k.buf) \in Nat
        /\ s \in Seq(Packets) /\ n \in Nat
    BY <1>t, <1>4, ChanTypes
  <2>1. /\ m.obj = k.obj /\ m.c = (IF k.c = "live" THEN "freed" ELSE k.c)
        /\ k.c = "live" /\ k.obj /\ ~Emits(k) => m.buf = Append(k.buf, ErrPacket)
        /\ ~(k.c = "live" /\ k.obj /\ ~Emits(k)) => m.buf = k.buf
    <3> HIDE DEF k
    <3> QED BY <2>s, DownedFacts
  <2>2. chan'[j] = m /\ sent'[j] = sent[j] /\ got'[j] = got[j]
    BY <1>1, <1>4
  <2>3. k.c # "ended"
    BY <1>3, <1>4, <1>t DEF InStep
  <2>4. m.c \in {"none", "freed"} /\ (m.c = "none" <=> k.c = "none")
    BY <2>1, <2>3, <2>s DEF ChanRecs
  <2>5. Numbered(s) /\ Buffered(k, s, n)
    BY <1>4, <1>t DEF ChanInv
  <2> HIDE DEF m, k, s, n
  <2>6. Buffered(m, s, n)
    <3>1. CASE m.buf = k.buf
      BY <2>1, <2>5, <3>1 DEF Buffered
    <3>2. CASE m.buf = Append(k.buf, ErrPacket) /\ m.c = "freed"
      <4> DEFINE l == Len(k.buf)
      <4>1. /\ DOMAIN k.buf = 1 .. l /\ DOMAIN m.buf = 1 .. l + 1
            /\ Len(m.buf) = l + 1 /\ m.buf[l + 1] = ErrPacket /\ l \in Nat
            /\ \A a \in 1 .. l : m.buf[a] = k.buf[a]
        BY <2>s, <3>2, AppendType, PacketTypes
      <4> SUFFICES ASSUME NEW b \in 1 .. l + 1
                   PROVE  IF b = l + 1 /\ m.buf[b] = ErrPacket THEN m.c = "freed"
                          ELSE n + b <= Len(s) /\ m.buf[b] = s[n + b]
        BY <4>1, Zenon DEF Buffered
      <4>2. CASE b = l + 1
        BY <3>2, <4>1, <4>2
      <4>3. CASE b \in 1 .. l
        <5>1. ~(b = l /\ k.buf[b] = ErrPacket)
          <6>1. k.c # "freed"
            BY <2>1, <3>2, <2>s, <4>1
          <6> QED BY <2>5, <4>1, <4>3, <6>1 DEF Buffered
        <5>2. n + b <= Len(s) /\ k.buf[b] = s[n + b]
          BY <2>5, <4>1, <4>3, <5>1 DEF Buffered
        <5>3. b # l + 1
          BY <4>1, <4>3
        <5> QED BY <4>1, <4>3, <5>2, <5>3
      <4> QED BY <4>1, <4>2, <4>3
    <3> QED BY <2>1, <3>1, <3>2
  <2>7. k.c = "none" => Unopened(j)'
    <3>1. k.c = "none" => Unopened(j)
      BY <1>4, <1>t DEF ChanInv, k
    <3> QED BY <1>1, <1>2, <1>4, <2>1, <2>2, <3>1 DEF Unopened, k
  <2>8. Opening(j)' => m.c = "none"
    BY <1>2, <1>4, <1>t, <2>4 DEF ChanInv, k
  <2>9. Numbered(sent'[j][2]) /\ Buffered(chan'[j], sent'[j][2], Len(got'[j][1]))
    BY <2>2, <2>5, <2>6 DEF s, n
  <2> QED BY <1>1, <2>2, <2>4, <2>7, <2>8, <2>9 DEF ChanInv
<1> QED BY <1>1, <1>2, <1>4, NoMove DEF Pipes

(* The peer's own packets: it sends on a channel it has opened, or that    *)
(* was opened to it; it does not run ahead of the answer to its open.      *)
LEMMA PipesPeer ==
  ASSUME ~Eager, PipesInv, NEW i \in Chan,
         (i \in In /\ PeerOpen(i)) \/ \E end \in BOOLEAN : PeerSend(i, end)
  PROVE  Pipes' /\ \A j \in Chan : Moves(j)
<1>t. TypeInv /\ \A j \in Chan : ChanInv(j) /\ InStep(chan[j], j)
  BY PipeTypes
<1>s. sent[i][2] \in Seq(Packets) /\ Len(sent[i][2]) \in Nat
  BY <1>t, ChanTypes
<1>1. CASE i \in In /\ PeerOpen(i)
  <2>1. PeerSends(i, Packet(0, FALSE)) /\ sent[i][2] = <<>>
    BY <1>1 DEF PeerOpen
  <2>2. Len(sent[i][2]) = 0 /\ 0 <= MaxSent
    BY <2>1, JsChannelsAssumption
  <2> QED BY <1>1, <2>1, <2>2, OpenPacket, PipesPeerSends
<1>2. ASSUME NEW end \in BOOLEAN, PeerSend(i, end)
      PROVE  Pipes' /\ \A j \in Chan : Moves(j)
  <2>1. /\ PeerSends(i, Packet(Len(sent[i][2]), end))
        /\ got[i][2] # <<>> /\ Len(sent[i][2]) <= MaxSent
    BY <1>2 DEF PeerSend
  <2>2. chan[i].c # "none"
    BY <1>t, <2>1 DEF ChanInv, Unopened
  <2>3. Len(sent[i][2]) \in 0 .. MaxSent
    BY <1>s, <2>1, JsChannelsAssumption
  <2>4. /\ Packet(Len(sent[i][2]), end) \in Packets
        /\ Packet(Len(sent[i][2]), end).n = Len(sent[i][2])
    BY <2>3, PacketTypes
  <2> QED BY <2>1, <2>2, <2>4, PipesPeerSends
<1> QED BY <1>1, <1>2

(* Every step is a step of the pipes, or none, and keeps their invariant,  *)
(* if the peer waits for the answer to its open.                           *)
LEMMA PipesStep ==
  ASSUME ~Eager, PipesInv, [Next]_vars
  PROVE  PipesInv' /\ \A j \in Chan : Moves(j)
<1>s. StreamInv'
  BY StreamStep DEF PipesInv
<1>t. /\ chan \in [Chan -> ChanRecs] /\ ticks \in Seq(Tasks) /\ OpensOnce(ticks)
  BY PipeTypes DEF PipesInv, Pipes
<1> SUFFICES Pipes' /\ \A j \in Chan : Moves(j)
  BY <1>s DEF PipesInv
<1>q. ticks' = ticks => OpensOnce(ticks)' /\ \A j \in Chan : Opening(j)' <=> Opening(j)
  BY <1>t DEF OpensOnce, Opening, Queued
<1>1. ASSUME NEW i \in Out, Open(i) PROVE Pipes' /\ \A j \in Chan : Moves(j)
  BY <1>1, PipesOpen
<1>2. ASSUME NEW i \in Chan, Send(i) PROVE Pipes' /\ \A j \in Chan : Moves(j)
  BY <1>2, PipesSend
<1>3. ASSUME NEW i \in Chan, Pause(i) PROVE Pipes' /\ \A j \in Chan : Moves(j)
  <2>1. /\ UNCHANGED <<up, toJs, toPeer, ticks, sent, got>>
        /\ chan' = [chan EXCEPT ![i].flow = "paused", ![i].lag = TRUE]
    BY <1>3 DEF Pause
  <2>2. \A j \in Chan : /\ chan'[j].c = chan[j].c /\ chan'[j].obj = chan[j].obj
                        /\ chan'[j].buf = chan[j].buf
    BY <1>t, <2>1 DEF ChanRecs
  <2> QED BY <1>q, <2>1, <2>2, PipesKept
<1>4. ASSUME NEW i \in Chan, Resume(i) PROVE Pipes' /\ \A j \in Chan : Moves(j)
  <2>1. /\ UNCHANGED <<up, toJs, toPeer, sent, got>>
        /\ chan' = [chan EXCEPT ![i].flow = "start"]
        /\ ticks' = Append(ticks, [kind |-> "resume", ch |-> i])
    BY <1>4 DEF Resume
  <2>2. \A j \in Chan : /\ chan'[j].c = chan[j].c /\ chan'[j].obj = chan[j].obj
                        /\ chan'[j].buf = chan[j].buf
    BY <1>t, <2>1 DEF ChanRecs
  <2>3. \A j \in Chan : Opening(j)' <=> Opening(j)
    BY <1>t, <2>1, QueuedKinds, Zenon DEF Opening
  <2>4. OpensOnce(ticks)'
    <3> DEFINE m == [kind |-> "resume", ch |-> i]
    <3>1. m \in Tasks /\ m.kind # "open"
      BY DEF Tasks
    <3>2. ticks' = Append(ticks, m)
      BY <2>1
    <3> HIDE DEF m
    <3>3. OpensOnce(Append(ticks, m))
      BY <1>t, <3>1, OpensOnceMore
    <3> QED BY <3>2, <3>3
  <2> QED BY <2>1, <2>2, <2>3, <2>4, PipesKept
<1>5. ASSUME NEW i \in Chan, Flow(i) PROVE Pipes' /\ \A j \in Chan : Moves(j)
  BY <1>5, PipesFlow
<1>6. ASSUME NEW i \in In, PeerOpen(i) PROVE Pipes' /\ \A j \in Chan : Moves(j)
  BY <1>6, PipesPeer DEF Chan
<1>7. ASSUME NEW i \in Chan, NEW end \in BOOLEAN, PeerSend(i, end)
      PROVE  Pipes' /\ \A j \in Chan : Moves(j)
  BY <1>7, PipesPeer
<1>8. CASE PeerTake
  BY <1>8, PipesTake
<1>9. CASE Receive
  BY <1>9, PipesReceive
<1>10. CASE Return
  BY <1>10, PipesReturn
<1>11. CASE EndData
  <2>1. UNCHANGED <<up, toJs, toPeer, ticks, sent, got, chan>>
    BY <1>11 DEF EndData
  <2> QED BY <1>q, <2>1, PipesKept
<1>12. CASE TickResume
  <2>1. /\ UNCHANGED <<up, toJs, toPeer, sent, got>> /\ ticks' = Tail(ticks)
        /\ chan' = [chan EXCEPT ![Head(ticks).ch].flow =
                      IF @ = "start" THEN "yes" ELSE @]
        /\ ticks # <<>> /\ Head(ticks).kind = "resume"
    BY <1>12 DEF TickResume
  <2>h. Head(ticks) \in Tasks
    BY <1>t, <2>1, HeadType
  <2>2. \A j \in Chan : /\ chan'[j].c = chan[j].c /\ chan'[j].obj = chan[j].obj
                        /\ chan'[j].buf = chan[j].buf
    <3> PICK i \in Chan : i = Head(ticks).ch
      BY <2>h DEF Tasks
    <3> QED BY <1>t, <2>1 DEF ChanRecs
  <2>3. \A j \in Chan : Opening(j)' <=> Opening(j)
    BY <1>t, <2>1, QueuedRest, Zenon DEF Opening
  <2>4. OpensOnce(ticks)'
    <3>1. OpensOnce(Tail(ticks))
      BY <1>t, <2>1, OpensOnceRest
    <3> QED BY <2>1, <3>1
  <2> QED BY <2>1, <2>2, <2>3, <2>4, PipesKept
<1>13. CASE TickOpen
  BY <1>13, PipesTickOpen
<1>14. CASE LinkDown
  BY <1>14, PipesDown
<1>15. CASE UNCHANGED vars
  <2>1. UNCHANGED <<up, toJs, toPeer, ticks, sent, got, chan>>
    BY <1>15 DEF vars
  <2> QED BY <1>q, <2>1, PipesKept
<1> QED
  BY <1>1, <1>2, <1>3, <1>4, <1>5, <1>6, <1>7, <1>8, <1>9, <1>10, <1>11, <1>12,
     <1>13, <1>14, <1>15 DEF Next

(* In the beginning the pipes are empty.                                   *)
LEMMA PipesInit == Init => PipesInv /\ \A i \in Chan : Pipe(i)!Init
<1> SUFFICES ASSUME Init PROVE PipesInv /\ \A i \in Chan : Pipe(i)!Init
  OBVIOUS
<1>1. /\ up = TRUE /\ toJs = <<>> /\ toPeer = <<>> /\ ticks = <<>>
      /\ \A i \in Chan : /\ chan[i] = NoChan
                         /\ sent[i] = [e \in {1, 2} |-> <<>>]
                         /\ got[i] = [e \in {1, 2} |-> <<>>]
  BY DEF Init
<1>2. \A i \in Chan : Pipe(i)!Init
  BY <1>1 DEF Pipe!Init, Pipe!End
<1>3. \A i \in Chan : Brings(<<>>, i, <<>>, 0)
  BY DEF Brings
<1>4. ASSUME NEW i \in Chan PROVE ChanInv(i)
  <2>1. /\ sent[i][1] = <<>> /\ sent[i][2] = <<>>
        /\ got[i][1] = <<>> /\ got[i][2] = <<>>
    BY <1>1
  <2>2. ~Opening(i) /\ chan[i].c = "none" /\ ~chan[i].obj /\ chan[i].buf = <<>>
    BY <1>1, NothingQueued DEF NoChan
  <2>3. Unopened(i)
    BY <1>1, <1>3, <2>1, <2>2 DEF Unopened
  <2>4. Numbered(sent[i][2]) /\ Buffered(chan[i], sent[i][2], Len(got[i][1]))
    BY <2>1, <2>2 DEF Numbered, Buffered
  <2>5. Brings(toPeer, i, sent[i][1], Len(got[i][2]))
    BY <1>1, <1>3, <2>1
  <2> QED BY <1>1, <2>2, <2>3, <2>4, <2>5 DEF ChanInv
<1>5. OpensOnce(ticks)
  BY <1>1 DEF OpensOnce
<1> QED BY <1>1, <1>2, <1>4, <1>5, StreamInit DEF PipesInv, Pipes

(* Whatever is opened, paused, resumed, ended or cut off in between, both  *)
(* ends of every channel get what the other has sent, in order and without *)
(* a gap: chan_receive, the Duplex and nextTick reorder and lose nothing   *)
(* as long as the link is up, and put nothing behind a gap when it is not. *)
(* The peer is one that waits for the answer to its open.                  *)
THEOREM JsChannelsInOrder ==
  ASSUME ~Eager
  PROVE  Spec => InOrder
<1>1. Init => \A i \in Chan : Pipe(i)!Init
  BY PipesInit
<1>2. PipesInv /\ [Next]_vars =>
        [\A i \in Chan : [Pipe(i)!Next]_<<sent[i], got[i]>>]_<<sent, got>>
  BY PipesStep DEF Moves
<1>3. PipesInv /\ [Next]_vars => PipesInv'
  BY PipesStep
<1>4. Init => PipesInv
  BY PipesInit
<1> QED BY <1>1, <1>2, <1>3, <1>4, PTL DEF Spec, InOrder
=============================================================================
