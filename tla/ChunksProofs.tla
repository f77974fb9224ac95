---------------------------- MODULE ChunksProofs ----------------------------
(***************************************************************************)
(* Proofs about module Chunks, for every cap, packet length and wire, and  *)
(* however the streams cut the writes: the writer stays inside its packet, *)
(* the reader never takes a data byte for the size of a chunk, and the     *)
(* packets come out as they were sent (Chunks implements PacketPipe).      *)
(***************************************************************************)
EXTENDS Chunks, SequenceTheorems, FiniteSetTheorems, WellFoundedInduction, TLAPS

(* The records of the endpoints, and what goes over the wires.             *)
Endpoints == [writing : Seq(Packets), writeat : Nat, waiting : 0 .. Cap,
              waitat : Nat, blocked : BOOLEAN, ack : BOOLEAN,
              reading : Seq(Chunk)]
ChunkTypes ==
  /\ c \in [End -> Endpoints]
  /\ wire \in [End -> Seq(Bytes)]
  /\ sent \in [End -> Seq(Packets)]

(* The writer, as WriteInBounds has it.                                    *)
InBounds(w) ==
  /\ w.waitat <= w.waiting
  /\ IF w.writing = <<>> THEN w.writeat = 0 /\ w.waiting = 0
     ELSE w.writeat + w.waiting <= Len(Head(w.writing))

(* No chunk holds more than its size byte says.                            *)
Filling(rs) == \A i \in DOMAIN rs : Len(rs[i].data) <= rs[i].size

(* Behind place j of wire v come n data bytes and then a size byte; those  *)
(* that are not on the wire yet are the k bytes the writer has still to    *)
(* write of the chunk it is in.                                            *)
Unwritten(w) == IF w.waitat = 0 THEN 0 ELSE w.waiting - (w.waitat - 1)
Leads(v, j, n, k) ==
  /\ \A b \in j + 1 .. j + n : b <= Len(v) => v[b].kind = "data"
  /\ j + n < Len(v) => v[j + n + 1].kind = "size"
  /\ j + n >= Len(v) => j + n = Len(v) + k

(* The reader wants q bytes of the chunk it is in, and each size byte on   *)
(* the wire is the size of its chunk.                                      *)
InStep(q, v, k) ==
  /\ Leads(v, 0, q, k)
  /\ \A j \in DOMAIN v : v[j].kind = "size" => Leads(v, j, v[j].n, k)

ChunksInv ==
  /\ ChunkTypes
  /\ \A e \in End :
       /\ InBounds(c[e]) /\ Filling(c[e].reading)
       /\ e \in Frames => c[e].waitat = 0
       /\ InStep(Quota(c[e]), wire[e], Unwritten(c[Other(e)]))
-----------------------------------------------------------------------------
(* Lemmas about the wire.                                                  *)

(* What a sequence holds, and what it holds with one more.                 *)
LEMMA OneMore ==
  ASSUME NEW S, NEW p \in Seq(S), NEW n \in S
  PROVE  LET z == Append(p, n) IN
         /\ z \in Seq(S) /\ Len(z) = Len(p) + 1 /\ z[Len(p) + 1] = n
         /\ \A i \in 1 .. Len(p) : z[i] = p[i] /\ p[i] \in S
         /\ Len(p) \in Nat /\ DOMAIN p = 1 .. Len(p)
         /\ DOMAIN z = 1 .. Len(p) + 1 /\ z # <<>>
OBVIOUS

(* And what is left when the first goes.                                   *)
LEMMA OneLess ==
  ASSUME NEW S, NEW p \in Seq(S), p # <<>>
  PROVE  LET z == Tail(p) IN
         /\ z \in Seq(S) /\ Len(p) \in Nat \ {0} /\ Len(z) = Len(p) - 1
         /\ DOMAIN p = 1 .. Len(p) /\ DOMAIN z = 1 .. Len(p) - 1
         /\ Head(p) = p[1] /\ p[1] \in S
         /\ \A i \in 1 .. Len(p) - 1 : z[i] = p[i + 1]
OBVIOUS

(* A size byte may come when a chunk is complete.                          *)
LEMMA SizeWritten ==
  ASSUME NEW q \in Nat, NEW v \in Seq(Bytes), NEW m \in Bytes,
         m.kind = "size", InStep(q, v, 0)
  PROVE  InStep(q, Append(v, m), m.n)
<1> DEFINE z == Append(v, m)
<1>1. /\ Len(z) = Len(v) + 1 /\ z[Len(v) + 1] = m
      /\ \A i \in 1 .. Len(v) : z[i] = v[i] /\ v[i] \in Bytes
      /\ Len(v) \in Nat /\ DOMAIN v = 1 .. Len(v) /\ DOMAIN z = 1 .. Len(v) + 1
  BY OneMore
<1> HIDE DEF z
<1>2. ASSUME NEW j \in Nat, NEW n \in Nat, j <= Len(v), Leads(v, j, n, 0)
      PROVE  Leads(z, j, n, m.n)
  <2>1. j + n <= Len(v)
    <3>1. j + n >= Len(v) => j + n = Len(v) + 0
      BY <1>2 DEF Leads
    <3>2. Len(v) \in Nat
      BY <1>1
    <3> QED BY <3>1, <3>2
  <2>2. j + n < Len(z) /\ ~(j + n >= Len(z))
    BY <1>1, <2>1
  <2>3. \A b \in j + 1 .. j + n : b <= Len(z) => z[b].kind = "data"
    <3> SUFFICES ASSUME NEW b \in j + 1 .. j + n PROVE z[b].kind = "data"
      OBVIOUS
    <3>1. b \in 1 .. Len(v) /\ b <= Len(v)
      BY <1>1, <2>1
    <3> QED BY <1>1, <1>2, <3>1 DEF Leads
  <2>4. z[j + n + 1].kind = "size"
    <3>1. CASE j + n = Len(v)
      BY <1>1, <3>1
    <3>2. CASE j + n < Len(v)
      <4>1. j + n + 1 \in 1 .. Len(v)
        BY <1>1, <3>2
      <4>2. v[j + n + 1].kind = "size"
        BY <1>2, <3>2 DEF Leads
      <4>3. z[j + n + 1] = v[j + n + 1]
        BY <1>1, <4>1
      <4> QED BY <4>2, <4>3
    <3>3. Len(v) \in Nat
      BY <1>1
    <3> QED BY <2>1, <3>1, <3>2, <3>3
  <2> QED BY <2>2, <2>3, <2>4 DEF Leads
<1>3. m.n \in Nat /\ \A i \in 1 .. Len(v) : v[i].n \in Nat
  <2>1. \A x \in Bytes : x.n \in Nat
    BY ChunksAssumption DEF Bytes
  <2> QED BY <1>1, <2>1
<1>4. Leads(z, 0, q, m.n)
  BY <1>1, <1>2 DEF InStep
<1>5. ASSUME NEW j \in DOMAIN z, z[j].kind = "size"
      PROVE  Leads(z, j, z[j].n, m.n)
  <2>1. CASE j = Len(v) + 1
    BY <1>1, <1>3, <2>1 DEF Leads
  <2>2. CASE j # Len(v) + 1
    <3>1. j \in 1 .. Len(v) /\ j \in Nat /\ j <= Len(v) /\ z[j] = v[j]
      BY <1>1, <2>2
    <3>2. Leads(v, j, v[j].n, 0)
      BY <1>1, <1>5, <3>1 DEF InStep
    <3> QED BY <1>2, <1>3, <3>1, <3>2
  <2> QED BY <2>1, <2>2
<1> QED BY <1>4, <1>5 DEF InStep, z

(* Data bytes may come as long as the chunk is not complete.               *)
LEMMA DataWritten ==
  ASSUME NEW q \in Nat, NEW v \in Seq(Bytes), NEW ms \in Seq(Bytes),
         NEW k \in Nat, Len(ms) <= k, InStep(q, v, k),
         \A i \in DOMAIN ms : ms[i].kind = "data"
  PROVE  InStep(q, v \o ms, k - Len(ms))
<1> DEFINE z == v \o ms
           L == Len(v)
           M == Len(ms)
<1>1. /\ Len(z) = L + M /\ L \in Nat /\ M \in Nat
      /\ DOMAIN v = 1 .. L /\ DOMAIN ms = 1 .. M /\ DOMAIN z = 1 .. L + M
      /\ \A i \in 1 .. L : z[i] = v[i] /\ v[i] \in Bytes
      /\ \A i \in L + 1 .. L + M : z[i].kind = "data"
  <2>1. /\ z \in Seq(Bytes) /\ Len(z) = L + M /\ L \in Nat /\ M \in Nat
        /\ DOMAIN v = 1 .. L /\ DOMAIN ms = 1 .. M
        /\ \A i \in 1 .. L + M : z[i] = IF i <= L THEN v[i] ELSE ms[i - L]
    BY ConcatProperties
  <2>2. \A i \in 1 .. L : v[i] \in Bytes
    OBVIOUS
  <2> HIDE DEF z, L, M
  <2>3. DOMAIN z = 1 .. L + M
    BY <2>1
  <2>4. ASSUME NEW i \in L + 1 .. L + M PROVE z[i].kind = "data"
    <3>1. i \in 1 .. L + M /\ ~(i <= L) /\ i - L \in 1 .. M
      BY <2>1
    <3> QED BY <2>1, <3>1
  <2>5. ASSUME NEW i \in 1 .. L PROVE z[i] = v[i]
    <3>1. i \in 1 .. L + M /\ i <= L
      BY <2>1
    <3> QED BY <2>1, <3>1
  <2> QED BY <2>1, <2>2, <2>3, <2>4, <2>5
<1>k. M <= k
  OBVIOUS
<1> HIDE DEF z, M
<1>2. ASSUME NEW j \in Nat, NEW n \in Nat, j <= L, Leads(v, j, n, k)
      PROVE  Leads(z, j, n, k - M)
  <2>1. CASE j + n < L
    <3>1. ~(j + n >= L + M) /\ j + n + 1 \in 1 .. L
      BY <1>1, <2>1
    <3>2. \A b \in j + 1 .. j + n : z[b].kind = "data"
      <4> SUFFICES ASSUME NEW b \in j + 1 .. j + n PROVE z[b].kind = "data"
        OBVIOUS
      <4>1. b \in 1 .. L /\ b <= L
        BY <1>1, <2>1
      <4> QED BY <1>1, <1>2, <4>1 DEF Leads
    <3>3. z[j + n + 1].kind = "size"
      BY <1>1, <1>2, <2>1, <3>1 DEF Leads
    <3> QED BY <1>1, <3>1, <3>2, <3>3 DEF Leads
  <2>2. CASE ~(j + n < L)
    <3>1. j + n = L + k /\ ~(j + n < L + M) /\ j + n = L + M + (k - M)
      <4>1. j + n = L + k
        <5>1. j + n >= L => j + n = L + k
          BY <1>2 DEF Leads
        <5>2. L \in Nat
          BY <1>1
        <5>3. \A a, b \in Nat : ~(a < b) => a >= b
          OBVIOUS
        <5>4. j + n \in Nat
          OBVIOUS
        <5> QED BY <2>2, <5>1, <5>2, <5>3, <5>4, Zenon
      <4>2. L \in Nat /\ M \in Nat
        BY <1>1
      <4>3. \A l, m \in Nat :
              m <= k => ~(l + k < l + m) /\ l + k = l + m + (k - m)
        OBVIOUS
      <4>4. ~(L + k < L + M) /\ L + k = L + M + (k - M)
        BY <1>k, <4>2, <4>3, Zenon
      <4> QED BY <4>1, <4>4, Zenon
    <3>2. \A b \in j + 1 .. j + n : b <= L + M => z[b].kind = "data"
      <4> SUFFICES ASSUME NEW b \in j + 1 .. j + n, b <= L + M
                   PROVE  z[b].kind = "data"
        OBVIOUS
      <4>1. CASE b <= L
        <5>1. b \in 1 .. L
          BY <1>1, <4>1
        <5> QED BY <1>1, <1>2, <4>1, <5>1 DEF Leads
      <4>2. CASE ~(b <= L)
        <5>1. b \in L + 1 .. L + M
          BY <1>1, <4>2
        <5> QED BY <1>1, <5>1
      <4> QED BY <4>1, <4>2
    <3> QED BY <1>1, <3>1, <3>2 DEF Leads
  <2> QED BY <2>1, <2>2
<1>3. \A i \in 1 .. L : v[i].n \in Nat
  <2>1. \A x \in Bytes : x.n \in Nat
    BY ChunksAssumption DEF Bytes
  <2> QED BY <1>1, <2>1
<1>4. Leads(z, 0, q, k - M)
  <2>1. Leads(v, 0, q, k) /\ 0 <= L
    BY <1>1 DEF InStep
  <2> QED BY <1>2, <2>1
<1>5. ASSUME NEW j \in DOMAIN z, z[j].kind = "size"
      PROVE  Leads(z, j, z[j].n, k - M)
  <2>1. j \in 1 .. L /\ j \in Nat /\ j <= L
    <3>1. j \notin L + 1 .. L + M
      BY <1>1, <1>5
    <3> QED BY <1>1, <3>1
  <2>2. z[j] = v[j]
    BY <1>1, <2>1
  <2>3. Leads(v, j, v[j].n, k)
    BY <1>1, <1>5, <2>1, <2>2 DEF InStep
  <2> QED BY <1>2, <1>3, <2>1, <2>2, <2>3
<1> QED BY <1>4, <1>5 DEF InStep, z, M

(* A byte is read: the first of a chunk, its size ...                      *)
LEMMA SizeRead ==
  ASSUME NEW v \in Seq(Bytes), v # <<>>, NEW k \in Nat, InStep(0, v, k)
  PROVE  v[1].kind = "size" /\ InStep(v[1].n, Tail(v), k)
<1> DEFINE z == Tail(v)
<1>1. /\ Len(v) \in Nat \ {0} /\ Len(z) = Len(v) - 1
      /\ DOMAIN v = 1 .. Len(v) /\ DOMAIN z = 1 .. Len(v) - 1
      /\ \A i \in 1 .. Len(v) - 1 : z[i] = v[i + 1]
      /\ \A i \in 1 .. Len(v) : v[i] \in Bytes
  BY OneLess
<1> HIDE DEF z
<1>2. v[1].kind = "size"
  <2>1. 0 + 0 < Len(v) /\ 0 + 0 + 1 = 1
    BY <1>1
  <2> QED BY <2>1 DEF InStep, Leads
<1>3. \A i \in 1 .. Len(v) : v[i].n \in Nat
  <2>1. \A x \in Bytes : x.n \in Nat
    BY ChunksAssumption DEF Bytes
  <2> QED BY <1>1, <2>1
<1>4. ASSUME NEW j \in Nat, NEW n \in Nat, Leads(v, j + 1, n, k)
      PROVE  Leads(z, j, n, k)
  <2>1. \A b \in j + 1 .. j + n : b <= Len(z) => z[b].kind = "data"
    <3> SUFFICES ASSUME NEW b \in j + 1 .. j + n, b <= Len(z)
                 PROVE  z[b].kind = "data"
      OBVIOUS
    <3>1. b + 1 \in (j + 1) + 1 .. (j + 1) + n /\ b + 1 <= Len(v)
          /\ b \in 1 .. Len(v) - 1
      BY <1>1
    <3> QED BY <1>1, <1>4, <3>1 DEF Leads
  <2>2. j + n < Len(z) => z[j + n + 1].kind = "size"
    <3> SUFFICES ASSUME j + n < Len(z) PROVE z[j + n + 1].kind = "size"
      OBVIOUS
    <3>1. (j + 1) + n < Len(v) /\ j + n + 1 \in 1 .. Len(v) - 1
          /\ (j + 1) + n + 1 = (j + n + 1) + 1
      BY <1>1
    <3> QED BY <1>1, <1>4, <3>1 DEF Leads
  <2>3. j + n >= Len(z) => j + n = Len(z) + k
    BY <1>1, <1>4 DEF Leads
  <2> QED BY <2>1, <2>2, <2>3 DEF Leads
<1>5. Leads(z, 0, v[1].n, k)
  <2>1. Leads(v, 0 + 1, v[1].n, k)
    BY <1>1, <1>2 DEF InStep
  <2> QED BY <1>1, <1>3, <1>4, <2>1
<1>6. ASSUME NEW j \in DOMAIN z, z[j].kind = "size" PROVE Leads(z, j, z[j].n, k)
  <2>1. j \in Nat /\ j + 1 \in 1 .. Len(v) /\ z[j] = v[j + 1]
    BY <1>1
  <2>2. Leads(v, j + 1, v[j + 1].n, k)
    BY <1>1, <1>6, <2>1 DEF InStep
  <2> QED BY <1>3, <1>4, <2>1, <2>2
<1> QED BY <1>2, <1>5, <1>6 DEF InStep, z

(* ... and any other, data.                                                *)
LEMMA DataRead ==
  ASSUME NEW v \in Seq(Bytes), v # <<>>, NEW k \in Nat, NEW q \in Nat, q # 0,
         InStep(q, v, k)
  PROVE  v[1].kind = "data" /\ InStep(q - 1, Tail(v), k)
<1> DEFINE z == Tail(v)
<1>1. /\ Len(v) \in Nat \ {0} /\ Len(z) = Len(v) - 1
      /\ DOMAIN v = 1 .. Len(v) /\ DOMAIN z = 1 .. Len(v) - 1
      /\ \A i \in 1 .. Len(v) - 1 : z[i] = v[i + 1]
      /\ \A i \in 1 .. Len(v) : v[i] \in Bytes
  BY OneLess
<1> HIDE DEF z
<1>2. v[1].kind = "data"
  <2>1. 1 \in 0 + 1 .. 0 + q /\ 1 <= Len(v)
    BY <1>1
  <2> QED BY <2>1 DEF InStep, Leads
<1>3. \A i \in 1 .. Len(v) : v[i].n \in Nat
  <2>1. \A x \in Bytes : x.n \in Nat
    BY ChunksAssumption DEF Bytes
  <2> QED BY <1>1, <2>1
<1>4. ASSUME NEW j \in Nat, NEW i \in Nat, NEW n \in Nat, NEW l \in Nat,
             Leads(v, i, l, k), j + n + 1 = i + l, i <= j + 1
      PROVE  Leads(z, j, n, k)
  <2>1. \A b \in j + 1 .. j + n : b <= Len(z) => z[b].kind = "data"
    <3> SUFFICES ASSUME NEW b \in j + 1 .. j + n, b <= Len(z)
                 PROVE  z[b].kind = "data"
      OBVIOUS
    <3>1. b + 1 \in i + 1 .. i + l /\ b + 1 <= Len(v) /\ b \in 1 .. Len(v) - 1
      BY <1>1, <1>4
    <3> QED BY <1>1, <1>4, <3>1 DEF Leads
  <2>2. j + n < Len(z) => z[j + n + 1].kind = "size"
    <3> SUFFICES ASSUME j + n < Len(z) PROVE z[j + n + 1].kind = "size"
      OBVIOUS
    <3>1. i + l < Len(v) /\ j + n + 1 \in 1 .. Len(v) - 1
          /\ i + l + 1 = (j + n + 1) + 1
      BY <1>1, <1>4
    <3> QED BY <1>1, <1>4, <3>1 DEF Leads
  <2>3. j + n >= Len(z) => j + n = Len(z) + k
    <3>1. i + l >= Len(v) => i + l = Len(v) + k
      BY <1>4 DEF Leads
    <3>2. Len(v) \in Nat /\ Len(z) = Len(v) - 1 /\ j + n + 1 = i + l
      BY <1>1, <1>4
    <3> QED BY <3>1, <3>2
  <2> QED BY <2>1, <2>2, <2>3 DEF Leads
<1>5. Leads(z, 0, q - 1, k)
  <2>1. Leads(v, 0, q, k) /\ q - 1 \in Nat /\ 0 + (q - 1) + 1 = 0 + q
    BY DEF InStep
  <2> QED BY <1>4, <2>1
<1>6. ASSUME NEW j \in DOMAIN z, z[j].kind = "size" PROVE Leads(z, j, z[j].n, k)
  <2>1. j \in Nat /\ j + 1 \in 1 .. Len(v) /\ z[j] = v[j + 1] /\ z[j].n \in Nat
    BY <1>1, <1>3
  <2>2. Leads(v, j + 1, v[j + 1].n, k)
    BY <1>1, <1>6, <2>1 DEF InStep
  <2>3. /\ j + 1 \in Nat /\ j + 1 <= j + 1 /\ v[j + 1].n = z[j].n
        /\ j + z[j].n + 1 = (j + 1) + z[j].n
    BY <2>1
  <2>4. Leads(v, j + 1, z[j].n, k)
    BY <2>2, <2>3, Zenon
  <2> QED BY <1>4, <2>1, <2>3, <2>4, Zenon
<1> QED BY <1>2, <1>5, <1>6 DEF InStep, z
-----------------------------------------------------------------------------
(* Lemmas about the writer.                                                *)

(* A packet is data bytes.                                                 *)
LEMMA PacketBytes ==
  ASSUME NEW p \in Packets
  PROVE  /\ p \in Seq(Bytes) /\ Len(p) \in Nat
         /\ \A i \in DOMAIN p : p[i].kind = "data"
<1>1. PICK id \in 1 .. MaxPackets, len \in Lens : p = Packet(id, len)
  BY DEF Packets
<1>2. len \in Nat
  BY ChunksAssumption
<1>3. \A i \in 1 .. len : [kind |-> "data", n |-> id, at |-> i] \in Bytes
  BY ChunksAssumption DEF Bytes
<1>4. /\ p = [i \in 1 .. len |-> [kind |-> "data", n |-> id, at |-> i]]
      /\ p \in Seq(Bytes)
  BY <1>1, <1>2, <1>3 DEF Packet
<1>5. Len(p) \in Nat
  BY <1>4, LenProperties
<1>6. \A i \in DOMAIN p : p[i].kind = "data"
  BY <1>4
<1> QED BY <1>4, <1>5, <1>6

(* The size of a chunk is a byte.                                          *)
LEMMA SizeByteIsByte ==
  ASSUME NEW n \in 0 .. Cap
  PROVE  /\ SizeByte(n) \in Bytes /\ SizeByte(n).kind = "size"
         /\ SizeByte(n).n = n
BY ChunksAssumption DEF SizeByte, Bytes

(* What an endpoint holds.                                                 *)
LEMMA EndpointParts ==
  ASSUME NEW w \in Endpoints
  PROVE  /\ w.writing \in Seq(Packets) /\ w.writeat \in Nat
         /\ w.waiting \in 0 .. Cap /\ w.waiting \in Nat /\ w.waitat \in Nat
         /\ w.blocked \in BOOLEAN /\ w.ack \in BOOLEAN
         /\ w.reading \in Seq(Chunk)
         /\ w.writing # <<>> =>
              /\ Head(w.writing) \in Packets /\ Len(Head(w.writing)) \in Nat
              /\ Tail(w.writing) \in Seq(Packets)
<1>1. /\ w.writing \in Seq(Packets) /\ w.writeat \in Nat
      /\ w.waiting \in 0 .. Cap /\ w.waitat \in Nat
      /\ w.blocked \in BOOLEAN /\ w.ack \in BOOLEAN
      /\ w.reading \in Seq(Chunk)
  BY DEF Endpoints
<1>2. ASSUME w.writing # <<>>
      PROVE  /\ Head(w.writing) \in Packets
             /\ Tail(w.writing) \in Seq(Packets)
  BY <1>1, <1>2
<1>3. w.waiting \in Nat
  BY <1>1, ChunksAssumption
<1> QED BY <1>1, <1>2, <1>3, PacketBytes

(* What util_chunks_len leaves as it was.                                  *)
LEMMA PreparedInBounds ==
  ASSUME NEW w \in Endpoints, InBounds(w)
  PROVE  LET u == Prepared(w) IN
         /\ u \in Endpoints /\ InBounds(u)
         /\ u.waitat = w.waitat /\ Unwritten(u) = Unwritten(w)
         /\ u.reading = w.reading
<1>1. CASE w.blocked \/ w.writing = <<>> \/ w.waiting # 0
  BY <1>1 DEF Prepared
<1>2. CASE ~(w.blocked \/ w.writing = <<>> \/ w.waiting # 0)
  <2> DEFINE m == Least(Len(Head(w.writing)) - w.writeat, Cap)
             u == [w EXCEPT !.waiting = m]
  <2>1. w.writeat <= Len(Head(w.writing)) /\ w.waiting = 0 /\ w.waitat = 0
    BY <1>2, EndpointParts DEF InBounds
  <2>2. m \in 0 .. Cap /\ w.writeat + m <= Len(Head(w.writing)) /\ m \in Nat
    BY <1>2, <2>1, EndpointParts, ChunksAssumption DEF Least
  <2>3. Prepared(w) = u
    BY <1>2 DEF Prepared
  <2> HIDE DEF m
  <2>4. /\ u \in Endpoints /\ u.waiting = m /\ u.waitat = w.waitat
        /\ u.writing = w.writing /\ u.writeat = w.writeat
        /\ u.reading = w.reading
    BY <2>2 DEF Endpoints
  <2> HIDE DEF u
  <2>5. InBounds(u)
    BY <1>2, <2>1, <2>2, <2>4 DEF InBounds
  <2>6. Unwritten(u) = Unwritten(w)
    BY <2>1, <2>4 DEF Unwritten
  <2> QED BY <2>3, <2>4, <2>5, <2>6
<1> QED BY <1>1, <1>2

(* util_chunks_written stays in the packet, whatever it is told.           *)
LEMMA WrittenInBounds ==
  ASSUME NEW w \in Endpoints, InBounds(w), NEW n \in Nat
  PROVE  LET u == Written(w, n) IN
         /\ u \in Endpoints /\ InBounds(u) /\ u.reading = w.reading
         /\ (n = 0 \/ n > Offered(w)) => u = w
         /\ n # 0 /\ ~(n > Offered(w)) =>
              IF w.waitat + n <= w.waiting
              THEN u.waitat = w.waitat + n /\ u.waiting = w.waiting
                   /\ u.writing = w.writing /\ u.writeat = w.writeat
                   /\ u.blocked = w.blocked
              ELSE u.waitat = 0
<1> DEFINE past == [w EXCEPT !.writeat = @ + w.waiting, !.waitat = 0,
                             !.waiting = 0, !.ack = FALSE]
<1>1. CASE n = 0 \/ n > Offered(w)
  BY <1>1 DEF Written
<1>2. CASE ~(n = 0 \/ n > Offered(w)) /\ w.waitat + n <= w.waiting
  <2> DEFINE u == [w EXCEPT !.waitat = @ + n, !.ack = FALSE]
  <2>1. Written(w, n) = u
    BY <1>2 DEF Written
  <2>2. /\ u \in Endpoints /\ u.reading = w.reading
        /\ u.waitat = w.waitat + n /\ u.waiting = w.waiting
        /\ u.writing = w.writing /\ u.writeat = w.writeat
        /\ u.blocked = w.blocked
    <3>1. w.waitat + n \in Nat /\ w.waitat \in Nat
      BY EndpointParts
    <3> QED BY <3>1 DEF Endpoints
  <2> HIDE DEF u
  <2>3. InBounds(u)
    BY <1>2, <2>2 DEF InBounds
  <2> QED BY <1>2, <2>1, <2>2, <2>3
<1>3. CASE ~(n = 0 \/ n > Offered(w)) /\ ~(w.waitat + n <= w.waiting)
  <2>1. /\ past \in Endpoints /\ past.reading = w.reading
        /\ past.waitat = 0 /\ past.waiting = 0 /\ past.writing = w.writing
        /\ past.writeat = w.writeat + w.waiting
    <3> DEFINE at == w.writeat + w.waiting
    <3>1. at \in Nat /\ 0 \in 0 .. Cap /\ 0 \in Nat /\ FALSE \in BOOLEAN
      <4>1. w.writeat \in Nat /\ w.waiting \in Nat
        BY EndpointParts
      <4> QED BY <4>1, ChunksAssumption
    <3>2. past = [w EXCEPT !.writeat = at, !.waitat = 0, !.waiting = 0,
                           !.ack = FALSE]
      OBVIOUS
    <3> HIDE DEF at, past
    <3>3. /\ past.reading = w.reading
          /\ past.waitat = 0 /\ past.waiting = 0 /\ past.writing = w.writing
          /\ past.writeat = at
      BY <3>2 DEF Endpoints
    <3>4. past \in Endpoints
      BY <3>1, <3>2 DEF Endpoints
    <3> QED BY <3>3, <3>4 DEF at
  <2>2. CASE PacketDone(w, n)
    <3> DEFINE u == NextPacket(past)
    <3>1. Written(w, n) = u
      BY <1>3, <2>2 DEF Written
    <3>2. w.writing # <<>>
      BY <2>2 DEF PacketDone
    <3>3. /\ u \in Endpoints /\ u.reading = past.reading
          /\ u.waitat = 0 /\ u.waiting = 0 /\ u.writeat = 0
      <4> HIDE DEF past
      <4> QED BY <2>1, <3>2, EndpointParts, ChunksAssumption
              DEF NextPacket, Endpoints
    <3> HIDE DEF u, past
    <3>4. InBounds(u)
      BY <3>3, EndpointParts DEF InBounds
    <3> QED BY <1>3, <2>1, <3>1, <3>3, <3>4
  <2>3. CASE ~PacketDone(w, n)
    <3>1. Written(w, n) = past
      BY <1>3, <2>3 DEF Written
    <3> HIDE DEF past
    <3>2. InBounds(past)
      BY <2>1, EndpointParts DEF InBounds
    <3> QED BY <1>3, <2>1, <3>1, <3>2
  <2> QED BY <2>2, <2>3
<1> QED BY <1>1, <1>2, <1>3

(* A write that begins a chunk: its size.                                  *)
LEMMA SizeUnwritten ==
  ASSUME NEW w \in Endpoints, InBounds(w), w.waitat = 0, Offered(w) > 0
  PROVE  /\ Unwritten(w) = 0 /\ Unwritten(Written(w, 1)) = w.waiting
         /\ Offered(w) = 1 /\ Block(w, 1) = <<SizeByte(w.waiting)>>
<1>1. Offered(w) = 1
  BY EndpointParts DEF Offered
<1>2. Unwritten(w) = 0 /\ Block(w, 1) = <<SizeByte(w.waiting)>>
  BY DEF Unwritten, Block
<1>3. Unwritten(Written(w, 1)) = w.waiting
  <2> DEFINE u == Written(w, 1)
  <2>1. IF w.waitat + 1 <= w.waiting
        THEN u.waitat = w.waitat + 1 /\ u.waiting = w.waiting
        ELSE u.waitat = 0
    BY <1>1, WrittenInBounds
  <2> HIDE DEF u
  <2>2. Unwritten(u) = w.waiting
    BY <2>1, EndpointParts DEF Unwritten
  <2> QED BY <2>2 DEF u
<1> QED BY <1>1, <1>2, <1>3

(* A write that goes on with one: its data.                                *)
LEMMA DataUnwritten ==
  ASSUME NEW w \in Endpoints, InBounds(w), w.waitat # 0,
         NEW n \in Nat, n # 0, n <= Offered(w)
  PROVE  /\ n <= Unwritten(w) /\ Unwritten(w) \in Nat
         /\ Unwritten(Written(w, n)) = Unwritten(w) - n
         /\ Block(w, n) \in Seq(Bytes) /\ Len(Block(w, n)) = n
         /\ \A i \in DOMAIN Block(w, n) : Block(w, n)[i].kind = "data"
<1>1. /\ w.waitat <= w.waiting /\ w.writing # <<>>
      /\ w.writeat + w.waiting <= Len(Head(w.writing))
  BY EndpointParts DEF InBounds
<1>2. Offered(w) = w.waiting - (w.waitat - 1) /\ Unwritten(w) = Offered(w)
  BY <1>1, EndpointParts DEF Offered, Unwritten
<1>3. n <= Unwritten(w) /\ Unwritten(w) \in Nat
  BY <1>1, <1>2, EndpointParts
<1>4. Unwritten(Written(w, n)) = Unwritten(w) - n
  <2> DEFINE u == Written(w, n)
  <2>1. IF w.waitat + n <= w.waiting
        THEN u.waitat = w.waitat + n /\ u.waiting = w.waiting
        ELSE u.waitat = 0
    BY <1>2, <1>3, WrittenInBounds
  <2> HIDE DEF u
  <2>2. Unwritten(u) = Unwritten(w) - n
    BY <1>1, <1>2, <2>1, EndpointParts DEF Unwritten
  <2> QED BY <2>2 DEF u
<1>5. /\ Block(w, n) \in Seq(Bytes) /\ Len(Block(w, n)) = n
      /\ \A i \in DOMAIN Block(w, n) : Block(w, n)[i].kind = "data"
  <2> DEFINE p == Head(w.writing)
             from == w.writeat + w.waitat - 1
             s == SubSeq(p, from + 1, from + n)
  <2>1. Block(w, n) = s
    BY DEF Block
  <2>2. from \in Nat /\ from + n <= Len(p)
    <3>1. /\ w.writeat \in Nat /\ w.waiting \in Nat /\ w.waitat \in Nat
          /\ Len(p) \in Nat
      BY <1>1, EndpointParts
    <3>2. w.writeat + w.waiting <= Len(p) /\ n <= w.waiting - (w.waitat - 1)
      BY <1>1, <1>2
    <3> HIDE DEF p
    <3>3. \A at, g, t, l \in Nat :
            at + g <= l /\ t # 0 /\ n <= g - (t - 1) =>
              at + t - 1 \in Nat /\ at + t - 1 + n <= l
      OBVIOUS
    <3> QED BY <3>1, <3>2, <3>3, Zenon
  <2>3. p \in Seq(Bytes) /\ Len(p) \in Nat /\ DOMAIN p = 1 .. Len(p)
        /\ \A i \in 1 .. Len(p) : p[i] \in Bytes /\ p[i].kind = "data"
    BY <1>1, EndpointParts, PacketBytes
  <2> HIDE DEF p, from
  <2>4. \A i \in from + 1 .. from + n : p[i] \in Bytes
    BY <2>2, <2>3
  <2>5. /\ s \in Seq(Bytes)
        /\ Len(s) = IF from + 1 <= from + n THEN from + n - (from + 1) + 1 ELSE 0
        /\ \A i \in 1 .. from + n - (from + 1) + 1 : s[i] = p[from + 1 + i - 1]
    BY <2>2, <2>4, SubSeqProperties
  <2> HIDE DEF s
  <2>6. Len(s) = n /\ DOMAIN s = 1 .. n
    <3>1. from + n - (from + 1) + 1 = n /\ from + 1 <= from + n
      BY <2>2
    <3>2. Len(s) = n
      BY <2>5, <3>1, Zenon
    <3> QED BY <2>5, <3>2, LenProperties
  <2>7. ASSUME NEW i \in 1 .. n PROVE s[i].kind = "data"
    <3>1. /\ i \in 1 .. from + n - (from + 1) + 1
          /\ from + 1 + i - 1 \in 1 .. Len(p)
      BY <2>2, <2>3
    <3> QED BY <2>3, <2>5, <3>1
  <2> QED BY <2>1, <2>5, <2>6, <2>7
<1> QED BY <1>3, <1>4, <1>5
-----------------------------------------------------------------------------
(* Lemmas about the reader.                                                *)

(* The bytes wanted of the newest chunk.                                   *)
LeftOf(rs) == IF rs = <<>> THEN 0 ELSE rs[Len(rs)].size - Len(rs[Len(rs)].data)

LEMMA QuotaIsLeft ==
  ASSUME NEW r
  PROVE  Quota(r) = LeftOf(r.reading)
BY DEF Quota, LeftOf, Last

(* A chunk received.                                                       *)
LEMMA ChunkParts ==
  ASSUME NEW rs \in Seq(Chunk)
  PROVE  /\ Len(rs) \in Nat /\ DOMAIN rs = 1 .. Len(rs)
         /\ rs # <<>> => Len(rs) \in 1 .. Len(rs)
         /\ \A i \in 1 .. Len(rs) :
              /\ rs[i] \in Chunk /\ rs[i].size \in Nat
              /\ rs[i].data \in Seq(Bytes) /\ Len(rs[i].data) \in Nat
<1>1. \A x \in Chunk : x.size \in Nat /\ x.data \in Seq(Bytes)
  BY ChunksAssumption DEF Chunk
<1>2. /\ Len(rs) \in Nat /\ DOMAIN rs = 1 .. Len(rs)
      /\ \A i \in 1 .. Len(rs) : rs[i] \in Chunk
  OBVIOUS
<1>3. rs # <<>> => Len(rs) \in 1 .. Len(rs)
  OBVIOUS
<1>4. \A x \in Seq(Bytes) : Len(x) \in Nat
  OBVIOUS
<1> QED BY <1>1, <1>2, <1>3, <1>4

LEMMA LeftOfType ==
  ASSUME NEW rs \in Seq(Chunk), Filling(rs)
  PROVE  LeftOf(rs) \in Nat
BY ChunkParts DEF LeftOf, Filling

(* A byte appended to the chunk list.                                      *)
LEMMA ByteRead ==
  ASSUME NEW r \in Endpoints, Filling(r.reading), NEW b \in Bytes
  PROVE  LET u == ReadByte(r, b) IN
         /\ u \in Endpoints /\ Filling(u.reading)
         /\ u.writing = r.writing /\ u.writeat = r.writeat
         /\ u.waiting = r.waiting /\ u.waitat = r.waitat
         /\ Quota(u) = IF Quota(r) = 0 THEN b.n ELSE Quota(r) - 1
<1> DEFINE rs == r.reading
<1>1. rs \in Seq(Chunk) /\ b.n \in 0 .. Cap + MaxPackets /\ b.n \in Nat
  BY EndpointParts, ChunksAssumption DEF Bytes
<1>2. CASE Quota(r) = 0
  <2> DEFINE new == [size |-> b.n, data |-> <<>>]
             u == [r EXCEPT !.reading = Append(@, new), !.blocked = FALSE,
                            !.ack = @ \/ b.n > 0]
  <2>1. ReadByte(r, b) = u
    BY <1>2 DEF ReadByte
  <2>2. new \in Chunk /\ Len(new.data) = 0 /\ new.size = b.n
    BY <1>1 DEF Chunk
  <2> HIDE DEF new
  <2>3. /\ u.reading = Append(rs, new)
        /\ u.writing = r.writing /\ u.writeat = r.writeat
        /\ u.waiting = r.waiting /\ u.waitat = r.waitat
    BY DEF Endpoints
  <2>4. u \in Endpoints
    <3>1. Append(rs, new) \in Seq(Chunk) /\ (r.ack \/ b.n > 0) \in BOOLEAN
      BY <1>1, <2>2, EndpointParts
    <3> QED BY <3>1 DEF Endpoints
  <2> HIDE DEF u
  <2> DEFINE z == Append(rs, new)
  <2>5. /\ Len(z) = Len(rs) + 1 /\ z[Len(rs) + 1] = new
        /\ \A i \in 1 .. Len(rs) : z[i] = rs[i]
        /\ Len(rs) \in Nat /\ DOMAIN rs = 1 .. Len(rs)
        /\ DOMAIN z = 1 .. Len(rs) + 1 /\ z # <<>>
    BY <1>1, <2>2, OneMore
  <2> HIDE DEF z, rs
  <2>6. Filling(z)
    <3> SUFFICES ASSUME NEW i \in 1 .. Len(rs) + 1
                 PROVE  Len(z[i].data) <= z[i].size
      BY <2>5 DEF Filling
    <3>1. CASE i = Len(rs) + 1
      BY <1>1, <2>2, <2>5, <3>1
    <3>2. CASE i # Len(rs) + 1
      <4>1. i \in 1 .. Len(rs)
        BY <2>5, <3>2
      <4>2. Len(rs[i].data) <= rs[i].size
        BY <2>5, <4>1 DEF Filling, rs
      <4> QED BY <2>5, <4>1, <4>2
    <3> QED BY <3>1, <3>2
  <2>7. LeftOf(z) = b.n
    BY <1>1, <2>2, <2>5 DEF LeftOf
  <2>8. u.reading = z
    BY <2>3 DEF z, rs
  <2>9. Quota(u) = b.n
    BY <2>7, <2>8, QuotaIsLeft
  <2> QED BY <1>2, <2>1, <2>3, <2>4, <2>6, <2>8, <2>9
<1>3. CASE Quota(r) # 0
  <2> DEFINE L == Len(rs)
             ch == rs[L]
             new == [ch EXCEPT !.data = Append(@, b)]
             z == [rs EXCEPT ![L] = new]
             u == [r EXCEPT !.reading = z]
  <2>1. rs # <<>> /\ Quota(r) = ch.size - Len(ch.data)
    BY <1>3, QuotaIsLeft DEF LeftOf
  <2>2. L \in 1 .. L /\ L \in Nat /\ DOMAIN rs = 1 .. L /\ ch \in Chunk
        /\ ch.size \in Nat /\ ch.data \in Seq(Bytes) /\ Len(ch.data) \in Nat
    BY <1>1, <2>1, ChunkParts
  <2>3. Len(ch.data) <= ch.size
    BY <2>2 DEF Filling
  <2>4. ReadByte(r, b) = u
    <3>1. ReadByte(r, b) = [r EXCEPT !.reading[Len(r.reading)].data = Append(@, b)]
      BY <1>3 DEF ReadByte
    <3> QED BY <3>1
  <2> HIDE DEF ch
  <2>5. new \in Chunk /\ new.size = ch.size /\ Len(new.data) = Len(ch.data) + 1
    <3> DEFINE d == Append(ch.data, b)
    <3>1. d \in Seq(Bytes) /\ Len(d) = Len(ch.data) + 1
      BY <2>2, OneMore
    <3> HIDE DEF d
    <3>2. new = [ch EXCEPT !.data = d]
      BY DEF d
    <3>3. new \in Chunk /\ new.size = ch.size /\ new.data = d
      BY <2>2, <3>1, <3>2 DEF Chunk
    <3> QED BY <3>1, <3>3
  <2> HIDE DEF new
  <2>6. /\ z \in Seq(Chunk) /\ Len(z) = L /\ z[L] = new /\ DOMAIN z = 1 .. L
        /\ \A i \in 1 .. L : i # L => z[i] = rs[i]
    BY <1>1, <2>2, <2>5
  <2>z. z # <<>>
    BY <2>2, <2>6
  <2> HIDE DEF z
  <2>7. /\ u \in Endpoints /\ u.reading = z
        /\ u.writing = r.writing /\ u.writeat = r.writeat
        /\ u.waiting = r.waiting /\ u.waitat = r.waitat
    BY <2>6 DEF Endpoints
  <2> HIDE DEF u
  <2>8. Filling(z)
    <3> SUFFICES ASSUME NEW i \in 1 .. L PROVE Len(z[i].data) <= z[i].size
      BY <2>6 DEF Filling
    <3>1. CASE i = L
      <4>1. Len(ch.data) + 1 <= ch.size
        BY <1>3, <2>1, <2>2, <2>3
      <4> QED BY <2>5, <2>6, <3>1, <4>1
    <3>2. CASE i # L
      BY <2>2, <2>6, <3>2 DEF Filling
    <3> QED BY <3>1, <3>2
  <2>9. LeftOf(z) = Quota(r) - 1
    <3>1. LeftOf(z) = new.size - Len(new.data)
      BY <2>6, <2>z DEF LeftOf
    <3> QED BY <2>1, <2>2, <2>5, <3>1
  <2>10. Quota(u) = Quota(r) - 1
    BY <2>7, <2>9, QuotaIsLeft
  <2> QED BY <1>3, <2>4, <2>7, <2>8, <2>10
<1> QED BY <1>2, <1>3

(* util_chunks_receive drops chunks in front.  The chunk that is coming in *)
(* stays, unless it is a flush, of which nothing is wanted.                *)
LEMMA Dropped ==
  ASSUME NEW rs \in Seq(Chunk), Filling(rs), NEW m \in 1 .. Len(rs) + 1,
         m = Len(rs) + 1 /\ rs # <<>> => rs[Len(rs)].size = 0
  PROVE  LET s == SubSeq(rs, m, Len(rs)) IN
         s \in Seq(Chunk) /\ Filling(s) /\ LeftOf(s) = LeftOf(rs)
<1> DEFINE s == SubSeq(rs, m, Len(rs))
           L == Len(rs)
<1>1. /\ L \in Nat /\ m \in Nat /\ m <= L + 1 /\ DOMAIN rs = 1 .. L
      /\ \A i \in 1 .. L : rs[i] \in Chunk /\ rs[i].size \in Nat
                           /\ Len(rs[i].data) \in Nat
                           /\ Len(rs[i].data) <= rs[i].size
  BY ChunkParts DEF Filling
<1>e. rs = <<>> <=> L = 0
  OBVIOUS
<1>2. /\ s \in Seq(Chunk) /\ Len(s) = L - m + 1 /\ DOMAIN s = 1 .. Len(s)
      /\ \A i \in 1 .. Len(s) : s[i] = rs[m + i - 1]
  <2>1. \A i \in m .. L : rs[i] \in Chunk
    BY <1>1
  <2>2. /\ s \in Seq(Chunk)
        /\ Len(s) = IF m <= L THEN L - m + 1 ELSE 0
        /\ \A i \in 1 .. L - m + 1 : s[i] = rs[m + i - 1]
    BY <1>1, <2>1, SubSeqProperties
  <2>3. DOMAIN s = 1 .. Len(s)
    BY <2>2, LenProperties
  <2> HIDE DEF s, L
  <2> QED BY <1>1, <2>2, <2>3
<1> HIDE DEF s
<1>s. s = <<>> <=> Len(s) = 0
  BY <1>2
<1>3. ASSUME NEW i \in 1 .. Len(s) PROVE Len(s[i].data) <= s[i].size
  <2>1. m + i - 1 \in 1 .. L
    BY <1>1, <1>2
  <2> QED BY <1>1, <1>2, <2>1
<1>4. LeftOf(s) = LeftOf(rs)
  <2>1. CASE m <= L
    <3>1. Len(s) \in 1 .. Len(s) /\ m + Len(s) - 1 = L /\ Len(s) # 0 /\ L # 0
      BY <1>1, <1>2, <2>1
    <3>2. s[Len(s)] = rs[L]
      BY <1>2, <3>1
    <3> QED BY <1>e, <1>s, <3>1, <3>2 DEF LeftOf
  <2>2. CASE ~(m <= L)
    <3>1. m = L + 1 /\ Len(s) = 0
      BY <1>1, <1>2, <2>2
    <3>2. LeftOf(s) = 0
      BY <1>s, <3>1 DEF LeftOf
    <3>3. CASE rs = <<>>
      BY <3>2, <3>3 DEF LeftOf
    <3>4. CASE rs # <<>>
      <4>1. L \in 1 .. L /\ rs[L].size = 0
        BY <1>1, <1>e, <3>1, <3>4
      <4>2. Len(rs[L].data) = 0
        BY <1>1, <4>1
      <4> QED BY <3>2, <3>4, <4>1, <4>2 DEF LeftOf
    <3> QED BY <3>3, <3>4
  <2> QED BY <2>1, <2>2
<1> QED BY <1>2, <1>3, <1>4 DEF Filling, s

(* The acks in front: as many as there are flushes before anything else.   *)
LEMMA AcksDropped ==
  ASSUME NEW rs \in Seq(Chunk), Filling(rs)
  PROVE  LET s == Stripped(rs) IN
         s \in Seq(Chunk) /\ Filling(s) /\ LeftOf(s) = LeftOf(rs)
<1> DEFINE acks == {i \in 0 .. Len(rs) : 1 .. i \subseteq Flushes(rs)}
           m == Cardinality(acks)
<1>1. Len(rs) \in Nat /\ DOMAIN rs = 1 .. Len(rs)
  BY ChunkParts
<1>2. /\ IsFiniteSet(0 .. Len(rs))
      /\ Cardinality(0 .. Len(rs)) = Len(rs) + 1
  BY <1>1, FS_Interval
<1>3. acks \in SUBSET (0 .. Len(rs)) /\ 0 \in acks
  BY <1>1
<1>4. /\ IsFiniteSet(acks) /\ m <= Len(rs) + 1
      /\ m = Len(rs) + 1 => acks = 0 .. Len(rs)
  BY <1>2, <1>3, FS_Subset
<1>5. m \in Nat /\ m # 0
  <2>1. m \in Nat
    BY <1>4, FS_CardinalityType
  <2>2. m # 0
    BY <1>3, <1>4, FS_EmptySet
  <2> QED BY <2>1, <2>2
<1>6. m \in 1 .. Len(rs) + 1
  BY <1>1, <1>4, <1>5
<1>7. ASSUME m = Len(rs) + 1, rs # <<>> PROVE rs[Len(rs)].size = 0
  <2>1. Len(rs) \in acks /\ Len(rs) \in 1 .. Len(rs)
    <3>1. acks = 0 .. Len(rs)
      BY <1>4, <1>7, Zenon
    <3>2. Len(rs) \in 1 .. Len(rs) /\ Len(rs) \in 0 .. Len(rs)
      BY <1>1, <1>7, ChunkParts
    <3> HIDE DEF acks
    <3> QED BY <3>1, <3>2
  <2> QED BY <2>1 DEF Flushes
<1>8. Stripped(rs) = SubSeq(rs, m, Len(rs))
  BY DEF Stripped
<1> HIDE DEF m
<1> QED BY <1>6, <1>7, <1>8, Dropped

(* And the chunks of a packet, with the flush behind it.                   *)
LEMMA PacketDropped ==
  ASSUME NEW s \in Seq(Chunk), Filling(s), NEW i \in Flushes(s)
  PROVE  LET t == SubSeq(s, i + 1, Len(s)) IN
         t \in Seq(Chunk) /\ Filling(t) /\ LeftOf(t) = LeftOf(s)
<1>1. Len(s) \in Nat /\ i \in 1 .. Len(s) /\ s[i].size = 0
  BY ChunkParts DEF Flushes
<1>2. i + 1 \in 1 .. Len(s) + 1
  BY <1>1
<1>3. i + 1 = Len(s) + 1 /\ s # <<>> => s[Len(s)].size = 0
  BY <1>1
<1> QED BY <1>2, <1>3, Dropped
-----------------------------------------------------------------------------
(* The invariant.                                                          *)

LEMMA Ends ==
  ASSUME NEW e \in End
  PROVE  /\ Other(e) \in End /\ Other(e) # e /\ Other(Other(e)) = e
         /\ \A f \in End : f = e \/ f = Other(e)
BY DEF End, Other

(* An endpoint moves to u, and both wires stay in step.                    *)
LEMMA Moved ==
  ASSUME ChunksInv, NEW e \in End, NEW u \in Endpoints,
         InBounds(u), Filling(u.reading), e \in Frames => u.waitat = 0,
         c' = [c EXCEPT ![e] = u],
         wire' \in [End -> Seq(Bytes)], sent' \in [End -> Seq(Packets)],
         InStep(Quota(u), wire'[e], Unwritten(c[Other(e)])),
         InStep(Quota(c[Other(e)]), wire'[Other(e)], Unwritten(u))
  PROVE  ChunksInv'
<1>1. c \in [End -> Endpoints]
  BY DEF ChunksInv, ChunkTypes
<1>2. /\ c'[e] = u /\ \A f \in End : f # e => c'[f] = c[f]
      /\ c' \in [End -> Endpoints]
  BY <1>1
<1>3. /\ InBounds(c'[e]) /\ Filling(c'[e].reading)
      /\ e \in Frames => c'[e].waitat = 0
      /\ InStep(Quota(c'[e]), wire'[e], Unwritten(c'[Other(e)]))
  <2>1. c'[Other(e)] = c[Other(e)]
    BY <1>2, Ends
  <2> QED BY <1>2, <2>1
<1>4. ASSUME NEW f \in End, f # e
      PROVE  /\ InBounds(c'[f]) /\ Filling(c'[f].reading)
             /\ f \in Frames => c'[f].waitat = 0
             /\ InStep(Quota(c'[f]), wire'[f], Unwritten(c'[Other(f)]))
  <2>1. f = Other(e) /\ Other(f) = e /\ c'[f] = c[f]
    BY <1>2, <1>4, Ends
  <2>2. /\ InBounds(c[f]) /\ Filling(c[f].reading)
        /\ f \in Frames => c[f].waitat = 0
    BY DEF ChunksInv
  <2> QED BY <1>2, <2>1, <2>2
<1>5. ChunkTypes'
  BY <1>2 DEF ChunkTypes
<1>6. \A f \in End :
        /\ InBounds(c'[f]) /\ Filling(c'[f].reading)
        /\ f \in Frames => c'[f].waitat = 0
        /\ InStep(Quota(c'[f]), wire'[f], Unwritten(c'[Other(f)]))
  BY <1>3, <1>4
<1>7. (\A f \in End :
        /\ InBounds(c[f]) /\ Filling(c[f].reading)
        /\ f \in Frames => c[f].waitat = 0
        /\ InStep(Quota(c[f]), wire[f], Unwritten(c[Other(f)])))'
  BY <1>6
<1> QED BY <1>5, <1>7 DEF ChunksInv

(* What the invariant says of the two ends of a wire.                      *)
LEMMA Seen ==
  ASSUME ChunksInv, NEW e \in End
  PROVE  /\ c[e] \in Endpoints /\ InBounds(c[e]) /\ Filling(c[e].reading)
         /\ e \in Frames => c[e].waitat = 0
         /\ wire[e] \in Seq(Bytes)
         /\ Quota(c[e]) \in Nat /\ Unwritten(c[e]) \in Nat
         /\ InStep(Quota(c[e]), wire[e], Unwritten(c[Other(e)]))
<1>1. /\ c[e] \in Endpoints /\ InBounds(c[e]) /\ Filling(c[e].reading)
      /\ e \in Frames => c[e].waitat = 0
      /\ wire[e] \in Seq(Bytes)
      /\ InStep(Quota(c[e]), wire[e], Unwritten(c[Other(e)]))
  BY DEF ChunksInv, ChunkTypes
<1>2. Quota(c[e]) \in Nat
  BY <1>1, EndpointParts, QuotaIsLeft, LeftOfType
<1>3. Unwritten(c[e]) \in Nat
  BY <1>1, EndpointParts DEF Unwritten, InBounds
<1> QED BY <1>1, <1>2, <1>3

(* Nothing has been written yet.                                           *)
LEMMA ChunksStart == Init => ChunksInv
<1> SUFFICES ASSUME Init PROVE ChunksInv
  OBVIOUS
<1>1. Fresh \in Endpoints
  BY ChunksAssumption DEF Fresh, Endpoints
<1>2. InBounds(Fresh) /\ Filling(Fresh.reading) /\ Fresh.waitat = 0
      /\ Quota(Fresh) = 0 /\ Unwritten(Fresh) = 0
  BY DEF Fresh, InBounds, Filling, Quota, Unwritten
<1>3. InStep(0, <<>>, 0)
  BY DEF InStep, Leads
<1>4. c \in [End -> Endpoints] /\ \A e \in End : c[e] = Fresh
  BY <1>1 DEF Init
<1>5. wire \in [End -> Seq(Bytes)] /\ \A e \in End : wire[e] = <<>>
  BY DEF Init
<1>6. sent \in [End -> Seq(Packets)]
  BY DEF Init
<1>7. \A e \in End : Other(e) \in End
  BY Ends
<1> QED BY <1>2, <1>3, <1>4, <1>5, <1>6, <1>7 DEF ChunksInv, ChunkTypes

(* A byte is read.                                                         *)
LEMMA ChunksRead ==
  ASSUME ChunksInv, NEW e \in End, Read(e)
  PROVE  ChunksInv'
<1> DEFINE v == wire[e]
           b == Head(v)
           k == Unwritten(c[Other(e)])
           u == ReadByte(c[e], b)
<1>1. /\ v # <<>> /\ v \in Seq(Bytes) /\ c[e] \in Endpoints
      /\ Filling(c[e].reading) /\ InBounds(c[e])
      /\ k \in Nat /\ Quota(c[e]) \in Nat /\ InStep(Quota(c[e]), v, k)
      /\ e \in Frames => c[e].waitat = 0
  BY Seen, Ends DEF Read
<1>2. b \in Bytes /\ b = v[1]
  BY <1>1, OneLess
<1>3. /\ u \in Endpoints /\ Filling(u.reading)
      /\ u.writing = c[e].writing /\ u.writeat = c[e].writeat
      /\ u.waiting = c[e].waiting /\ u.waitat = c[e].waitat
      /\ Quota(u) = IF Quota(c[e]) = 0 THEN b.n ELSE Quota(c[e]) - 1
  BY <1>1, <1>2, ByteRead
<1> HIDE DEF u
<1>4. InBounds(u) /\ Unwritten(u) = Unwritten(c[e])
  BY <1>1, <1>3 DEF InBounds, Unwritten
<1>5. c' = [c EXCEPT ![e] = u]
  BY DEF Read, u
<1>6. /\ wire' = [wire EXCEPT ![e] = Tail(v)] /\ sent' = sent
      /\ wire \in [End -> Seq(Bytes)] /\ sent \in [End -> Seq(Packets)]
  BY DEF Read, ChunksInv, ChunkTypes
<1>7. Tail(v) \in Seq(Bytes)
  BY <1>1, OneLess
<1>8. /\ wire' \in [End -> Seq(Bytes)] /\ wire'[e] = Tail(v)
      /\ wire'[Other(e)] = wire[Other(e)]
  BY <1>6, <1>7, Ends
<1>9. InStep(Quota(u), Tail(v), k)
  <2>1. CASE Quota(c[e]) = 0
    BY <1>1, <1>2, <1>3, <2>1, SizeRead
  <2>2. CASE Quota(c[e]) # 0
    BY <1>1, <1>3, <2>2, DataRead
  <2> QED BY <2>1, <2>2
<1>10. InStep(Quota(c[Other(e)]), wire[Other(e)], Unwritten(u))
  <2>1. Other(e) \in End /\ Other(Other(e)) = e
    BY Ends
  <2> QED BY <1>4, <2>1, Seen
<1>11. e \in Frames => u.waitat = 0
  BY <1>1, <1>3
<1> HIDE DEF v, k
<1> QED BY <1>3, <1>4, <1>5, <1>6, <1>8, <1>9, <1>10, <1>11, Moved DEF k

(* A packet waits behind the others.                                       *)
LEMMA ChunksSend ==
  ASSUME ChunksInv, NEW e \in End, Send(e)
  PROVE  ChunksInv'
<1>1. PICK len \in Lens :
        LET p == Packet(Len(sent[e]) + 1, len) IN
        /\ c' = [c EXCEPT ![e].writing = Append(@, p)]
        /\ sent' = [sent EXCEPT ![e] = Append(@, p)]
  BY DEF Send
<1> DEFINE p == Packet(Len(sent[e]) + 1, len)
           w == c[e]
           q == Append(w.writing, p)
           u == [w EXCEPT !.writing = q]
<1>2. /\ w \in Endpoints /\ InBounds(w) /\ Filling(w.reading)
      /\ e \in Frames => w.waitat = 0
      /\ Other(e) \in End /\ Other(Other(e)) = e
  BY Seen, Ends
<1>3. /\ sent \in [End -> Seq(Packets)] /\ c \in [End -> Endpoints]
      /\ wire \in [End -> Seq(Bytes)]
      /\ Len(sent[1]) \in Nat /\ Len(sent[2]) \in Nat
      /\ Len(sent[1]) + Len(sent[2]) < MaxPackets
      /\ Len(sent[e]) \in Nat
  BY DEF ChunksInv, ChunkTypes, Send, End
<1>4. Len(sent[e]) + 1 \in 1 .. MaxPackets
  BY <1>3, ChunksAssumption DEF End
<1>5. p \in Packets
  BY <1>4 DEF Packets
<1>6. c' = [c EXCEPT ![e] = u]
  <2>1. c' = [c EXCEPT ![e].writing = Append(@, p)]
    BY <1>1
  <2> HIDE DEF p
  <2> QED BY <2>1
<1>7. sent' \in [End -> Seq(Packets)]
  <2>1. sent' = [sent EXCEPT ![e] = Append(@, p)]
    BY <1>1
  <2> HIDE DEF p
  <2>2. sent[e] \in Seq(Packets)
    BY <1>3
  <2>3. Append(sent[e], p) \in Seq(Packets)
    BY <1>5, <2>2
  <2> QED BY <1>3, <2>1, <2>3
<1> HIDE DEF p
<1>8. q \in Seq(Packets) /\ q # <<>>
      /\ Head(q) = IF w.writing = <<>> THEN p ELSE Head(w.writing)
  <2>1. w.writing \in Seq(Packets)
    BY <1>2, EndpointParts
  <2>2. q \in Seq(Packets) /\ q # <<>>
    BY <1>5, <2>1, OneMore
  <2>3. Head(q) = IF w.writing = <<>> THEN p ELSE Head(w.writing)
    BY <1>5, <2>1
  <2> QED BY <2>2, <2>3
<1> HIDE DEF q
<1>9. /\ u \in Endpoints /\ u.writing = q /\ u.reading = w.reading
      /\ u.waitat = w.waitat /\ u.waiting = w.waiting
      /\ u.writeat = w.writeat
  <2> HIDE DEF w
  <2> QED BY <1>2, <1>8 DEF Endpoints
<1> HIDE DEF u
<1>10. InBounds(u)
  <2>1. CASE w.writing = <<>>
    BY <1>2, <1>5, <1>8, <1>9, <2>1, PacketBytes DEF InBounds
  <2>2. CASE w.writing # <<>>
    BY <1>2, <1>8, <1>9, <2>2 DEF InBounds
  <2> QED BY <2>1, <2>2
<1>11. Unwritten(u) = Unwritten(w) /\ Quota(u) = Quota(w)
  BY <1>9, QuotaIsLeft DEF Unwritten
<1>12. wire' = wire
  BY DEF Send
<1>13. /\ InStep(Quota(u), wire'[e], Unwritten(c[Other(e)]))
       /\ InStep(Quota(c[Other(e)]), wire'[Other(e)], Unwritten(u))
  BY <1>2, <1>11, <1>12, Seen
<1> QED BY <1>2, <1>3, <1>6, <1>7, <1>9, <1>10, <1>12, <1>13, Moved

(* A byte stream takes some of the bytes offered, and the writer accounts  *)
(* for those it took.                                                      *)
BytesWritten(e) ==
  /\ e \notin Frames
  /\ \E w \in {Prepared(c[e])} : \E n \in Taken(w) :
       /\ wire' = [wire EXCEPT ![Other(e)] = @ \o Block(w, n)]
       /\ c' = [c EXCEPT ![e] = Written(w, n)]
  /\ UNCHANGED <<sent, got>>

(* So it is on a socket, and on a serial port that takes whole writes.     *)
LEMMA StreamWritesBytes ==
  ASSUME ~SerialShort, NEW e \in End, StreamWrite(e)
  PROVE  BytesWritten(e)
<1>1. CASE e \notin Serial
  BY <1>1 DEF StreamWrite, BytesWritten
<1>2. CASE e \in Serial
  <2> DEFINE w == Prepared(c[e])
             n == Offered(w)
  <2>1. PICK k \in SerialTaken(w) :
          /\ wire' = [wire EXCEPT ![Other(e)] = @ \o Block(w, k)]
          /\ c' = [c EXCEPT ![e] = Written(w, n)]
    BY <1>2 DEF StreamWrite
  <2>2. k = n /\ n \in 1 .. n
    BY <2>1 DEF SerialTaken
  <2>3. n # n - 1
    BY <2>2
  <2>4. n \in Taken(w)
    BY <2>2, <2>3 DEF Taken
  <2>5. e \notin Frames /\ UNCHANGED <<sent, got>>
    BY <1>2 DEF StreamWrite
  <2> HIDE DEF w, n
  <2> QED BY <2>1, <2>2, <2>4, <2>5 DEF BytesWritten, w
<1> QED BY <1>1, <1>2

LEMMA ChunksStreamWrite ==
  ASSUME ChunksInv, NEW e \in End, BytesWritten(e)
  PROVE  ChunksInv'
<1> DEFINE w == Prepared(c[e])
           o == Other(e)
<1>1. PICK n \in Taken(w) :
        /\ wire' = [wire EXCEPT ![o] = @ \o Block(w, n)]
        /\ c' = [c EXCEPT ![e] = Written(w, n)]
  BY DEF BytesWritten
<1> DEFINE u == Written(w, n)
           ms == Block(w, n)
           v == wire[o]
<1>2. /\ c[e] \in Endpoints /\ InBounds(c[e]) /\ Filling(c[e].reading)
      /\ o \in End /\ Other(o) = e
      /\ v \in Seq(Bytes) /\ Quota(c[o]) \in Nat /\ Unwritten(c[e]) \in Nat
      /\ InStep(Quota(c[o]), v, Unwritten(c[e]))
      /\ InStep(Quota(c[e]), wire[e], Unwritten(c[o]))
      /\ o # e /\ e \notin Frames
  BY Seen, Ends DEF BytesWritten
<1>3. /\ w \in Endpoints /\ InBounds(w)
      /\ Unwritten(w) = Unwritten(c[e]) /\ w.reading = c[e].reading
  BY <1>2, PreparedInBounds
<1>4. sent' = sent /\ sent \in [End -> Seq(Packets)]
      /\ wire \in [End -> Seq(Bytes)]
  BY DEF BytesWritten, ChunksInv, ChunkTypes
<1> HIDE DEF w, o
<1>5. Offered(w) \in Nat /\ n \in 1 .. Offered(w) /\ n \in Nat
  <2>1. Offered(w) \in Nat
    BY <1>3, EndpointParts DEF Offered, InBounds
  <2> QED BY <2>1 DEF Taken
<1>6. /\ u \in Endpoints /\ InBounds(u) /\ u.reading = w.reading
  BY <1>3, <1>5, WrittenInBounds
<1>7. ms \in Seq(Bytes) /\ InStep(Quota(c[o]), v \o ms, Unwritten(u))
  <2>1. CASE w.waitat = 0
    <3>1. n = 1 /\ Offered(w) > 0
      <4>1. Offered(w) <= 1
        BY <2>1, <1>3, EndpointParts DEF Offered
      <4> QED BY <1>5, <4>1
    <3>2. /\ Unwritten(w) = 0 /\ Unwritten(u) = w.waiting
          /\ ms = <<SizeByte(w.waiting)>>
      BY <1>3, <2>1, <3>1, SizeUnwritten
    <3> DEFINE m == SizeByte(w.waiting)
    <3>3. m \in Bytes /\ m.kind = "size" /\ m.n = w.waiting
      BY <1>3, EndpointParts, SizeByteIsByte
    <3> HIDE DEF m, v, u, ms
    <3>4. v \o ms = Append(v, m)
      BY <1>2, <3>2, <3>3 DEF m
    <3>5. InStep(Quota(c[o]), Append(v, m), m.n)
      BY <1>2, <1>3, <3>2, <3>3, SizeWritten
    <3>6. ms \in Seq(Bytes)
      BY <3>2, <3>3 DEF m
    <3> QED BY <3>2, <3>3, <3>4, <3>5, <3>6
  <2>2. CASE w.waitat # 0
    <3>1. /\ n <= Unwritten(w)
          /\ Unwritten(u) = Unwritten(w) - n
          /\ ms \in Seq(Bytes) /\ Len(ms) = n
          /\ \A i \in DOMAIN ms : ms[i].kind = "data"
      BY <1>3, <1>5, <2>2, DataUnwritten
    <3> HIDE DEF v, u, ms
    <3>2. InStep(Quota(c[o]), v \o ms, Unwritten(w) - Len(ms))
      BY <1>2, <1>3, <3>1, DataWritten
    <3> QED BY <3>1, <3>2
  <2> QED BY <2>1, <2>2
<1> HIDE DEF ms, u, v
<1>8. /\ wire' \in [End -> Seq(Bytes)] /\ wire'[o] = v \o ms
      /\ wire'[e] = wire[e]
  <2>1. wire' = [wire EXCEPT ![o] = @ \o ms]
    BY <1>1 DEF ms
  <2>2. v \o ms \in Seq(Bytes)
    BY <1>2, <1>7, ConcatProperties
  <2> QED BY <1>2, <1>4, <2>1, <2>2 DEF v
<1>9. c' = [c EXCEPT ![e] = u]
  BY <1>1 DEF u
<1>10. Quota(u) = Quota(c[e])
  BY <1>3, <1>6, QuotaIsLeft
<1> QED BY <1>2, <1>3, <1>4, <1>6, <1>7, <1>8, <1>9, <1>10, Moved DEF o

(* A frame carries a chunk, or only a flush or an ack.                     *)
LEMMA ChunksFrameWrite ==
  ASSUME ChunksInv, NEW e \in End, FrameWrite(e)
  PROVE  ChunksInv'
<1> DEFINE w == Prepared(c[e])
           o == Other(e)
           sized == Written(w, 1)
           u == Written(sized, w.waiting)
           v == wire[o]
           m == SizeByte(w.waiting)
           ms == IF w.waiting = 0 THEN <<>> ELSE Block(sized, w.waiting)
           z == Append(v, m)
<1>1. /\ wire' = [wire EXCEPT ![o] = Append(@, m) \o ms]
      /\ c' = [c EXCEPT ![e] = u]
      /\ Offered(w) > 0 /\ e \in Frames
  BY DEF FrameWrite
<1>2. /\ c[e] \in Endpoints /\ InBounds(c[e]) /\ Filling(c[e].reading)
      /\ o \in End /\ Other(o) = e
      /\ v \in Seq(Bytes) /\ Quota(c[o]) \in Nat /\ Unwritten(c[e]) \in Nat
      /\ InStep(Quota(c[o]), v, Unwritten(c[e]))
      /\ InStep(Quota(c[e]), wire[e], Unwritten(c[o]))
      /\ o # e /\ c[e].waitat = 0
  BY <1>1, Seen, Ends
<1>3. /\ w \in Endpoints /\ InBounds(w) /\ w.waitat = 0
      /\ Unwritten(w) = Unwritten(c[e]) /\ w.reading = c[e].reading
  BY <1>2, PreparedInBounds
<1>4. sent' = sent /\ sent \in [End -> Seq(Packets)]
      /\ wire \in [End -> Seq(Bytes)]
  BY DEF FrameWrite, ChunksInv, ChunkTypes
<1> HIDE DEF w, o
<1>5. Unwritten(w) = 0 /\ Unwritten(sized) = w.waiting /\ Offered(w) = 1
  BY <1>1, <1>3, SizeUnwritten
<1>6. /\ sized \in Endpoints /\ InBounds(sized) /\ sized.reading = w.reading
      /\ IF 1 <= w.waiting
         THEN sized.waitat = 1 /\ sized.waiting = w.waiting
              /\ sized.writing = w.writing /\ sized.blocked = w.blocked
         ELSE sized.waitat = 0
  BY <1>3, <1>5, WrittenInBounds
<1>7. m \in Bytes /\ m.kind = "size" /\ m.n = w.waiting /\ w.waiting \in Nat
  BY <1>3, EndpointParts, SizeByteIsByte
<1> HIDE DEF sized, m, v
<1>8. z \in Seq(Bytes) /\ InStep(Quota(c[o]), z, w.waiting)
  <2>1. InStep(Quota(c[o]), v, 0)
    BY <1>2, <1>3, <1>5
  <2>2. InStep(Quota(c[o]), z, m.n)
    BY <1>2, <1>7, <2>1, SizeWritten
  <2>3. z \in Seq(Bytes)
    BY <1>2, <1>7, OneMore
  <2> HIDE DEF z
  <2> QED BY <1>7, <2>2, <2>3
<1> HIDE DEF z
<1>9. /\ u \in Endpoints /\ InBounds(u) /\ u.reading = w.reading
      /\ u.waitat = 0 /\ ms \in Seq(Bytes)
      /\ InStep(Quota(c[o]), z \o ms, Unwritten(u))
  <2>1. u \in Endpoints /\ InBounds(u) /\ u.reading = w.reading
    BY <1>6, <1>7, WrittenInBounds
  <2>2. CASE w.waiting = 0
    <3>1. u = sized /\ sized.waitat = 0
      BY <1>6, <1>7, <2>2, WrittenInBounds
    <3>2. ms = <<>> /\ ms \in Seq(Bytes)
      BY <2>2
    <3>3. z \o ms = z
      BY <1>8, <3>2
    <3> HIDE DEF u, ms
    <3> QED BY <1>5, <1>8, <2>1, <2>2, <3>1, <3>2, <3>3
  <2>3. CASE w.waiting # 0
    <3>1. /\ sized.waitat = 1 /\ sized.waiting = w.waiting
          /\ sized.writing = w.writing /\ sized.blocked = w.blocked
      BY <1>6, <1>7, <2>3
    <3>2. w.writing # <<>>
      BY <1>3, <2>3 DEF InBounds
    <3>3. ~w.blocked
      BY <1>5 DEF Offered
    <3>4. Offered(sized) = w.waiting
      BY <1>7, <3>1, <3>2, <3>3 DEF Offered
    <3>5. /\ Unwritten(u) = Unwritten(sized) - w.waiting
          /\ Block(sized, w.waiting) \in Seq(Bytes)
          /\ Len(Block(sized, w.waiting)) = w.waiting
          /\ \A i \in DOMAIN Block(sized, w.waiting) :
               Block(sized, w.waiting)[i].kind = "data"
      BY <1>6, <1>7, <2>3, <3>1, <3>4, DataUnwritten
    <3>6. ms = Block(sized, w.waiting)
      BY <2>3
    <3>7. u.waitat = 0
      <4>1. /\ w.waiting # 0 /\ ~(w.waiting > Offered(sized))
            /\ ~(sized.waitat + w.waiting <= sized.waiting)
        BY <1>7, <2>3, <3>1, <3>4
      <4> QED BY <1>6, <1>7, <4>1, WrittenInBounds
    <3> HIDE DEF u, ms
    <3>8. /\ Unwritten(u) = w.waiting - w.waiting
          /\ ms \in Seq(Bytes) /\ Len(ms) = w.waiting
          /\ \A i \in DOMAIN ms : ms[i].kind = "data"
      BY <1>5, <3>5, <3>6
    <3>9. InStep(Quota(c[o]), z \o ms, w.waiting - Len(ms))
      BY <1>2, <1>7, <1>8, <3>8, DataWritten
    <3> QED BY <2>1, <3>7, <3>8, <3>9
  <2> QED BY <2>2, <2>3
<1>10. /\ wire' \in [End -> Seq(Bytes)] /\ wire'[o] = z \o ms
       /\ wire'[e] = wire[e]
  <2> HIDE DEF ms
  <2>1. z \o ms \in Seq(Bytes)
    BY <1>8, <1>9, ConcatProperties
  <2> QED BY <1>1, <1>2, <1>4, <2>1 DEF z, v
<1> HIDE DEF u, ms
<1>11. Quota(u) = Quota(c[e])
  BY <1>3, <1>9, QuotaIsLeft
<1>12. c' = [c EXCEPT ![e] = u]
  BY <1>1 DEF u, sized
<1> QED BY <1>2, <1>3, <1>4, <1>9, <1>10, <1>11, <1>12, Moved DEF o

(* The chunks of the acks and of a packet are dropped.                     *)
LEMMA ChunksReceive ==
  ASSUME ChunksInv, NEW e \in End, Receive(e)
  PROVE  ChunksInv'
<1> DEFINE r == c[e]
           s == Stripped(r.reading)
<1>1. /\ r \in Endpoints /\ InBounds(r) /\ Filling(r.reading)
      /\ e \in Frames => r.waitat = 0
      /\ Other(e) \in End /\ Other(Other(e)) = e
  BY Seen, Ends
<1>2. s \in Seq(Chunk) /\ Filling(s) /\ LeftOf(s) = LeftOf(r.reading)
  BY <1>1, EndpointParts, AcksDropped
<1>3. /\ wire' = wire /\ wire \in [End -> Seq(Bytes)]
      /\ sent' = sent /\ sent \in [End -> Seq(Packets)]
  BY DEF Receive, ChunksInv, ChunkTypes
<1>4. ASSUME NEW u \in Endpoints, c' = [c EXCEPT ![e] = u],
             u.writing = r.writing, u.writeat = r.writeat,
             u.waiting = r.waiting, u.waitat = r.waitat,
             Filling(u.reading), LeftOf(u.reading) = LeftOf(r.reading)
      PROVE  ChunksInv'
  <2> HIDE DEF s
  <2>1. InBounds(u) /\ Unwritten(u) = Unwritten(r) /\ Quota(u) = Quota(r)
        /\ (e \in Frames => u.waitat = 0)
    <3> HIDE DEF r
    <3> QED BY <1>1, <1>4, QuotaIsLeft DEF InBounds, Unwritten
  <2>2. /\ InStep(Quota(u), wire'[e], Unwritten(c[Other(e)]))
        /\ InStep(Quota(c[Other(e)]), wire'[Other(e)], Unwritten(u))
    BY <1>1, <1>3, <2>1, Seen
  <2> QED BY <1>3, <1>4, <2>1, <2>2, Moved
<1>5. CASE Flushes(s) = {} /\ c' = [c EXCEPT ![e].reading = s]
  <2> DEFINE u == [r EXCEPT !.reading = s]
  <2>1. c' = [c EXCEPT ![e] = u]
    BY <1>5
  <2> HIDE DEF s, r
  <2>2. /\ u \in Endpoints /\ u.reading = s
        /\ u.writing = r.writing /\ u.writeat = r.writeat
        /\ u.waiting = r.waiting /\ u.waitat = r.waitat
    BY <1>1, <1>2 DEF Endpoints
  <2> HIDE DEF u
  <2> QED BY <1>2, <1>4, <2>1, <2>2
<1>6. CASE \E i \in Flushes(s) : c' = [c EXCEPT ![e] = Reassembled(@, s, i)]
  <2>1. PICK i \in Flushes(s) : c' = [c EXCEPT ![e] = Reassembled(@, s, i)]
    BY <1>6
  <2> DEFINE t == SubSeq(s, i + 1, Len(s))
             u == [r EXCEPT !.reading = t, !.ack = TRUE]
  <2>2. c' = [c EXCEPT ![e] = u]
    BY <2>1 DEF Reassembled
  <2> HIDE DEF s, r
  <2>3. t \in Seq(Chunk) /\ Filling(t) /\ LeftOf(t) = LeftOf(s)
    BY <1>2, PacketDropped
  <2> HIDE DEF t
  <2>4. /\ u \in Endpoints /\ u.reading = t
        /\ u.writing = r.writing /\ u.writeat = r.writeat
        /\ u.waiting = r.waiting /\ u.waitat = r.waitat
    BY <1>1, <2>3 DEF Endpoints
  <2> HIDE DEF u
  <2> QED BY <1>2, <1>4, <2>2, <2>3, <2>4
<1> QED BY <1>5, <1>6 DEF Receive

LEMMA ChunksStep ==
  ASSUME ~SerialShort, ChunksInv, [Next]_vars
  PROVE  ChunksInv'
<1>1. ASSUME NEW e \in End, Send(e) PROVE ChunksInv'
  BY <1>1, ChunksSend
<1>2. ASSUME NEW e \in End, Write(e) PROVE ChunksInv'
  BY <1>2, StreamWritesBytes, ChunksStreamWrite, ChunksFrameWrite DEF Write
<1>3. ASSUME NEW e \in End, Read(e) PROVE ChunksInv'
  BY <1>3, ChunksRead
<1>4. ASSUME NEW e \in End, Receive(e) PROVE ChunksInv'
  BY <1>4, ChunksReceive
<1>5. CASE UNCHANGED vars
  <2>1. c' = c /\ wire' = wire /\ sent' = sent
    BY <1>5 DEF vars
  <2> QED BY <2>1 DEF ChunksInv, ChunkTypes
<1> QED BY <1>1, <1>2, <1>3, <1>4, <1>5 DEF Next
-----------------------------------------------------------------------------
(* Offsets and framing.                                                    *)

(* util_chunks_write and util_chunks_written never let the offsets of the  *)
(* writer leave the packet it is writing, however few bytes a socket takes,*)
(* as long as a serial port takes whole writes.                            *)
THEOREM ChunksWriteInBounds ==
  ASSUME ~SerialShort
  PROVE  Spec => []WriteInBounds
<1>1. ChunksInv => WriteInBounds
  BY DEF ChunksInv, InBounds, WriteInBounds
<1>2. ChunksInv /\ [Next]_vars => ChunksInv'
  BY ChunksStep
<1> QED BY <1>1, <1>2, ChunksStart, PTL DEF Spec

(* _util_chunks_append takes a byte for the size of a chunk exactly when   *)
(* the writer wrote it as one: over sockets however they cut the writes,   *)
(* over frames, and over serial ports that take whole writes.  Where a     *)
(* serial port may take less, serial.c:48 counts bytes as written that     *)
(* never left, and it is not so.                                           *)
THEOREM ChunksFramingInSync ==
  ASSUME ~SerialShort
  PROVE  Spec => []FramingInSync
<1>1. ChunksInv => FramingInSync
  <2> SUFFICES ASSUME ChunksInv, NEW e \in End, wire[e] # <<>>
               PROVE  Quota(c[e]) = 0 <=> Head(wire[e]).kind = "size"
    BY DEF FramingInSync
  <2>1. /\ wire[e] \in Seq(Bytes) /\ Quota(c[e]) \in Nat
        /\ Unwritten(c[Other(e)]) \in Nat
        /\ InStep(Quota(c[e]), wire[e], Unwritten(c[Other(e)]))
    BY Seen, Ends
  <2>2. Head(wire[e]) = wire[e][1]
    BY <2>1, OneLess
  <2>3. CASE Quota(c[e]) = 0
    BY <2>1, <2>2, <2>3, SizeRead
  <2>4. CASE Quota(c[e]) # 0
    <3>1. wire[e][1].kind = "data"
      BY <2>1, <2>4, DataRead
    <3> QED BY <2>2, <2>4, <3>1
  <2> QED BY <2>3, <2>4
<1>2. ChunksInv /\ [Next]_vars => ChunksInv'
  BY ChunksStep
<1> QED BY <1>1, <1>2, ChunksStart, PTL DEF Spec
-----------------------------------------------------------------------------
(* Which packet each byte belongs to.  A spot is a place between two bytes *)
(* written: the packets that are complete there, the bytes of the next     *)
(* packet, and how many bytes are missing of the chunk.                    *)
Spots == [x : Nat, at : Nat, left : Nat]

(* A size byte is an ack between two packets, the flush behind one, or the *)
(* size of the next chunk; a data byte is the next of its packet.          *)
SizeStep(ss, l, n, m) ==
  /\ l.left = 0
  /\ IF n = 0
     THEN \/ l.at = 0 /\ m = l
          \/ /\ l.x < Len(ss) /\ l.at = Len(ss[l.x + 1])
             /\ m = [x |-> l.x + 1, at |-> 0, left |-> 0]
     ELSE /\ l.x < Len(ss) /\ l.at + n <= Len(ss[l.x + 1])
          /\ m = [x |-> l.x, at |-> l.at, left |-> n]
DataStep(ss, l, b, m) ==
  /\ l.left # 0 /\ l.x < Len(ss) /\ l.at + l.left <= Len(ss[l.x + 1])
  /\ b = ss[l.x + 1][l.at + 1]
  /\ m = [x |-> l.x, at |-> l.at + 1, left |-> l.left - 1]
ByteStep(ss, l, b, m) == SizeStep(ss, l, b.n, m) \/ DataStep(ss, l, b, m)

(* The bytes of v lead from spot l to spot m.                              *)
Path(ss, v, ls) ==
  /\ ls \in [1 .. Len(v) + 1 -> Spots]
  /\ \A j \in 1 .. Len(v) : ByteStep(ss, ls[j], v[j], ls[j + 1])
Carries(ss, v, l, m) ==
  \E ls : Path(ss, v, ls) /\ ls[1] = l /\ ls[Len(v) + 1] = m

(* The chunks received: each is complete but for the newest one.           *)
ChunkStep(ss, l, k, m) ==
  /\ l.left = 0 /\ Len(k.data) <= k.size
  /\ IF k.size = 0 THEN SizeStep(ss, l, 0, m)
     ELSE /\ l.x < Len(ss) /\ l.at + k.size <= Len(ss[l.x + 1])
          /\ \A i \in 1 .. Len(k.data) : k.data[i] = ss[l.x + 1][l.at + i]
          /\ m = [x |-> l.x, at |-> l.at + Len(k.data),
                  left |-> k.size - Len(k.data)]
Chain(ss, rs, fs) ==
  /\ fs \in [1 .. Len(rs) + 1 -> Spots]
  /\ \A j \in 1 .. Len(rs) : ChunkStep(ss, fs[j], rs[j], fs[j + 1])
Holds(ss, rs, l, m) ==
  \E fs : Chain(ss, rs, fs) /\ fs[1] = l /\ fs[Len(rs) + 1] = m

(* One byte more is on the wire.                                           *)
LEMMA CarriesByte ==
  ASSUME NEW ss, NEW v \in Seq(Bytes), NEW b \in Bytes, NEW l, NEW m,
         Carries(ss, v, l, m), NEW k \in Spots, ByteStep(ss, m, b, k)
  PROVE  Carries(ss, Append(v, b), l, k)
<1>1. PICK ls : Path(ss, v, ls) /\ ls[1] = l /\ ls[Len(v) + 1] = m
  BY DEF Carries
<1> DEFINE z == Append(v, b)
           L == Len(v)
           ks == [j \in 1 .. L + 2 |-> IF j = L + 2 THEN k ELSE ls[j]]
<1>2. /\ L \in Nat /\ Len(z) = L + 1 /\ z[L + 1] = b
      /\ \A j \in 1 .. L : z[j] = v[j]
  BY OneMore
<1>3. /\ ls \in [1 .. L + 1 -> Spots]
      /\ \A j \in 1 .. L : ByteStep(ss, ls[j], v[j], ls[j + 1])
      /\ ls[1] = l /\ ls[L + 1] = m
  BY <1>1 DEF Path
<1> HIDE DEF z, L
<1>4. /\ ks[L + 2] = k /\ \A j \in 1 .. L + 1 : ks[j] = ls[j]
  <2>1. \A j \in 1 .. L + 1 : j \in 1 .. L + 2 /\ j # L + 2
    BY <1>2
  <2>2. L + 2 \in 1 .. L + 2
    BY <1>2
  <2> QED BY <2>1, <2>2
<1>5. ks \in [1 .. L + 2 -> Spots]
  <2>1. \A j \in 1 .. L + 2 : j # L + 2 => j \in 1 .. L + 1
    BY <1>2
  <2> QED BY <1>3, <2>1
<1> HIDE DEF ks
<1>6. ASSUME NEW j \in 1 .. L + 1 PROVE ByteStep(ss, ks[j], z[j], ks[j + 1])
  <2>1. CASE j = L + 1
    <3>1. ks[j] = m /\ z[j] = b /\ j + 1 = L + 2
      BY <1>2, <1>3, <1>4, <2>1
    <3> QED BY <1>4, <3>1
  <2>2. CASE j # L + 1
    <3>1. j \in 1 .. L /\ j + 1 \in 1 .. L + 1
      BY <1>2, <2>2
    <3>2. ks[j] = ls[j] /\ z[j] = v[j] /\ ks[j + 1] = ls[j + 1]
      BY <1>2, <1>4, <3>1
    <3> QED BY <1>3, <3>1, <3>2
  <2> QED BY <2>1, <2>2
<1>7. /\ Len(z) + 1 = L + 2 /\ 1 \in 1 .. L + 1
  BY <1>2
<1>8. Path(ss, z, ks)
  BY <1>2, <1>5, <1>6, <1>7 DEF Path
<1>9. ks[1] = l /\ ks[Len(z) + 1] = k
  BY <1>3, <1>4, <1>7
<1> QED BY <1>8, <1>9 DEF Carries, z

(* Some of the bytes missing of a chunk are.                               *)
LEMMA CarriesData ==
  ASSUME NEW ss, NEW v \in Seq(Bytes), NEW ms \in Seq(Bytes), NEW l,
         NEW m \in Spots, Carries(ss, v, l, m),
         Len(ms) <= m.left, m.x < Len(ss), Len(ss) \in Nat,
         Len(ss[m.x + 1]) \in Nat, m.at + m.left <= Len(ss[m.x + 1]),
         \A i \in 1 .. Len(ms) : ms[i] = ss[m.x + 1][m.at + i]
  PROVE  Carries(ss, v \o ms, l, [x |-> m.x, at |-> m.at + Len(ms),
                                  left |-> m.left - Len(ms)])
<1>1. PICK ls : Path(ss, v, ls) /\ ls[1] = l /\ ls[Len(v) + 1] = m
  BY DEF Carries
<1> DEFINE z == v \o ms
           L == Len(v)
           n == Len(ms)
           f(i) == [x |-> m.x, at |-> m.at + i, left |-> m.left - i]
           ks == [j \in 1 .. L + n + 1 |->
                    IF j <= L THEN ls[j] ELSE f(j - (L + 1))]
<1>2. /\ L \in Nat /\ n \in Nat /\ Len(z) = L + n
      /\ \A j \in 1 .. L : z[j] = v[j]
      /\ \A i \in 1 .. n : z[L + i] = ms[i]
  OBVIOUS
<1>3. /\ ls \in [1 .. L + 1 -> Spots]
      /\ \A j \in 1 .. L : ByteStep(ss, ls[j], v[j], ls[j + 1])
      /\ ls[1] = l /\ ls[L + 1] = m
  BY <1>1 DEF Path
<1>4. m.x \in Nat /\ m.at \in Nat /\ m.left \in Nat /\ n <= m.left
      /\ m = [x |-> m.x, at |-> m.at, left |-> m.left]
  BY DEF Spots
<1>5. f(0) = m
  BY <1>4
<1>6. \A i \in 0 .. n : f(i) \in Spots
  <2>1. \A a, k \in Nat : \A i \in 0 .. n :
          n <= k => a + i \in Nat /\ k - i \in Nat
    BY <1>2
  <2>2. \A i \in 0 .. n : m.at + i \in Nat /\ m.left - i \in Nat
    BY <1>4, <2>1, Zenon
  <2> QED BY <1>4, <2>2 DEF Spots
<1>7. ASSUME NEW i \in 1 .. n
      PROVE  ByteStep(ss, f(i - 1), ms[i], f(i))
  <2> DEFINE g == f(i - 1)
             h == f(i)
  <2>1. /\ g.left = m.left - (i - 1) /\ g.x = m.x /\ g.at = m.at + (i - 1)
        /\ h = [x |-> m.x, at |-> m.at + i, left |-> m.left - i]
    OBVIOUS
  <2> HIDE DEF g, h, n
  <2>2. /\ g.left # 0 /\ g.at + 1 = m.at + i /\ g.left - 1 = m.left - i
        /\ g.at + g.left = m.at + m.left
    <3> DEFINE a == m.at
               k == m.left
    <3>1. /\ a \in Nat /\ k \in Nat /\ i \in 1 .. k
          /\ g.left = k - (i - 1) /\ g.at = a + (i - 1)
      BY <1>2, <1>4, <2>1
    <3> HIDE DEF a, k
    <3>2. /\ k - (i - 1) # 0 /\ a + (i - 1) + 1 = a + i
          /\ k - (i - 1) - 1 = k - i /\ (a + (i - 1)) + (k - (i - 1)) = a + k
      BY <3>1
    <3>3. /\ g.left # 0 /\ g.at + 1 = a + i /\ g.left - 1 = k - i
          /\ g.at + g.left = a + k
      BY <3>1, <3>2, Zenon
    <3> QED BY <3>3 DEF a, k
  <2>3. ms[i] = ss[m.x + 1][m.at + i]
    BY DEF n
  <2>4. DataStep(ss, g, ms[i], h)
    BY <2>1, <2>2, <2>3 DEF DataStep
  <2> QED BY <2>4 DEF ByteStep, g, h
<1> HIDE DEF z, L, n
<1> HIDE DEF f
<1>8. /\ \A j \in 1 .. L + 1 : ks[j] = ls[j]
      /\ \A i \in 0 .. n : ks[L + 1 + i] = f(i)
  <2>1. \A j \in 1 .. L : j \in 1 .. L + n + 1 /\ j <= L
    BY <1>2
  <2>2. \A i \in 0 .. n : /\ L + 1 + i \in 1 .. L + n + 1 /\ ~(L + 1 + i <= L)
                          /\ (L + 1 + i) - (L + 1) = i
    BY <1>2
  <2>3. \A i \in 0 .. n : ks[L + 1 + i] = f(i)
    BY <2>2
  <2>4. \A j \in 1 .. L : ks[j] = ls[j]
    BY <2>1
  <2>5. ks[L + 1] = ls[L + 1]
    <3>1. 0 \in 0 .. n /\ L + 1 + 0 = L + 1
      BY <1>2
    <3> HIDE DEF ks
    <3> QED BY <1>3, <1>5, <2>3, <3>1
  <2>6. \A j \in 1 .. L + 1 : j \in 1 .. L \/ j = L + 1
    BY <1>2
  <2> HIDE DEF ks
  <2> QED BY <2>3, <2>4, <2>5, <2>6
<1>9. ks \in [1 .. L + n + 1 -> Spots]
  <2>1. \A j \in 1 .. L + n + 1 :
          (j <= L => j \in 1 .. L + 1) /\ (~(j <= L) => j - (L + 1) \in 0 .. n)
    BY <1>2
  <2> QED BY <1>3, <1>6, <2>1
<1> HIDE DEF ks
<1>10. ASSUME NEW j \in 1 .. L + n PROVE ByteStep(ss, ks[j], z[j], ks[j + 1])
  <2>1. CASE j <= L
    <3>1. j \in 1 .. L /\ j \in 1 .. L + 1 /\ j + 1 \in 1 .. L + 1
      BY <1>2, <2>1
    <3>2. ks[j] = ls[j] /\ z[j] = v[j] /\ ks[j + 1] = ls[j + 1]
      BY <1>2, <1>8, <3>1
    <3> QED BY <1>3, <3>1, <3>2
  <2>2. CASE ~(j <= L)
    <3>1. PICK i \in 1 .. n : j = L + i
      <4>1. j - L \in 1 .. n /\ j = L + (j - L)
        BY <1>2, <2>2
      <4> QED BY <4>1
    <3>2. i - 1 \in 0 .. n /\ i \in 0 .. n /\ L + 1 + (i - 1) = j /\ L + 1 + i = j + 1
      BY <1>2, <3>1
    <3>3. ks[j] = f(i - 1) /\ z[j] = ms[i] /\ ks[j + 1] = f(i)
      BY <1>2, <1>8, <3>1, <3>2
    <3> QED BY <1>7, <3>3
  <2> QED BY <2>1, <2>2
<1>11. Len(z) + 1 = L + n + 1 /\ 1 \in 1 .. L + 1 /\ n \in 0 .. n /\ L + 1 + n = L + n + 1
  BY <1>2
<1>12. Path(ss, z, ks)
  BY <1>2, <1>9, <1>10, <1>11 DEF Path
<1>13. ks[1] = l /\ ks[Len(z) + 1] = f(n)
  BY <1>3, <1>8, <1>11
<1> QED BY <1>12, <1>13 DEF Carries, z, f, n

(* One byte less.                                                          *)
LEMMA CarriesTail ==
  ASSUME NEW ss, NEW v \in Seq(Bytes), v # <<>>, NEW l, NEW m,
         Carries(ss, v, l, m)
  PROVE  \E k \in Spots : ByteStep(ss, l, v[1], k) /\ Carries(ss, Tail(v), k, m)
<1>1. PICK ls : Path(ss, v, ls) /\ ls[1] = l /\ ls[Len(v) + 1] = m
  BY DEF Carries
<1> DEFINE z == Tail(v)
           L == Len(v)
           ks == [j \in 1 .. L |-> ls[j + 1]]
<1>2. /\ L \in Nat \ {0} /\ Len(z) = L - 1
      /\ \A j \in 1 .. L - 1 : z[j] = v[j + 1]
  BY OneLess
<1>3. /\ ls \in [1 .. L + 1 -> Spots]
      /\ \A j \in 1 .. L : ByteStep(ss, ls[j], v[j], ls[j + 1])
      /\ ls[1] = l /\ ls[L + 1] = m
  BY <1>1 DEF Path
<1> HIDE DEF z, L
<1>4. ks \in [1 .. L -> Spots] /\ \A j \in 1 .. L : ks[j] = ls[j + 1]
  <2>1. \A j \in 1 .. L : j + 1 \in 1 .. L + 1
    BY <1>2
  <2> QED BY <1>3, <2>1
<1> HIDE DEF ks
<1>5. ASSUME NEW j \in 1 .. L - 1 PROVE ByteStep(ss, ks[j], z[j], ks[j + 1])
  <2>1. j \in 1 .. L /\ j + 1 \in 1 .. L
    BY <1>2
  <2>2. ByteStep(ss, ls[j + 1], v[j + 1], ls[j + 1 + 1])
    BY <1>3, <2>1
  <2> QED BY <1>2, <1>4, <2>1, <2>2
<1>6. Len(z) + 1 = L /\ 1 \in 1 .. L /\ L \in 1 .. L /\ 1 + 1 = 2
  BY <1>2
<1>7. Path(ss, z, ks)
  BY <1>2, <1>4, <1>5, <1>6 DEF Path
<1>8. ks[1] \in Spots /\ ByteStep(ss, l, v[1], ks[1]) /\ ks[Len(z) + 1] = m
  BY <1>3, <1>4, <1>6
<1> QED BY <1>7, <1>8 DEF Carries, z

(* A packet sent later changes nothing of that.                            *)
LEMMA StepsGrow ==
  ASSUME NEW S, NEW ss \in Seq(S), NEW p \in S, NEW l \in Spots
  PROVE  /\ \A b, m : ByteStep(ss, l, b, m) => ByteStep(Append(ss, p), l, b, m)
         /\ \A k, m : ChunkStep(ss, l, k, m) => ChunkStep(Append(ss, p), l, k, m)
<1> DEFINE z == Append(ss, p)
           L == Len(ss)
<1>1. /\ L \in Nat /\ Len(z) = L + 1 /\ l.x \in Nat
      /\ \A i \in 1 .. L : z[i] = ss[i]
  BY OneMore DEF Spots
<1> HIDE DEF z, L
<1>2. ASSUME l.x < L PROVE l.x < Len(z) /\ z[l.x + 1] = ss[l.x + 1]
  <2>1. l.x + 1 \in 1 .. L /\ l.x < L + 1
    BY <1>1, <1>2
  <2> QED BY <1>1, <2>1
<1>3. ASSUME NEW n, NEW m, SizeStep(ss, l, n, m) PROVE SizeStep(z, l, n, m)
  BY <1>2, <1>3 DEF SizeStep, L
<1>4. ASSUME NEW b, NEW m, DataStep(ss, l, b, m) PROVE DataStep(z, l, b, m)
  BY <1>2, <1>4 DEF DataStep, L
<1>5. ASSUME NEW b, NEW m, ByteStep(ss, l, b, m) PROVE ByteStep(z, l, b, m)
  BY <1>3, <1>4, <1>5 DEF ByteStep
<1>6. ASSUME NEW k, NEW m, ChunkStep(ss, l, k, m) PROVE ChunkStep(z, l, k, m)
  BY <1>2, <1>3, <1>6 DEF ChunkStep, L
<1> QED BY <1>5, <1>6 DEF z

LEMMA CarriesGrow ==
  ASSUME NEW S, NEW ss \in Seq(S), NEW p \in S, NEW v, NEW l, NEW m,
         Len(v) \in Nat, Carries(ss, v, l, m)
  PROVE  Carries(Append(ss, p), v, l, m)
<1> DEFINE z == Append(ss, p)
<1>1. PICK ls : Path(ss, v, ls) /\ ls[1] = l /\ ls[Len(v) + 1] = m
  BY DEF Carries
<1>2. ASSUME NEW j \in 1 .. Len(v) PROVE ByteStep(z, ls[j], v[j], ls[j + 1])
  <2>1. ls[j] \in Spots /\ ByteStep(ss, ls[j], v[j], ls[j + 1])
    <3>1. j \in 1 .. Len(v) + 1
      OBVIOUS
    <3> QED BY <1>1, <3>1 DEF Path
  <2> HIDE DEF z
  <2> QED BY <2>1, StepsGrow DEF z
<1> HIDE DEF z
<1>3. Path(ss, v, ls) => Path(z, v, ls)
  BY <1>2 DEF Path
<1> QED BY <1>1, <1>3 DEF Carries, z

LEMMA HoldsGrow ==
  ASSUME NEW S, NEW ss \in Seq(S), NEW p \in S, NEW rs, NEW l, NEW m,
         Len(rs) \in Nat, Holds(ss, rs, l, m)
  PROVE  Holds(Append(ss, p), rs, l, m)
<1> DEFINE z == Append(ss, p)
<1>1. PICK fs : Chain(ss, rs, fs) /\ fs[1] = l /\ fs[Len(rs) + 1] = m
  BY DEF Holds
<1>2. ASSUME NEW j \in 1 .. Len(rs) PROVE ChunkStep(z, fs[j], rs[j], fs[j + 1])
  <2>1. fs[j] \in Spots /\ ChunkStep(ss, fs[j], rs[j], fs[j + 1])
    <3>1. j \in 1 .. Len(rs) + 1
      OBVIOUS
    <3> QED BY <1>1, <3>1 DEF Chain
  <2> HIDE DEF z
  <2> QED BY <2>1, StepsGrow DEF z
<1> HIDE DEF z
<1>3. Chain(ss, rs, fs) => Chain(z, rs, fs)
  BY <1>2 DEF Chain
<1> QED BY <1>1, <1>3 DEF Holds, z

(* What is left of a sequence behind its n-th element.                     *)
LEMMA RestOf ==
  ASSUME NEW S, NEW q \in Seq(S), NEW n \in 0 .. Len(q)
  PROVE  LET z == SubSeq(q, n + 1, Len(q)) IN
         /\ z \in Seq(S) /\ Len(z) = Len(q) - n /\ Len(z) \in Nat
         /\ \A j \in 1 .. Len(z) : z[j] = q[j + n]
<1> DEFINE z == SubSeq(q, n + 1, Len(q))
           L == Len(q)
           a == n + 1
<1>1. L \in Nat /\ n \in Nat /\ n <= L /\ \A j \in 1 .. L : q[j] \in S
  OBVIOUS
<1>2. z = SubSeq(q, a, L)
  OBVIOUS
<1> HIDE DEF z, L
<1>3. a \in Int /\ L \in Int /\ \A j \in a .. L : q[j] \in S
  <2>1. \A j \in a .. L : j \in 1 .. L
    BY <1>1
  <2> QED BY <1>1, <2>1
<1>4. L - a + 1 = L - n /\ (a <= L => L - a + 1 = L - n) /\ (~(a <= L) => L - n = 0)
      /\ L - n \in Nat /\ \A j \in 1 .. L - n : a + j - 1 = j + n
  BY <1>1
<1> HIDE DEF a
<1>5. /\ z \in Seq(S) /\ Len(z) = IF a <= L THEN L - a + 1 ELSE 0
      /\ \A j \in 1 .. L - a + 1 : z[j] = q[a + j - 1]
  BY <1>2, <1>3, SubSeqProperties
<1>6. Len(z) = L - n
  BY <1>4, <1>5, Zenon
<1>7. \A j \in 1 .. L - n : z[j] = q[j + n]
  BY <1>4, <1>5
<1> QED BY <1>4, <1>5, <1>6, <1>7 DEF z, L

(* The newest chunks without the n oldest.                                 *)
LEMMA HoldsRest ==
  ASSUME NEW ss, NEW rs \in Seq(Chunk), NEW fs, Chain(ss, rs, fs),
         NEW n \in 0 .. Len(rs)
  PROVE  Holds(ss, SubSeq(rs, n + 1, Len(rs)), fs[n + 1], fs[Len(rs) + 1])
<1> DEFINE z == SubSeq(rs, n + 1, Len(rs))
           L == Len(rs)
           gs == [j \in 1 .. L - n + 1 |-> fs[j + n]]
<1>1. /\ L \in Nat /\ n \in Nat /\ n <= L /\ Len(z) = L - n
      /\ \A j \in 1 .. L - n : z[j] = rs[j + n]
  <2>1. L \in Nat /\ n \in Nat /\ n <= L
    OBVIOUS
  <2> QED BY <2>1, RestOf
<1>2. /\ fs \in [1 .. L + 1 -> Spots]
      /\ \A j \in 1 .. L : ChunkStep(ss, fs[j], rs[j], fs[j + 1])
  BY DEF Chain
<1> HIDE DEF z, L
<1>3. /\ gs \in [1 .. L - n + 1 -> Spots]
      /\ \A j \in 1 .. L - n + 1 : gs[j] = fs[j + n]
  <2>1. \A j \in 1 .. L - n + 1 : j + n \in 1 .. L + 1
    BY <1>1
  <2> QED BY <1>2, <2>1
<1> HIDE DEF gs
<1>4. ASSUME NEW j \in 1 .. L - n PROVE ChunkStep(ss, gs[j], z[j], gs[j + 1])
  <2>1. /\ j \in 1 .. L - n + 1 /\ j + 1 \in 1 .. L - n + 1
        /\ j + n \in 1 .. L /\ j + 1 + n = j + n + 1
    BY <1>1
  <2>2. ChunkStep(ss, fs[j + n], rs[j + n], fs[j + n + 1])
    BY <1>2, <2>1
  <2>3. gs[j] = fs[j + n] /\ z[j] = rs[j + n]
    BY <1>1, <1>3, <2>1, Zenon
  <2>4. gs[j + 1] = fs[j + 1 + n]
    BY <1>3, <2>1, Zenon
  <2> QED BY <2>1, <2>2, <2>3, <2>4, Zenon
<1>5. /\ 1 \in 1 .. L - n + 1 /\ L - n + 1 \in 1 .. L - n + 1
      /\ 1 + n = n + 1 /\ L - n + 1 + n = L + 1
  BY <1>1
<1>6. Chain(ss, z, gs)
  BY <1>1, <1>3, <1>4 DEF Chain
<1>7. gs[1] = fs[n + 1] /\ gs[Len(z) + 1] = fs[L + 1]
  BY <1>1, <1>3, <1>5
<1> QED BY <1>6, <1>7 DEF Holds, z, L

(* Where the chunks received lead to is as much left as the newest lacks.  *)
LEMMA HoldsLeft ==
  ASSUME NEW ss, NEW rs \in Seq(Chunk), NEW l, NEW m, l.left = 0,
         Holds(ss, rs, l, m)
  PROVE  m.left = LeftOf(rs)
<1>1. PICK fs : Chain(ss, rs, fs) /\ fs[1] = l /\ fs[Len(rs) + 1] = m
  BY DEF Holds
<1> DEFINE L == Len(rs)
<1>2. CASE rs = <<>>
  <2>1. L = 0 /\ L + 1 = 1
    BY <1>2
  <2>2. m = l
    BY <1>1, <2>1
  <2> QED BY <1>2, <2>2 DEF LeftOf
<1>3. CASE rs # <<>>
  <2>1. L \in 1 .. L /\ rs[L].size \in Nat /\ Len(rs[L].data) \in Nat
    BY <1>3, ChunkParts
  <2>2. ChunkStep(ss, fs[L], rs[L], m)
    BY <1>1, <2>1 DEF Chain
  <2>3. LeftOf(rs) = rs[L].size - Len(rs[L].data)
    BY <1>3 DEF LeftOf
  <2> HIDE DEF L
  <2>4. m.left = rs[L].size - Len(rs[L].data)
    <3>1. CASE rs[L].size = 0
      <4>1. m.left = 0
        BY <2>2, <3>1 DEF ChunkStep, SizeStep
      <4>2. Len(rs[L].data) = 0
        BY <2>1, <2>2, <3>1 DEF ChunkStep
      <4> QED BY <3>1, <4>1, <4>2
    <3>2. CASE rs[L].size # 0
      BY <2>2, <3>2 DEF ChunkStep
    <3> QED BY <3>1, <3>2
  <2> QED BY <2>3, <2>4
<1> QED BY <1>2, <1>3

(* A byte of a packet extends the newest chunk, a size byte begins one.    *)
LEMMA HoldsByte ==
  ASSUME NEW ss, NEW r \in Endpoints, NEW b \in Bytes, NEW l \in Spots, l.left = 0,
         NEW m \in Spots, Holds(ss, r.reading, l, m),
         NEW k \in Spots, ByteStep(ss, m, b, k)
  PROVE  Holds(ss, ReadByte(r, b).reading, l, k)
<1> DEFINE rs == r.reading
           L == Len(rs)
<1>1. rs \in Seq(Chunk) /\ L \in Nat
  BY EndpointParts
<1>2. PICK fs : Chain(ss, rs, fs) /\ fs[1] = l /\ fs[L + 1] = m
  BY DEF Holds
<1>3. Quota(r) = m.left
  BY <1>1, HoldsLeft, QuotaIsLeft
<1>4. /\ fs \in [1 .. L + 1 -> Spots]
      /\ \A j \in 1 .. L : ChunkStep(ss, fs[j], rs[j], fs[j + 1])
  BY <1>2 DEF Chain
<1>5. CASE m.left = 0
  <2> DEFINE d == [size |-> b.n, data |-> <<>>]
             z == Append(rs, d)
             gs == [j \in 1 .. L + 2 |-> IF j = L + 2 THEN k ELSE fs[j]]
  <2>1. ReadByte(r, b).reading = z
    <3>1. r = [writing |-> r.writing, writeat |-> r.writeat,
               waiting |-> r.waiting, waitat |-> r.waitat,
               blocked |-> r.blocked, ack |-> r.ack, reading |-> r.reading]
      BY DEF Endpoints
    <3>2. ReadByte(r, b) = [r EXCEPT !.reading = Append(@, d),
                                     !.blocked = FALSE, !.ack = @ \/ b.n > 0]
      BY <1>3, <1>5 DEF ReadByte
    <3> HIDE DEF d
    <3> QED BY <3>1, <3>2
  <2>2. b.n \in Nat
    BY ChunksAssumption DEF Bytes
  <2>3. /\ Len(z) = L + 1 /\ z[L + 1] = d
        /\ \A j \in 1 .. L : z[j] = rs[j]
    <3>1. d \in [size : Nat, data : Seq(Bytes)]
      BY <2>2
    <3> HIDE DEF d
    <3> QED BY <1>1
  <2>4. ChunkStep(ss, m, d, k)
    <3>1. /\ d.size = b.n /\ d.data = <<>> /\ Len(d.data) = 0
          /\ \A i \in 1 .. Len(d.data) : FALSE
      OBVIOUS
    <3>2. SizeStep(ss, m, b.n, k)
      BY <1>5 DEF ByteStep, DataStep
    <3> HIDE DEF d
    <3>3. Len(d.data) <= d.size /\ m.at \in Nat /\ m.at + Len(d.data) = m.at
          /\ d.size - Len(d.data) = b.n
      BY <2>2, <3>1 DEF Spots
    <3> QED BY <1>5, <3>1, <3>2, <3>3 DEF ChunkStep, SizeStep
  <2> HIDE DEF z, L
  <2>5. /\ gs[L + 2] = k /\ \A j \in 1 .. L + 1 : gs[j] = fs[j]
    <3>1. \A j \in 1 .. L + 1 : j \in 1 .. L + 2 /\ j # L + 2
      BY <1>1
    <3>2. L + 2 \in 1 .. L + 2
      BY <1>1
    <3> QED BY <3>1, <3>2
  <2>6. gs \in [1 .. L + 2 -> Spots]
    <3>1. \A j \in 1 .. L + 2 : j # L + 2 => j \in 1 .. L + 1
      BY <1>1
    <3> QED BY <1>4, <3>1
  <2> HIDE DEF gs, d
  <2>7. ASSUME NEW j \in 1 .. L + 1 PROVE ChunkStep(ss, gs[j], z[j], gs[j + 1])
    <3>1. CASE j = L + 1
      <4>1. gs[j] = m /\ z[j] = d /\ j + 1 = L + 2
        BY <1>1, <1>2, <2>3, <2>5, <3>1 DEF L
      <4> QED BY <2>4, <2>5, <4>1
    <3>2. CASE j # L + 1
      <4>1. j \in 1 .. L /\ j + 1 \in 1 .. L + 1
        BY <1>1, <3>2
      <4>2. gs[j] = fs[j] /\ z[j] = rs[j] /\ gs[j + 1] = fs[j + 1]
        BY <2>3, <2>5, <4>1
      <4> QED BY <1>4, <4>1, <4>2 DEF L
    <3> QED BY <3>1, <3>2
  <2>8. Len(z) + 1 = L + 2 /\ 1 \in 1 .. L + 1
    BY <1>1, <2>3
  <2>9. Chain(ss, z, gs)
    BY <2>3, <2>6, <2>7, <2>8 DEF Chain
  <2>10. gs[1] = l /\ gs[Len(z) + 1] = k
    BY <1>2, <2>5, <2>8
  <2> QED BY <2>1, <2>9, <2>10 DEF Holds
<1>6. CASE m.left # 0
  <2>1. rs # <<>>
    BY <1>3, <1>6 DEF Quota
  <2>2. L \in 1 .. L /\ L \in 1 .. L + 1 /\ L # L + 1
    BY <1>1, <2>1
  <2> DEFINE o == rs[L]
             n == Len(o.data)
             d == [o EXCEPT !.data = Append(@, b)]
             z == [rs EXCEPT ![L] = d]
             gs == [fs EXCEPT ![L + 1] = k]
             f == fs[L]
  <2>3. ReadByte(r, b).reading = z
    <3>1. ReadByte(r, b) = [r EXCEPT !.reading[L].data = Append(@, b)]
      BY <1>3, <1>6 DEF ReadByte
    <3>2. r = [writing |-> r.writing, writeat |-> r.writeat,
               waiting |-> r.waiting, waitat |-> r.waitat,
               blocked |-> r.blocked, ack |-> r.ack, reading |-> r.reading]
      BY DEF Endpoints
    <3> HIDE DEF L
    <3> QED BY <3>1, <3>2
  <2>4. /\ o \in Chunk /\ o.size \in Nat /\ n \in Nat /\ o.data \in Seq(Bytes)
        /\ f \in Spots
    BY <1>1, <1>4, <2>2, ChunkParts
  <2>5. ChunkStep(ss, f, o, m)
    BY <1>2, <2>2, <1>4
  <2> HIDE DEF f
  <2>6. /\ o.size # 0 /\ f.left = 0 /\ n <= o.size /\ f.x < Len(ss)
        /\ f.at + o.size <= Len(ss[f.x + 1])
        /\ \A i \in 1 .. n : o.data[i] = ss[f.x + 1][f.at + i]
        /\ m.x = f.x /\ m.at = f.at + n /\ m.left = o.size - n
    <3>1. o.size # 0
      BY <1>6, <2>5 DEF ChunkStep, SizeStep
    <3> QED BY <2>5, <3>1 DEF ChunkStep
  <2>7. /\ b = ss[f.x + 1][m.at + 1]
        /\ k = [x |-> f.x, at |-> m.at + 1, left |-> m.left - 1]
    <3>1. DataStep(ss, m, b, k)
      BY <1>6 DEF ByteStep, SizeStep
    <3> QED BY <2>6, <3>1 DEF DataStep
  <2>8. /\ d.size = o.size /\ Len(d.data) = n + 1 /\ d.data[n + 1] = b
        /\ \A i \in 1 .. n : d.data[i] = o.data[i]
    <3>1. d.size = o.size /\ d.data = Append(o.data, b)
      BY <2>4 DEF Chunk
    <3> HIDE DEF d, o
    <3> QED BY <2>4, <3>1, OneMore
  <2> HIDE DEF d, n, o
  <2>9. ChunkStep(ss, f, d, k)
    <3>1. /\ f.at \in Nat /\ n + 1 <= o.size /\ m.at + 1 = f.at + (n + 1)
          /\ m.left - 1 = o.size - (n + 1)
      <4>1. f.at \in Nat
        BY <2>4 DEF Spots
      <4>2. \A a, s, t \in Nat : t <= s /\ s - t # 0 =>
              t + 1 <= s /\ a + t + 1 = a + (t + 1) /\ s - t - 1 = s - (t + 1)
        OBVIOUS
      <4>3. o.size - n # 0 /\ n <= o.size
        BY <1>6, <2>6
      <4>4. /\ n + 1 <= o.size /\ f.at + n + 1 = f.at + (n + 1)
            /\ o.size - n - 1 = o.size - (n + 1)
        BY <2>4, <4>1, <4>2, <4>3, Zenon
      <4>5. m.at + 1 = f.at + n + 1 /\ m.left - 1 = o.size - n - 1
        BY <2>6, Zenon
      <4> QED BY <4>1, <4>4, <4>5, Zenon
    <3>2. ASSUME NEW i \in 1 .. n + 1 PROVE d.data[i] = ss[f.x + 1][f.at + i]
      <4>1. CASE i = n + 1
        BY <2>7, <2>8, <3>1, <4>1
      <4>2. CASE i # n + 1
        <5>1. i \in 1 .. n
          BY <2>4, <4>2
        <5> QED BY <2>6, <2>8, <5>1
      <4> QED BY <4>1, <4>2
    <3> QED BY <2>6, <2>7, <2>8, <3>1, <3>2 DEF ChunkStep
  <2>10. /\ Len(z) = L /\ z[L] = d /\ \A j \in 1 .. L : j # L => z[j] = rs[j]
    <3>1. Len(z) = L
      BY <1>1
    <3> QED BY <1>1, <2>2, <3>1
  <2>11. /\ gs \in [1 .. L + 1 -> Spots] /\ gs[L + 1] = k
         /\ \A j \in 1 .. L : gs[j] = fs[j]
    <3>1. L + 1 \in 1 .. L + 1 /\ \A j \in 1 .. L : j \in 1 .. L + 1 /\ j # L + 1
      BY <1>1
    <3> QED BY <1>4, <3>1
  <2> HIDE DEF z, gs, L
  <2>12. ASSUME NEW j \in 1 .. L PROVE ChunkStep(ss, gs[j], z[j], gs[j + 1])
    <3>1. CASE j = L
      BY <2>2, <2>9, <2>10, <2>11, <3>1 DEF f
    <3>2. CASE j # L
      <4>1. j + 1 \in 1 .. L
        BY <1>1, <3>2
      <4> QED BY <1>4, <2>10, <2>11, <3>2, <4>1 DEF L
    <3> QED BY <3>1, <3>2
  <2>13. Chain(ss, z, gs)
    BY <2>10, <2>11, <2>12 DEF Chain
  <2>14. gs[1] = l /\ gs[Len(z) + 1] = k
    <3>1. 1 \in 1 .. L
      BY <1>1, <2>2
    <3> QED BY <1>2, <2>10, <2>11, <3>1
  <2> QED BY <2>3, <2>13, <2>14 DEF Holds
<1> QED BY <1>5, <1>6
(* A set of numbers has a least one: what stands here for an induction.    *)
LEMMA LeastNumber ==
  ASSUME NEW S \in SUBSET Nat, S # {}
  PROVE  \E m \in S : \A k \in S : m <= k
<1> DEFINE R == OpToRel(<, Nat)
<1>1. IsWellFoundedOn(R, Nat)
  BY NatLessThanWellFounded
<1>2. \A x, y \in Nat : <<x, y>> \in R <=> x < y
  BY DEF OpToRel
<1> HIDE DEF R
<1>3. PICK m \in S : \A y \in S : ~(<<y, m>> \in R)
  BY <1>1, WFMin
<1>4. ASSUME NEW k \in S PROVE m <= k
  <2>1. ~(<<k, m>> \in R) /\ k \in Nat /\ m \in Nat
    BY <1>3
  <2>2. ~(k < m)
    BY <1>2, <2>1
  <2> QED BY <2>1, <2>2
<1> QED BY <1>4

(* So a set of numbers that holds n + 1 if it holds n goes on to the end.  *)
LEMMA Counting ==
  ASSUME NEW a \in Nat, NEW b \in Nat, NEW T,
         a \in T, \A n \in a .. b : n \in T /\ n + 1 <= b => n + 1 \in T
  PROVE  \A n \in a .. b : n \in T
<1> DEFINE bad == {n \in a .. b : n \notin T}
<1> SUFFICES ASSUME bad # {} PROVE FALSE
  OBVIOUS
<1>1. bad \in SUBSET Nat
  OBVIOUS
<1>2. PICK m \in bad : \A k \in bad : m <= k
  BY <1>1, LeastNumber
<1>3. m \in a .. b /\ m \notin T /\ m # a
  OBVIOUS
<1>4. m - 1 \in a .. b /\ (m - 1) + 1 = m /\ (m - 1) + 1 <= b /\ ~(m <= m - 1)
  BY <1>3
<1>5. m - 1 \in T
  BY <1>2, <1>4
<1> QED BY <1>3, <1>4, <1>5

(* The flattening of some chunks, and of one chunk more.                   *)
Flattening(w, n, g) ==
  g = [i \in 1 .. n |-> IF i = 1 THEN w[i] ELSE g[i - 1] \o w[i]]

LEMMA FlatteningExists ==
  ASSUME NEW w, NEW n \in Nat \ {0}
  PROVE  \E g : Flattening(w, n, g)
<1> DEFINE T == {k \in 1 .. n : \E g : Flattening(w, k, g)}
<1>1. 1 \in T
  <2> DEFINE g == [i \in 1 .. 1 |-> w[i]]
  <2>1. Flattening(w, 1, g)
    BY DEF Flattening
  <2> QED BY <2>1
<1>2. ASSUME NEW k \in 1 .. n, k \in T, k + 1 <= n PROVE k + 1 \in T
  <2>1. PICK g : Flattening(w, k, g)
    BY <1>2
  <2> DEFINE h == [i \in 1 .. k + 1 |->
                     IF i = k + 1 THEN g[k] \o w[k + 1] ELSE g[i]]
             e == [i \in 1 .. k + 1 |->
                     IF i = 1 THEN w[i] ELSE h[i - 1] \o w[i]]
  <2>2. ASSUME NEW i \in 1 .. k + 1 PROVE h[i] = e[i]
    <3>1. CASE i = k + 1
      <4>1. i # 1 /\ i - 1 = k /\ k \in 1 .. k + 1 /\ k # k + 1
        BY <3>1
      <4>2. h[k] = g[k]
        BY <4>1
      <4> QED BY <3>1, <4>1, <4>2
    <3>2. CASE i # k + 1
      <4>1. i \in 1 .. k
        BY <3>2
      <4>2. h[i] = g[i]
        BY <3>2
      <4>3. g[i] = IF i = 1 THEN w[i] ELSE g[i - 1] \o w[i]
        BY <2>1, <4>1 DEF Flattening
      <4>4. i # 1 => i - 1 \in 1 .. k + 1 /\ i - 1 # k + 1
        BY <4>1
      <4>5. i # 1 => h[i - 1] = g[i - 1]
        BY <4>4
      <4>6. e[i] = IF i = 1 THEN w[i] ELSE h[i - 1] \o w[i]
        OBVIOUS
      <4> HIDE DEF h, e
      <4> QED BY <4>2, <4>3, <4>5, <4>6
    <3> QED BY <3>1, <3>2
  <2>3. h = e
    BY <2>2
  <2>4. Flattening(w, k + 1, h)
    <3> HIDE DEF h
    <3> QED BY <2>3 DEF Flattening
  <2> QED BY <1>2, <2>4
<1> HIDE DEF T
<1>3. n \in T
  <2>1. \A k \in 1 .. n : k \in T
    BY <1>1, <1>2, Counting
  <2> QED BY <2>1
<1> QED BY <1>3 DEF T

LEMMA FlatteningIsFlatten ==
  ASSUME NEW w, Len(w) \in Nat \ {0}
  PROVE  \E g : Flattening(w, Len(w), g) /\ FlattenSeq(w) = g[Len(w)]
<1>1. \E g : g = [i \in 1 .. Len(w) |-> IF i = 1 THEN w[i] ELSE g[i - 1] \o w[i]]
  BY FlatteningExists DEF Flattening
<1> DEFINE f == CHOOSE g : g = [i \in 1 .. Len(w) |->
                                  IF i = 1 THEN w[i] ELSE g[i - 1] \o w[i]]
<1>2. f = [i \in 1 .. Len(w) |-> IF i = 1 THEN w[i] ELSE f[i - 1] \o w[i]]
  BY <1>1
<1>3. FlattenSeq(w) = f[Len(w)]
  BY DEF FlattenSeq
<1> HIDE DEF f
<1> QED BY <1>2, <1>3 DEF Flattening

LEMMA FlattenOne ==
  ASSUME NEW x
  PROVE  FlattenSeq(<<x>>) = x /\ FlattenSeq(<<>>) = <<>>
<1> DEFINE w == <<x>>
<1>1. Len(w) = 1 /\ w[1] = x
  OBVIOUS
<1> HIDE DEF w
<1>e. Len(w) \in Nat \ {0} /\ 1 \in 1 .. Len(w)
  BY <1>1
<1>2. PICK g : Flattening(w, Len(w), g) /\ FlattenSeq(w) = g[Len(w)]
  BY <1>e, FlatteningIsFlatten
<1>3. g[1] = w[1]
  BY <1>e, <1>2 DEF Flattening
<1>4. FlattenSeq(<<>>) = <<>>
  BY DEF FlattenSeq
<1> QED BY <1>1, <1>2, <1>3, <1>4 DEF w

LEMMA FlattenType ==
  ASSUME NEW S, NEW w \in Seq(Seq(S))
  PROVE  FlattenSeq(w) \in Seq(S)
<1>1. CASE w = <<>>
  <2>1. FlattenSeq(<<>>) = <<>>
    BY DEF FlattenSeq
  <2>2. FlattenSeq(w) = FlattenSeq(<<>>)
    BY <1>1, Zenon
  <2>3. <<>> \in Seq(S)
    OBVIOUS
  <2> QED BY <2>1, <2>2, <2>3, Zenon
<1>2. CASE w # <<>>
  <2>1. Len(w) \in Nat \ {0}
    BY <1>2
  <2>2. \A i \in 1 .. Len(w) : w[i] \in Seq(S)
    OBVIOUS
  <2>3. PICK g : Flattening(w, Len(w), g) /\ FlattenSeq(w) = g[Len(w)]
    BY <2>1, FlatteningIsFlatten
  <2>4. \A i \in 1 .. Len(w) : g[i] = IF i = 1 THEN w[i] ELSE g[i - 1] \o w[i]
    BY <2>3 DEF Flattening
  <2> DEFINE T == {i \in 1 .. Len(w) : g[i] \in Seq(S)}
  <2>5. 1 \in T
    BY <2>1, <2>2, <2>4
  <2>6. ASSUME NEW i \in 1 .. Len(w), i \in T, i + 1 <= Len(w)
        PROVE  i + 1 \in T
    <3>1. i + 1 \in 1 .. Len(w) /\ i + 1 # 1 /\ (i + 1) - 1 = i
      BY <2>1, <2>6
    <3>2. g[i + 1] = g[i] \o w[i + 1]
      BY <2>4, <3>1
    <3>3. g[i] \o w[i + 1] \in Seq(S)
      BY <2>2, <2>6, <3>1, ConcatProperties
    <3> QED BY <3>1, <3>2, <3>3
  <2> HIDE DEF T
  <2>7. Len(w) \in T
    <3>1. 1 \in Nat /\ Len(w) \in Nat /\ Len(w) \in 1 .. Len(w)
      BY <2>1
    <3>2. \A i \in 1 .. Len(w) : i \in T
      BY <2>5, <2>6, <3>1, Counting
    <3> QED BY <3>1, <3>2
  <2> QED BY <2>3, <2>7 DEF T
<1> QED BY <1>1, <1>2

LEMMA FlattenAppend ==
  ASSUME NEW S, NEW w \in Seq(Seq(S)), NEW x \in Seq(S)
  PROVE  FlattenSeq(Append(w, x)) = FlattenSeq(w) \o x
<1> DEFINE u == Append(w, x)
           L == Len(w)
<1>1. /\ Len(u) = L + 1 /\ L \in Nat /\ u[L + 1] = x
      /\ \A i \in 1 .. L : u[i] = w[i]
  OBVIOUS
<1>2. CASE w = <<>>
  <2>1. u = <<x>>
    BY <1>2
  <2>2. <<>> \o x = x
    OBVIOUS
  <2> HIDE DEF u
  <2> QED BY <1>2, <2>1, <2>2, FlattenOne DEF u
<1>3. CASE w # <<>>
  <2>1. L \in Nat \ {0}
    BY <1>3
  <2> HIDE DEF u
  <2>2. PICK g : Flattening(w, L, g) /\ FlattenSeq(w) = g[L]
    BY <2>1, FlatteningIsFlatten
  <2>3. PICK h : Flattening(u, L + 1, h) /\ FlattenSeq(u) = h[L + 1]
    BY <1>1, FlatteningIsFlatten
  <2> HIDE DEF L
  <2>4. \A i \in 1 .. L : g[i] = IF i = 1 THEN w[i] ELSE g[i - 1] \o w[i]
    BY <2>2 DEF Flattening
  <2>5. \A i \in 1 .. L + 1 : h[i] = IF i = 1 THEN u[i] ELSE h[i - 1] \o u[i]
    BY <2>3 DEF Flattening
  <2> DEFINE T == {i \in 1 .. L : h[i] = g[i]}
  <2>6. 1 \in T
    <3>1. 1 \in 1 .. L /\ 1 \in 1 .. L + 1
      BY <2>1
    <3> QED BY <1>1, <2>4, <2>5, <3>1
  <2>7. ASSUME NEW i \in 1 .. L, i \in T, i + 1 <= L
        PROVE  i + 1 \in T
    <3>1. i + 1 \in 1 .. L /\ i + 1 # 1 /\ (i + 1) - 1 = i /\ i + 1 \in 1 .. L + 1
      BY <2>1, <2>7
    <3>2. g[i + 1] = g[i] \o w[i + 1] /\ h[i + 1] = h[i] \o u[i + 1]
      BY <2>4, <2>5, <3>1
    <3>3. h[i] = g[i] /\ u[i + 1] = w[i + 1]
      BY <1>1, <2>7, <3>1
    <3> QED BY <3>1, <3>2, <3>3
  <2> HIDE DEF T
  <2>8. L \in T
    <3>1. 1 \in Nat /\ L \in Nat /\ L \in 1 .. L
      BY <2>1
    <3>2. \A i \in 1 .. L : i \in T
      BY <2>6, <2>7, <3>1, Counting
    <3> QED BY <3>1, <3>2
  <2>9. h[L + 1] = h[L] \o u[L + 1]
    <3>1. L + 1 \in 1 .. L + 1 /\ L + 1 # 1 /\ (L + 1) - 1 = L
      BY <2>1
    <3> QED BY <2>5, <3>1
  <2>10. h[L] = g[L]
    BY <2>8 DEF T
  <2> QED BY <1>1, <2>2, <2>3, <2>9, <2>10 DEF u
<1> QED BY <1>2, <1>3
(* What it takes to begin a chunk, and to end a packet.                    *)
LEMMA PacketLen ==
  ASSUME NEW p \in Packets
  PROVE  p \in Seq(Bytes) /\ Len(p) \in Nat /\ Len(p) >= 2 /\ Len(p) \in Lens
<1>1. PICK id \in 1 .. MaxPackets, len \in Lens : p = Packet(id, len)
  BY DEF Packets
<1>2. len \in Nat /\ len >= 2
  BY ChunksAssumption
<1>3. Len(Packet(id, len)) = len
  BY <1>2 DEF Packet
<1> QED BY <1>1, <1>2, <1>3, PacketBytes

Start(n) == [x |-> n, at |-> 0, left |-> 0]

(* The acks in front lead nowhere.                                         *)
LEMMA AcksLead ==
  ASSUME NEW ss \in Seq(Packets), NEW rs \in Seq(Chunk), NEW fs, NEW x \in Nat,
         Chain(ss, rs, fs), fs[1] = Start(x)
  PROVE  \E n \in 0 .. Len(rs) :
           /\ Stripped(rs) = SubSeq(rs, n + 1, Len(rs))
           /\ fs[n + 1] = Start(x)
           /\ n < Len(rs) => rs[n + 1].size # 0
<1> DEFINE L == Len(rs)
           acks == {i \in 0 .. L : 1 .. i \subseteq Flushes(rs)}
           bad == {i \in 0 .. L + 1 : ~(1 .. i \subseteq Flushes(rs))}
<1>1. L \in Nat /\ DOMAIN rs = 1 .. L
  BY ChunkParts
<1>2. Flushes(rs) \subseteq 1 .. L
  BY <1>1 DEF Flushes
<1>3. L + 1 \in bad /\ bad \in SUBSET Nat /\ 0 \notin bad
  <2>1. L + 1 \in 1 .. L + 1 /\ L + 1 \notin 1 .. L /\ L + 1 \in 0 .. L + 1
    BY <1>1
  <2> HIDE DEF L
  <2> QED BY <1>1, <1>2, <2>1
<1>4. PICK b \in bad : \A i \in bad : b <= i
  <2> HIDE DEF bad
  <2> QED BY <1>3, LeastNumber
<1> DEFINE n == b - 1
<1>5. n \in 0 .. L /\ n + 1 = b /\ b \in Nat
  BY <1>1, <1>3, <1>4
<1>6. acks = 0 .. n
  <2>1. ASSUME NEW i \in 0 .. L, i <= n PROVE i \in acks
    <3>1. i \in 0 .. L + 1 /\ ~(b <= i)
      BY <1>1, <1>5, <2>1
    <3>2. i \notin bad
      BY <1>4, <3>1
    <3> QED BY <3>1, <3>2
  <2>2. ASSUME NEW i \in acks PROVE i <= n
    <3>1. ~(1 .. b \subseteq Flushes(rs))
      BY <1>4
    <3>2. 1 .. i \subseteq Flushes(rs) /\ i \in Nat
      BY <1>1, <2>2
    <3>3. b <= i => 1 .. b \subseteq 1 .. i
      BY <1>5, <3>2
    <3> QED BY <1>5, <3>1, <3>2, <3>3
  <2>3. \A i : i \in 0 .. n <=> i \in 0 .. L /\ i <= n
    BY <1>1, <1>5
  <2>4. acks \subseteq 0 .. L
    OBVIOUS
  <2> HIDE DEF acks, L, n
  <2> QED BY <2>1, <2>2, <2>3, <2>4
<1>7. Cardinality(0 .. n) = n + 1
  <2>1. n \in Nat
    BY <1>1, <1>5
  <2>2. Cardinality(0 .. n) = IF 0 > n THEN 0 ELSE n - 0 + 1
    BY <2>1, FS_Interval
  <2> HIDE DEF n
  <2> QED BY <2>1, <2>2
<1>8. Stripped(rs) = SubSeq(rs, n + 1, L)
  <2>1. Stripped(rs) = SubSeq(rs, Cardinality(acks), L)
    BY DEF Stripped
  <2> HIDE DEF acks, n, L
  <2> QED BY <1>6, <1>7, <2>1
<1>9. \A i \in 1 .. n : i \in 1 .. L /\ rs[i].size = 0
  <2>1. n \in acks
    BY <1>1, <1>5, <1>6
  <2> HIDE DEF n
  <2> QED BY <1>1, <2>1 DEF Flushes
<1>10. fs[n + 1] = Start(x)
  <2> DEFINE T == {j \in 1 .. n + 1 : fs[j] = Start(x)}
  <2>1. 1 \in T /\ n + 1 \in Nat /\ n + 1 \in 1 .. n + 1
    BY <1>1, <1>5
  <2>2. ASSUME NEW j \in 1 .. n + 1, j \in T, j + 1 <= n + 1 PROVE j + 1 \in T
    <3>1. j \in 1 .. n /\ j + 1 \in 1 .. n + 1
      BY <1>5, <2>2
    <3>2. j \in 1 .. L /\ rs[j].size = 0
      BY <1>9, <3>1
    <3>3. ChunkStep(ss, fs[j], rs[j], fs[j + 1])
      BY <3>2 DEF Chain
    <3>4. SizeStep(ss, Start(x), 0, fs[j + 1])
      BY <2>2, <3>2, <3>3 DEF ChunkStep
    <3>5. fs[j + 1] = Start(x)
      <4> DEFINE l == Start(x)
                 h == fs[j + 1]
      <4>1. l.x = x /\ l.at = 0 /\ l.left = 0
        BY DEF Start
      <4> HIDE DEF l
      <4>2. h = l \/ (l.x < Len(ss) /\ l.at = Len(ss[l.x + 1]))
        BY <3>4 DEF SizeStep, l
      <4>3. ~(x < Len(ss) /\ 0 = Len(ss[x + 1]))
        <5> SUFFICES ASSUME x < Len(ss) PROVE Len(ss[x + 1]) # 0
          OBVIOUS
        <5>1. x + 1 \in 1 .. Len(ss)
          OBVIOUS
        <5>2. ss[x + 1] \in Packets
          BY <5>1
        <5> QED BY <5>2, PacketLen
      <4> QED BY <4>1, <4>2, <4>3 DEF l
    <3> QED BY <3>1, <3>5
  <2> HIDE DEF T, n
  <2>3. n + 1 \in T
    <3>1. 1 \in Nat
      OBVIOUS
    <3>2. \A j \in 1 .. n + 1 : j \in T
      BY <2>1, <2>2, <3>1, Counting
    <3> QED BY <2>1, <3>2
  <2> QED BY <2>3 DEF T
<1>11. n < L => rs[n + 1].size # 0
  <2> SUFFICES ASSUME n < L, rs[n + 1].size = 0 PROVE FALSE
    OBVIOUS
  <2>1. b \in 1 .. L /\ rs[b].size = 0
    BY <1>1, <1>5
  <2>2. \A i \in 1 .. b : i \in 1 .. n \/ i = b
    BY <1>5
  <2> HIDE DEF n
  <2>3. 1 .. b \subseteq Flushes(rs)
    BY <1>1, <1>9, <2>1, <2>2 DEF Flushes
  <2> QED BY <1>4, <2>3
<1> QED BY <1>5, <1>8, <1>10, <1>11

(* The chunks in front of the first flush are the bytes of the packet.     *)
LEMMA ChunksGather ==
  ASSUME NEW ss \in Seq(Packets), NEW s \in Seq(Chunk), NEW fs, NEW x \in Nat,
         Chain(ss, s, fs), fs[1] = Start(x), s # <<>>, s[1].size # 0,
         NEW i \in Flushes(s), \A j \in Flushes(s) : i <= j
  PROVE  /\ x < Len(ss) /\ Before(s, i) = ss[x + 1]
         /\ fs[i + 1] = Start(x + 1)
<1> DEFINE L == Len(s)
           n == i - 1
<1>1. /\ L \in Nat /\ i \in 1 .. L /\ s[i].size = 0 /\ i # 1
      /\ \A j \in 1 .. L : j < i => s[j].size # 0
      /\ \A j \in 1 .. L : s[j].data \in Seq(Bytes) /\ Len(s[j].data) \in Nat
                           /\ s[j].size \in Nat
  <2>1. L \in Nat /\ DOMAIN s = 1 .. L
    BY ChunkParts
  <2>2. i \in 1 .. L /\ s[i].size = 0
    BY <2>1 DEF Flushes
  <2>3. ASSUME NEW j \in 1 .. L, j < i PROVE s[j].size # 0
    <3>1. ~(i <= j)
      BY <2>1, <2>2, <2>3
    <3> QED BY <2>1, <2>3, <3>1 DEF Flushes
  <2> QED BY <2>1, <2>2, <2>3, ChunkParts
<1>2. /\ fs \in [1 .. L + 1 -> Spots]
      /\ \A j \in 1 .. L : ChunkStep(ss, fs[j], s[j], fs[j + 1])
  BY DEF Chain
<1>3. n \in Nat /\ n >= 1 /\ n + 1 = i /\ n \in 1 .. n
  BY <1>1
<1> HIDE DEF n, L
<1> DEFINE part(j) == [t \in 1 .. j |-> s[t].data]
           p == ss[x + 1]
           T == {j \in 1 .. n :
                   /\ fs[j + 1].x = x /\ fs[j + 1].at \in 1 .. Len(p)
                   /\ x < Len(ss)
                   /\ FlattenSeq(part(j)) \in Seq(Bytes)
                   /\ Len(FlattenSeq(part(j))) = fs[j + 1].at
                   /\ \A t \in 1 .. fs[j + 1].at : FlattenSeq(part(j))[t] = p[t]}
<1>4. ASSUME NEW j \in 1 .. n
      PROVE  /\ j \in 1 .. L /\ j + 1 \in 1 .. L
             /\ fs[j].left = 0 /\ fs[j].x < Len(ss)
             /\ fs[j].at + s[j].size <= Len(ss[fs[j].x + 1])
             /\ s[j].size \in Nat \ {0} /\ Len(s[j].data) = s[j].size
             /\ \A t \in 1 .. s[j].size : s[j].data[t] = ss[fs[j].x + 1][fs[j].at + t]
             /\ fs[j + 1] = [x |-> fs[j].x, at |-> fs[j].at + s[j].size, left |-> 0]
  <2>1. j \in 1 .. L /\ j + 1 \in 1 .. L /\ j < i
    BY <1>1, <1>3
  <2> DEFINE a == fs[j]
             d == s[j]
             h == fs[j + 1]
             m == Len(d.data)
  <2>2. ChunkStep(ss, a, d, h) /\ d.size # 0 /\ d.size \in Nat /\ m \in Nat
    BY <1>1, <1>2, <2>1
  <2>3. h.left = 0
    <3>1. ChunkStep(ss, h, s[j + 1], fs[j + 1 + 1])
      BY <1>2, <2>1
    <3> QED BY <3>1 DEF ChunkStep
  <2> HIDE DEF a, d, h
  <2>4. /\ a.left = 0 /\ m <= d.size /\ a.x < Len(ss)
        /\ a.at + d.size <= Len(ss[a.x + 1])
        /\ \A t \in 1 .. m : d.data[t] = ss[a.x + 1][a.at + t]
        /\ h = [x |-> a.x, at |-> a.at + m, left |-> d.size - m]
    BY <2>2 DEF ChunkStep
  <2> HIDE DEF m
  <2>5. d.size - m = 0 /\ m = d.size
    <3>1. h.left = d.size - m
      BY <2>4
    <3> QED BY <2>2, <2>3, <2>4, <3>1
  <2>6. /\ a.left = 0 /\ a.x < Len(ss) /\ a.at + d.size <= Len(ss[a.x + 1])
        /\ d.size \in Nat \ {0} /\ Len(d.data) = d.size
        /\ \A t \in 1 .. d.size : d.data[t] = ss[a.x + 1][a.at + t]
        /\ h = [x |-> a.x, at |-> a.at + d.size, left |-> 0]
    BY <2>2, <2>4, <2>5 DEF m
  <2> QED BY <2>1, <2>6 DEF a, d, h
<1>5. x < Len(ss) /\ p \in Packets /\ Len(p) \in Nat /\ p \in Seq(Bytes) /\ Len(p) >= 2
  <2>1. 1 \in 1 .. n
    BY <1>3
  <2>2. fs[1].x = x
    BY DEF Start
  <2>3. x < Len(ss)
    BY <1>4, <2>1, <2>2
  <2>4. x + 1 \in 1 .. Len(ss)
    BY <2>3
  <2>5. p \in Packets
    BY <2>4
  <2> HIDE DEF p
  <2> QED BY <2>3, <2>5, PacketLen
<1>6. 1 \in T
  <2>1. 1 \in 1 .. n /\ 1 + 1 = 2
    BY <1>3
  <2>2. part(1) = <<s[1].data>>
    OBVIOUS
  <2>3. FlattenSeq(part(1)) = s[1].data
    BY <2>2, FlattenOne
  <2>4. fs[1].x = x /\ fs[1].at = 0
    BY DEF Start
  <2> HIDE DEF part, p
  <2> DEFINE z == s[1].size
             h == fs[2]
  <2>5. /\ z \in Nat \ {0} /\ Len(s[1].data) = z /\ 0 + z <= Len(ss[x + 1])
        /\ \A t \in 1 .. z : s[1].data[t] = ss[x + 1][0 + t]
        /\ h = [x |-> x, at |-> 0 + z, left |-> 0]
    BY <1>4, <2>1, <2>4
  <2> HIDE DEF z, h
  <2>6. h.x = x /\ h.at = z /\ z \in 1 .. Len(p) /\ \A t \in 1 .. z : 0 + t = t
    BY <1>5, <2>5 DEF p
  <2>7. s[1].data \in Seq(Bytes)
    <3>1. 1 \in 1 .. L
      BY <1>4, <2>1
    <3> QED BY <1>1, <3>1
  <2>8. \A t \in 1 .. z : s[1].data[t] = p[t]
    BY <2>5, <2>6 DEF p
  <2> QED BY <1>5, <2>1, <2>3, <2>5, <2>6, <2>7, <2>8 DEF h
<1>7. ASSUME NEW j \in 1 .. n, j \in T, j + 1 <= n PROVE j + 1 \in T
  <2>1. j + 1 \in 1 .. n /\ j \in Nat
    BY <1>3, <1>7
  <2> DEFINE w == part(j)
             o == s[j + 1].data
             z == s[j + 1].size
             g == fs[j + 1]
             h == fs[j + 1 + 1]
             q == FlattenSeq(w)
  <2>2. part(j + 1) = Append(w, o) /\ w \in Seq(Seq(Bytes)) /\ o \in Seq(Bytes)
    <3>1. \A t \in 1 .. j + 1 : s[t].data \in Seq(Bytes)
      <4>1. \A t \in 1 .. j + 1 : t \in 1 .. L
        <5>1. \A t \in 1 .. j + 1 : t \in 1 .. n
          BY <1>3, <2>1
        <5>2. \A t \in 1 .. n : t \in 1 .. L
          BY <1>4
        <5> QED BY <5>1, <5>2
      <4> QED BY <1>1, <4>1
    <3>2. w \in Seq(Seq(Bytes)) /\ Len(w) = j
      <4>1. \A t \in 1 .. j : t \in 1 .. j + 1
        BY <2>1
      <4>2. \A t \in 1 .. j : s[t].data \in Seq(Bytes)
        BY <3>1, <4>1
      <4> QED BY <2>1, <4>2
    <3>3. o \in Seq(Bytes)
      BY <2>1, <3>1
    <3>4. part(j + 1) \in Seq(Seq(Bytes)) /\ Len(part(j + 1)) = j + 1
      BY <2>1, <3>1
    <3>5. \A t \in 1 .. j + 1 : part(j + 1)[t] = Append(w, o)[t]
      <4> SUFFICES ASSUME NEW t \in 1 .. j + 1
                   PROVE  part(j + 1)[t] = Append(w, o)[t]
        OBVIOUS
      <4>1. part(j + 1)[t] = s[t].data
        OBVIOUS
      <4>2. CASE t = j + 1
        <5>1. Append(w, o)[j + 1] = o
          <6> HIDE DEF w, o
          <6> QED BY <3>2, <3>3, OneMore
        <5> QED BY <4>1, <4>2, <5>1
      <4>3. CASE t # j + 1
        <5>1. t \in 1 .. j
          BY <2>1, <4>3
        <5>2. w[t] = s[t].data
          BY <5>1
        <5>3. Append(w, o)[t] = w[t]
          <6> HIDE DEF w, o
          <6> QED BY <3>2, <3>3, <5>1, OneMore
        <5> QED BY <4>1, <5>2, <5>3
      <4> QED BY <4>2, <4>3
    <3> DEFINE u == part(j + 1)
               y == Append(w, o)
    <3>6. y \in Seq(Seq(Bytes)) /\ Len(y) = j + 1
      <4> HIDE DEF w, o
      <4> QED BY <3>2, <3>3, OneMore
    <3>7. u \in Seq(Seq(Bytes)) /\ Len(u) = Len(y) /\ \A t \in 1 .. Len(u) : u[t] = y[t]
      BY <3>4, <3>5, <3>6
    <3> HIDE DEF u, y, w, o
    <3>8. u = y
      BY <3>6, <3>7, SeqEqual
    <3> QED BY <3>2, <3>3, <3>8 DEF u, y
  <2>3. FlattenSeq(part(j + 1)) = q \o o
    <3> HIDE DEF w, o
    <3> QED BY <2>2, FlattenAppend
  <2>4. /\ g.x = x /\ g.at \in 1 .. Len(p) /\ q \in Seq(Bytes)
        /\ Len(q) = g.at /\ \A t \in 1 .. g.at : q[t] = p[t]
    BY <1>7
  <2>5. /\ z \in Nat \ {0} /\ Len(o) = z /\ g.at + z <= Len(ss[g.x + 1])
        /\ \A t \in 1 .. z : o[t] = ss[g.x + 1][g.at + t]
        /\ h = [x |-> g.x, at |-> g.at + z, left |-> 0]
    BY <1>4, <2>1
  <2> HIDE DEF q, w, o, z, g, h, part
  <2> DEFINE a == g.at
  <2>6. /\ \A t \in 1 .. z : o[t] = p[a + t]
        /\ a + z <= Len(p) /\ a \in Nat /\ a >= 1
    <3>1. ss[g.x + 1] = p
      BY <2>4
    <3>2. a \in Nat /\ a >= 1
      BY <1>5, <2>4
    <3> HIDE DEF p
    <3> QED BY <2>5, <3>1, <3>2
  <2> HIDE DEF a, p
  <2>7. h.x = x /\ h.at = a + z /\ h.at \in 1 .. Len(p)
    <3>1. h.x = x /\ h.at = a + z
      BY <2>4, <2>5 DEF a
    <3>2. a + z \in 1 .. Len(p)
      BY <1>5, <2>5, <2>6
    <3> QED BY <3>1, <3>2
  <2>8. q \o o \in Seq(Bytes) /\ Len(q \o o) = a + z
    <3>1. o \in Seq(Bytes) /\ q \in Seq(Bytes)
      BY <2>2, <2>4
    <3>2. Len(q \o o) = Len(q) + Len(o) /\ q \o o \in Seq(Bytes)
      BY <3>1, ConcatProperties
    <3> QED BY <2>4, <2>5, <3>2 DEF a
  <2>9. \A t \in 1 .. a + z : (q \o o)[t] = p[t]
    <3> SUFFICES ASSUME NEW t \in 1 .. a + z PROVE (q \o o)[t] = p[t]
      OBVIOUS
    <3>1. CASE t <= a
      <4>1. t \in 1 .. a /\ t \in 1 .. Len(q)
        BY <2>4, <2>6, <3>1 DEF a
      <4>2. (q \o o)[t] = q[t]
        BY <2>2, <2>4, <4>1
      <4> QED BY <2>4, <4>1, <4>2 DEF a
    <3>2. CASE ~(t <= a)
      <4>1. PICK v \in 1 .. z : t = a + v
        <5>1. t - a \in 1 .. z /\ t = a + (t - a)
          BY <2>5, <2>6, <3>2
        <5> QED BY <5>1
      <4>2. (q \o o)[Len(q) + v] = o[v]
        <5>1. v \in 1 .. Len(o)
          BY <2>5
        <5>2. o \in Seq(Bytes) /\ q \in Seq(Bytes) /\ Len(q) \in Nat /\ Len(o) \in Nat
          BY <2>2, <2>4
        <5>3. /\ Len(q) + v \in 1 .. Len(q) + Len(o) /\ ~(Len(q) + v <= Len(q))
              /\ (Len(q) + v) - Len(q) = v
          BY <5>1, <5>2
        <5> QED BY <5>2, <5>3, ConcatProperties
      <4> QED BY <2>4, <2>6, <4>1, <4>2 DEF a
    <3> QED BY <3>1, <3>2
  <2> QED BY <1>5, <2>1, <2>3, <2>7, <2>8, <2>9 DEF h
<1> HIDE DEF T
<1>8. n \in T
  <2>1. 1 \in Nat /\ n \in Nat
    BY <1>3
  <2>2. \A j \in 1 .. n : j \in T
    BY <1>6, <1>7, <2>1, Counting
  <2> QED BY <1>3, <2>2
<1> DEFINE q == FlattenSeq(part(n))
           g == fs[i]
<1>9. /\ g.x = x /\ g.at \in 1 .. Len(p) /\ q \in Seq(Bytes)
      /\ Len(q) = g.at /\ \A t \in 1 .. g.at : q[t] = p[t]
  BY <1>3, <1>8 DEF T
<1>10. Before(s, i) = q
  BY <1>3 DEF Before, n
<1> HIDE DEF q, g, part
<1>11. g.at = Len(p) /\ fs[i + 1] = [x |-> x + 1, at |-> 0, left |-> 0]
  <2>1. SizeStep(ss, g, 0, fs[i + 1])
    BY <1>1, <1>2 DEF ChunkStep, g
  <2>2. g.at # 0
    BY <1>5, <1>9
  <2> QED BY <1>9, <2>1, <2>2 DEF SizeStep
<1>12. q = p
  <2> HIDE DEF p
  <2> QED BY <1>5, <1>9, <1>11, SeqEqual
<1> QED BY <1>5, <1>10, <1>11, <1>12 DEF Start
-----------------------------------------------------------------------------
(* The writer.                                                             *)

(* A number of whole chunks and one byte more is no length of a packet.    *)
LEMMA OneByteMore ==
  ASSUME NEW k \in Nat, NEW b \in Nat, b > 1
  PROVE  (k * b + 1) % b = 1
<1> DEFINE a == k * b + 1
           q == a \div b
           r == a % b
<1>1. k * b \in Nat
  OBVIOUS
<1>2. a \in Nat /\ a = k * b + 1
  BY <1>1
<1> HIDE DEF a
<1>3. q \in Int /\ r \in 0 .. b - 1
  BY <1>2
<1>4. a = b * q + r
  BY <1>2, SMTT(60)
<1> HIDE DEF q, r
<1>5. r = 1
  <2> DEFINE d == k - q
  <2>1. d \in Int /\ d * b = r - 1
    BY <1>2, <1>3, <1>4, SMTT(60)
  <2> HIDE DEF d
  <2>2. d >= 1 => d * b >= b
    BY <2>1, SMTT(60)
  <2>3. d <= -1 => d * b <= -b
    BY <2>1, SMTT(60)
  <2>4. ~(d >= 1) /\ ~(d <= -1)
    BY <1>3, <2>1, <2>2, <2>3
  <2>5. d = 0
    BY <2>1, <2>4
  <2>6. 0 * b = 0
    OBVIOUS
  <2> QED BY <1>3, <2>1, <2>5, <2>6
<1> QED BY <1>5 DEF r, a

(* Such a length is excluded (ChunksAssumption) unless LastByteAlone.      *)
LEMMA NoLastByte ==
  ASSUME ~LastByteAlone, NEW p \in Packets, NEW k \in Nat
  PROVE  Len(p) # k * Cap + 1
<1>1. Cap \in Nat /\ Cap > 1 /\ \A l \in Lens : l % Cap # 1
  BY ChunksAssumption
<1>2. Len(p) \in Lens
  BY PacketLen
<1>3. (k * Cap + 1) % Cap = 1
  BY <1>1, OneByteMore
<1> QED BY <1>1, <1>2, <1>3

(* The writer begins chunks at multiples of cap, or where the packet ends; *)
(* a chunk is as long as it can be, and the stream does not leave the last *)
(* byte of a packet alone.                                                 *)
Remaining(w) == Len(Head(w.writing)) - w.writeat
Chunked(w) ==
  w.writing # <<>> =>
    /\ Remaining(w) = 0 \/ \E k \in Nat : w.writeat = k * Cap
    /\ w.waiting # 0 => w.waiting = Least(Remaining(w), Cap)
    /\ w.waitat # 0 /\ w.waiting = Remaining(w) => Unwritten(w) # 1
Ready(w) == w.writing # <<>> => w.waiting = Least(Remaining(w), Cap)

(* The spot the writer is at.                                              *)
WritesAt(ss, w, l) ==
  /\ l.x + Len(w.writing) = Len(ss)
  /\ \A i \in 1 .. Len(w.writing) : w.writing[i] = ss[l.x + i]
  /\ l.at = w.writeat + (IF w.waitat = 0 THEN 0 ELSE w.waitat - 1)
  /\ l.left = Unwritten(w)

(* util_chunks_len leaves the writer where it is, ready for a whole chunk. *)
LEMMA PreparedReady ==
  ASSUME NEW w \in Endpoints, InBounds(w), Chunked(w)
  PROVE  LET u == Prepared(w) IN
         /\ Chunked(u) /\ (~u.blocked => Ready(u))
         /\ \A ss, l : WritesAt(ss, w, l) => WritesAt(ss, u, l)
<1> DEFINE u == Prepared(w)
<1>1. /\ w.writing \in Seq(Packets) /\ w.writeat \in Nat /\ w.waiting \in Nat
      /\ w.waitat \in Nat
  BY EndpointParts
<1>2. /\ u.writing = w.writing /\ u.writeat = w.writeat /\ u.waitat = w.waitat
      /\ u.blocked = w.blocked
      /\ u = w \/ (w.waiting = 0 /\ u.waiting = Least(Remaining(w), Cap))
      /\ u = w => w.blocked \/ w.writing = <<>> \/ w.waiting # 0
                  \/ w.waiting = Least(Remaining(w), Cap)
  BY DEF Prepared, Endpoints, Remaining
<1>3. Unwritten(u) = Unwritten(w)
  BY PreparedInBounds
<1> HIDE DEF u
<1>4. Remaining(u) = Remaining(w)
  BY <1>2 DEF Remaining
<1>5. CASE u = w
  BY <1>2, <1>5 DEF Chunked, Ready, u
<1>6. CASE w.waiting = 0 /\ u.waiting = Least(Remaining(w), Cap)
  <2>1. w.waitat = 0
    BY <1>1, <1>6 DEF InBounds
  <2>2. Chunked(u)
    BY <1>2, <1>4, <1>6, <2>1 DEF Chunked
  <2>3. Ready(u)
    BY <1>4, <1>6 DEF Ready
  <2>4. ASSUME NEW ss, NEW l, WritesAt(ss, w, l) PROVE WritesAt(ss, u, l)
    BY <1>2, <1>3, <2>4 DEF WritesAt
  <2> QED BY <2>2, <2>3, <2>4 DEF u
<1> QED BY <1>2, <1>5, <1>6

(* util_chunks_written, field by field.                                    *)
LEMMA WrittenParts ==
  ASSUME NEW w \in Endpoints, NEW n \in Nat, n # 0, ~(n > Offered(w))
  PROVE  LET u == Written(w, n) IN
         /\ w.waitat + n <= w.waiting =>
              /\ u.writing = w.writing /\ u.writeat = w.writeat
              /\ u.waiting = w.waiting /\ u.waitat = w.waitat + n
         /\ ~(w.waitat + n <= w.waiting) =>
              /\ u.waiting = 0 /\ u.waitat = 0
              /\ IF PacketDone(w, n)
                 THEN u.writing = Tail(w.writing) /\ u.writeat = 0
                 ELSE u.writing = w.writing /\ u.writeat = w.writeat + w.waiting
<1> DEFINE u == Written(w, n)
<1>1. CASE w.waitat + n <= w.waiting
  <2>1. u = [w EXCEPT !.waitat = @ + n, !.ack = FALSE]
    BY <1>1 DEF Written
  <2> QED BY <1>1, <2>1 DEF Endpoints
<1>2. CASE ~(w.waitat + n <= w.waiting)
  <2> DEFINE past == [w EXCEPT !.writeat = @ + w.waiting, !.waitat = 0,
                               !.waiting = 0, !.ack = FALSE]
  <2>1. u = IF PacketDone(w, n) THEN NextPacket(past) ELSE past
    BY <1>2 DEF Written
  <2>2. CASE PacketDone(w, n)
    <3>1. u = NextPacket(past)
      BY <2>1, <2>2
    <3> QED BY <1>2, <2>2, <3>1 DEF NextPacket, Endpoints
  <2>3. CASE ~PacketDone(w, n)
    <3>1. u = past
      BY <2>1, <2>3
    <3> QED BY <1>2, <2>3, <3>1 DEF Endpoints
  <2> QED BY <2>2, <2>3
<1> QED BY <1>1, <1>2

(* The packet being written is the one the spot is in.                     *)
LEMMA WriterPacket ==
  ASSUME NEW ss \in Seq(Packets), NEW w \in Endpoints, InBounds(w), NEW l \in Spots,
         WritesAt(ss, w, l), w.writing # <<>>
  PROVE  LET p == Head(w.writing) IN
         /\ p \in Packets /\ p = ss[l.x + 1] /\ l.x < Len(ss)
         /\ p \in Seq(Bytes) /\ Len(p) \in Nat /\ Len(p) >= 2
         /\ w.writeat + w.waiting <= Len(p)
<1> DEFINE q == w.writing
           p == Head(q)
<1>1. q \in Seq(Packets) /\ l.x \in Nat
  BY EndpointParts DEF Spots
<1>2. l.x + Len(q) = Len(ss) /\ \A i \in 1 .. Len(q) : q[i] = ss[l.x + i]
  BY DEF WritesAt
<1>3. w.writeat + w.waiting <= Len(p)
  BY DEF InBounds
<1>4. q # <<>>
  OBVIOUS
<1> HIDE DEF q
<1>5. Len(q) \in Nat /\ Len(q) # 0 /\ 1 \in 1 .. Len(q) /\ Head(q) = q[1] /\ q[1] \in Packets
  BY <1>1, <1>4
<1>6. p = ss[l.x + 1] /\ p \in Packets /\ Len(ss) \in Nat
  BY <1>2, <1>5
<1>7. l.x < Len(ss)
  BY <1>1, <1>2, <1>5, <1>6
<1> HIDE DEF p
<1> QED BY <1>3, <1>6, <1>7, PacketLen DEF p, q

(* The bytes of a chunk that a write takes.                                *)
LEMMA BlockBytes ==
  ASSUME NEW w \in Endpoints, InBounds(w), w.waitat # 0,
         NEW n \in Nat, n # 0, n <= Offered(w)
  PROVE  /\ w.writing # <<>> /\ Len(Block(w, n)) = n /\ Block(w, n) \in Seq(Bytes)
         /\ \A i \in 1 .. n :
              Block(w, n)[i] = Head(w.writing)[w.writeat + (w.waitat - 1) + i]
<1> DEFINE p == Head(w.writing)
           from == w.writeat + w.waitat - 1
           s == SubSeq(p, from + 1, from + n)
<1>1. /\ w.waitat <= w.waiting /\ w.writing # <<>>
      /\ w.writeat + w.waiting <= Len(p)
  BY EndpointParts DEF InBounds
<1>2. Offered(w) = w.waiting - (w.waitat - 1)
  BY <1>1, EndpointParts DEF Offered
<1>3. Block(w, n) = s
  BY DEF Block
<1>4. from \in Nat /\ from + n <= Len(p) /\ from = w.writeat + (w.waitat - 1)
  <2>1. /\ w.writeat \in Nat /\ w.waiting \in Nat /\ w.waitat \in Nat
        /\ Len(p) \in Nat
    BY <1>1, EndpointParts
  <2>2. w.writeat + w.waiting <= Len(p) /\ n <= w.waiting - (w.waitat - 1)
    BY <1>1, <1>2
  <2> HIDE DEF p
  <2>3. \A at, g, t, l \in Nat :
          at + g <= l /\ t # 0 /\ n <= g - (t - 1) =>
            /\ at + t - 1 \in Nat /\ at + t - 1 + n <= l
            /\ at + t - 1 = at + (t - 1)
    OBVIOUS
  <2> QED BY <2>1, <2>2, <2>3, Zenon
<1>5. p \in Seq(Bytes) /\ Len(p) \in Nat /\ \A i \in 1 .. Len(p) : p[i] \in Bytes
  BY <1>1, EndpointParts, PacketBytes
<1> HIDE DEF p, from
<1>6. \A i \in from + 1 .. from + n : p[i] \in Bytes
  BY <1>4, <1>5
<1>7. \A i \in 1 .. n : s[i] = p[from + i]
  <2> DEFINE a == from + 1
             b == from + n
  <2>1. a \in Int /\ b \in Int /\ \A i \in a .. b : p[i] \in Bytes
    BY <1>4, <1>6
  <2>2. s = SubSeq(p, a, b)
    OBVIOUS
  <2>3. b - a + 1 = n /\ \A i \in 1 .. n : a + i - 1 = from + i
    BY <1>4
  <2> HIDE DEF a, b, s
  <2>4. /\ s \in Seq(Bytes) /\ Len(s) = IF a <= b THEN b - a + 1 ELSE 0
        /\ \A i \in 1 .. b - a + 1 : s[i] = p[a + i - 1]
    BY <2>1, <2>2, SubSeqProperties
  <2>5. \A i \in 1 .. n : s[i] = p[a + i - 1]
    BY <2>3, <2>4, Zenon
  <2> QED BY <2>3, <2>5, Zenon
<1> QED BY <1>1, <1>3, <1>4, <1>7, DataUnwritten DEF p, s

(* A write moves the writer along the bytes it puts on the wire: the size  *)
(* of a chunk, a flush, or an ack ...                                      *)
LEMMA SizeMoves ==
  ASSUME ~LastByteAlone, NEW ss \in Seq(Packets), NEW w \in Endpoints, InBounds(w),
         Chunked(w), Ready(w), w.waitat = 0, Offered(w) > 0,
         NEW l \in Spots, WritesAt(ss, w, l)
  PROVE  \E k \in Spots : /\ ByteStep(ss, l, SizeByte(w.waiting), k)
                          /\ WritesAt(ss, Written(w, 1), k)
                          /\ Chunked(Written(w, 1))
<1> DEFINE u == Written(w, 1)
           b == SizeByte(w.waiting)
           q == w.writing
<1>1. Offered(w) = 1 /\ Unwritten(w) = 0 /\ Unwritten(u) = w.waiting
  BY SizeUnwritten
<1>2. /\ q \in Seq(Packets) /\ w.writeat \in Nat /\ w.waiting \in 0 .. Cap
      /\ w.waiting \in Nat /\ Len(q) \in Nat
  BY EndpointParts
<1>3. /\ l.x \in Nat /\ l.at = w.writeat /\ l.left = 0
      /\ l.x + Len(q) = Len(ss) /\ \A i \in 1 .. Len(q) : q[i] = ss[l.x + i]
      /\ l = [x |-> l.x, at |-> l.at, left |-> l.left]
  BY <1>1, <1>2 DEF WritesAt, Spots
<1>4. b.n = w.waiting
  BY <1>2, SizeByteIsByte
<1>5. /\ 1 <= w.waiting =>
           u.writing = q /\ u.writeat = w.writeat
           /\ u.waiting = w.waiting /\ u.waitat = 1
      /\ ~(1 <= w.waiting) =>
           /\ u.waiting = 0 /\ u.waitat = 0
           /\ IF PacketDone(w, 1)
              THEN u.writing = Tail(q) /\ u.writeat = 0
              ELSE u.writing = q /\ u.writeat = w.writeat + w.waiting
  <2>1. 1 \in Nat /\ 1 # 0 /\ ~(1 > Offered(w)) /\ w.waitat + 1 = 1
    BY <1>1
  <2> QED BY <2>1, WrittenParts
<1> HIDE DEF u, b
<1>6. CASE q = <<>>
  <2>1. w.waiting = 0 /\ w.writeat = 0 /\ ~PacketDone(w, 1)
    BY <1>6 DEF InBounds, PacketDone
  <2>2. u.writing = q /\ u.writeat = 0 /\ u.waitat = 0
    BY <1>5, <2>1
  <2>3. ByteStep(ss, l, b, l)
    BY <1>3, <1>4, <2>1 DEF ByteStep, SizeStep
  <2>4. WritesAt(ss, u, l)
    BY <1>1, <1>3, <2>1, <2>2 DEF WritesAt
  <2>5. Chunked(u)
    BY <1>6, <2>2 DEF Chunked
  <2> QED BY <2>3, <2>4, <2>5 DEF u, b
<1>7. CASE q # <<>> /\ w.waiting = 0
  <2> DEFINE p == Head(q)
             k == [x |-> l.x + 1, at |-> 0, left |-> 0]
  <2>1. /\ p \in Packets /\ p = ss[l.x + 1] /\ l.x < Len(ss) /\ Len(p) \in Nat
        /\ w.writeat + w.waiting <= Len(p)
    BY <1>7, WriterPacket
  <2>2. Len(p) = w.writeat
    <3>1. 0 = Least(Len(p) - w.writeat, Cap) /\ Cap \in 1 .. 255
      BY <1>7, ChunksAssumption DEF Ready, Remaining
    <3> HIDE DEF p
    <3>2. Len(p) - w.writeat = 0
      BY <3>1 DEF Least
    <3> QED BY <1>2, <2>1, <3>2
  <2>3. PacketDone(w, 1)
    BY <1>2, <1>7, <2>2 DEF PacketDone
  <2>4. u.writing = Tail(q) /\ u.writeat = 0 /\ u.waitat = 0 /\ u.waiting = 0
    BY <1>5, <1>7, <2>3
  <2>5. ByteStep(ss, l, b, k) /\ k \in Spots
    <3>1. SizeStep(ss, l, b.n, k)
      BY <1>3, <1>4, <1>7, <2>1, <2>2 DEF SizeStep
    <3> QED BY <1>3, <3>1 DEF ByteStep, Spots
  <2>6. WritesAt(ss, u, k)
    <3>1. /\ Len(Tail(q)) = Len(q) - 1
          /\ \A i \in 1 .. Len(q) - 1 : Tail(q)[i] = q[i + 1]
      BY <1>2, <1>7, OneLess
    <3>2. l.x + 1 + (Len(q) - 1) = Len(ss)
      BY <1>2, <1>3
    <3>3. ASSUME NEW i \in 1 .. Len(q) - 1 PROVE Tail(q)[i] = ss[l.x + 1 + i]
      <4>1. i + 1 \in 1 .. Len(q) /\ l.x + (i + 1) = l.x + 1 + i
        BY <1>2, <1>3
      <4> QED BY <1>3, <3>1, <4>1
    <3>4. Unwritten(u) = 0
      BY <2>4 DEF Unwritten
    <3>5. k.x = l.x + 1 /\ k.at = 0 /\ k.left = 0 /\ 0 + 0 = 0
      OBVIOUS
    <3> DEFINE t == Tail(q)
    <3> HIDE DEF t, k, q
    <3>6. /\ u.writing = t /\ u.writeat = 0 /\ u.waitat = 0
          /\ k.x + Len(t) = Len(ss)
          /\ \A i \in 1 .. Len(t) : t[i] = ss[k.x + i]
      BY <2>4, <3>1, <3>2, <3>3, <3>5 DEF t, q
    <3> QED BY <3>4, <3>5, <3>6 DEF WritesAt
  <2>7. Chunked(u)
    <3>1. 0 \in Nat /\ 0 = 0 * Cap
      BY ChunksAssumption
    <3> QED BY <2>4, <3>1 DEF Chunked
  <2> QED BY <2>5, <2>6, <2>7 DEF u, b
<1>8. CASE q # <<>> /\ w.waiting # 0
  <2> DEFINE p == Head(q)
             k == [x |-> l.x, at |-> l.at, left |-> w.waiting]
  <2>1. /\ p \in Packets /\ p = ss[l.x + 1] /\ l.x < Len(ss) /\ Len(p) \in Nat
        /\ w.writeat + w.waiting <= Len(p)
    BY <1>8, WriterPacket
  <2>2. u.writing = q /\ u.writeat = w.writeat /\ u.waiting = w.waiting /\ u.waitat = 1
    BY <1>2, <1>5, <1>8
  <2>3. ByteStep(ss, l, b, k) /\ k \in Spots
    <3>1. SizeStep(ss, l, b.n, k)
      BY <1>3, <1>4, <1>8, <2>1 DEF SizeStep
    <3> QED BY <1>2, <1>3, <3>1 DEF ByteStep, Spots
  <2>4. WritesAt(ss, u, k)
    <3>1. w.writeat + 0 = w.writeat
      BY <1>2
    <3> QED BY <1>1, <1>3, <2>2, <3>1 DEF WritesAt
  <2>5. Remaining(u) = Remaining(w) /\ Remaining(w) = Len(p) - w.writeat
    BY <2>2 DEF Remaining
  <2>6. ASSUME w.waiting = Remaining(w) PROVE w.waiting # 1
    <3> SUFFICES ASSUME w.waiting = 1 PROVE FALSE
      OBVIOUS
    <3>1. Len(p) = w.writeat + 1
      BY <1>2, <2>1, <2>5, <2>6
    <3>2. PICK m \in Nat : w.writeat = m * Cap
      BY <1>8, <2>6 DEF Chunked
    <3> QED BY <2>1, <3>1, <3>2, NoLastByte
  <2>7. Chunked(u)
    BY <1>1, <1>8, <2>2, <2>5, <2>6 DEF Chunked
  <2> QED BY <2>3, <2>4, <2>7 DEF u, b
<1> QED BY <1>6, <1>7, <1>8

(* ... or bytes of the packet.                                             *)
LEMMA DataMoves ==
  ASSUME NEW ss \in Seq(Packets), NEW w \in Endpoints, InBounds(w),
         Chunked(w), Ready(w), w.waitat # 0, NEW n \in Nat, n # 0, n <= Offered(w),
         w.writeat + w.waiting = Len(Head(w.writing)) => n # Offered(w) - 1,
         NEW l \in Spots, WritesAt(ss, w, l),
         NEW v \in Seq(Bytes), NEW s, Carries(ss, v, s, l)
  PROVE  \E k \in Spots : /\ Carries(ss, v \o Block(w, n), s, k)
                          /\ WritesAt(ss, Written(w, n), k)
                          /\ Chunked(Written(w, n))
<1> DEFINE u == Written(w, n)
           q == w.writing
           p == Head(q)
           ms == Block(w, n)
           k == [x |-> l.x, at |-> l.at + Len(ms), left |-> l.left - Len(ms)]
<1>1. /\ q # <<>> /\ Len(ms) = n /\ ms \in Seq(Bytes)
      /\ \A i \in 1 .. n : ms[i] = p[w.writeat + (w.waitat - 1) + i]
  BY BlockBytes
<1>2. /\ q \in Seq(Packets) /\ w.writeat \in Nat /\ w.waiting \in Nat
      /\ w.waitat \in Nat /\ Len(q) \in Nat /\ w.waitat <= w.waiting
  BY EndpointParts DEF InBounds
<1>3. /\ p \in Packets /\ p = ss[l.x + 1] /\ l.x < Len(ss) /\ Len(p) \in Nat
      /\ w.writeat + w.waiting <= Len(p)
  BY <1>1, WriterPacket
<1>4. /\ Offered(w) = w.waiting - (w.waitat - 1)
      /\ Unwritten(w) = w.waiting - (w.waitat - 1)
  <2>1. ~w.blocked
    BY EndpointParts DEF Offered
  <2> QED BY <1>1, <2>1 DEF Offered, Unwritten
<1>5. /\ l.x \in Nat /\ l.at = w.writeat + (w.waitat - 1)
      /\ l.left = w.waiting - (w.waitat - 1)
      /\ l.x + Len(q) = Len(ss) /\ \A i \in 1 .. Len(q) : q[i] = ss[l.x + i]
  BY <1>4 DEF WritesAt, Spots
<1>6. Unwritten(u) = Unwritten(w) - n
  BY DataUnwritten
<1>7. /\ w.waitat + n <= w.waiting =>
           /\ u.writing = q /\ u.writeat = w.writeat
           /\ u.waiting = w.waiting /\ u.waitat = w.waitat + n
      /\ ~(w.waitat + n <= w.waiting) =>
           /\ u.waiting = 0 /\ u.waitat = 0
           /\ IF PacketDone(w, n)
              THEN u.writing = Tail(q) /\ u.writeat = 0
              ELSE u.writing = q /\ u.writeat = w.writeat + w.waiting
  <2>1. ~(n > Offered(w))
    BY <1>2, <1>4
  <2> QED BY <2>1, WrittenParts
<1> HIDE DEF u, q, p, ms
<1>8. n <= l.left /\ l.at + l.left <= Len(p) /\ l.left - n \in Nat /\ l.at + n \in Nat
  <2> DEFINE a == w.writeat
             g == w.waiting
             t == w.waitat
  <2>1. /\ a \in Nat /\ g \in Nat /\ t \in Nat /\ t # 0 /\ t <= g
        /\ n <= g - (t - 1) /\ a + g <= Len(p) /\ Len(p) \in Nat
        /\ l.at = a + (t - 1) /\ l.left = g - (t - 1)
    BY <1>2, <1>3, <1>4, <1>5
  <2> HIDE DEF a, g, t
  <2> QED BY <2>1
<1>9. Carries(ss, v \o ms, s, k)
  <2>1. \A i \in 1 .. Len(ms) : ms[i] = ss[l.x + 1][l.at + i]
    BY <1>1, <1>3, <1>5
  <2>2. Len(ss) \in Nat /\ Len(ss[l.x + 1]) \in Nat
    BY <1>3
  <2> QED BY <1>1, <1>3, <1>8, <2>1, <2>2, CarriesData
<1>10. k \in Spots /\ k.x = l.x /\ k.at = l.at + n /\ k.left = l.left - n
  BY <1>1, <1>5, <1>8 DEF Spots
<1> HIDE DEF k
<1>11. k.left = Unwritten(u)
  BY <1>4, <1>5, <1>6, <1>10
<1>12. CASE w.waitat + n <= w.waiting
  <2>1. /\ u.writing = q /\ u.writeat = w.writeat
        /\ u.waiting = w.waiting /\ u.waitat = w.waitat + n
    BY <1>7, <1>12
  <2>2. WritesAt(ss, u, k)
    <3> DEFINE a == w.writeat
               t == w.waitat
    <3>1. /\ a \in Nat /\ t \in Nat /\ u.writeat = a /\ u.waitat = t + n
          /\ l.at = a + (t - 1) /\ k.at = l.at + n
      BY <1>2, <1>5, <1>10, <2>1
    <3> HIDE DEF a, t
    <3>2. /\ u.waitat # 0 /\ k.x = l.x /\ u.writing = q
          /\ k.at = u.writeat + (u.waitat - 1)
      BY <1>10, <2>1, <3>1
    <3> QED BY <1>5, <1>11, <3>2 DEF WritesAt
  <2>3. Remaining(u) = Remaining(w) /\ Remaining(w) = Len(p) - w.writeat
    BY <2>1 DEF Remaining, p, q
  <2>4. ASSUME w.waiting = Remaining(w) PROVE Unwritten(u) # 1
    <3>1. w.writeat + w.waiting = Len(p)
      BY <1>2, <1>3, <2>3, <2>4
    <3>2. n # Offered(w) - 1
      BY <3>1 DEF p, q
    <3> QED BY <1>2, <1>4, <1>6, <3>2
  <2>5. Chunked(u)
    BY <2>1, <2>3, <2>4, <1>1 DEF Chunked, q
  <2> QED BY <1>9, <1>10, <2>2, <2>5 DEF u, ms
<1>13. CASE ~(w.waitat + n <= w.waiting)
  <2>1. n = w.waiting - (w.waitat - 1)
    BY <1>2, <1>4, <1>13
  <2>2. w.waiting # 0 /\ w.waiting = Least(Remaining(w), Cap)
    BY <1>1, <1>2 DEF Ready, q
  <2>3. Remaining(w) = Len(p) - w.writeat
    BY DEF Remaining, p, q
  <2>4. ~PacketDone(w, n)
    <3> SUFFICES ASSUME PacketDone(w, n) PROVE FALSE
      OBVIOUS
    <3>1. n = 1 /\ w.writeat + w.waiting = Len(p)
      BY DEF PacketDone, p, q
    <3>2. w.waiting = Remaining(w)
      BY <1>2, <1>3, <2>3, <3>1
    <3>3. Unwritten(w) # 1
      BY <1>1, <3>2 DEF Chunked, q
    <3> QED BY <1>4, <2>1, <3>1, <3>3
  <2>5. /\ u.writing = q /\ u.writeat = w.writeat + w.waiting
        /\ u.waiting = 0 /\ u.waitat = 0
    BY <1>7, <1>13, <2>4
  <2>6. WritesAt(ss, u, k)
    <3>1. w.writeat + (w.waitat - 1) + n = w.writeat + w.waiting + 0
      BY <1>2, <2>1
    <3> QED BY <1>5, <1>10, <1>11, <2>5, <3>1 DEF WritesAt
  <2>7. Remaining(u) = Len(p) - (w.writeat + w.waiting)
    BY <2>5 DEF Remaining, p
  <2>8. Remaining(u) = 0 \/ \E m \in Nat : u.writeat = m * Cap
    <3>1. CASE w.waiting = Remaining(w)
      <4>1. Remaining(u) = 0
        BY <1>2, <1>3, <2>3, <2>7, <3>1
      <4> QED BY <4>1
    <3>2. CASE w.waiting # Remaining(w)
      <4>1. w.waiting = Cap /\ Cap \in Nat
        BY <2>2, <3>2, ChunksAssumption DEF Least
      <4>2. Remaining(w) # 0
        <5>1. w.waiting <= Remaining(w)
          BY <1>2, <1>3, <2>3
        <5> QED BY <1>2, <2>2, <5>1
      <4>3. PICK m \in Nat : w.writeat = m * Cap
        BY <1>1, <4>2 DEF Chunked, q
      <4>4. m * Cap + Cap = (m + 1) * Cap /\ m + 1 \in Nat
        BY <4>1
      <4> QED BY <2>5, <4>1, <4>3, <4>4
    <3> QED BY <3>1, <3>2
  <2>9. Chunked(u)
    BY <2>5, <2>8 DEF Chunked
  <2> QED BY <1>9, <1>10, <2>6, <2>9 DEF u, ms
<1> QED BY <1>12, <1>13
-----------------------------------------------------------------------------
(* One direction: the packets g reassembled are the first of those sent,   *)
(* ss; from there the chunks received and then the wire lead to where the  *)
(* writer is.                                                              *)
Direction(ss, w, v, rs, g) ==
  /\ Len(g) <= Len(ss) /\ \A i \in 1 .. Len(g) : g[i] = ss[i]
  /\ Chunked(w)
  /\ \E l, m \in Spots :
       Holds(ss, rs, Start(Len(g)), l) /\ Carries(ss, v, l, m) /\ WritesAt(ss, w, m)

PipeInv ==
  /\ ChunksInv
  /\ got \in [End -> Seq(Packets)]
  /\ \A e \in End :
       Direction(sent[Other(e)], c[Other(e)], wire[e], c[e].reading, got[e])

(* The writer does not notice what its own reader does.                    *)
LEMMA SameWriter ==
  ASSUME NEW ss, NEW w, NEW u, NEW v, NEW rs, NEW g, Direction(ss, w, v, rs, g),
         u.writing = w.writing, u.writeat = w.writeat,
         u.waiting = w.waiting, u.waitat = w.waitat
  PROVE  Direction(ss, u, v, rs, g)
<1>1. Unwritten(u) = Unwritten(w) /\ Remaining(u) = Remaining(w)
  BY DEF Unwritten, Remaining
<1>2. Chunked(u)
  BY <1>1 DEF Direction, Chunked
<1>3. \A m : WritesAt(ss, w, m) => WritesAt(ss, u, m)
  BY <1>1 DEF WritesAt
<1> QED BY <1>2, <1>3 DEF Direction

(* util_chunks_send.                                                       *)
LEMMA PacketSent ==
  ASSUME NEW ss \in Seq(Packets), NEW p \in Packets,
         NEW w \in Endpoints, InBounds(w), NEW v \in Seq(Bytes),
         NEW rs \in Seq(Chunk), NEW g \in Seq(Packets), Direction(ss, w, v, rs, g),
         NEW u, u.writing = Append(w.writing, p), u.writeat = w.writeat,
         u.waiting = w.waiting, u.waitat = w.waitat
  PROVE  Direction(Append(ss, p), u, v, rs, g)
<1> DEFINE z == Append(ss, p)
           q == w.writing
           y == Append(q, p)
<1>1. /\ Len(z) = Len(ss) + 1 /\ Len(ss) \in Nat /\ z[Len(ss) + 1] = p
      /\ \A i \in 1 .. Len(ss) : z[i] = ss[i]
  BY OneMore
<1>2. q \in Seq(Packets) /\ w.writeat \in Nat /\ w.waiting \in Nat /\ w.waitat \in Nat
  BY EndpointParts
<1>3. /\ Len(y) = Len(q) + 1 /\ Len(q) \in Nat /\ y[Len(q) + 1] = p
      /\ \A i \in 1 .. Len(q) : y[i] = q[i]
  BY <1>2, OneMore
<1>4. q # <<>> => Head(y) = Head(q)
  <2> HIDE DEF q
  <2> QED BY <1>2
<1>5. Unwritten(u) = Unwritten(w) /\ u.writing = y
  BY DEF Unwritten
<1> HIDE DEF y
<1>6. Chunked(u)
  <2>1. CASE q = <<>>
    <3>1. u.writeat = 0 /\ u.waiting = 0 /\ u.waitat = 0
      BY <1>2, <2>1 DEF InBounds
    <3>2. 0 = 0 * Cap /\ 0 \in Nat
      BY ChunksAssumption
    <3> QED BY <3>1, <3>2 DEF Chunked
  <2>2. CASE q # <<>>
    <3>1. Remaining(u) = Remaining(w)
      BY <1>4, <1>5, <2>2 DEF Remaining
    <3> QED BY <1>5, <2>2, <3>1 DEF Chunked, Direction
  <2> QED BY <2>1, <2>2
<1>7. PICK l \in Spots, m \in Spots :
        /\ Holds(ss, rs, Start(Len(g)), l) /\ Carries(ss, v, l, m)
        /\ WritesAt(ss, w, m)
  BY DEF Direction
<1>8. WritesAt(z, u, m)
  <2>1. /\ m.x \in Nat /\ m.x + Len(q) = Len(ss)
        /\ \A i \in 1 .. Len(q) : q[i] = ss[m.x + i]
    BY <1>7 DEF WritesAt, Spots
  <2> HIDE DEF z, q
  <2>2. m.x + Len(y) = Len(z)
    BY <1>1, <1>3, <2>1
  <2>3. ASSUME NEW i \in 1 .. Len(y) PROVE y[i] = z[m.x + i]
    <3>1. CASE i = Len(q) + 1
      <4>1. m.x + i = Len(ss) + 1
        <5>1. \A a, n \in Nat : a + (n + 1) = (a + n) + 1
          OBVIOUS
        <5> QED BY <1>3, <2>1, <3>1, <5>1, Zenon
      <4> QED BY <1>1, <1>3, <3>1, <4>1
    <3>2. CASE i # Len(q) + 1
      <4>1. i \in 1 .. Len(q) /\ m.x + i \in 1 .. Len(ss)
        <5>1. \A a, n \in Nat : \A k \in 1 .. n + 1 :
                k # n + 1 => k \in 1 .. n /\ a + k \in 1 .. a + n
          OBVIOUS
        <5> QED BY <1>3, <2>1, <3>2, <5>1, Zenon
      <4> QED BY <1>1, <1>3, <2>1, <4>1
    <3> QED BY <3>1, <3>2
  <2> QED BY <1>5, <1>7, <2>2, <2>3 DEF WritesAt
<1>9. Holds(z, rs, Start(Len(g)), l) /\ Carries(z, v, l, m)
  <2>1. Len(rs) \in Nat /\ Len(v) \in Nat
    OBVIOUS
  <2> QED BY <1>7, <2>1, HoldsGrow, CarriesGrow
<1>10. Len(g) <= Len(z) /\ \A i \in 1 .. Len(g) : g[i] = z[i]
  <2>1. /\ Len(g) <= Len(ss) /\ Len(g) \in Nat
        /\ \A i \in 1 .. Len(g) : g[i] = ss[i]
    BY DEF Direction
  <2> HIDE DEF z
  <2> QED BY <1>1, <2>1
<1> QED BY <1>6, <1>8, <1>9, <1>10 DEF Direction, z

(* util_chunks_write, and a stream that takes n of its bytes.              *)
LEMMA BytesTaken ==
  ASSUME ~LastByteAlone, NEW ss \in Seq(Packets), NEW d \in Endpoints, InBounds(d),
         NEW v \in Seq(Bytes), NEW rs, NEW g, Direction(ss, d, v, rs, g),
         NEW n \in Taken(Prepared(d))
  PROVE  Direction(ss, Written(Prepared(d), n), v \o Block(Prepared(d), n), rs, g)
<1> DEFINE w == Prepared(d)
<1>1. w \in Endpoints /\ InBounds(w)
  BY PreparedInBounds
<1>2. /\ Chunked(w) /\ (~w.blocked => Ready(w))
      /\ \A l : WritesAt(ss, d, l) => WritesAt(ss, w, l)
  BY PreparedReady DEF Direction
<1>3. PICK l \in Spots, m \in Spots :
        /\ Holds(ss, rs, Start(Len(g)), l) /\ Carries(ss, v, l, m)
        /\ WritesAt(ss, w, m)
  BY <1>2 DEF Direction
<1> HIDE DEF w
<1>4. Offered(w) \in Nat /\ n \in 1 .. Offered(w) /\ n \in Nat /\ n # 0
  <2>1. Offered(w) \in Nat
    BY <1>1, EndpointParts DEF Offered, InBounds
  <2> QED BY <2>1 DEF Taken, w
<1>5. ~w.blocked /\ Ready(w)
  BY <1>1, <1>2, <1>4, EndpointParts DEF Offered
<1>6. \E k \in Spots : /\ Carries(ss, v \o Block(w, n), l, k)
                       /\ WritesAt(ss, Written(w, n), k) /\ Chunked(Written(w, n))
  <2>1. CASE w.waitat = 0
    <3>1. n = 1 /\ Offered(w) > 0
      <4>1. Offered(w) <= 1
        BY <1>1, <2>1, EndpointParts DEF Offered
      <4> QED BY <1>4, <4>1
    <3> DEFINE b == SizeByte(w.waiting)
    <3>2. Block(w, n) = <<b>> /\ b \in Bytes
      BY <1>1, <2>1, <3>1, SizeUnwritten, SizeByteIsByte, EndpointParts
    <3>3. PICK k \in Spots :
            /\ ByteStep(ss, m, b, k)
            /\ WritesAt(ss, Written(w, 1), k) /\ Chunked(Written(w, 1))
      BY <1>1, <1>2, <1>3, <1>5, <2>1, <3>1, SizeMoves
    <3> HIDE DEF b
    <3>4. v \o Block(w, n) = Append(v, b)
      BY <3>2
    <3>5. Carries(ss, Append(v, b), l, k)
      BY <1>3, <3>2, <3>3, CarriesByte
    <3> QED BY <3>1, <3>3, <3>4, <3>5
  <2>2. CASE w.waitat # 0
    <3>1. n <= Offered(w)
      BY <1>4
    <3>2. w.writeat + w.waiting = Len(Head(w.writing)) => n # Offered(w) - 1
      <4>1. w.waitat > 0
        BY <1>1, <2>2, EndpointParts
      <4> QED BY <4>1 DEF Taken, w
    <3> QED BY <1>1, <1>2, <1>3, <1>4, <1>5, <2>2, <3>1, <3>2, DataMoves
  <2> QED BY <2>1, <2>2
<1> QED BY <1>3, <1>6 DEF Direction, w

(* util_chunks_frame and util_chunks_next.                                 *)
LEMMA FrameTaken ==
  ASSUME ~LastByteAlone, NEW ss \in Seq(Packets), NEW d \in Endpoints, InBounds(d),
         d.waitat = 0, NEW v \in Seq(Bytes), NEW rs, NEW g,
         Direction(ss, d, v, rs, g), Offered(Prepared(d)) > 0
  PROVE  LET w == Prepared(d)
             sized == Written(w, 1)
             ms == IF w.waiting = 0 THEN <<>> ELSE Block(sized, w.waiting)
         IN  Direction(ss, Written(sized, w.waiting),
                       Append(v, SizeByte(w.waiting)) \o ms, rs, g)
<1> DEFINE w == Prepared(d)
           sized == Written(w, 1)
           u == Written(sized, w.waiting)
           b == SizeByte(w.waiting)
           z == Append(v, b)
           ms == IF w.waiting = 0 THEN <<>> ELSE Block(sized, w.waiting)
<1>1. w \in Endpoints /\ InBounds(w) /\ w.waitat = 0 /\ w.waiting \in Nat
      /\ b \in Bytes
  BY PreparedInBounds, EndpointParts, SizeByteIsByte
<1>2. /\ Chunked(w) /\ (~w.blocked => Ready(w))
      /\ \A l : WritesAt(ss, d, l) => WritesAt(ss, w, l)
  BY PreparedReady DEF Direction
<1>3. PICK l \in Spots, m \in Spots :
        /\ Holds(ss, rs, Start(Len(g)), l) /\ Carries(ss, v, l, m)
        /\ WritesAt(ss, w, m)
  BY <1>2 DEF Direction
<1>d. Offered(w) > 0
  OBVIOUS
<1> HIDE DEF w
<1>4. ~w.blocked /\ Ready(w) /\ Offered(w) = 1
  <2>1. Offered(w) = 1
    BY <1>1, <1>d, SizeUnwritten
  <2> QED BY <1>1, <1>2, <2>1, EndpointParts DEF Offered
<1>5. PICK k \in Spots : /\ ByteStep(ss, m, b, k)
                         /\ WritesAt(ss, sized, k) /\ Chunked(sized)
  BY <1>1, <1>2, <1>3, <1>4, <1>d, SizeMoves
<1> HIDE DEF b
<1>6. z \in Seq(Bytes) /\ Carries(ss, z, l, k)
  BY <1>1, <1>3, <1>5, CarriesByte, OneMore
<1>7. /\ sized \in Endpoints /\ InBounds(sized)
      /\ IF 1 <= w.waiting
         THEN sized.waitat = 1 /\ sized.waiting = w.waiting
              /\ sized.writing = w.writing /\ sized.blocked = w.blocked
         ELSE sized.waitat = 0
  <2>1. 1 \in Nat /\ 1 # 0 /\ ~(1 > Offered(w)) /\ w.waitat + 1 = 1
    BY <1>1, <1>4
  <2> QED BY <1>1, <2>1, WrittenInBounds
<1> HIDE DEF z
<1>8. CASE w.waiting = 0
  <2>1. u = sized
    BY <1>8 DEF Written
  <2>2. z \o ms = z
    BY <1>6, <1>8
  <2> HIDE DEF sized, u, ms
  <2>3. Direction(ss, u, z \o ms, rs, g)
    BY <1>3, <1>5, <1>6, <2>1, <2>2 DEF Direction
  <2> QED BY <2>3 DEF u, z, ms, sized, b, w
<1>9. CASE w.waiting # 0
  <2>1. /\ sized.waitat = 1 /\ sized.waiting = w.waiting
        /\ sized.writing = w.writing /\ ~sized.blocked
    BY <1>1, <1>4, <1>7, <1>9
  <2>2. w.writing # <<>>
    BY <1>1, <1>9 DEF InBounds
  <2>3. Offered(sized) = w.waiting
    <3>1. w.waiting - (1 - 1) = w.waiting
      BY <1>1
    <3> HIDE DEF sized
    <3> QED BY <2>1, <2>2, <3>1 DEF Offered
  <2>4. Ready(sized)
    <3>1. sized.writeat = w.writeat
      <4>1. /\ 1 \in Nat /\ 1 # 0 /\ ~(1 > Offered(w))
            /\ w.waitat + 1 <= w.waiting
        BY <1>1, <1>4, <1>9
      <4> QED BY <1>1, <4>1, WrittenParts
    <3> HIDE DEF sized
    <3> QED BY <1>4, <2>1, <3>1 DEF Ready, Remaining
  <2>5. /\ w.waiting <= Offered(sized) /\ w.waiting # Offered(sized) - 1
        /\ sized.waitat # 0
    BY <1>1, <2>1, <2>3
  <2> HIDE DEF sized
  <2>6. PICK j \in Spots :
          /\ Carries(ss, z \o Block(sized, w.waiting), l, j)
          /\ WritesAt(ss, u, j) /\ Chunked(u)
    BY <1>1, <1>5, <1>6, <1>7, <1>9, <2>4, <2>5, DataMoves
  <2>7. ms = Block(sized, w.waiting)
    BY <1>9
  <2> HIDE DEF u, ms
  <2>8. Direction(ss, u, z \o ms, rs, g)
    BY <1>3, <2>6, <2>7 DEF Direction
  <2> QED BY <2>8 DEF u, z, ms, sized, b, w
<1> QED BY <1>8, <1>9

(* A byte read.                                                            *)
LEMMA ByteArrived ==
  ASSUME NEW ss, NEW w, NEW v \in Seq(Bytes), v # <<>>, NEW r \in Endpoints,
         NEW g, Len(g) \in Nat, Direction(ss, w, v, r.reading, g)
  PROVE  Direction(ss, w, Tail(v), ReadByte(r, Head(v)).reading, g)
<1>1. PICK l \in Spots, m \in Spots :
        /\ Holds(ss, r.reading, Start(Len(g)), l) /\ Carries(ss, v, l, m)
        /\ WritesAt(ss, w, m)
  BY DEF Direction
<1>2. Head(v) = v[1] /\ v[1] \in Bytes
  BY OneLess
<1>3. PICK k \in Spots : ByteStep(ss, l, v[1], k) /\ Carries(ss, Tail(v), k, m)
  BY <1>1, CarriesTail
<1>4. Start(Len(g)) \in Spots /\ Start(Len(g)).left = 0
  BY DEF Start, Spots
<1>5. Holds(ss, ReadByte(r, Head(v)).reading, Start(Len(g)), k)
  BY <1>1, <1>2, <1>3, <1>4, HoldsByte
<1> QED BY <1>1, <1>3, <1>5 DEF Direction

(* util_chunks_receive drops the acks, and a packet if it is complete.     *)
LEMMA PacketArrived ==
  ASSUME NEW ss \in Seq(Packets), NEW w, NEW v, NEW rs \in Seq(Chunk), Filling(rs),
         NEW g \in Seq(Packets), Direction(ss, w, v, rs, g)
  PROVE  LET s == Stripped(rs) IN
         /\ Direction(ss, w, v, s, g)
         /\ \A i \in Flushes(s) : (\A j \in Flushes(s) : i <= j) =>
              /\ Len(g) < Len(ss) /\ Before(s, i) = ss[Len(g) + 1]
              /\ Direction(ss, w, v, SubSeq(s, i + 1, Len(s)),
                           Append(g, ss[Len(g) + 1]))
<1> DEFINE s == Stripped(rs)
           x == Len(g)
<1>1. PICK l \in Spots, m \in Spots :
        /\ Holds(ss, rs, Start(x), l) /\ Carries(ss, v, l, m) /\ WritesAt(ss, w, m)
  BY DEF Direction
<1>2. PICK fs : Chain(ss, rs, fs) /\ fs[1] = Start(x) /\ fs[Len(rs) + 1] = l
  BY <1>1 DEF Holds
<1>3. x \in Nat /\ x <= Len(ss) /\ \A i \in 1 .. x : g[i] = ss[i]
  BY DEF Direction
<1>4. PICK n \in 0 .. Len(rs) :
        /\ s = SubSeq(rs, n + 1, Len(rs)) /\ fs[n + 1] = Start(x)
        /\ n < Len(rs) => rs[n + 1].size # 0
  <2> HIDE DEF x
  <2> QED BY <1>2, <1>3, AcksLead
<1>5. /\ s \in Seq(Chunk) /\ Len(s) = Len(rs) - n
      /\ \A j \in 1 .. Len(s) : s[j] = rs[j + n]
  BY <1>4, RestOf
<1> HIDE DEF s, x
<1>6. Holds(ss, s, Start(x), l)
  BY <1>2, <1>4, HoldsRest
<1>7. Direction(ss, w, v, s, g)
  BY <1>1, <1>6 DEF Direction, x
<1>8. ASSUME NEW i \in Flushes(s), \A j \in Flushes(s) : i <= j
      PROVE  /\ x < Len(ss) /\ Before(s, i) = ss[x + 1]
             /\ Direction(ss, w, v, SubSeq(s, i + 1, Len(s)), Append(g, ss[x + 1]))
  <2>1. Len(s) \in Nat /\ i \in 1 .. Len(s) /\ s[i].size = 0
    BY <1>5, ChunkParts DEF Flushes
  <2>2. s # <<>> /\ s[1].size # 0
    <3>1. 1 \in 1 .. Len(s) /\ n < Len(rs) /\ 1 + n = n + 1
      BY <1>5, <2>1
    <3>2. s[1] = rs[n + 1]
      BY <1>5, <3>1, Zenon
    <3>3. s # <<>>
      BY <2>1
    <3> QED BY <1>4, <3>1, <3>2, <3>3, Zenon
  <2>3. PICK hs : Chain(ss, s, hs) /\ hs[1] = Start(x) /\ hs[Len(s) + 1] = l
    BY <1>6 DEF Holds
  <2>4. /\ x < Len(ss) /\ Before(s, i) = ss[x + 1]
        /\ hs[i + 1] = Start(x + 1)
    BY <1>3, <1>5, <1>8, <2>2, <2>3, ChunksGather
  <2> DEFINE t == SubSeq(s, i + 1, Len(s))
             p == ss[x + 1]
             h == Append(g, p)
  <2>5. Holds(ss, t, Start(x + 1), l)
    <3>1. i \in 0 .. Len(s)
      BY <2>1
    <3> QED BY <1>5, <2>3, <2>4, <3>1, HoldsRest
  <2>6. p \in Packets
    <3>1. x + 1 \in 1 .. Len(ss)
      BY <1>3, <2>4
    <3> QED BY <3>1
  <2> HIDE DEF t, p
  <2>7. /\ Len(h) = x + 1 /\ h[x + 1] = p
        /\ \A j \in 1 .. x : h[j] = g[j]
    BY <2>6, OneMore DEF x
  <2> HIDE DEF h
  <2>8. Len(h) <= Len(ss) /\ \A j \in 1 .. Len(h) : h[j] = ss[j]
    <3>1. ASSUME NEW j \in 1 .. x + 1 PROVE h[j] = ss[j]
      <4>1. CASE j = x + 1
        BY <2>7, <4>1 DEF p
      <4>2. CASE j # x + 1
        <5>1. j \in 1 .. x
          BY <1>3, <4>2
        <5> QED BY <1>3, <2>7, <5>1
      <4> QED BY <4>1, <4>2
    <3>2. x + 1 <= Len(ss)
      BY <1>3, <2>4
    <3> QED BY <2>7, <3>1, <3>2
  <2>9. Direction(ss, w, v, t, h)
    BY <1>1, <2>5, <2>7, <2>8, <1>7 DEF Direction
  <2> QED BY <2>4, <2>9 DEF h, p, t
<1> QED BY <1>7, <1>8 DEF s, x
-----------------------------------------------------------------------------
(* The invariant, and each action a step of PacketPipe or none.            *)

(* At first nothing is sent, on its way or reassembled.                    *)
LEMMA PipeStart == Init => PipeInv /\ Pipe!Init
<1> SUFFICES ASSUME Init PROVE PipeInv /\ Pipe!Init
  OBVIOUS
<1>1. ChunksInv
  BY ChunksStart
<1>2. got \in [End -> Seq(Packets)]
  BY DEF Init
<1>3. Direction(<<>>, Fresh, <<>>, <<>>, <<>>)
  <2> DEFINE l == Start(0)
  <2>1. l \in Spots /\ l.x = 0 /\ l.at = 0 /\ l.left = 0
    BY DEF Start, Spots
  <2> DEFINE ls == [j \in 1 .. 1 |-> l]
  <2>2. ls \in [1 .. 1 -> Spots] /\ ls[1] = l
    BY <2>1
  <2> HIDE DEF ls, l
  <2>3. Len(<<>>) = 0 /\ 0 + 1 = 1 /\ 1 .. 0 = {}
    OBVIOUS
  <2>4. Holds(<<>>, <<>>, l, l)
    BY <2>2, <2>3 DEF Holds, Chain
  <2>5. Carries(<<>>, <<>>, l, l)
    BY <2>2, <2>3 DEF Carries, Path
  <2>6. WritesAt(<<>>, Fresh, l)
    BY <2>1 DEF WritesAt, Fresh, Unwritten
  <2>7. Chunked(Fresh)
    BY DEF Chunked, Fresh
  <2> QED BY <2>1, <2>3, <2>4, <2>5, <2>6, <2>7 DEF Direction, l
<1>4. /\ \A e \in End : /\ sent[e] = <<>> /\ c[e] = Fresh /\ wire[e] = <<>>
                        /\ got[e] = <<>> /\ Other(e) \in End
      /\ Fresh.reading = <<>>
  BY Ends DEF Init, Fresh
<1>5. Pipe!Init
  BY DEF Init, Pipe!Init, Pipe!End, End
<1> QED BY <1>1, <1>2, <1>3, <1>4, <1>5 DEF PipeInv

(* What the invariant says of the direction from the other end.            *)
LEMMA DirectionSeen ==
  ASSUME PipeInv, NEW e \in End
  PROVE  /\ ChunksInv /\ Other(e) \in End /\ Other(e) # e /\ Other(Other(e)) = e
         /\ c \in [End -> Endpoints] /\ wire \in [End -> Seq(Bytes)]
         /\ sent \in [End -> Seq(Packets)] /\ got \in [End -> Seq(Packets)]
         /\ c[e] \in Endpoints /\ InBounds(c[e]) /\ Filling(c[e].reading)
         /\ c[e].reading \in Seq(Chunk)
         /\ Direction(sent[Other(e)], c[Other(e)], wire[e], c[e].reading, got[e])
         /\ Direction(sent[e], c[e], wire[Other(e)], c[Other(e)].reading,
                      got[Other(e)])
<1>1. ChunksInv /\ got \in [End -> Seq(Packets)]
  BY DEF PipeInv
<1>2. Other(e) \in End /\ Other(e) # e /\ Other(Other(e)) = e
  BY Ends
<1>3. /\ c \in [End -> Endpoints] /\ wire \in [End -> Seq(Bytes)]
      /\ sent \in [End -> Seq(Packets)]
  BY <1>1 DEF ChunksInv, ChunkTypes
<1>4. /\ c[e] \in Endpoints /\ InBounds(c[e]) /\ Filling(c[e].reading)
      /\ c[e].reading \in Seq(Chunk)
  BY <1>1, Seen, EndpointParts
<1>5. /\ Direction(sent[Other(e)], c[Other(e)], wire[e], c[e].reading, got[e])
      /\ Direction(sent[Other(Other(e))], c[Other(Other(e))], wire[Other(e)],
                   c[Other(e)].reading, got[Other(e)])
  BY <1>2 DEF PipeInv
<1> QED BY <1>1, <1>2, <1>3, <1>4, <1>5

(* Both directions after a step.                                           *)
LEMMA BothDirections ==
  ASSUME ChunksInv', NEW e \in End, got' \in [End -> Seq(Packets)],
         Direction(sent'[Other(e)], c'[Other(e)], wire'[e], c'[e].reading, got'[e]),
         Direction(sent'[e], c'[e], wire'[Other(e)], c'[Other(e)].reading,
                   got'[Other(e)])
  PROVE  PipeInv'
<1>1. ASSUME NEW f \in End
      PROVE  Direction(sent'[Other(f)], c'[Other(f)], wire'[f], c'[f].reading, got'[f])
  <2>1. f = e \/ f = Other(e)
    BY Ends
  <2>2. Other(Other(e)) = e
    BY Ends
  <2> QED BY <2>1, <2>2
<1>2. (\A f \in End :
        Direction(sent[Other(f)], c[Other(f)], wire[f], c[f].reading, got[f]))'
  BY <1>1
<1> QED BY <1>2 DEF PipeInv

(* util_chunks_send is the Send of PacketPipe.                             *)
LEMMA PipeSend ==
  ASSUME PipeInv, NEW e \in End, Send(e)
  PROVE  PipeInv' /\ Pipe!Send(e)
<1> DEFINE o == Other(e)
           w == c[e]
           ss == sent[e]
<1>1. PICK len \in Lens :
        LET p == Packet(Len(ss) + 1, len) IN
        /\ c' = [c EXCEPT ![e].writing = Append(@, p)]
        /\ sent' = [sent EXCEPT ![e] = Append(@, p)]
  BY DEF Send
<1> DEFINE p == Packet(Len(ss) + 1, len)
           u == [w EXCEPT !.writing = Append(w.writing, p)]
<1>2. /\ ChunksInv /\ o \in End /\ o # e
      /\ c \in [End -> Endpoints] /\ wire \in [End -> Seq(Bytes)]
      /\ sent \in [End -> Seq(Packets)] /\ got \in [End -> Seq(Packets)]
      /\ w \in Endpoints /\ InBounds(w)
      /\ Direction(sent[o], c[o], wire[e], w.reading, got[e])
      /\ Direction(ss, w, wire[o], c[o].reading, got[o])
      /\ c[o].reading \in Seq(Chunk)
  BY DirectionSeen
<1>3. p \in Packets
  <2>1. /\ Len(sent[1]) \in Nat /\ Len(sent[2]) \in Nat
        /\ Len(sent[1]) + Len(sent[2]) < MaxPackets
        /\ e = 1 \/ e = 2
    BY <1>2 DEF End, Send
  <2>2. Len(ss) + 1 \in 1 .. MaxPackets
    <3>1. \A a, b, k \in Nat :
            a + b < k => a + 1 \in 1 .. k /\ b + 1 \in 1 .. k
      OBVIOUS
    <3>2. MaxPackets \in Nat
      BY ChunksAssumption
    <3> QED BY <2>1, <3>1, <3>2, Zenon
  <2> QED BY <2>2 DEF Packets
<1>4. c' = [c EXCEPT ![e] = u] /\ sent' = [sent EXCEPT ![e] = Append(ss, p)]
  <2>1. /\ c' = [c EXCEPT ![e].writing = Append(@, p)]
        /\ sent' = [sent EXCEPT ![e] = Append(@, p)]
    BY <1>1
  <2> HIDE DEF p
  <2> QED BY <2>1
<1>5. wire' = wire /\ got' = got
  BY DEF Send
<1> HIDE DEF p, o
<1>6. /\ u.writing = Append(w.writing, p) /\ u.reading = w.reading
      /\ u.writeat = w.writeat /\ u.waiting = w.waiting /\ u.waitat = w.waitat
  <2> HIDE DEF w
  <2> QED BY <1>2 DEF Endpoints
<1>7. /\ c'[e] = u /\ c'[o] = c[o]
      /\ sent'[e] = Append(ss, p) /\ sent'[o] = sent[o]
  <2> HIDE DEF u
  <2> QED BY <1>2, <1>4
<1> HIDE DEF u, w, ss
<1>8. /\ wire[o] \in Seq(Bytes) /\ got[o] \in Seq(Packets) /\ ss \in Seq(Packets)
  BY <1>2 DEF ss
<1>9. Direction(Append(ss, p), u, wire[o], c[o].reading, got[o])
  BY <1>2, <1>3, <1>6, <1>8, PacketSent
<1>10. ChunksInv'
  BY <1>2, ChunksSend
<1>11. PipeInv'
  <2>1. Direction(sent'[o], c'[o], wire'[e], c'[e].reading, got'[e])
    BY <1>2, <1>5, <1>6, <1>7
  <2>2. Direction(sent'[e], c'[e], wire'[o], c'[o].reading, got'[o])
    BY <1>5, <1>7, <1>9
  <2> QED BY <1>2, <1>5, <1>10, <2>1, <2>2, BothDirections DEF o
<1>12. Pipe!Send(e)
  BY <1>3, <1>4, <1>5 DEF Pipe!Send, ss
<1> QED BY <1>11, <1>12

(* A write or a read: the packets sent and got stay.                       *)
LEMMA PipeStreamWrite ==
  ASSUME ~LastByteAlone, PipeInv, NEW e \in End, BytesWritten(e)
  PROVE  PipeInv' /\ sent' = sent /\ got' = got
<1> DEFINE o == Other(e)
           d == c[e]
           w == Prepared(d)
<1>1. PICK n \in Taken(w) :
        /\ wire' = [wire EXCEPT ![o] = @ \o Block(w, n)]
        /\ c' = [c EXCEPT ![e] = Written(w, n)]
  BY DEF BytesWritten
<1> DEFINE u == Written(w, n)
           z == wire[o] \o Block(w, n)
<1>2. /\ ChunksInv /\ o \in End /\ o # e
      /\ c \in [End -> Endpoints] /\ wire \in [End -> Seq(Bytes)]
      /\ sent \in [End -> Seq(Packets)] /\ got \in [End -> Seq(Packets)]
      /\ d \in Endpoints /\ InBounds(d)
      /\ Direction(sent[o], c[o], wire[e], d.reading, got[e])
      /\ Direction(sent[e], d, wire[o], c[o].reading, got[o])
  BY DirectionSeen
<1>3. sent' = sent /\ got' = got
  BY DEF BytesWritten
<1>4. u.reading = d.reading
  <2>1. w \in Endpoints /\ InBounds(w) /\ w.reading = d.reading
    BY <1>2, PreparedInBounds
  <2> HIDE DEF w
  <2>2. n \in Nat
    BY DEF Taken
  <2> QED BY <2>1, <2>2, WrittenInBounds
<1>5. Direction(sent[e], u, z, c[o].reading, got[o])
  <2>1. wire[o] \in Seq(Bytes) /\ sent[e] \in Seq(Packets)
    BY <1>2
  <2> HIDE DEF o, d
  <2> QED BY <1>2, <2>1, BytesTaken
<1>6. c'[e] = u /\ c'[o] = c[o] /\ wire'[o] = z /\ wire'[e] = wire[e]
  <2> HIDE DEF u, w, o
  <2> QED BY <1>1, <1>2 DEF u, z
<1>7. ChunksInv'
  BY <1>2, ChunksStreamWrite
<1> HIDE DEF u, z, w, d, o
<1>8. Direction(sent'[o], c'[o], wire'[e], c'[e].reading, got'[e])
  BY <1>2, <1>3, <1>4, <1>6
<1>9. Direction(sent'[e], c'[e], wire'[o], c'[o].reading, got'[o])
  BY <1>3, <1>5, <1>6
<1> QED BY <1>2, <1>3, <1>7, <1>8, <1>9, BothDirections DEF o

LEMMA PipeFrameWrite ==
  ASSUME ~LastByteAlone, PipeInv, NEW e \in End, FrameWrite(e)
  PROVE  PipeInv' /\ sent' = sent /\ got' = got
<1> DEFINE o == Other(e)
           d == c[e]
           w == Prepared(d)
           sized == Written(w, 1)
           u == Written(sized, w.waiting)
           ms == IF w.waiting = 0 THEN <<>> ELSE Block(sized, w.waiting)
           z == Append(wire[o], SizeByte(w.waiting)) \o ms
<1>1. /\ wire' = [wire EXCEPT ![o] = Append(@, SizeByte(w.waiting)) \o ms]
      /\ c' = [c EXCEPT ![e] = u]
      /\ Offered(w) > 0 /\ e \in Frames
  BY DEF FrameWrite
<1>2. /\ ChunksInv /\ o \in End /\ o # e
      /\ c \in [End -> Endpoints] /\ wire \in [End -> Seq(Bytes)]
      /\ sent \in [End -> Seq(Packets)] /\ got \in [End -> Seq(Packets)]
      /\ d \in Endpoints /\ InBounds(d)
      /\ Direction(sent[o], c[o], wire[e], d.reading, got[e])
      /\ Direction(sent[e], d, wire[o], c[o].reading, got[o])
  BY DirectionSeen
<1>3. sent' = sent /\ got' = got
  BY DEF FrameWrite
<1>4. d.waitat = 0
  BY <1>1, <1>2, Seen
<1>5. u.reading = d.reading
  <2>1. w \in Endpoints /\ InBounds(w) /\ w.reading = d.reading /\ w.waiting \in Nat
    BY <1>2, PreparedInBounds, EndpointParts
  <2> HIDE DEF w
  <2>2. sized \in Endpoints /\ InBounds(sized) /\ sized.reading = w.reading
    BY <2>1, WrittenInBounds
  <2> HIDE DEF sized
  <2> QED BY <2>1, <2>2, WrittenInBounds
<1>6. Direction(sent[e], u, z, c[o].reading, got[o])
  <2>1. wire[o] \in Seq(Bytes) /\ sent[e] \in Seq(Packets)
    BY <1>2
  <2> HIDE DEF o, d
  <2> QED BY <1>1, <1>2, <1>4, <2>1, FrameTaken
<1>7. c'[e] = u /\ c'[o] = c[o] /\ wire'[o] = z /\ wire'[e] = wire[e]
  <2> HIDE DEF u, ms, w, o
  <2> QED BY <1>1, <1>2 DEF z
<1>8. ChunksInv'
  BY <1>2, ChunksFrameWrite
<1> HIDE DEF u, z, w, d, o
<1>9. Direction(sent'[o], c'[o], wire'[e], c'[e].reading, got'[e])
  BY <1>2, <1>3, <1>5, <1>7
<1>10. Direction(sent'[e], c'[e], wire'[o], c'[o].reading, got'[o])
  BY <1>3, <1>6, <1>7
<1> QED BY <1>2, <1>3, <1>8, <1>9, <1>10, BothDirections DEF o

LEMMA PipeRead ==
  ASSUME PipeInv, NEW e \in End, Read(e)
  PROVE  PipeInv' /\ sent' = sent /\ got' = got
<1> DEFINE o == Other(e)
           r == c[e]
           v == wire[e]
           u == ReadByte(r, Head(v))
<1>1. /\ ChunksInv /\ o \in End /\ o # e
      /\ c \in [End -> Endpoints] /\ wire \in [End -> Seq(Bytes)]
      /\ sent \in [End -> Seq(Packets)] /\ got \in [End -> Seq(Packets)]
      /\ r \in Endpoints /\ InBounds(r) /\ Filling(r.reading)
      /\ Direction(sent[o], c[o], v, r.reading, got[e])
      /\ Direction(sent[e], r, wire[o], c[o].reading, got[o])
  BY DirectionSeen
<1>2. /\ v # <<>> /\ c' = [c EXCEPT ![e] = u]
      /\ wire' = [wire EXCEPT ![e] = Tail(v)]
      /\ sent' = sent /\ got' = got
  BY DEF Read
<1>3. v \in Seq(Bytes) /\ Head(v) \in Bytes /\ Len(got[e]) \in Nat
  <2>1. v \in Seq(Bytes) /\ got[e] \in Seq(Packets)
    BY <1>1
  <2> QED BY <1>2, <2>1, OneLess
<1>4. Direction(sent[o], c[o], Tail(v), u.reading, got[e])
  <2> HIDE DEF v, o, r
  <2> QED BY <1>1, <1>2, <1>3, ByteArrived
<1>5. /\ u.writing = r.writing /\ u.writeat = r.writeat
      /\ u.waiting = r.waiting /\ u.waitat = r.waitat
  <2> HIDE DEF r, v
  <2> QED BY <1>1, <1>3, ByteRead
<1> HIDE DEF u
<1>6. c'[e] = u /\ c'[o] = c[o] /\ wire'[e] = Tail(v) /\ wire'[o] = wire[o]
  <2> HIDE DEF v, o
  <2> QED BY <1>1, <1>2
<1>7. ChunksInv'
  BY <1>1, ChunksRead
<1> HIDE DEF r, v, o
<1>8. Direction(sent[e], u, wire[o], c[o].reading, got[o])
  BY <1>1, <1>5, SameWriter
<1>9. Direction(sent'[o], c'[o], wire'[e], c'[e].reading, got'[e])
  BY <1>2, <1>4, <1>6
<1>10. Direction(sent'[e], c'[e], wire'[o], c'[o].reading, got'[o])
  BY <1>2, <1>6, <1>8
<1> QED BY <1>1, <1>2, <1>7, <1>9, <1>10, BothDirections DEF o

(* util_chunks_receive returns a packet, or only drops acks.               *)
LEMMA PipeReceive ==
  ASSUME PipeInv, NEW e \in End, Receive(e)
  PROVE  PipeInv' /\ (Pipe!Deliver(e) \/ (sent' = sent /\ got' = got))
<1> DEFINE o == Other(e)
           r == c[e]
           s == Stripped(r.reading)
           g == got[e]
           ss == sent[o]
<1>1. /\ ChunksInv /\ o \in End /\ o # e
      /\ c \in [End -> Endpoints] /\ wire \in [End -> Seq(Bytes)]
      /\ sent \in [End -> Seq(Packets)] /\ got \in [End -> Seq(Packets)]
      /\ r \in Endpoints /\ Filling(r.reading) /\ r.reading \in Seq(Chunk)
      /\ Direction(ss, c[o], wire[e], r.reading, g)
      /\ Direction(sent[e], r, wire[o], c[o].reading, got[o])
  BY DirectionSeen
<1>2. wire' = wire /\ sent' = sent
  BY DEF Receive
<1>3. ChunksInv'
  BY <1>1, ChunksReceive
<1>4. ss \in Seq(Packets) /\ g \in Seq(Packets)
  BY <1>1
<1> HIDE DEF ss, g
<1>5. /\ Direction(ss, c[o], wire[e], s, g)
      /\ \A i \in Flushes(s) : (\A j \in Flushes(s) : i <= j) =>
           /\ Len(g) < Len(ss) /\ Before(s, i) = ss[Len(g) + 1]
           /\ Direction(ss, c[o], wire[e], SubSeq(s, i + 1, Len(s)),
                        Append(g, ss[Len(g) + 1]))
  <2> HIDE DEF r, o
  <2> QED BY <1>1, <1>4, PacketArrived
<1> HIDE DEF s, o
<1>6. ASSUME NEW u, c' = [c EXCEPT ![e] = u], u.writing = r.writing,
             u.writeat = r.writeat, u.waiting = r.waiting, u.waitat = r.waitat,
             got' \in [End -> Seq(Packets)], got'[o] = got[o],
             Direction(ss, c[o], wire[e], u.reading, got'[e])
      PROVE  PipeInv'
  <2>1. c'[e] = u /\ c'[o] = c[o]
    BY <1>1, <1>6
  <2>2. Direction(sent[e], u, wire[o], c[o].reading, got[o])
    <3> HIDE DEF r
    <3> QED BY <1>1, <1>6, SameWriter
  <2>3. Direction(sent'[o], c'[o], wire'[e], c'[e].reading, got'[e])
    BY <1>2, <1>6, <2>1 DEF ss
  <2>4. Direction(sent'[e], c'[e], wire'[o], c'[o].reading, got'[o])
    BY <1>2, <1>6, <2>1, <2>2
  <2> QED BY <1>3, <1>6, <2>3, <2>4, BothDirections DEF o
<1>7. CASE got' = got /\ c' = [c EXCEPT ![e].reading = s]
  <2> DEFINE u == [r EXCEPT !.reading = s]
  <2>1. c' = [c EXCEPT ![e] = u]
    BY <1>7
  <2> HIDE DEF r
  <2>2. /\ u.reading = s
        /\ u.writing = r.writing /\ u.writeat = r.writeat
        /\ u.waiting = r.waiting /\ u.waitat = r.waitat
    BY <1>1 DEF Endpoints
  <2> HIDE DEF u
  <2>3. got'[o] = got[o] /\ got'[e] = g
    BY <1>7 DEF g
  <2>4. PipeInv'
    BY <1>1, <1>5, <1>6, <1>7, <2>1, <2>2, <2>3
  <2> QED BY <1>2, <1>7, <2>4
<1>8. CASE \E i \in Flushes(s) :
             /\ \A j \in Flushes(s) : i <= j
             /\ c' = [c EXCEPT ![e] = Reassembled(@, s, i)]
             /\ got' = [got EXCEPT ![e] = Append(@, Before(s, i))]
  <2>1. PICK i \in Flushes(s) :
          /\ \A j \in Flushes(s) : i <= j
          /\ c' = [c EXCEPT ![e] = Reassembled(@, s, i)]
          /\ got' = [got EXCEPT ![e] = Append(@, Before(s, i))]
    BY <1>8
  <2> DEFINE t == SubSeq(s, i + 1, Len(s))
             u == [r EXCEPT !.reading = t, !.ack = TRUE]
             p == ss[Len(g) + 1]
  <2>2. c' = [c EXCEPT ![e] = u]
    BY <2>1 DEF Reassembled
  <2>3. /\ Len(g) < Len(ss) /\ Before(s, i) = p
        /\ Direction(ss, c[o], wire[e], t, Append(g, p))
    BY <1>5, <2>1
  <2> HIDE DEF t, r
  <2>4. /\ u.reading = t
        /\ u.writing = r.writing /\ u.writeat = r.writeat
        /\ u.waiting = r.waiting /\ u.waitat = r.waitat
    BY <1>1 DEF Endpoints
  <2>5. p \in Packets
    <3>1. Len(g) + 1 \in 1 .. Len(ss)
      BY <1>4, <2>3
    <3> QED BY <1>4, <3>1
  <2> HIDE DEF u, p
  <2>6. /\ got' = [got EXCEPT ![e] = Append(g, p)]
        /\ got' \in [End -> Seq(Packets)]
        /\ got'[o] = got[o] /\ got'[e] = Append(g, p)
    <3>1. got' = [got EXCEPT ![e] = Append(g, p)]
      BY <2>1, <2>3 DEF g
    <3>2. Append(g, p) \in Seq(Packets)
      BY <1>4, <2>5
    <3> QED BY <1>1, <3>1, <3>2
  <2>7. PipeInv'
    BY <1>6, <2>2, <2>3, <2>4, <2>6
  <2>8. Pipe!Deliver(e)
    <3>1. Pipe!Other(e) = o
      BY DEF Pipe!Other, Other, o
    <3> QED BY <1>2, <2>3, <2>6, <3>1 DEF Pipe!Deliver, ss, g, p
  <2> QED BY <2>7, <2>8
<1> QED BY <1>7, <1>8 DEF Receive, s, r

(* A Send, a Deliver, or no step at all for the two meshes.                *)
LEMMA PipeStep ==
  ASSUME ~LastByteAlone, ~SerialShort, PipeInv, [Next]_vars
  PROVE  PipeInv' /\ [Pipe!Next]_<<sent, got>>
<1>1. Pipe!End = End
  BY DEF Pipe!End, End
<1>2. ASSUME NEW e \in End, Send(e)
      PROVE  PipeInv' /\ [Pipe!Next]_<<sent, got>>
  BY <1>1, <1>2, PipeSend DEF Pipe!Next
<1>3. ASSUME NEW e \in End, Write(e)
      PROVE  PipeInv' /\ [Pipe!Next]_<<sent, got>>
  BY <1>3, StreamWritesBytes, PipeStreamWrite, PipeFrameWrite DEF Write
<1>4. ASSUME NEW e \in End, Read(e)
      PROVE  PipeInv' /\ [Pipe!Next]_<<sent, got>>
  BY <1>4, PipeRead
<1>5. ASSUME NEW e \in End, Receive(e)
      PROVE  PipeInv' /\ [Pipe!Next]_<<sent, got>>
  BY <1>1, <1>5, PipeReceive DEF Pipe!Next
<1>6. CASE UNCHANGED vars
  <2>1. c' = c /\ wire' = wire /\ sent' = sent /\ got' = got
    BY <1>6 DEF vars
  <2>2. ChunksInv'
    BY <1>6, ChunksStep DEF PipeInv
  <2>3. PipeInv'
    BY <2>1, <2>2 DEF PipeInv
  <2> QED BY <2>1, <2>3
<1> QED BY <1>2, <1>3, <1>4, <1>5, <1>6 DEF Next

(* util_chunks_receive returns the packets given to the other side's       *)
(* util_chunks_send, whole, in order and none twice, over sockets, serial  *)
(* ports and frames, if no write leaves the last byte of a packet alone    *)
(* (the writer takes such a byte for the flush, chunks.c:233) and no       *)
(* serial port takes less than it is offered (serial.c:48).                *)
THEOREM ChunksImplementsPipe ==
  ASSUME ~LastByteAlone, ~SerialShort
  PROVE  Spec => Pipe!Spec
<1>1. Init => PipeInv /\ Pipe!Init
  BY PipeStart
<1>2. PipeInv /\ [Next]_vars => PipeInv' /\ [Pipe!Next]_<<sent, got>>
  BY PipeStep
<1> QED BY <1>1, <1>2, PTL DEF Spec, Pipe!Spec

(* The values of the variables, for every way the sockets cut the writes.  *)
THEOREM ChunksTypeCorrect ==
  ASSUME ~SerialShort
  PROVE  Spec => []TypeOK
<1> DEFINE GotType == got \in [End -> Seq(Seq(Bytes))]
<1>1. ChunksInv /\ GotType => TypeOK
  BY DEF ChunksInv, ChunkTypes, Endpoints, TypeOK
<1>2. Init => ChunksInv /\ GotType
  BY ChunksStart DEF Init
<1>3. ChunksInv /\ GotType /\ [Next]_vars => ChunksInv' /\ GotType'
  <2> SUFFICES ASSUME ChunksInv, GotType, [Next]_vars PROVE GotType'
    BY ChunksStep
  <2>1. ASSUME NEW e \in End, Receive(e) PROVE GotType'
    <3> DEFINE s == Stripped(c[e].reading)
    <3>1. s \in Seq(Chunk)
      <4>1. c[e].reading \in Seq(Chunk) /\ Filling(c[e].reading)
        BY Seen, EndpointParts
      <4> QED BY <4>1, AcksDropped
    <3>2. ASSUME NEW i \in Flushes(s) PROVE Before(s, i) \in Seq(Bytes)
      <4> DEFINE ds == [j \in 1 .. i - 1 |-> s[j].data]
      <4> HIDE DEF s
      <4>1. /\ Len(s) \in Nat /\ i \in 1 .. Len(s)
            /\ \A j \in 1 .. Len(s) : s[j].data \in Seq(Bytes)
        BY <3>1, ChunkParts DEF Flushes
      <4>2. \A j \in 1 .. i - 1 : j \in 1 .. Len(s)
        BY <4>1
      <4>3. i - 1 \in Nat /\ \A j \in 1 .. i - 1 : s[j].data \in Seq(Bytes)
        BY <4>1, <4>2
      <4>4. ds \in Seq(Seq(Bytes))
        BY <4>3
      <4> QED BY <4>4, FlattenType DEF Before
    <3>3. \/ got' = got
          \/ \E i \in Flushes(s) : got' = [got EXCEPT ![e] = Append(@, Before(s, i))]
      BY <2>1 DEF Receive
    <3>4. ASSUME NEW i \in Flushes(s),
                 got' = [got EXCEPT ![e] = Append(@, Before(s, i))]
          PROVE  GotType'
      <4> DEFINE b == Before(s, i)
      <4>1. b \in Seq(Bytes)
        BY <3>2
      <4>2. got' = [got EXCEPT ![e] = Append(got[e], b)]
        BY <3>4
      <4> HIDE DEF b
      <4>3. Append(got[e], b) \in Seq(Seq(Bytes))
        BY <4>1
      <4> QED BY <4>2, <4>3
    <3> QED BY <3>3, <3>4
  <2>2. ASSUME NEW e \in End, Send(e) \/ Write(e) \/ Read(e) PROVE GotType'
    BY <2>2 DEF Send, Write, StreamWrite, FrameWrite, Read
  <2>3. CASE UNCHANGED vars
    BY <2>3 DEF vars
  <2> QED BY <2>1, <2>2, <2>3 DEF Next
<1> HIDE DEF GotType
<1> QED BY <1>1, <1>2, <1>3, PTL DEF Spec
=============================================================================
