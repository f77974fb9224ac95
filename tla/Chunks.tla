------------------------------- MODULE Chunks -------------------------------
(***************************************************************************)
(* The chunked framing of src/src/util/chunks.c between two endpoints.     *)
(* A packet travels as chunks, each a size byte and that many data bytes,  *)
(* closed by a flush (size 0).  A chunk with no packet to send is only its *)
(* size byte 0, an ack.  The wires are reliable byte streams that hold at  *)
(* most MaxWire bytes; what is bounded for the check is named MaxPackets.  *)
(*                                                                         *)
(* A byte is a record: a size byte of value n, or data byte number "at" of *)
(* packet number n.  The two look alike to the reader, which takes a byte  *)
(* for a size byte whenever the chunk before it is complete.               *)
(*                                                                         *)
(* An operator defined just before another with the same parameters is a   *)
(* deliberately wrong variant: replacing the second by the first must make *)
(* a property fail.                                                        *)
(***************************************************************************)
EXTENDS Naturals, FiniteSets, Sequences, SequencesExt

CONSTANTS
  Cap,            \* chunks->cap, the most data bytes of one chunk
  Lens,           \* the lengths a packet may have
  MaxPackets,     \* bound: packets the two endpoints send
  MaxWire,        \* bytes a wire holds
  Blocking,       \* chunks->blocking
  Frames,         \* the endpoints that write whole chunks (the frame
                  \* interface, util_chunks_next)
  Serial,         \* the endpoints that write to a serial port (serial.c);
                  \* the others write to a socket (tcp4.c)
  ShortWrites,    \* may a socket take fewer bytes than it is offered?
  SerialShort,    \* may a serial port?  serial.c accounts for all of them
  LastByteAlone   \* may the last byte of a packet be a write of its own?

(* lob_raw of the smallest packet is its two bytes of header length.       *)
ASSUME ChunksAssumption ==
  /\ Cap \in 1 .. 255
  /\ Lens \subseteq Nat \ {0, 1}
  /\ MaxPackets \in Nat /\ MaxWire \in Nat
  /\ MaxWire > Cap
  /\ Blocking \in BOOLEAN
  /\ Frames \subseteq {1, 2} /\ Serial \subseteq {1, 2} \ Frames
  /\ ShortWrites \in BOOLEAN /\ SerialShort \in BOOLEAN
  /\ LastByteAlone \in BOOLEAN
  /\ LastByteAlone \/ (Cap > 1 /\ \A l \in Lens : l % Cap # 1)

VARIABLES
  c,      \* c[e]: the util_chunks_struct of endpoint e
  wire,   \* wire[e]: bytes on their way to endpoint e
  sent,   \* history: the packets given to util_chunks_send
  got     \* history: the buffers util_chunks_receive reassembled

vars == <<c, wire, sent, got>>

End == {1, 2}
Other(e) == 3 - e

SizeByte(n) == [kind |-> "size", n |-> n, at |-> 0]
Packet(id, len) == [i \in 1 .. len |-> [kind |-> "data", n |-> id, at |-> i]]
Packets == {Packet(id, len) : id \in 1 .. MaxPackets, len \in Lens}
Bytes == [kind : {"size", "data"}, n : 0 .. Cap + MaxPackets, at : Nat]

(* reading: the chunks received and not yet reassembled, oldest first.     *)
(* readat is how much of the newest one has arrived, Len(data).            *)
Fresh == [writing |-> <<>>, writeat |-> 0, waiting |-> 0, waitat |-> 0,
          blocked |-> FALSE, ack |-> FALSE, reading |-> <<>>]

Init ==
  /\ c = [e \in End |-> Fresh]
  /\ wire = [e \in End |-> <<>>]
  /\ sent = [e \in End |-> <<>>]
  /\ got = [e \in End |-> <<>>]

-----------------------------------------------------------------------------
(* Writing.                                                                *)

Least(m, n) == IF m < n THEN m ELSE n

(* The side effect of util_chunks_len: it fixes the size of the chunk that *)
(* is written next.                                                        *)
Prepared(w) ==
  IF w.blocked \/ w.writing = <<>> \/ w.waiting # 0 THEN w
  ELSE [w EXCEPT !.waiting = Least(Len(Head(w.writing)) - w.writeat, Cap)]

(* Its result, for a prepared w: the bytes that may be written now.        *)
Offered(w) ==
  CASE w.blocked -> 0
    [] ~w.blocked /\ w.writing = <<>> -> IF w.ack THEN 1 ELSE 0
    [] ~w.blocked /\ w.writing # <<>> ->
         IF w.waitat = 0 THEN 1 ELSE w.waiting - (w.waitat - 1)

(* util_chunks_write: the first n of the bytes offered by a prepared w.    *)
Block(w, n) ==
  IF w.waitat = 0 THEN <<SizeByte(w.waiting)>>
  ELSE LET from == w.writeat + w.waitat - 1
       IN  SubSeq(Head(w.writing), from + 1, from + n)

(* util_chunks_written(chunks, n) of a prepared w.  A packet is done when  *)
(* a write of one byte completed a chunk and left nothing of the packet;   *)
(* the writer then waits for a chunk from the other side.  (The code's     *)
(* block after a full chunk compares "waiting" to cap after resetting it   *)
(* to 0 and so never happens: cap is at least 1.)                          *)
PacketDoneUnflushed(w, n) ==
  w.writing # <<>> /\ w.writeat + w.waiting = Len(Head(w.writing))
PacketDone(w, n) ==
  /\ n = 1
  /\ w.writing # <<>>
  /\ w.writeat + w.waiting = Len(Head(w.writing))

NextPacketKeepAt(w) == [w EXCEPT !.writing = Tail(@), !.blocked = Blocking]
NextPacket(w) ==
  [w EXCEPT !.writing = Tail(@), !.writeat = 0, !.blocked = Blocking]

Written(w, n) ==
  IF n = 0 \/ n > Offered(w) THEN w
  ELSE IF w.waitat + n <= w.waiting
  THEN [w EXCEPT !.waitat = @ + n, !.ack = FALSE]
  ELSE LET past == [w EXCEPT !.writeat = @ + w.waiting, !.waitat = 0,
                             !.waiting = 0, !.ack = FALSE]
       IN  IF PacketDone(w, n) THEN NextPacket(past) ELSE past

(* How many of the bytes offered by w the socket may take.                 *)
Taken(w) ==
  LET all == Offered(w)
      final == w.waitat > 0 /\ w.writeat + w.waiting = Len(Head(w.writing))
  IN  {n \in 1 .. all :
         /\ ShortWrites \/ n = all
         /\ final /\ ~LastByteAlone => n # all - 1}

(* util_chunks_send.                                                       *)
Send(e) ==
  /\ Len(sent[1]) + Len(sent[2]) < MaxPackets
  /\ \E len \in Lens :
       LET p == Packet(Len(sent[e]) + 1, len) IN
       /\ c' = [c EXCEPT ![e].writing = Append(@, p)]
       /\ sent' = [sent EXCEPT ![e] = Append(@, p)]
  /\ UNCHANGED <<wire, got>>

(* How many a serial port may take.                                        *)
SerialTaken(w) ==
  {n \in 1 .. Offered(w) : SerialShort \/ n = Offered(w)}

(* One turn of the write loop of tcp4_flush or serial_flush:               *)
(* util_chunks_len, util_chunks_write, a write that takes n bytes, and     *)
(* util_chunks_written, told of those n bytes (tcp4.c:75) or of all that   *)
(* were offered (serial.c:48).                                             *)
StreamWriteLossy(e) ==
  /\ e \notin Frames
  /\ \E w \in {Prepared(c[e])} : \E n \in Taken(w) :
       /\ Len(wire[Other(e)]) + n <= MaxWire
       /\ wire' = [wire EXCEPT ![Other(e)] = @ \o Block(w, n)]
       /\ c' = [c EXCEPT ![e] = Written(w, Offered(w))]
  /\ UNCHANGED <<sent, got>>
StreamWrite(e) ==
  /\ e \notin Frames
  /\ \E w \in {Prepared(c[e])} :
     \E n \in IF e \in Serial THEN SerialTaken(w) ELSE Taken(w) :
       /\ Len(wire[Other(e)]) + n <= MaxWire
       /\ wire' = [wire EXCEPT ![Other(e)] = @ \o Block(w, n)]
       /\ c' = [c EXCEPT
              ![e] = Written(w, IF e \in Serial THEN Offered(w) ELSE n)]
  /\ UNCHANGED <<sent, got>>

(* One turn of a frame transport: util_chunks_size, util_chunks_frame, and *)
(* util_chunks_next, which accounts for the size byte and then the data.   *)
FrameWrite(e) ==
  /\ e \in Frames
  /\ \E w \in {Prepared(c[e])} : \E sized \in {Written(w, 1)} :
       /\ Offered(w) > 0
       /\ Len(wire[Other(e)]) + 1 + w.waiting <= MaxWire
       /\ wire' = [wire EXCEPT ![Other(e)] =
                     Append(@, SizeByte(w.waiting)) \o
                     IF w.waiting = 0 THEN <<>> ELSE Block(sized, w.waiting)]
       /\ c' = [c EXCEPT ![e] = Written(sized, w.waiting)]
  /\ UNCHANGED <<sent, got>>

-----------------------------------------------------------------------------
(* Reading.                                                                *)

(* _util_chunks_append of one byte: data of the newest chunk while it has  *)
(* a quota left, else the size byte of a new chunk, which unblocks the     *)
(* writer and, if data follows, asks it for an ack.                        *)
Quota(r) ==
  IF r.reading = <<>> THEN 0
  ELSE Last(r.reading).size - Len(Last(r.reading).data)

ReadByte(r, b) ==
  IF Quota(r) = 0
  THEN [r EXCEPT !.reading = Append(@, [size |-> b.n, data |-> <<>>]),
                 !.blocked = FALSE,
                 !.ack = @ \/ b.n > 0]
  ELSE [r EXCEPT !.reading[Len(r.reading)].data = Append(@, b)]

(* util_chunks_read / util_chunks_chunk: a longer block is the same as its *)
(* bytes one by one.                                                       *)
Read(e) ==
  /\ wire[e] # <<>>
  /\ c' = [c EXCEPT ![e] = ReadByte(@, Head(wire[e]))]
  /\ wire' = [wire EXCEPT ![e] = Tail(@)]
  /\ UNCHANGED <<sent, got>>

(* util_chunks_receive drops the lone flushes (acks) in front, and puts    *)
(* together the chunks up to the oldest flush behind them, if there is one.*)
Flushes(rs) == {i \in DOMAIN rs : rs[i].size = 0}
Stripped(rs) ==
  LET acks == {i \in 0 .. Len(rs) : 1 .. i \subseteq Flushes(rs)}
  IN  SubSeq(rs, Cardinality(acks), Len(rs))
Before(rs, i) == FlattenSeq([j \in 1 .. i - 1 |-> rs[j].data])

ReassembledNoAck(r, s, i) == [r EXCEPT !.reading = SubSeq(s, i + 1, Len(s))]
Reassembled(r, s, i) ==
  [r EXCEPT !.reading = SubSeq(s, i + 1, Len(s)), !.ack = TRUE]

Receive(e) ==
  /\ Flushes(c[e].reading) # {}
  /\ \E s \in {Stripped(c[e].reading)} :
       \/ /\ Flushes(s) = {}
          /\ c' = [c EXCEPT ![e].reading = s]
          /\ UNCHANGED got
       \/ \E i \in Flushes(s) :
          /\ \A j \in Flushes(s) : i <= j
          /\ c' = [c EXCEPT ![e] = Reassembled(@, s, i)]
          /\ got' = [got EXCEPT ![e] = Append(@, Before(s, i))]
  /\ UNCHANGED <<wire, sent>>

Write(e) == StreamWrite(e) \/ FrameWrite(e)
Next == \E e \in End : Send(e) \/ Write(e) \/ Read(e) \/ Receive(e)

Spec == Init /\ [][Next]_vars

(* A transport's loop writes, reads and receives on every pipe each turn.  *)
Fairness ==
  \A e \in End : WF_vars(Write(e)) /\ WF_vars(Read(e)) /\ WF_vars(Receive(e))
FairSpec == Spec /\ Fairness
-----------------------------------------------------------------------------
(* Properties.                                                             *)

Chunk == [size : 0 .. Cap + MaxPackets, data : Seq(Bytes)]
(* The values each variable takes.                                         *)
TypeOK ==
  /\ c \in [End -> [writing : Seq(Packets), writeat : Nat,
                    waiting : 0 .. Cap, waitat : Nat, blocked : BOOLEAN,
                    ack : BOOLEAN, reading : Seq(Chunk)]]
  /\ wire \in [End -> Seq(Bytes)]
  /\ sent \in [End -> Seq(Packets)]
  /\ got \in [End -> Seq(Seq(Bytes))]

(* The write offsets of chunks.c stay inside the packet being written: the *)
(* chunk is part of it, and no more of the chunk is written than it has.   *)
WriteInBounds ==
  \A e \in End :
    LET w == c[e] IN
    /\ w.waitat <= w.waiting
    /\ IF w.writing = <<>> THEN w.writeat = 0 /\ w.waiting = 0
       ELSE w.writeat + w.waiting <= Len(Head(w.writing))

(* "no space means we're at a chunk start byte" (_util_chunks_append): the *)
(* reader takes a byte for a chunk size exactly when the writer wrote it   *)
(* as one, however a socket cuts the writes into pieces.  With a serial    *)
(* port that does the same (SerialShort) it is not so: serial.c:48.        *)
FramingInSync ==
  \A e \in End :
    wire[e] # <<>> => (Quota(c[e]) = 0 <=> Head(wire[e]).kind = "size")

(* Chunks implements PacketPipe: util_chunks_receive returns the packets   *)
(* given to the other side's util_chunks_send, whole, in order, and each   *)
(* of them in the end, although both sides block after every packet.       *)
Pipe == INSTANCE PacketPipe WITH Packets <- Packets, sent <- sent, got <- got
DeliversPackets == Pipe!FairSpec

(* The acks come to rest: an ack is never acked (chunks.c sets ack for a   *)
(* chunk with data and for a whole packet only), no side is left blocked,  *)
(* and the chunk list of _util_chunks_append is given back.                *)
ComesToRest ==
  <>[](/\ wire = [e \in End |-> <<>>]
       /\ c = [e \in End |-> Fresh])
=============================================================================
