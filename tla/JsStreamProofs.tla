--------------------------- MODULE JsStreamProofs ---------------------------
(***************************************************************************)
(* Proofs about the write pumps of module JsStream, for every size of a    *)
(* block and any number of blocks: a stream has one write of a pump at a   *)
(* time, blocks never wait for nothing, and the stream implements the pipe *)
(* of module PacketPipe.                                                   *)
(***************************************************************************)
EXTENDS JsStream, SequenceTheorems, TLAPS

(* The types of what the pumps read.                                       *)
PumpType ==
  /\ kind \in Kinds
  /\ sent \in Seq(Blocks) /\ queue \in Seq(Blocks) /\ writes \in Seq(Blocks)
  /\ flushing \in BOOLEAN /\ draining \in BOOLEAN
  /\ failed \in BOOLEAN /\ closed \in BOOLEAN
  /\ timers \in Nat

(* The flag means that a write or a drain, and only one of them, is under  *)
(* way.  An error breaks only one direction: the flag may stay set.        *)
PumpInv ==
  /\ PumpType
  /\ kind = "serial" => queue = <<>>
  /\ kind # "serial" /\ ~closed =>
       /\ Len(writes) <= 1
       /\ writes # <<>> => flushing /\ ~draining
       /\ draining => flushing
       /\ flushing /\ ~failed => writes # <<>> \/ draining
       /\ ~failed /\ queue # <<>> => flushing \/ timers > 0

(* frames_flush and flush: with the flag down the first block, if there is *)
(* one, is written and the flag is up; with the flag up nothing happens.   *)
LEMMA FlushFacts ==
  ASSUME NEW q \in Seq(Blocks), NEW fl \in BOOLEAN, NEW w \in Seq(Blocks),
         Flush(q, fl, w)
  PROVE  /\ queue' \in Seq(Blocks) /\ writes' \in Seq(Blocks)
         /\ flushing' \in BOOLEAN
         /\ kind = "serial" => queue' = <<>>
         /\ kind # "serial" /\ q # <<>> /\ ~fl =>
              flushing' /\ writes' # <<>> /\ Len(writes') = Len(w) + 1
         /\ kind # "serial" /\ (q = <<>> \/ fl) =>
              queue' = q /\ writes' = w /\ flushing' = fl
<1>1. CASE kind = "serial"
  <2>1. w \o q \in Seq(Blocks) /\ <<>> \in Seq(Blocks)
    OBVIOUS
  <2>2. queue' = <<>> /\ writes' = w \o q /\ flushing' = fl
    BY <1>1 DEF Flush, FlushAll
  <2> QED BY <1>1, <2>1, <2>2
<1>2. CASE kind # "serial" /\ q # <<>> /\ ~fl
  <2>1. Tail(q) \in Seq(Blocks) /\ Head(q) \in Blocks
    BY <1>2
  <2>2. Append(w, Head(q)) \in Seq(Blocks) /\ Append(w, Head(q)) # <<>>
        /\ Len(Append(w, Head(q))) = Len(w) + 1
    BY <2>1
  <2> QED BY <1>2, <2>1, <2>2 DEF Flush, FlushOne
<1>3. CASE kind # "serial" /\ (q = <<>> \/ fl)
  BY <1>3 DEF Flush, FlushOne
<1> QED BY <1>1, <1>2, <1>3

(* A call of flush keeps the invariant, if it keeps everything else or     *)
(* puts one block behind the queue, and what it is called for (a timer) is *)
(* used up.                                                                *)
LEMMA FlushKeepsInv ==
  ASSUME PumpInv, NEW q \in Seq(Blocks), Flush(q, flushing, writes),
         sent' \in Seq(Blocks), timers' \in Nat,
         UNCHANGED <<kind, draining, failed, closed>>
  PROVE  PumpInv'
<1>1. writes \in Seq(Blocks) /\ flushing \in BOOLEAN
  BY DEF PumpInv, PumpType
<1>2. /\ queue' \in Seq(Blocks) /\ writes' \in Seq(Blocks)
      /\ flushing' \in BOOLEAN
      /\ kind = "serial" => queue' = <<>>
      /\ kind # "serial" /\ q # <<>> /\ ~flushing =>
           flushing' /\ writes' # <<>> /\ Len(writes') = Len(writes) + 1
      /\ kind # "serial" /\ (q = <<>> \/ flushing) =>
           queue' = q /\ writes' = writes /\ flushing' = flushing
  BY <1>1, FlushFacts
<1>3. PumpType'
  BY <1>2 DEF PumpInv, PumpType
<1>4. CASE kind = "serial"
  BY <1>2, <1>3, <1>4 DEF PumpInv
<1>5. CASE kind # "serial" /\ q # <<>> /\ ~flushing
  <2>1. ~closed => writes = <<>> /\ ~draining
    BY <1>5 DEF PumpInv
  <2>2. ~closed => Len(writes') = 1
    BY <1>2, <1>5, <2>1
  <2> QED BY <1>2, <1>3, <1>5, <2>1, <2>2 DEF PumpInv
<1>6. CASE kind # "serial" /\ (q = <<>> \/ flushing)
  BY <1>2, <1>3, <1>6 DEF PumpInv
<1> QED BY <1>4, <1>5, <1>6

(* No step of the pump, of node or of the reader breaks the invariant.     *)
LEMMA PumpInductive == PumpInv /\ [Next]_vars => PumpInv'
<1> SUFFICES ASSUME PumpInv, [Next]_vars PROVE PumpInv'
  OBVIOUS
<1> USE DEF PumpInv, PumpType
<1>1. CASE Send
  <2> DEFINE b == Block(Len(sent) + 1)
  <2>1. b \in Blocks
    <3>1. Len(sent) + 1 \in 1 .. MaxSent
      BY <1>1, JsStreamAssumption DEF Send
    <3> QED BY <3>1 DEF Blocks
  <2>2. Append(sent, b) \in Seq(Blocks) /\ Append(queue, b) \in Seq(Blocks)
    BY <2>1
  <2>3. Flush(Append(queue, b), flushing, writes)
    BY <1>1 DEF Send
  <2>4. sent' \in Seq(Blocks) /\ UNCHANGED <<kind, draining, failed, closed>>
        /\ timers' \in Nat
    BY <1>1, <2>2 DEF Send
  <2> HIDE DEF b, PumpInv, PumpType
  <2> QED BY <2>2, <2>3, <2>4, FlushKeepsInv
<1>2. CASE OwnData
  BY <1>2, FlushKeepsInv DEF OwnData
<1>3. CASE WriteDone
  <2>1. Tail(writes) \in Seq(Blocks) /\ Len(Tail(writes)) = Len(writes) - 1
        /\ (Len(writes) = 1 => Tail(writes) = <<>>)
    BY <1>3 DEF WriteDone
  <2>2. draining' \in BOOLEAN /\ flushing' \in BOOLEAN
    <3>1. draining' \in BOOLEAN
      BY <1>3, Zenon DEF WriteDone
    <3>2. flushing' = FALSE \/ flushing' = flushing
      BY <1>3 DEF WriteDone
    <3> QED BY <3>1, <3>2
  <2>3. PumpType'
    BY <1>3, <2>1, <2>2 DEF WriteDone
  <2>4. CASE kind = "serial"
    BY <1>3, <2>3, <2>4 DEF WriteDone
  <2>5. CASE kind # "serial"
    <3>1. Len(writes) = 1 /\ writes' = <<>> /\ flushing /\ ~draining
      BY <1>3, <2>1, <2>5 DEF WriteDone
    <3>2. closed' = closed /\ kind' = kind /\ queue' = queue
      BY <1>3 DEF WriteDone
    <3>3. Len(writes') <= 1
      BY <3>1
    <3>4. CASE kind = "frames"
      <4>1. draining' = FALSE /\ flushing' = FALSE
        BY <1>3, <3>1, <3>4, Zenon DEF WriteDone
      <4>2. timers' > 0
        BY <1>3, <3>4 DEF WriteDone
      <4> QED BY <2>3, <2>5, <3>1, <3>2, <3>3, <4>1, <4>2
    <3>5. CASE kind = "chunks"
      <4>1. draining' = TRUE /\ flushing' = flushing
        BY <1>3, <3>5, Zenon DEF WriteDone
      <4> QED BY <2>3, <2>5, <3>1, <3>2, <3>3, <4>1
    <3> QED BY <2>5, <3>4, <3>5, JsStreamAssumption
  <2> QED BY <2>4, <2>5
<1>4. CASE WriteFailed
  <2>1. Tail(writes) \in Seq(Blocks) /\ Len(Tail(writes)) = Len(writes) - 1
        /\ (Len(writes) = 1 => Tail(writes) = <<>>)
    BY <1>4 DEF WriteFailed
  <2> QED BY <1>4, <2>1 DEF WriteFailed
<1>5. CASE Drained
  <2>1. flushing' \in BOOLEAN /\ draining' \in BOOLEAN
    BY <1>5, Zenon DEF Drained
  <2>2. ~flushing' /\ ~draining' /\ timers' \in Nat /\ timers' > 0
    BY <1>5 DEF Drained
  <2>3. UNCHANGED <<kind, sent, queue, writes, failed, closed>>
    BY <1>5 DEF Drained
  <2>4. kind # "serial" /\ ~closed => writes = <<>>
    BY <1>5 DEF Drained
  <2> QED BY <2>1, <2>2, <2>3, <2>4
<1>6. CASE DrainFailed
  BY <1>6 DEF DrainFailed
<1>7. CASE Timeout
  <2>1. queue \in Seq(Blocks) /\ Flush(queue, flushing, writes)
        /\ sent' \in Seq(Blocks) /\ timers' \in Nat
        /\ UNCHANGED <<kind, draining, failed, closed>>
    BY <1>7 DEF Timeout
  <2> HIDE DEF PumpInv, PumpType
  <2> QED BY <2>1, FlushKeepsInv
<1>8. CASE Close
  BY <1>8 DEF Close
<1>9. CASE Data
  BY <1>9 DEF Data, pump
<1>10. CASE Cut
  BY <1>10 DEF Cut, pump
<1>11. CASE UNCHANGED vars
  BY <1>11 DEF vars
<1> QED
  BY <1>1, <1>2, <1>3, <1>4, <1>5, <1>6, <1>7, <1>8, <1>9, <1>10, <1>11
  DEF Next, Writer

(* It holds when the constructor has run.                                  *)
LEMMA PumpInitially == Init => PumpInv
<1> SUFFICES ASSUME Init PROVE PumpInv
  OBVIOUS
<1>1. flushing \in BOOLEAN /\ draining \in BOOLEAN /\ failed \in BOOLEAN
      /\ closed \in BOOLEAN
  BY Zenon DEF Init
<1>2. kind \in Kinds /\ sent \in Seq(Blocks) /\ queue \in Seq(Blocks) /\ writes \in Seq(Blocks)
      /\ timers \in Nat /\ Len(writes) <= 1
  BY DEF Init
<1>3. queue = <<>> /\ writes = <<>> /\ ~draining /\ ~flushing
  BY DEF Init
<1> QED BY <1>1, <1>2, <1>3 DEF PumpInv, PumpType

(* At most one write of a pump is under way on a stream that is open, and  *)
(* the flag of frames_flush and flush says so, for every overlap of sends, *)
(* data, callbacks, errors and timers.                                     *)
THEOREM StreamOneWrite == Spec => []OneWrite
<1>1. PumpInv => OneWrite
  BY DEF PumpInv, OneWrite
<1> QED BY PumpInitially, PumpInductive, <1>1, PTL DEF Spec

(* Blocks in the queue of an open stream wait for a callback or a timer    *)
(* that is still to come, as long as no callback got an error.             *)
THEOREM StreamNeverIdle == Spec => []NeverIdle
<1>1. PumpInv => NeverIdle
  BY DEF PumpInv, NeverIdle
<1> QED BY PumpInitially, PumpInductive, <1>1, PTL DEF Spec

-----------------------------------------------------------------------------
(* The refinement.  What is between the writer's pipe and the reader's     *)
(* mesh: the bytes under way, and the blocks not yet written.              *)
Bytes == (1 .. MaxSent) \X (1 .. FrameSize)
stream == readbuf \o wire
pending == writes \o queue

(* After a write failed the flag stays up with nothing under way that      *)
(* would take it down.                                                     *)
Stuck == kind # "serial" /\ flushing /\ writes = <<>> /\ ~draining

(* w whole blocks are under way, the ones that follow those handed on;     *)
(* as long as the pump can write, the blocks that follow those are         *)
(* pending, without a gap.                                                 *)
UnderWay(w) ==
  /\ Len(stream) = w * FrameSize
  /\ \A a \in 0 .. w - 1, i \in 1 .. FrameSize :
       stream[a * FrameSize + i] = <<Len(got) + a + 1, i>>
  /\ Len(got) + w <= Len(sent)
  /\ ~closed /\ ~Stuck =>
       /\ Len(sent) = Len(got) + w + Len(pending)
       /\ \A k \in 1 .. Len(pending) : pending[k] = Block(Len(got) + w + k)

LineType ==
  /\ wire \in Seq(Bytes) /\ readbuf \in Seq(Bytes) /\ got \in Seq(Seq(Bytes))

StreamInv ==
  /\ PumpInv /\ LineType
  /\ Len(sent) <= MaxSent
  /\ \A k \in 1 .. Len(sent) : sent[k] = Block(k)
  /\ \E w \in Nat : UnderWay(w)

(* Arithmetic of the places of a block in the stream.                      *)
LEMMA Places ==
  ASSUME NEW a \in Nat, NEW w \in Nat, NEW f \in Nat \ {0}
  PROVE  /\ a * f \in Nat
         /\ (a + 1) * f = a * f + f
         /\ a < w => a * f + f <= w * f
         /\ f <= w * f => w # 0
         /\ w # 0 => f <= w * f
<1>1. a * f \in Nat /\ w * f \in Nat /\ (a + 1) * f = a * f + f
  OBVIOUS
<1>2. a < w => a * f + f <= w * f
  <2> SUFFICES ASSUME a < w PROVE a * f + f <= w * f
    OBVIOUS
  <2> DEFINE d == w - (a + 1)
  <2>1. d \in Nat /\ w = (a + 1) + d
    OBVIOUS
  <2>2. d * f \in Nat
    BY <2>1
  <2>3. ((a + 1) + d) * f = (a + 1) * f + d * f
    BY <2>1
  <2> HIDE DEF d
  <2> QED BY <1>1, <2>1, <2>2, <2>3
<1>3. f <= w * f => w # 0
  OBVIOUS
<1>4. w # 0 => f <= w * f
  <2> SUFFICES ASSUME w # 0 PROVE f <= w * f
    OBVIOUS
  <2> DEFINE d == w - 1
  <2>1. d \in Nat /\ w = d + 1
    OBVIOUS
  <2>2. d * f \in Nat /\ (d + 1) * f = d * f + f
    BY <2>1
  <2> HIDE DEF d
  <2> QED BY <2>1, <2>2
<1> QED BY <1>1, <1>2, <1>3, <1>4

(* A block is a sequence of FrameSize bytes.                               *)
LEMMA BlockFacts ==
  ASSUME NEW n \in 1 .. MaxSent
  PROVE  /\ Block(n) \in Seq(Bytes) /\ Len(Block(n)) = FrameSize
         /\ \A i \in 1 .. FrameSize : Block(n)[i] = <<n, i>>
<1>1. Block(n) \in [1 .. FrameSize -> Bytes]
  BY DEF Block, Bytes
<1>2. FrameSize \in Nat
  BY JsStreamAssumption
<1> QED BY <1>1, <1>2 DEF Block

(* flush moves blocks from the queue to the stream and keeps their order.  *)
LEMMA FlushKeepsOrder ==
  ASSUME NEW q \in Seq(Blocks), NEW fl \in BOOLEAN, NEW w \in Seq(Blocks),
         Flush(q, fl, w)
  PROVE  writes' \o queue' = w \o q
<1>1. CASE kind = "serial"
  <2>1. queue' = <<>> /\ writes' = w \o q
    BY <1>1 DEF Flush, FlushAll
  <2>2. w \o q \in Seq(Blocks)
    OBVIOUS
  <2> QED BY <2>1, <2>2, ConcatEmptySeq
<1>2. CASE kind # "serial" /\ q # <<>> /\ ~fl
  <2>1. queue' = Tail(q) /\ writes' = Append(w, Head(q))
    BY <1>2 DEF Flush, FlushOne
  <2>2. Tail(q) \in Seq(Blocks) /\ Head(q) \in Blocks /\ q = <<Head(q)>> \o Tail(q)
    BY <1>2, HeadTailProperties
  <2>3. Append(w, Head(q)) = w \o <<Head(q)>>
    BY <2>2, AppendIsConcat
  <2>4. (w \o <<Head(q)>>) \o Tail(q) = w \o (<<Head(q)>> \o Tail(q))
    BY <2>2, ConcatAssociative
  <2> QED BY <2>1, <2>2, <2>3, <2>4
<1>3. CASE kind # "serial" /\ (q = <<>> \/ fl)
  BY <1>3 DEF Flush, FlushOne
<1> QED BY <1>1, <1>2, <1>3

(* A pump that is stuck stays so, whatever calls flush.                    *)
LEMMA FlushStaysStuck ==
  ASSUME PumpInv, NEW q \in Seq(Blocks), Flush(q, flushing, writes),
         UNCHANGED <<kind, draining>>, Stuck
  PROVE  Stuck'
<1>1. writes \in Seq(Blocks) /\ flushing \in BOOLEAN
  BY DEF PumpInv, PumpType
<1>2. writes' = writes /\ flushing' = flushing
  BY <1>1, FlushFacts DEF Stuck
<1> QED BY <1>2 DEF Stuck

(* Steps that hand nothing to the wire and take nothing from it leave what *)
(* is under way as it is.                                                  *)
LEMMA StillUnderWay ==
  ASSUME NEW w \in Nat, UnderWay(w), UNCHANGED <<line, sent>>,
         ~closed' /\ ~Stuck' => ~closed /\ ~Stuck /\ pending' = pending
  PROVE  UnderWay(w)'
<1>1. stream' = stream /\ got' = got
  BY DEF stream, line
<1> QED BY <1>1 DEF UnderWay

(* The pipe is called: one more block is sent, and pending unless the pump *)
(* is stuck.                                                               *)
LEMMA SendUnderWay ==
  ASSUME StreamInv, Send, NEW w \in Nat, UnderWay(w)
  PROVE  UnderWay(w)' /\ Len(sent') <= MaxSent
         /\ \A k \in 1 .. Len(sent') : sent'[k] = Block(k)
<1> DEFINE b == Block(Len(sent) + 1)
<1>1. /\ sent \in Seq(Blocks) /\ queue \in Seq(Blocks) /\ writes \in Seq(Blocks)
      /\ flushing \in BOOLEAN
  BY DEF StreamInv, PumpInv, PumpType
<1>2. b \in Blocks
  <2>1. Len(sent) + 1 \in 1 .. MaxSent
    BY <1>1, JsStreamAssumption DEF Send
  <2> QED BY <2>1 DEF Blocks
<1>3. /\ sent' = Append(sent, b) /\ Flush(Append(queue, b), flushing, writes)
      /\ UNCHANGED <<kind, draining, closed, line>>
  BY DEF Send
<1> HIDE DEF b
<1>4. /\ Len(sent') = Len(sent) + 1 /\ sent'[Len(sent) + 1] = b
      /\ \A k \in 1 .. Len(sent) : sent'[k] = sent[k]
  BY <1>1, <1>2, <1>3, AppendProperties
<1>5. Len(sent') <= MaxSent
  BY <1>1, <1>4, JsStreamAssumption DEF Send
<1>6. \A k \in 1 .. Len(sent') : sent'[k] = Block(k)
  BY <1>1, <1>4 DEF StreamInv, b
<1>7. Append(queue, b) \in Seq(Blocks)
  BY <1>1, <1>2, AppendProperties
<1>8. pending' = Append(pending, b)
  <2>1. pending' = writes \o Append(queue, b)
    BY <1>1, <1>3, <1>7, FlushKeepsOrder DEF pending
  <2>2. Append(queue, b) = queue \o <<b>> /\ <<b>> \in Seq(Blocks)
    BY <1>1, <1>2, AppendIsConcat
  <2>3. writes \o (queue \o <<b>>) = (writes \o queue) \o <<b>>
    BY <1>1, <2>2, ConcatAssociative
  <2>4. pending \in Seq(Blocks)
    BY <1>1, ConcatProperties DEF pending
  <2>5. Append(pending, b) = pending \o <<b>>
    BY <1>2, <2>4, AppendIsConcat
  <2> QED BY <2>1, <2>2, <2>3, <2>5 DEF pending
<1>9. pending \in Seq(Blocks) /\ Len(pending) \in Nat
  BY <1>1, ConcatProperties DEF pending
<1>10. /\ Len(pending') = Len(pending) + 1 /\ pending'[Len(pending) + 1] = b
       /\ \A k \in 1 .. Len(pending) : pending'[k] = pending[k]
  BY <1>2, <1>8, <1>9, AppendProperties
<1>11. Stuck => Stuck'
  BY <1>3, <1>7, FlushStaysStuck DEF StreamInv
<1>12. stream' = stream /\ got' = got /\ closed' = closed
  BY <1>3 DEF stream, line
<1>13. got \in Seq(Seq(Bytes)) /\ Len(got) \in Nat /\ Len(sent) \in Nat
  BY <1>1 DEF StreamInv, LineType
<1>14. Len(got') + w <= Len(sent')
  BY <1>4, <1>12, <1>13 DEF UnderWay
<1>15. ASSUME ~closed', ~Stuck'
       PROVE  /\ Len(sent') = Len(got') + w + Len(pending')
              /\ \A k \in 1 .. Len(pending') : pending'[k] = Block(Len(got') + w + k)
  <2>1. /\ Len(sent) = Len(got) + w + Len(pending)
        /\ \A k \in 1 .. Len(pending) : pending[k] = Block(Len(got) + w + k)
    BY <1>11, <1>12, <1>15 DEF UnderWay
  <2>2. Len(sent') = Len(got') + w + Len(pending')
    BY <1>4, <1>9, <1>10, <1>12, <1>13, <2>1
  <2>3. b = Block(Len(got) + w + (Len(pending) + 1))
    <3>1. Len(sent) + 1 = Len(got) + w + (Len(pending) + 1)
      BY <1>9, <1>13, <2>1
    <3> QED BY <3>1 DEF b
  <2>4. ASSUME NEW k \in 1 .. Len(pending')
        PROVE  pending'[k] = Block(Len(got') + w + k)
    <3>1. k \in 1 .. Len(pending) \/ k = Len(pending) + 1
      BY <1>9, <1>10
    <3>2. CASE k \in 1 .. Len(pending)
      BY <1>10, <1>12, <2>1, <3>2
    <3>3. CASE k = Len(pending) + 1
      BY <1>10, <1>12, <2>3, <3>3
    <3> QED BY <3>1, <3>2, <3>3
  <2> QED BY <2>2, <2>4
<1> QED BY <1>5, <1>6, <1>12, <1>14, <1>15 DEF UnderWay

(* A block that is written goes behind those under way and is the next     *)
(* one.                                                                    *)
LEMMA WriteUnderWay ==
  ASSUME StreamInv, WriteDone, NEW w \in Nat, UnderWay(w)
  PROVE  UnderWay(w + 1)' /\ LineType'
<1> DEFINE g == Len(got)
           h == Head(writes)
<1>1. /\ queue \in Seq(Blocks) /\ writes \in Seq(Blocks) /\ sent \in Seq(Blocks)
      /\ wire \in Seq(Bytes) /\ readbuf \in Seq(Bytes) /\ got \in Seq(Seq(Bytes))
      /\ g \in Nat /\ Len(sent) \in Nat /\ FrameSize \in Nat \ {0}
  BY JsStreamAssumption DEF StreamInv, PumpInv, PumpType, LineType
<1>2. /\ writes # <<>> /\ writes' = Tail(writes) /\ wire' = wire \o h
      /\ UNCHANGED <<sent, queue, closed, readbuf, got>> /\ ~closed
  BY DEF WriteDone
<1>3. ~Stuck
  BY <1>2 DEF Stuck
<1>4. /\ Len(stream) = w * FrameSize
      /\ \A a \in 0 .. w - 1, i \in 1 .. FrameSize :
           stream[a * FrameSize + i] = <<g + a + 1, i>>
      /\ Len(sent) = g + w + Len(pending)
      /\ \A k \in 1 .. Len(pending) : pending[k] = Block(g + w + k)
  BY <1>2, <1>3 DEF UnderWay
<1> HIDE DEF g
<1>5. /\ Tail(writes) \in Seq(Blocks) /\ Len(Tail(writes)) = Len(writes) - 1
      /\ h = writes[1] /\ Len(writes) \in Nat \ {0}
      /\ \A k \in 1 .. Len(Tail(writes)) : Tail(writes)[k] = writes[k + 1]
  BY <1>1, <1>2, HeadTailProperties, EmptySeq
<1>6. /\ Len(pending) = Len(writes) + Len(queue) /\ Len(queue) \in Nat
      /\ \A k \in 1 .. Len(writes) + Len(queue) :
           pending[k] = IF k <= Len(writes) THEN writes[k] ELSE queue[k - Len(writes)]
  BY <1>1, ConcatProperties DEF pending
<1>7. /\ Len(pending') = Len(pending) - 1
      /\ \A k \in 1 .. Len(pending') : pending'[k] = pending[k + 1]
  <2>1. pending' = Tail(writes) \o queue
    BY <1>2 DEF pending
  <2>2. /\ Len(pending') = Len(Tail(writes)) + Len(queue)
        /\ \A k \in 1 .. Len(Tail(writes)) + Len(queue) :
             pending'[k] = IF k <= Len(Tail(writes)) THEN Tail(writes)[k]
                           ELSE queue[k - Len(Tail(writes))]
    BY <1>1, <1>5, <2>1, ConcatProperties
  <2>3. Len(pending') = Len(pending) - 1
    BY <1>5, <1>6, <2>2
  <2>4. ASSUME NEW k \in 1 .. Len(pending') PROVE pending'[k] = pending[k + 1]
    <3>1. k + 1 \in 1 .. Len(writes) + Len(queue) /\ k \in Nat
      BY <1>5, <1>6, <2>3
    <3>2. CASE k <= Len(Tail(writes))
      BY <1>5, <1>6, <2>2, <2>4, <3>1, <3>2
    <3>3. CASE ~(k <= Len(Tail(writes)))
      <4>1. k - Len(Tail(writes)) = (k + 1) - Len(writes) /\ ~(k + 1 <= Len(writes))
        BY <1>5, <3>1, <3>3
      <4> QED BY <1>5, <1>6, <2>2, <2>4, <3>1, <3>3, <4>1
    <3> QED BY <3>2, <3>3
  <2> QED BY <2>3, <2>4
<1>8. h = Block(g + w + 1)
  BY <1>4, <1>5, <1>6
<1>9. g + w + 1 \in 1 .. MaxSent
  BY <1>1, <1>4, <1>5, <1>6, JsStreamAssumption DEF StreamInv
<1>10. /\ h \in Seq(Bytes) /\ Len(h) = FrameSize
       /\ \A i \in 1 .. FrameSize : h[i] = <<g + w + 1, i>>
  BY <1>8, <1>9, BlockFacts
<1> HIDE DEF h
<1>11. stream \in Seq(Bytes) /\ stream' = stream \o h
  <2>1. stream' = readbuf \o (wire \o h)
    BY <1>2 DEF stream
  <2>2. readbuf \o (wire \o h) = (readbuf \o wire) \o h
    <3>1. readbuf \in Seq(Bytes) /\ wire \in Seq(Bytes) /\ h \in Seq(Bytes)
      BY <1>1, <1>10
    <3> QED BY <3>1, ConcatAssociative, SMTT(20)
  <2> QED BY <1>1, <2>1, <2>2, ConcatProperties DEF stream
<1>12. /\ Len(stream') = Len(stream) + FrameSize
       /\ \A j \in 1 .. Len(stream) + FrameSize :
            stream'[j] = IF j <= Len(stream) THEN stream[j] ELSE h[j - Len(stream)]
  BY <1>10, <1>11, ConcatProperties
<1>13. Len(stream') = (w + 1) * FrameSize
  BY <1>1, <1>4, <1>12, Places
<1>14. ASSUME NEW a \in 0 .. (w + 1) - 1, NEW i \in 1 .. FrameSize
       PROVE  stream'[a * FrameSize + i] = <<g + a + 1, i>>
  <2>1. a \in Nat /\ a <= w /\ a * FrameSize \in Nat /\ w * FrameSize \in Nat
    BY <1>1, Places
  <2>2. CASE a < w
    <3>1. a * FrameSize + FrameSize <= w * FrameSize
      BY <1>1, <2>1, <2>2, Places
    <3> DEFINE j == a * FrameSize + i
    <3>2. j \in 1 .. Len(stream) + FrameSize /\ j <= Len(stream)
      <4>1. /\ j \in Nat /\ j >= 1 /\ j <= a * FrameSize + FrameSize
            /\ FrameSize \in Nat /\ Len(stream) \in Nat
        <5>1. FrameSize \in Nat /\ i \in 1 .. FrameSize
          BY <1>1
        <5>2. Len(stream) \in Nat
          BY <1>11
        <5> DEFINE x == a * FrameSize
        <5>3. x \in Nat
          BY <2>1
        <5> HIDE DEF x
        <5>4. x + i \in Nat /\ x + i >= 1 /\ x + i <= x + FrameSize
          BY <5>1, <5>3
        <5> QED BY <5>1, <5>2, <5>4 DEF x
      <4>2. a * FrameSize + FrameSize <= Len(stream) /\ a * FrameSize \in Nat
        BY <1>4, <2>1, <3>1
      <4> HIDE DEF j
      <4> QED BY <4>1, <4>2
    <3>3. stream'[j] = stream[j]
      BY <1>12, <3>2
    <3>4. a \in 0 .. w - 1
      BY <2>1, <2>2
    <3> QED BY <1>4, <3>3, <3>4
  <2>3. CASE a = w
    <3> DEFINE j == a * FrameSize + i
    <3>1. j \in 1 .. Len(stream) + FrameSize /\ ~(j <= Len(stream)) /\ j - Len(stream) = i
      BY <1>1, <1>4, <2>1, <2>3
    <3> HIDE DEF j
    <3>2. stream'[j] = h[i]
      BY <1>12, <3>1
    <3> QED BY <1>10, <2>3, <3>2 DEF j
  <2> QED BY <2>1, <2>2, <2>3
<1>15. got' = got /\ sent' = sent /\ Len(got') = g
  BY <1>2 DEF g
<1>16. /\ g + (w + 1) <= Len(sent')
       /\ Len(sent') = g + (w + 1) + Len(pending')
       /\ \A k \in 1 .. Len(pending') : pending'[k] = Block(g + (w + 1) + k)
  <2>1. g + (w + 1) <= Len(sent') /\ Len(sent') = g + (w + 1) + Len(pending')
    <3>1. /\ Len(pending) \in Nat /\ Len(pending) > 0 /\ Len(pending') = Len(pending) - 1
          /\ Len(sent') = g + w + Len(pending) /\ g \in Nat
      BY <1>1, <1>4, <1>5, <1>6, <1>7, <1>15
    <3> QED BY <3>1
  <2>2. ASSUME NEW k \in 1 .. Len(pending') PROVE pending'[k] = Block(g + (w + 1) + k)
    <3>1. k + 1 \in 1 .. Len(pending) /\ g + w + (k + 1) = g + (w + 1) + k
      BY <1>1, <1>5, <1>6, <1>7
    <3>2. pending[k + 1] = Block(g + w + (k + 1))
      BY <1>4, <3>1
    <3> QED BY <1>7, <3>1, <3>2
  <2> QED BY <2>1, <2>2
<1>17. LineType'
  BY <1>1, <1>2, <1>10, ConcatProperties DEF LineType
<1> QED BY <1>13, <1>14, <1>15, <1>16, <1>17 DEF UnderWay

(* 'data' moves bytes from the wire to the buffer, in order.               *)
LEMMA DataKeepsStream ==
  ASSUME LineType, Data
  PROVE  LineType' /\ stream' = stream /\ got' = got
<1>1. PICK n \in 1 .. Len(wire) :
        /\ readbuf' = readbuf \o SubSeq(wire, 1, n)
        /\ wire' = SubSeq(wire, n + 1, Len(wire))
  BY DEF Data
<1>2. got' = got
  BY DEF Data
<1> DEFINE a == SubSeq(wire, 1, n)
           b == SubSeq(wire, n + 1, Len(wire))
<1>3. wire \in Seq(Bytes) /\ readbuf \in Seq(Bytes) /\ Len(wire) \in Nat
  BY DEF LineType
<1>4. a \in Seq(Bytes) /\ b \in Seq(Bytes)
  <2>1. \A i \in 1 .. Len(wire) : wire[i] \in Bytes
    BY <1>3, ElementOfSeq
  <2>2. a \in Seq(Bytes)
    <3>1. 1 \in Int /\ n \in Int /\ \A i \in 1 .. n : wire[i] \in Bytes
      BY <1>3, <2>1
    <3> QED BY <3>1, SubSeqProperties
  <2>3. b \in Seq(Bytes)
    <3>1. n + 1 \in Int /\ Len(wire) \in Int /\ \A i \in n + 1 .. Len(wire) : wire[i] \in Bytes
      BY <1>3, <2>1
    <3> QED BY <3>1, SubSeqProperties
  <2> QED BY <2>2, <2>3
<1>5. a \o b = wire
  <2>1. a \o b = SubSeq(wire, 1, Len(wire))
    <3>1. /\ 1 \in 1 .. Len(wire) + 1 /\ n \in 1 - 1 .. Len(wire)
          /\ Len(wire) \in n .. Len(wire)
      BY <1>3
    <3> QED BY <1>3, <3>1, ConcatAdjacentSubSeq
  <2>2. SubSeq(wire, 1, Len(wire)) = wire
    BY <1>3
  <2> QED BY <2>1, <2>2
<1> HIDE DEF a, b
<1>6. (readbuf \o a) \o b = readbuf \o (a \o b)
  <2>1. readbuf \in Seq(Bytes) /\ a \in Seq(Bytes) /\ b \in Seq(Bytes)
    BY <1>3, <1>4
  <2> QED BY <2>1, ConcatAssociative
<1>7. readbuf' = readbuf \o a /\ wire' = b
  BY <1>1 DEF a, b
<1>8. readbuf \o a \in Seq(Bytes)
  BY <1>3, <1>4, ConcatProperties
<1> QED BY <1>2, <1>4, <1>5, <1>6, <1>7, <1>8 DEF stream, LineType

(* What the loop cuts off the buffer is the first block under way.         *)
LEMMA CutUnderWay ==
  ASSUME StreamInv, Cut, NEW w \in Nat, UnderWay(w)
  PROVE  /\ w - 1 \in Nat /\ UnderWay(w - 1)' /\ LineType'
         /\ Len(got) + 1 \in 1 .. Len(sent)
         /\ got' = Append(got, Block(Len(got) + 1))
<1> DEFINE g == Len(got)
           c == SubSeq(readbuf, 1, FrameSize)
           d == SubSeq(readbuf, FrameSize + 1, Len(readbuf))
<1>1. /\ sent \in Seq(Blocks) /\ queue \in Seq(Blocks) /\ writes \in Seq(Blocks)
      /\ wire \in Seq(Bytes) /\ readbuf \in Seq(Bytes) /\ got \in Seq(Seq(Bytes))
      /\ g \in Nat /\ Len(sent) \in Nat /\ FrameSize \in Nat \ {0}
      /\ Len(wire) \in Nat /\ Len(readbuf) \in Nat
  BY JsStreamAssumption DEF StreamInv, PumpInv, PumpType, LineType
<1>2. /\ Len(readbuf) >= FrameSize /\ got' = Append(got, c) /\ readbuf' = d
      /\ UNCHANGED <<kind, sent, pump, draining, failed, closed, wire>>
  BY DEF Cut
<1>3. /\ stream \in Seq(Bytes) /\ Len(stream) = Len(readbuf) + Len(wire)
      /\ \A j \in 1 .. Len(readbuf) + Len(wire) :
           stream[j] = IF j <= Len(readbuf) THEN readbuf[j] ELSE wire[j - Len(readbuf)]
  BY <1>1, ConcatProperties DEF stream
<1>4. /\ c \in Seq(Bytes) /\ Len(c) = FrameSize
      /\ \A i \in 1 .. FrameSize : c[i] = readbuf[i]
  BY <1>1, <1>2
<1>5. /\ d \in Seq(Bytes) /\ Len(d) = Len(readbuf) - FrameSize
      /\ \A i \in 1 .. Len(readbuf) - FrameSize : d[i] = readbuf[FrameSize + i]
  BY <1>1, <1>2
<1> HIDE DEF c, d
<1>6. /\ Len(stream) = w * FrameSize
      /\ \A a \in 0 .. w - 1, i \in 1 .. FrameSize :
           stream[a * FrameSize + i] = <<g + a + 1, i>>
      /\ g + w <= Len(sent)
  BY DEF UnderWay
<1>7. Len(stream) = w * FrameSize /\ Len(stream) >= FrameSize
  <2>1. Len(stream) = w * FrameSize
    BY <1>6
  <2>2. Len(stream) = Len(readbuf) + Len(wire)
    BY <1>3
  <2>3. Len(stream) >= FrameSize
    BY <1>1, <1>2, <2>2
  <2> QED BY <2>1, <2>3
<1>8. w # 0
  BY <1>1, <1>7, Places
<1>9. w - 1 \in Nat /\ g + 1 \in 1 .. Len(sent)
  BY <1>1, <1>6, <1>8
<1> HIDE DEF g
<1>10. c = Block(g + 1)
  <2>1. g + 1 \in 1 .. MaxSent
    BY <1>1, <1>9, JsStreamAssumption DEF StreamInv
  <2>2. /\ Block(g + 1) \in Seq(Bytes) /\ Len(Block(g + 1)) = FrameSize
        /\ \A i \in 1 .. FrameSize : Block(g + 1)[i] = <<g + 1, i>>
    BY <2>1, BlockFacts
  <2>3. ASSUME NEW i \in 1 .. FrameSize PROVE c[i] = <<g + 1, i>>
    <3>1. stream[i] = readbuf[i]
      <4>1. i \in 1 .. Len(readbuf) + Len(wire) /\ i <= Len(readbuf)
        BY <1>1, <1>2
      <4> QED BY <1>3, <4>1
    <3>2. 0 \in 0 .. w - 1
      BY <1>9
    <3>3. stream[0 * FrameSize + i] = <<g + 0 + 1, i>>
      BY <1>6, <3>2
    <3>4. 0 * FrameSize + i = i /\ g + 0 + 1 = g + 1
      BY <1>1
    <3> QED BY <1>4, <3>1, <3>3, <3>4
  <2>4. \A i \in 1 .. Len(c) : c[i] = Block(g + 1)[i]
    BY <1>4, <2>2, <2>3
  <2> QED BY <1>4, <2>2, <2>4, SeqEqual
<1>11. Len(got') = g + 1 /\ got' \in Seq(Seq(Bytes))
  BY <1>1, <1>2, <1>4, AppendProperties DEF g
<1>12. /\ stream' \in Seq(Bytes) /\ Len(stream') = Len(stream) - FrameSize
       /\ \A j \in 1 .. Len(stream) - FrameSize : stream'[j] = stream[FrameSize + j]
  <2>1. stream' = d \o wire
    BY <1>2 DEF stream
  <2>2. /\ stream' \in Seq(Bytes) /\ Len(stream') = Len(d) + Len(wire)
        /\ \A j \in 1 .. Len(d) + Len(wire) :
             stream'[j] = IF j <= Len(d) THEN d[j] ELSE wire[j - Len(d)]
    BY <1>1, <1>5, <2>1, ConcatProperties
  <2>3. Len(stream') = Len(stream) - FrameSize
    BY <1>1, <1>3, <1>5, <2>2
  <2>4. ASSUME NEW j \in 1 .. Len(stream) - FrameSize
        PROVE  stream'[j] = stream[FrameSize + j]
    <3>1. /\ j \in 1 .. Len(d) + Len(wire) /\ FrameSize + j \in 1 .. Len(readbuf) + Len(wire)
          /\ (j <= Len(d) <=> FrameSize + j <= Len(readbuf))
          /\ j - Len(d) = (FrameSize + j) - Len(readbuf)
      BY <1>1, <1>2, <1>3, <1>5
    <3>2. CASE j <= Len(d)
      <4>1. j \in 1 .. Len(readbuf) - FrameSize
        BY <1>1, <1>5, <3>1, <3>2
      <4> QED BY <1>3, <1>5, <2>2, <3>1, <3>2, <4>1
    <3>3. CASE ~(j <= Len(d))
      BY <1>3, <2>2, <3>1, <3>3
    <3> QED BY <3>2, <3>3
  <2> QED BY <2>2, <2>3, <2>4
<1> DEFINE v == w - 1
<1>13. v \in Nat /\ w = v + 1 /\ (v + 1) * FrameSize = v * FrameSize + FrameSize
       /\ v * FrameSize \in Nat
  BY <1>1, <1>9, Places
<1> HIDE DEF v
<1>14. Len(stream') = v * FrameSize
  <2>1. Len(stream) = v * FrameSize + FrameSize
    BY <1>7, <1>13
  <2> QED BY <1>1, <1>12, <1>13, <2>1
<1>15. ASSUME NEW a \in 0 .. v - 1, NEW i \in 1 .. FrameSize
       PROVE  stream'[a * FrameSize + i] = <<(g + 1) + a + 1, i>>
  <2>1. a \in Nat /\ a < v /\ a + 1 \in 0 .. w - 1
    BY <1>13
  <2>2. /\ a * FrameSize \in Nat /\ a * FrameSize + FrameSize <= v * FrameSize
        /\ (a + 1) * FrameSize = a * FrameSize + FrameSize
    BY <1>1, <1>13, <2>1, Places
  <2> DEFINE x == a * FrameSize
  <2>3. x + i \in 1 .. Len(stream) - FrameSize
    <3>1. Len(stream) - FrameSize = v * FrameSize /\ v * FrameSize \in Nat
      BY <1>12, <1>13, <1>14
    <3>2. x \in Nat /\ x + FrameSize <= v * FrameSize
      BY <2>2
    <3> HIDE DEF x
    <3> QED BY <1>1, <3>1, <3>2
  <2>4. stream'[x + i] = stream[FrameSize + (x + i)]
    BY <1>12, <2>3
  <2>5. stream[(a + 1) * FrameSize + i] = <<g + (a + 1) + 1, i>>
    BY <1>6, <2>1
  <2>6. FrameSize + (x + i) = (a + 1) * FrameSize + i
    <3>1. x \in Nat /\ (a + 1) * FrameSize = x + FrameSize
      BY <2>2
    <3> HIDE DEF x
    <3> QED BY <1>1, <3>1
  <2>7. g + (a + 1) + 1 = (g + 1) + a + 1
    BY <1>1, <2>1
  <2> QED BY <2>4, <2>5, <2>6, <2>7
<1>16. LineType'
  BY <1>1, <1>2, <1>5, <1>11 DEF LineType
<1>17. /\ writes' = writes /\ queue' = queue /\ flushing' = flushing /\ kind' = kind
       /\ draining' = draining /\ closed' = closed /\ sent' = sent
  BY <1>2 DEF pump
<1>18. pending' = pending /\ Stuck' = Stuck
  BY <1>17 DEF pending, Stuck
<1>19. (g + 1) + v <= Len(sent')
  BY <1>1, <1>6, <1>13, <1>17
<1>20. ASSUME ~closed', ~Stuck'
       PROVE  /\ Len(sent') = (g + 1) + v + Len(pending')
              /\ \A k \in 1 .. Len(pending') : pending'[k] = Block((g + 1) + v + k)
  <2>1. /\ Len(sent) = g + w + Len(pending)
        /\ \A k \in 1 .. Len(pending) : pending[k] = Block(g + w + k)
    BY <1>17, <1>18, <1>20 DEF UnderWay, g
  <2>2. (g + 1) + v = g + w
    BY <1>1, <1>13
  <2> QED BY <1>17, <1>18, <2>1, <2>2
<1>21. UnderWay(v)'
  BY <1>11, <1>14, <1>15, <1>19, <1>20 DEF UnderWay
<1> QED BY <1>2, <1>9, <1>10, <1>16, <1>21 DEF v, g

(* No step of the pumps, of node or of the reader breaks it.               *)
LEMMA StreamInductive == StreamInv /\ [Next]_vars => StreamInv'
<1> SUFFICES ASSUME StreamInv, [Next]_vars PROVE StreamInv'
  OBVIOUS
<1>1. PumpInv'
  BY PumpInductive DEF StreamInv
<1>2. PICK w \in Nat : UnderWay(w)
  BY DEF StreamInv
<1>3. /\ queue \in Seq(Blocks) /\ writes \in Seq(Blocks) /\ flushing \in BOOLEAN
      /\ PumpInv /\ LineType
  BY DEF StreamInv, PumpInv, PumpType
<1>4. CASE Send
  <2>1. UnderWay(w)' /\ Len(sent') <= MaxSent
        /\ \A k \in 1 .. Len(sent') : sent'[k] = Block(k)
    BY <1>2, <1>4, SendUnderWay
  <2>2. LineType'
    BY <1>3, <1>4 DEF Send, line, LineType
  <2> QED BY <1>1, <2>1, <2>2 DEF StreamInv
<1>5. ASSUME UNCHANGED <<line, sent>>,
             ~closed' /\ ~Stuck' => ~closed /\ ~Stuck /\ pending' = pending
      PROVE  StreamInv'
  <2>1. UnderWay(w)'
    BY <1>2, <1>5, StillUnderWay
  <2>2. LineType'
    BY <1>3, <1>5 DEF line, LineType
  <2>3. sent' = sent
    BY <1>5
  <2> QED BY <1>1, <2>1, <2>2, <2>3 DEF StreamInv
<1>6. CASE OwnData
  <2>1. /\ Flush(queue, flushing, writes)
        /\ UNCHANGED <<kind, draining, closed, line, sent>>
    BY <1>6 DEF OwnData
  <2>2. pending' = pending
    BY <1>3, <2>1, FlushKeepsOrder DEF pending
  <2>3. Stuck => Stuck'
    BY <1>3, <2>1, FlushStaysStuck
  <2> QED BY <1>5, <2>1, <2>2, <2>3
<1>7. CASE WriteDone
  <2>1. UnderWay(w + 1)' /\ LineType'
    BY <1>2, <1>7, WriteUnderWay
  <2>2. w + 1 \in Nat
    OBVIOUS
  <2>3. sent' = sent
    BY <1>7 DEF WriteDone
  <2> QED BY <1>1, <2>1, <2>2, <2>3 DEF StreamInv
<1>8. CASE WriteFailed
  <2>1. /\ writes # <<>> /\ kind # "serial" /\ writes' = Tail(writes)
        /\ UNCHANGED <<kind, flushing, draining, closed, line, sent>>
    BY <1>8 DEF WriteFailed
  <2>2. ~closed => Len(writes) <= 1 /\ flushing /\ ~draining
    BY <1>3, <2>1 DEF PumpInv
  <2>3. Len(writes) <= 1 => writes' = <<>>
    <3>1. Len(writes) \in Nat \ {0} /\ Tail(writes) \in Seq(Blocks)
          /\ Len(Tail(writes)) = Len(writes) - 1
      BY <1>3, <2>1, EmptySeq, HeadTailProperties
    <3>2. Len(writes) <= 1 => Len(Tail(writes)) = 0
      BY <3>1
    <3> QED BY <2>1, <3>1, <3>2, EmptySeq
  <2>4. ~closed' => Stuck'
    BY <2>1, <2>2, <2>3 DEF Stuck
  <2> QED BY <1>5, <2>1, <2>4
<1>9. CASE Drained
  <2>1. draining /\ UNCHANGED <<queue, writes, closed, line, sent>>
    BY <1>9 DEF Drained
  <2>2. ~Stuck /\ pending' = pending
    BY <2>1 DEF Stuck, pending
  <2> QED BY <1>5, <2>1, <2>2
<1>10. CASE DrainFailed
  <2>1. draining /\ UNCHANGED <<queue, writes, closed, line, sent>>
    BY <1>10 DEF DrainFailed
  <2>2. ~Stuck /\ pending' = pending
    BY <2>1 DEF Stuck, pending
  <2> QED BY <1>5, <2>1, <2>2
<1>11. CASE Timeout
  <2>1. /\ Flush(queue, flushing, writes)
        /\ UNCHANGED <<kind, draining, closed, line, sent>>
    BY <1>11 DEF Timeout
  <2>2. pending' = pending
    BY <1>3, <2>1, FlushKeepsOrder DEF pending
  <2>3. Stuck => Stuck'
    BY <1>3, <2>1, FlushStaysStuck
  <2> QED BY <1>5, <2>1, <2>2, <2>3
<1>12. CASE Close
  <2>1. UNCHANGED <<line, sent>> /\ closed'
    BY <1>12 DEF Close
  <2> QED BY <1>5, <2>1
<1>13. CASE Data
  <2>1. LineType' /\ stream' = stream /\ got' = got
    BY <1>3, <1>13, DataKeepsStream
  <2>2. UNCHANGED <<kind, sent, queue, flushing, writes, draining, closed>>
    BY <1>13 DEF Data, pump
  <2>3. pending' = pending /\ Stuck' = Stuck
    BY <2>2 DEF pending, Stuck
  <2>4. UnderWay(w)'
    BY <1>2, <2>1, <2>2, <2>3 DEF UnderWay
  <2> QED BY <1>1, <2>1, <2>2, <2>4 DEF StreamInv
<1>14. CASE Cut
  <2>1. w - 1 \in Nat /\ UnderWay(w - 1)' /\ LineType'
    BY <1>2, <1>14, CutUnderWay
  <2>2. sent' = sent
    BY <1>14 DEF Cut
  <2> QED BY <1>1, <2>1, <2>2 DEF StreamInv
<1>15. CASE UNCHANGED vars
  <2>1. UNCHANGED <<kind, sent, queue, flushing, writes, draining, closed, line>>
    BY <1>15 DEF vars, line
  <2>2. pending' = pending /\ Stuck' = Stuck
    BY <2>1 DEF pending, Stuck
  <2> QED BY <1>5, <2>1, <2>2
<1> QED
  BY <1>4, <1>6, <1>7, <1>8, <1>9, <1>10, <1>11, <1>12, <1>13, <1>14, <1>15
  DEF Next, Writer

(* Nothing is under way when the constructor has run.                      *)
LEMMA StreamInitially == Init => StreamInv
<1> SUFFICES ASSUME Init PROVE StreamInv
  OBVIOUS
<1>1. PumpInv
  BY PumpInitially
<1>2. LineType /\ Len(sent) = 0 /\ Len(got) = 0
  BY DEF Init, LineType
<1>3. stream = <<>> /\ Len(stream) = 0 /\ pending = <<>> /\ Len(pending) = 0
  BY DEF Init, stream, pending
<1>4. UnderWay(0)
  BY <1>2, <1>3, JsStreamAssumption DEF UnderWay
<1> QED BY <1>1, <1>2, <1>4, JsStreamAssumption DEF StreamInv

(* The types of everything the stream keeps.                               *)
THEOREM StreamTypeCorrect == Spec => []TypeOK
<1>1. StreamInv => TypeOK
  BY DEF StreamInv, PumpInv, PumpType, LineType, TypeOK, Bytes
<1> QED BY StreamInitially, StreamInductive, <1>1, PTL DEF Spec

(* The pumps and the reader implement the pipe: whatever the size of a     *)
(* block, however the stream cuts the bytes into 'data' events, wherever   *)
(* writes fail, timers run late or the stream closes, what the reader      *)
(* hands on is a prefix of what was sent, block by block.                  *)
THEOREM StreamInOrder == Spec => InOrder
<1> DEFINE s1 == [e \in {1, 2} |-> IF e = 1 THEN sent ELSE <<>>]
           g2 == [e \in {1, 2} |-> IF e = 2 THEN got ELSE <<>>]
<1>1. Init => Pipe!Init
  BY DEF Init, Pipe!Init, Pipe!End
<1>2. StreamInv /\ [Next]_vars => [Pipe!Next]_<<s1, g2>>
  <2> SUFFICES ASSUME StreamInv, [Next]_vars PROVE [Pipe!Next]_<<s1, g2>>
    OBVIOUS
  <2>1. CASE UNCHANGED <<sent, got>>
    BY <2>1
  <2>2. CASE Send
    <3>1. Len(sent) + 1 \in 1 .. MaxSent /\ sent' = Append(sent, Block(Len(sent) + 1))
          /\ got' = got
      <4>1. Len(sent) \in Nat
        BY DEF StreamInv, PumpInv, PumpType
      <4> QED BY <2>2, <4>1, JsStreamAssumption DEF Send, line
    <3>2. Block(Len(sent) + 1) \in Blocks
      BY <3>1 DEF Blocks
    <3>3. s1' = [s1 EXCEPT ![1] = Append(s1[1], Block(Len(sent) + 1))] /\ g2' = g2
      BY <3>1
    <3>4. Pipe!Send(1)
      BY <3>2, <3>3 DEF Pipe!Send
    <3> QED BY <3>4 DEF Pipe!Next, Pipe!End
  <2>3. CASE Cut
    <3>1. PICK w \in Nat : UnderWay(w)
      BY DEF StreamInv
    <3>2. Len(got) + 1 \in 1 .. Len(sent) /\ got' = Append(got, Block(Len(got) + 1))
      BY <2>3, <3>1, CutUnderWay
    <3>3. sent[Len(got) + 1] = Block(Len(got) + 1)
      BY <3>2 DEF StreamInv
    <3>4. Len(got) < Len(sent)
      <4>1. Len(got) \in Nat /\ Len(sent) \in Nat
        BY DEF StreamInv, PumpInv, PumpType, LineType
      <4> QED BY <3>2, <4>1
    <3>5. sent' = sent
      BY <2>3 DEF Cut
    <3>6. Pipe!Other(2) = 1
      BY DEF Pipe!Other
    <3>7. s1[1] = sent /\ g2[2] = got /\ s1' = s1
      BY <3>5
    <3>8. g2' = [g2 EXCEPT ![2] = Append(g2[2], s1[1][Len(g2[2]) + 1])]
      BY <3>2, <3>3
    <3>9. Pipe!Deliver(2)
      BY <3>4, <3>6, <3>7, <3>8 DEF Pipe!Deliver
    <3> QED BY <3>9 DEF Pipe!Next, Pipe!End
  <2>4. Send \/ Cut \/ UNCHANGED <<sent, got>>
    BY DEF Next, Writer, vars, line, pump, OwnData, WriteDone, WriteFailed,
           Drained, DrainFailed, Timeout, Close, Data
  <2> QED BY <2>1, <2>2, <2>3, <2>4
<1> QED BY StreamInitially, StreamInductive, <1>1, <1>2, PTL DEF Spec, InOrder, Pipe!Spec
=============================================================================
