------------------------------ MODULE JsStream ------------------------------
(***************************************************************************)
(* How the JavaScript bindings put blocks (frames or chunks) on a node     *)
(* stream and take them from it: the write pumps of the classes Frames and *)
(* Chunks of src/js/core.js and of src/js/samples/serial.js, and the read  *)
(* buffer that cuts what arrives into frames again.  One direction of one  *)
(* stream; each callback of node is an action.                             *)
(*                                                                         *)
(* A block is a number and FrameSize bytes, a byte is <<block, place>>.    *)
(* util_frames and lob.chunking, which cut packets into blocks, are        *)
(* outside: a packet of several blocks is several calls of Send in a row.  *)
(*                                                                         *)
(* An operator defined just before another with the same parameters is a   *)
(* deliberately wrong variant: replacing the second by the first must make *)
(* a property fail.                                                        *)
(***************************************************************************)
EXTENDS Naturals, Sequences

CONSTANTS
  Kinds,        \* the pumps considered: "frames", "chunks", "serial"
  FrameSize,    \* bytes in a block
  MaxSent       \* bound: blocks sent

ASSUME JsStreamAssumption ==
  /\ Kinds \subseteq {"frames", "chunks", "serial"}
  /\ FrameSize \in Nat \ {0} /\ MaxSent \in Nat \ {0}

VARIABLES
  kind,       \* which pump writes; never changes
  sent,       \* the blocks given to the pump so far
  queue,      \* the blocks waiting: util_frames' outbox, or datas
  flushing,   \* the flag of the closure
  writes,     \* blocks given to stream.write, callback not yet called
  draining,   \* stream.drain was called, callback not yet called
  timers,     \* calls of flush that setTimeout has still to make
  failed,     \* a callback got an error
  closed,     \* the stream has emitted 'close'
  wire,       \* bytes written and not read
  readbuf,    \* the reader's buffer
  got         \* the blocks handed on by the reader

pump == <<queue, flushing, writes, timers>>
line == <<wire, readbuf, got>>
vars == <<kind, sent, queue, flushing, writes, draining, timers, failed,
          closed, wire, readbuf, got>>

(* th.BUFFER copies a block out of the library's memory.                   *)
Block(n) == [i \in 1 .. FrameSize |-> <<n, i>>]
Blocks == {Block(n) : n \in 1 .. MaxSent}

-----------------------------------------------------------------------------
(* flush of Chunks and frames_flush of Frames, called with q waiting, fl   *)
(* the flag and w under way: one block at a time.  frames_flush of the     *)
(* sample writes all there is.                                             *)
FlushOneUnguarded(q, fl, w) ==
  IF q # <<>>
  THEN queue' = Tail(q) /\ writes' = Append(w, Head(q)) /\ flushing' = TRUE
  ELSE queue' = q /\ writes' = w /\ flushing' = fl
FlushOne(q, fl, w) ==
  IF q # <<>> /\ ~fl
  THEN queue' = Tail(q) /\ writes' = Append(w, Head(q)) /\ flushing' = TRUE
  ELSE queue' = q /\ writes' = w /\ flushing' = fl

FlushAll(q, fl, w) == queue' = <<>> /\ writes' = w \o q /\ flushing' = fl

Flush(q, fl, w) ==
  IF kind = "serial" THEN FlushAll(q, fl, w) ELSE FlushOne(q, fl, w)

(* The closure's variables; the greeting that the constructor sends at its *)
(* end is the first Send.                                                  *)
Init ==
  /\ kind \in Kinds
  /\ sent = <<>> /\ queue = <<>> /\ writes = <<>>
  /\ flushing = FALSE
  /\ timers = 0
  /\ draining = FALSE /\ failed = FALSE /\ closed = FALSE
  /\ wire = <<>> /\ readbuf = <<>> /\ got = <<>>

(* The pipe of the link is called with a packet: into the outbox, or out   *)
(* of lob.chunking into datas, and flush.                                  *)
Send ==
  /\ ~closed
  /\ Len(sent) < MaxSent
  /\ LET b == Block(Len(sent) + 1) IN
       /\ sent' = Append(sent, b)
       /\ Flush(Append(queue, b), flushing, writes)
  /\ UNCHANGED <<kind, draining, timers, failed, closed, line>>

(* Data that arrives on the writer's own stream ends with a flush, too.    *)
OwnData ==
  /\ ~closed /\ kind # "chunks"
  /\ Flush(queue, flushing, writes)
  /\ UNCHANGED <<kind, sent, draining, timers, failed, closed, line>>

(* The callback of stream.write.  The block is on the wire; Frames starts  *)
(* a timer, Chunks waits for the stream to drain.                          *)
WriteDoneUntimed ==
  /\ writes # <<>> /\ ~closed
  /\ writes' = Tail(writes)
  /\ wire' = wire \o Head(writes)
  /\ draining' = (draining \/ kind = "chunks")
  /\ flushing' = (flushing /\ kind # "frames")
  /\ UNCHANGED <<kind, sent, queue, timers, failed, closed, readbuf, got>>
WriteDone ==
  /\ writes # <<>> /\ ~closed
  /\ writes' = Tail(writes)
  /\ wire' = wire \o Head(writes)
  /\ draining' = (draining \/ kind = "chunks")
  /\ IF kind = "frames"
     THEN flushing' = FALSE /\ timers' = timers + 1
     ELSE UNCHANGED <<flushing, timers>>
  /\ UNCHANGED <<kind, sent, queue, failed, closed, readbuf, got>>

(* The callback gets an error: it returns, and the flag stays set.  The    *)
(* block is gone.  (The sample gives no callback: an error ends it.)       *)
WriteFailedReset ==
  /\ writes # <<>> /\ kind # "serial"
  /\ writes' = Tail(writes)
  /\ failed' = TRUE
  /\ flushing' = FALSE
  /\ UNCHANGED <<kind, sent, queue, draining, timers, closed, line>>
WriteFailed ==
  /\ writes # <<>> /\ kind # "serial"
  /\ writes' = Tail(writes)
  /\ failed' = TRUE
  /\ UNCHANGED <<kind, sent, queue, flushing, draining, timers, closed, line>>

(* The callback of stream.drain: the flag goes down in any case, the timer *)
(* is set if there was no error.                                           *)
Drained ==
  /\ draining
  /\ draining' = FALSE
  /\ flushing' = FALSE
  /\ timers' = timers + 1
  /\ UNCHANGED <<kind, sent, queue, writes, failed, closed, line>>

DrainFailed ==
  /\ draining
  /\ draining' = FALSE
  /\ flushing' = FALSE
  /\ failed' = TRUE
  /\ UNCHANGED <<kind, sent, queue, writes, timers, closed, line>>

Timeout ==
  /\ timers > 0
  /\ timers' = timers - 1
  /\ Flush(queue, flushing, writes)
  /\ UNCHANGED <<kind, sent, draining, failed, closed, line>>

(* 'close': Frames takes its flag down, whatever is under way.             *)
Close ==
  /\ ~closed
  /\ closed' = TRUE
  /\ flushing' = (flushing /\ kind # "frames")
  /\ UNCHANGED <<kind, sent, queue, writes, draining, timers, failed, line>>

-----------------------------------------------------------------------------
(* The reader.  'data' brings any part of what is on the wire.             *)
Data ==
  /\ Len(readbuf) < FrameSize
  /\ \E n \in 1 .. Len(wire) :
       /\ readbuf' = readbuf \o SubSeq(wire, 1, n)
       /\ wire' = SubSeq(wire, n + 1, Len(wire))
  /\ UNCHANGED <<kind, sent, pump, draining, failed, closed, got>>

(* One turn of the loop that cuts full frames off the buffer.              *)
CutMore ==
  /\ Len(readbuf) > FrameSize
  /\ got' = Append(got, SubSeq(readbuf, 1, FrameSize))
  /\ readbuf' = SubSeq(readbuf, FrameSize + 1, Len(readbuf))
  /\ UNCHANGED <<kind, sent, pump, draining, failed, closed, wire>>
Cut ==
  /\ Len(readbuf) >= FrameSize
  /\ got' = Append(got, SubSeq(readbuf, 1, FrameSize))
  /\ readbuf' = SubSeq(readbuf, FrameSize + 1, Len(readbuf))
  /\ UNCHANGED <<kind, sent, pump, draining, failed, closed, wire>>

Writer ==
  \/ Send \/ OwnData \/ WriteDone \/ WriteFailed \/ Drained \/ DrainFailed
  \/ Timeout \/ Close
Next == Writer \/ Data \/ Cut

Spec == Init /\ [][Next]_vars

(* Node calls every callback and timer, and the stream is read.            *)
FairSpec ==
  /\ Spec
  /\ WF_vars(WriteDone \/ WriteFailed) /\ WF_vars(Drained \/ DrainFailed)
  /\ WF_vars(Timeout) /\ WF_vars(Data) /\ WF_vars(Cut)
-----------------------------------------------------------------------------
(* Properties.                                                             *)

(* The values each variable takes.                                         *)
TypeOK ==
  /\ kind \in Kinds
  /\ sent \in Seq(Blocks) /\ queue \in Seq(Blocks) /\ writes \in Seq(Blocks)
  /\ flushing \in BOOLEAN /\ draining \in BOOLEAN
  /\ failed \in BOOLEAN /\ closed \in BOOLEAN
  /\ timers \in Nat
  /\ wire \in Seq((1 .. MaxSent) \X (1 .. FrameSize))
  /\ readbuf \in Seq((1 .. MaxSent) \X (1 .. FrameSize))
  /\ got \in Seq(Seq((1 .. MaxSent) \X (1 .. FrameSize)))

(* The flag of frames_flush and flush is set as long as a write or a drain *)
(* is under way, so that a stream has at most one write of a pump, however *)
(* sends, incoming data and timers overlap.                                *)
OneWrite ==
  ~closed /\ kind # "serial" =>
    /\ Len(writes) <= 1
    /\ writes # <<>> \/ draining => flushing

(* Blocks never wait for nothing: as long as no callback got an error, a   *)
(* write, a drain or a timer is still to come that flushes again.          *)
NeverIdle ==
  ~closed /\ ~failed /\ queue # <<>> =>
    writes # <<>> \/ draining \/ timers > 0

(* The blocks arrive whole, in order and without a gap, however the stream *)
(* cuts them into 'data' events, also when writes fail: a pump whose write *)
(* failed writes nothing more (the flag stays set).                        *)
Pipe == INSTANCE PacketPipe WITH
          Packets <- Blocks,
          sent <- [e \in {1, 2} |-> IF e = 1 THEN sent ELSE <<>>],
          got <- [e \in {1, 2} |-> IF e = 2 THEN got ELSE <<>>]
InOrder == Pipe!Spec

(* A block given to the pump arrives, if the stream stays open and no      *)
(* callback gets an error.                                                 *)
Delivers ==
  \A n \in 1 .. MaxSent :
    Len(sent) >= n ~> (Len(got) >= n \/ failed \/ closed)
=============================================================================
