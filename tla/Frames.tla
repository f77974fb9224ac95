------------------------------- MODULE Frames -------------------------------
(***************************************************************************)
(* util_frames of src/src/util/frames.c: packets sent as a header frame    *)
(* (magic and length) and a packet frame, from one endpoint to another.    *)
(*                                                                         *)
(* Two contexts share a util_frames_struct: the application, which calls   *)
(* util_frames_send and util_frames_receive, and the transport, which      *)
(* calls util_frames_outbox, _sent and _inbox and may interrupt the        *)
(* application anywhere ("internal queues for ISR safety").  So a step of  *)
(* the transport is atomic and a call of the application takes two or more.*)
(*                                                                         *)
(* A queue is a list of nodes whose packet may have been taken (Taken).    *)
(* The k-th node ever made has address k; the first outgone (ingone) of    *)
(* them have been freed.  inbox_err is left out: only util_frames_ok reads *)
(* it.                                                                     *)
(*                                                                         *)
(* An operator defined just before another with the same parameters is a   *)
(* deliberately wrong variant: replacing the second by the first must make *)
(* a property fail.                                                        *)
(***************************************************************************)
EXTENDS Naturals, SequencesExt, FiniteSetsExt

CONSTANTS
  HeaderLen,    \* length of a header frame, 8 in the code
  MaxLen,       \* frames->max of the receiver
  Lens,         \* the lengths a packet may have
  MaxPackets,   \* bound: packets sent
  MaxBytes,     \* bound: bytes of packets sent over a stream
  MaxWire,      \* frames a wire holds
  MaxLosses,    \* bound: frames lost, and calls of util_frames_clear
  Modes,        \* the transports: "stream" (bytes, cut anywhere, none
                \* lost), "datagram" (whole frames, may be lost)
  CutHeaders    \* may a read from a stream end inside a header?

(* util_frames_send refuses packets shorter than a header (frames.c:104).  *)
(* It takes one of exactly that length, but util_frames_sent then takes    *)
(* its packet frame for a header (and frees it), again and again.          *)
ASSUME FramesAssumption ==
  /\ HeaderLen \in Nat \ {0} /\ MaxLen \in Nat
  /\ Lens \subseteq HeaderLen .. MaxLen
  /\ MaxPackets \in Nat /\ MaxBytes \in Nat
  /\ MaxWire \in Nat \ {0} /\ MaxLosses \in Nat
  /\ Modes \subseteq {"stream", "datagram"} /\ CutHeaders \in BOOLEAN

VARIABLES
  mode,       \* the transport
  outbox,     \* the sender's queue: packets, or Taken
  outgone,    \* nodes freed from outbox
  out,        \* the frame being sent; <<>> is outlen = 0
  tx,         \* has the transport taken out, and not yet called _sent?
  sending,    \* util_frames_send under way: the packet and the head it read
  wire,       \* frames on their way
  in,         \* the receiver's inlen and the bytes it has of them
  inbox,      \* the receiver's queue: packets, or Taken
  ingone,     \* nodes freed from inbox
  reading,    \* util_frames_receive under way: the node it looks at, or 0
  sent, got,  \* history: the packets sent, and received
  lost        \* frames lost so far

frameVars == <<mode, outbox, outgone, out, tx, sending, wire, in, inbox,
               ingone, reading, sent, got, lost>>
sender == <<outbox, outgone, out, tx, sending, sent>>
receiver == <<in, inbox, ingone, reading, got>>

Taken == <<>>
Packet(id, len) == [i \in 1 .. len |-> [kind |-> "data", n |-> id, at |-> i]]
Header(len) ==
  [i \in 1 .. HeaderLen |-> [kind |-> "head", n |-> len, at |-> i]]

NotSending == [busy |-> FALSE, head |-> 0, pkt |-> Taken]
AwaitHeader == [len |-> HeaderLen, buf |-> <<>>]

FrameInit ==
  /\ mode \in Modes
  /\ outbox = <<>> /\ outgone = 0 /\ out = <<>> /\ tx = FALSE
  /\ sending = NotSending
  /\ wire = <<>>
  /\ in = AwaitHeader /\ inbox = <<>> /\ ingone = 0 /\ reading = 0
  /\ sent = <<>> /\ got = <<>>
  /\ lost = 0

(* outbox() and inbox() free the n leading empty nodes, unless the         *)
(* application holds the queue.                                            *)
Leading(q, n) ==
  /\ n <= Len(q)
  /\ \A i \in 1 .. n : q[i] = Taken
  /\ n < Len(q) => q[n + 1] # Taken
FreedAlways(q, held, n) == Leading(q, n)
Freed(q, held, n) == IF held THEN n = 0 ELSE Leading(q, n)

-----------------------------------------------------------------------------
(* The sender.                                                             *)

(* util_frames_send: is_sending is set and the head of the queue read ...  *)
Send ==
  /\ ~sending.busy
  /\ Len(sent) < MaxPackets
  /\ \E len \in Lens :
       /\ mode = "stream" => Len(FlattenSeq(sent)) + len <= MaxBytes
       /\ sending' = [busy |-> TRUE,
                      head |-> IF outbox = <<>> THEN 0 ELSE outgone + 1,
                      pkt |-> Packet(Len(sent) + 1, len)]
  /\ UNCHANGED <<mode, outbox, outgone, out, tx, wire, sent, lost, receiver>>

(* ... the packet linked behind the last node, and is_sending reset.       *)
SendLink ==
  /\ sending.busy
  /\ outbox' = IF sending.head = 0 THEN <<sending.pkt>>
               ELSE Append(outbox, sending.pkt)
  /\ sent' = Append(sent, sending.pkt)
  /\ sending' = NotSending
  /\ UNCHANGED <<mode, outgone, out, tx, wire, lost, receiver>>

(* util_frames_outbox, and the transport takes the frame: the rest of a    *)
(* packet begun, or the header of the next.  While is_sending is set an    *)
(* empty node may be in front, whose header has length 0.                  *)
Outbox ==
  /\ ~tx
  /\ Len(wire) < MaxWire
  /\ \/ /\ out # <<>>
        /\ wire' = Append(wire, out)
        /\ tx' = TRUE
        /\ UNCHANGED <<outbox, outgone, out>>
     \/ /\ out = <<>>
        /\ \E n \in 0 .. Len(outbox) :
             /\ Freed(outbox, sending.busy, n)
             /\ outbox' = SubSeq(outbox, n + 1, Len(outbox))
             /\ outgone' = outgone + n
        /\ IF outbox' = <<>> THEN UNCHANGED <<out, tx, wire>>
           ELSE /\ out' = Header(Len(Head(outbox')))
                /\ tx' = TRUE
                /\ wire' = Append(wire, out')
  /\ UNCHANGED <<mode, sending, sent, lost, receiver>>

(* util_frames_sent, once the frame is out: a frame as long as a header is *)
(* a header and is followed by its packet.                                 *)
SentTwice ==
  /\ tx
  /\ tx' = FALSE
  /\ out' = IF Len(out) = HeaderLen THEN Head(outbox) ELSE <<>>
  /\ UNCHANGED <<mode, outbox, outgone, sending, wire, sent, lost, receiver>>
Sent ==
  /\ tx
  /\ tx' = FALSE
  /\ \/ /\ Len(out) = HeaderLen
        /\ out' = Head(outbox)
        /\ UNCHANGED outbox
     \/ /\ Len(out) # HeaderLen
        /\ out' = <<>>
        /\ outbox' = [outbox EXCEPT ![1] = Taken]
  /\ UNCHANGED <<mode, outgone, sending, wire, sent, lost, receiver>>

-----------------------------------------------------------------------------
(* The receiver.                                                           *)

(* The header is read from the data of the call, and not from the buffer   *)
(* "in".  If the header began in an earlier call that is another place:    *)
(* the bytes behind it if the data is long enough, else its rest and what  *)
(* follows in memory, which is not taken to look like the magic.           *)
Refused == MaxLen + 1
ReadHeader(data, from) ==
  LET seen == SubSeq(data, from, from + HeaderLen - 1) IN
  IF from + HeaderLen - 1 <= Len(data)
     /\ seen = Header(seen[1].n) /\ seen[1].n <= MaxLen
  THEN seen[1].n ELSE Refused

(* lob_direct(frames->in): bytes that are no packet may look like one.     *)
Parsed(bytes) ==
  IF bytes = Packet(bytes[1].n, Len(bytes)) THEN {bytes} ELSE {bytes, Taken}

(* A complete header of length n leads to its packet, or (0) to the next   *)
(* header, or ends the call if it is refused; a packet p is appended to    *)
(* the queue.                                                              *)
HeaderDone(s, i, n) ==
  [s EXCEPT !.from = i + 1, !.buf = <<>>,
            !.len = IF n \in {0, Refused} THEN HeaderLen ELSE n,
            !.dead = n = Refused]

PacketDoneKeepLen(s, i, p) ==
  [s EXCEPT !.from = i + 1, !.buf = <<>>, !.q = Append(@, p)]
PacketDone(s, i, p) ==
  [s EXCEPT !.from = i + 1, !.buf = <<>>, !.q = Append(@, p),
            !.len = HeaderLen]

(* util_frames_inbox(data), byte i: s is the state of "in" (len and buf),  *)
(* the packets completed (q), where the data of the current call begins (a *)
(* new one handles what is left behind a complete frame), and whether it   *)
(* returned.                                                               *)
After(s, data, i) ==
  LET bytes == Append(s.buf, data[i]) IN
  IF s.dead THEN {s}
  ELSE IF Len(bytes) < s.len THEN {[s EXCEPT !.buf = bytes]}
  ELSE IF s.len = HeaderLen
  THEN {HeaderDone(s, i, ReadHeader(data, s.from))}
  ELSE {PacketDone(s, i, p) : p \in Parsed(bytes)}

Outcomes(data) ==
  LET upto[i \in 0 .. Len(data)] ==
        IF i = 0 THEN {[len |-> in.len, buf |-> in.buf, q |-> <<>>,
                        from |-> 1, dead |-> FALSE]}
        ELSE UNION {After(s, data, i) : s \in upto[i - 1]}
  IN  upto[Len(data)]

(* The empties are freed when a packet is appended.                        *)
Inbox(data) ==
  \E s \in Outcomes(data) : \E q \in {inbox \o s.q} : \E n \in 0 .. Len(q) :
    /\ IF s.q = <<>> THEN n = 0 ELSE Freed(Front(q), reading # 0, n)
    /\ in' = [len |-> s.len, buf |-> s.buf]
    /\ inbox' = SubSeq(q, n + 1, Len(q))
    /\ ingone' = ingone + n
    /\ UNCHANGED <<reading, got>>

(* A read of n bytes from a stream.                                        *)
InboxStream ==
  /\ mode = "stream"
  /\ LET bytes == FlattenSeq(wire) IN
     \E n \in 1 .. Len(bytes) :
       /\ Inbox(SubSeq(bytes, 1, n))
       /\ wire' = IF n = Len(bytes) THEN <<>>
                  ELSE <<SubSeq(bytes, n + 1, Len(bytes))>>
  /\ CutHeaders \/ in'.len # HeaderLen \/ in'.buf = <<>>
  /\ UNCHANGED <<mode, sender, lost>>

InboxDatagram ==
  /\ mode = "datagram"
  /\ wire # <<>>
  /\ Inbox(Head(wire))
  /\ wire' = Tail(wire)
  /\ UNCHANGED <<mode, sender, lost>>

Lose ==
  /\ mode = "datagram"
  /\ wire # <<>>
  /\ lost < MaxLosses
  /\ wire' = Tail(wire)
  /\ lost' = lost + 1
  /\ UNCHANGED <<mode, sender, receiver>>

(* util_frames_clear.                                                      *)
Clear ==
  /\ mode = "datagram"
  /\ lost < MaxLosses
  /\ in' = AwaitHeader
  /\ lost' = lost + 1
  /\ UNCHANGED <<mode, sender, wire, inbox, ingone, reading, got>>

(* util_frames_receive: is_receiving is set and the walk begins ...        *)
Receive ==
  /\ reading = 0
  /\ inbox # <<>>
  /\ reading' = ingone + 1
  /\ UNCHANGED <<mode, sender, wire, in, inbox, ingone, got, lost>>

(* ... to the first node with a packet, which is taken.                    *)
ReceiveHeadOnly ==
  /\ reading > ingone
  /\ reading' = 0
  /\ LET i == reading - ingone IN
     /\ got' = IF inbox[i] = Taken THEN got ELSE Append(got, inbox[i])
     /\ inbox' = [inbox EXCEPT ![i] = Taken]
  /\ UNCHANGED <<mode, sender, wire, in, ingone, lost>>
ReceiveWalk ==
  /\ reading > ingone
  /\ LET i == reading - ingone IN
     \/ /\ inbox[i] # Taken
        /\ got' = Append(got, inbox[i])
        /\ inbox' = [inbox EXCEPT ![i] = Taken]
        /\ reading' = 0
     \/ /\ inbox[i] = Taken
        /\ reading' = IF i = Len(inbox) THEN 0 ELSE reading + 1
        /\ UNCHANGED <<inbox, got>>
  /\ UNCHANGED <<mode, sender, wire, in, ingone, lost>>

FrameNext ==
  \/ Send \/ SendLink \/ Outbox \/ Sent
  \/ InboxStream \/ InboxDatagram \/ Lose \/ Clear
  \/ Receive \/ ReceiveWalk

FrameSpec == FrameInit /\ [][FrameNext]_frameVars

(* A call of the application ends, the transport's loop reads and writes,  *)
(* and the application takes what there is.                                *)
FairFrameSpec ==
  /\ FrameSpec
  /\ WF_frameVars(SendLink) /\ WF_frameVars(Outbox) /\ WF_frameVars(Sent)
  /\ WF_frameVars(InboxStream) /\ WF_frameVars(InboxDatagram)
  /\ WF_frameVars(Receive) /\ WF_frameVars(ReceiveWalk)
-----------------------------------------------------------------------------
(* Properties.                                                             *)

Byte == [kind : {"head", "data"}, n : Nat, at : Nat]
(* The values each variable takes.                                         *)
FrameTypeOK ==
  /\ mode \in Modes
  /\ outbox \in Seq(Seq(Byte)) /\ outgone \in Nat
  /\ out \in Seq(Byte) /\ tx \in BOOLEAN
  /\ sending \in [busy : BOOLEAN, head : Nat, pkt : Seq(Byte)]
  /\ wire \in Seq(Seq(Byte))
  /\ in \in [len : 1 .. MaxLen, buf : Seq(Byte)] /\ Len(in.buf) < in.len
  /\ inbox \in Seq(Seq(Byte)) /\ ingone \in Nat /\ reading \in Nat
  /\ sent \in Seq(Seq(Byte)) /\ got \in Seq(Seq(Byte))
  /\ lost \in 0 .. MaxLosses

(* "internal queues for ISR safety": the node a call of the application    *)
(* holds a pointer to is not freed by the transport that interrupts it.    *)
NoDangling ==
  /\ sending.head # 0 => sending.head > outgone
  /\ reading # 0 => reading > ingone

(* "receive partial/stream" (util_frames_inbox): from a stream that loses  *)
(* nothing, the receiver gets the packets sent, whole and in order,        *)
(* however the reads cut it into pieces.                                   *)
InOrder == mode = "stream" => IsPrefix(got, sent)

(* And it gets all of them in the end (MaxPackets ends the sending).       *)
Delivers == <>[](mode = "stream" => Len(got) = Len(sent))

(* A frame lost (or a util_frames_clear in the middle) costs the packet it *)
(* belongs to and those that a packet frame of the greatest length reaches *)
(* over: the receiver still waits for that many bytes and takes them from  *)
(* the frames behind (frames.c:233).  With what is left of the last of     *)
(* them util_frames_inbox is in step again, and stays so.  True where      *)
(* every length is a multiple of HeaderLen; with others a header may begin *)
(* in what is left of a frame, and the stray read of ReadHeader then       *)
(* accepts a wrong one for ever.                                           *)
AtRest ==
  /\ ~sending.busy /\ ~tx /\ out = <<>> /\ wire = <<>> /\ reading = 0
  /\ \A i \in DOMAIN outbox : outbox[i] = Taken
  /\ \A i \in DOMAIN inbox : inbox[i] = Taken
(* The packets, each behind its header, that n bytes begin to cover.       *)
Reached(n) == (n + HeaderLen + Min(Lens) - 1) \div (HeaderLen + Min(Lens))
LossIsBounded ==
  AtRest =>
    Cardinality({k \in DOMAIN sent : \E i \in DOMAIN got : got[i] = sent[k]})
      + lost * (1 + Reached(Max(Lens))) >= Len(sent)
=============================================================================
