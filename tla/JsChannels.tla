----------------------------- MODULE JsChannels -----------------------------
(***************************************************************************)
(* The channels of one link of the JavaScript bindings: the class Channel  *)
(* of src/js/core.js, a Duplex stream over a C channel, with the calls     *)
(* Link.channel, Link.init and Link.console, the 'open' event, and the end *)
(* of a channel by its peer or with the link.                              *)
(*                                                                         *)
(* Three layers have to agree: the C channel (freed by the library as soon *)
(* as its handler has taken an end packet), the Duplex (flowing from the   *)
(* constructor on, or paused and buffering), and the application, which    *)
(* hears 'data' and sends, from its listener or at any other time.         *)
(*                                                                         *)
(* Node runs one callback at a time and all of nextTick before the next    *)
(* one; a 'data' callback of the transport may hold several packets.       *)
(*                                                                         *)
(* An operator defined just before another with the same parameters is a   *)
(* deliberately wrong variant: replacing the second by the first must make *)
(* a property fail.                                                        *)
(***************************************************************************)
EXTENDS Naturals, Sequences

CONSTANTS
  Out, In,      \* the channels this side opens, and those the peer opens
  Slots,        \* the function pointers left: a set of numbers to start with
  MaxSent,      \* bound: packets sent on a channel after its open, each way
  Eager         \* does the peer send on before its open is answered?

ASSUME JsChannelsAssumption ==
  /\ Out \cap In = {} /\ Slots \subseteq Nat /\ MaxSent \in Nat
  /\ Eager \in BOOLEAN

Chan == Out \cup In

VARIABLES
  up,       \* the link is there
  slots,    \* what is left of RESERVED_FUNCTION_POINTERS
  chan,     \* the C channel, its Channel object, what the application knows
  toJs, toPeer,   \* the transport
  ticks,    \* callbacks of nextTick
  busy,     \* a 'data' callback of the transport is running
  calling,  \* the channels whose 'data' listener is running
  sent, got       \* sent[i][1], got[i][1]: here; sent[i][2], got[i][2]: peer

vars == <<up, slots, chan, toJs, toPeer, ticks, busy, calling, sent, got>>

(* A packet of a channel, numbered from its open; ErrPacket is the one     *)
(* that link_down makes up for each channel.                               *)
Packet(n, end) == [n |-> n, end |-> end]
ErrPacket == Packet(MaxSent + 1, TRUE)
Packets == [n : 0 .. MaxSent + 1, end : BOOLEAN]

(* c: the C channel.  obj: there is a Channel object.  flow, buf: the      *)
(* state of its Readable.  ended: its listener has had an end packet.      *)
(* lag: the application has paused it.  bad: it has sent on memory that    *)
(* the library has freed.                                                  *)
NoChan == [c |-> "none", obj |-> FALSE, flow |-> "off", buf |-> <<>>,
           ended |-> FALSE, lag |-> FALSE, bad |-> FALSE]

Init ==
  /\ up = TRUE /\ slots \in Slots
  /\ chan = [i \in Chan |-> NoChan]
  /\ toJs = <<>> /\ toPeer = <<>>
  /\ ticks = <<>> /\ busy = FALSE /\ calling = {}
  /\ sent = [i \in Chan |-> [e \in {1, 2} |-> <<>>]]
  /\ got = [i \in Chan |-> [e \in {1, 2} |-> <<>>]]

Draining(i) == chan[i].flow = "yes" /\ chan[i].buf # <<>>
Turn == ~busy /\ calling = {}
Quiet == Turn /\ ticks = <<>> /\ \A i \in Chan : ~Draining(i)

-----------------------------------------------------------------------------
(* The wrapper of a C function turns a function among the arguments into a *)
(* pointer; they are never given back, and addFunction throws when none is *)
(* left.                                                                   *)
CanWrap == slots > 0

(* new Channel: link_chan makes the C channel, chan_handle needs a         *)
(* function pointer (when there are none left the constructor throws, and  *)
(* the C channel stays behind without handler), and the constructor's own  *)
(* 'data' listener makes the stream flow from the next tick on.            *)
Construct(i) ==
  IF CanWrap
  THEN /\ slots' = slots - 1
       /\ chan' = [chan EXCEPT ![i].c = "live", ![i].obj = TRUE,
                               ![i].flow = "start"]
  ELSE /\ slots' = slots
       /\ chan' = [chan EXCEPT ![i].c = "live"]

(* init and console: a channel, the listener, and the open packet sent.    *)
Open(i) ==
  LET p == Packet(0, FALSE) IN
  /\ Quiet /\ up
  /\ chan[i].c = "none"
  /\ Construct(i)
  /\ IF CanWrap
     THEN /\ ticks' = Append(ticks, [kind |-> "resume", ch |-> i])
          /\ sent' = [sent EXCEPT ![i][1] = Append(@, p)]
          /\ toPeer' = Append(toPeer, [ch |-> i, p |-> p])
     ELSE UNCHANGED <<ticks, sent, toPeer>>
  /\ UNCHANGED <<up, toJs, busy, calling, got>>

(* send: _write hands the packet to chan_send at once, whatever has become *)
(* of the C channel.  The application sends from the listener that runs,   *)
(* or as long as it has not heard the end.                                 *)
Send(i) ==
  LET p == Packet(Len(sent[i][1]), FALSE) IN
  /\ i \in calling \/ (Quiet /\ ~chan[i].ended)
  /\ chan[i].obj /\ Len(sent[i][1]) <= MaxSent
  /\ IF chan[i].c = "freed"
     THEN chan' = [chan EXCEPT ![i].bad = TRUE] /\ UNCHANGED <<sent, toPeer>>
     ELSE /\ sent' = [sent EXCEPT ![i][1] = Append(@, p)]
          /\ toPeer' = Append(toPeer, [ch |-> i, p |-> p])
          /\ UNCHANGED chan
  /\ UNCHANGED <<up, slots, toJs, ticks, busy, calling, got>>

(* pause and resume of the Duplex.                                         *)
Pause(i) ==
  /\ i \in calling \/ Quiet
  /\ chan[i].flow \in {"start", "yes"}
  /\ chan' = [chan EXCEPT ![i].flow = "paused", ![i].lag = TRUE]
  /\ UNCHANGED <<up, slots, toJs, toPeer, ticks, busy, calling, sent, got>>

Resume(i) ==
  /\ Quiet
  /\ chan[i].flow = "paused"
  /\ chan' = [chan EXCEPT ![i].flow = "start"]
  /\ ticks' = Append(ticks, [kind |-> "resume", ch |-> i])
  /\ UNCHANGED <<up, slots, toJs, toPeer, busy, calling, sent, got>>

-----------------------------------------------------------------------------
(* The peer.                                                               *)
PeerSends(i, p) ==
  /\ sent' = [sent EXCEPT ![i][2] = Append(@, p)]
  /\ toJs' = Append(toJs, [ch |-> i, p |-> p])
  /\ UNCHANGED <<up, slots, chan, toPeer, ticks, busy, calling, got>>

PeerOpen(i) ==
  /\ up /\ sent[i][2] = <<>>
  /\ PeerSends(i, Packet(0, FALSE))

PeerSend(i, end) ==
  LET s == sent[i][2] IN
  /\ up
  /\ got[i][2] # <<>> \/ (Eager /\ s # <<>>)
  /\ Len(s) <= MaxSent /\ (s # <<>> => ~s[Len(s)].end)
  /\ PeerSends(i, Packet(Len(s), end))

PeerTake ==
  /\ toPeer # <<>>
  /\ LET m == Head(toPeer) IN
       got' = [got EXCEPT ![m.ch][2] = Append(@, m.p)]
  /\ toPeer' = Tail(toPeer)
  /\ UNCHANGED <<up, slots, chan, toJs, ticks, busy, calling, sent>>

-----------------------------------------------------------------------------
(* The handler of chan_handle takes packet p from C channel k and pushes   *)
(* it.  A flowing stream with nothing buffered emits it at once, any other *)
(* one buffers it.                                                         *)
Emits(k) == k.flow = "yes" /\ k.buf = <<>>
PushedFront(k, p) ==
  IF Emits(k) THEN [k EXCEPT !.ended = @ \/ p.end]
  ELSE [k EXCEPT !.buf = <<p>> \o @]
Pushed(k, p) ==
  IF Emits(k) THEN [k EXCEPT !.ended = @ \/ p.end]
  ELSE [k EXCEPT !.buf = Append(@, p)]

(* chan_receiving takes note of the end; chan_process frees the C channel  *)
(* when the handler has returned: at once if no listener is called.        *)
TakenEarly(k, p) == IF p.end THEN [k EXCEPT !.c = "freed"] ELSE k
Taken(k, p) ==
  IF p.end THEN [k EXCEPT !.c = IF Emits(k) THEN "ended" ELSE "freed"] ELSE k

(* The next packet of a 'data' callback of the transport: link_receive.    *)
Receive ==
  /\ up /\ calling = {} /\ toJs # <<>> /\ (busy \/ Quiet)
  /\ busy' = TRUE
  /\ toJs' = Tail(toJs)
  /\ LET i == Head(toJs).ch
         p == Head(toJs).p
         k == chan[i]
     IN  \/ /\ k.c = "live" /\ k.obj
            /\ chan' = [chan EXCEPT ![i] = Pushed(Taken(k, p), p)]
            /\ IF Emits(k)
               THEN calling' = {i} /\ got' = [got EXCEPT ![i][1] = Append(@, p)]
               ELSE UNCHANGED <<calling, got>>
            /\ UNCHANGED ticks
         \/ /\ k.c = "none" /\ p.n = 0
            /\ ticks' = Append(ticks, [kind |-> "open", ch |-> i])
            /\ UNCHANGED <<chan, calling, got>>
         \/ /\ ~(k.c = "live" /\ k.obj) /\ ~(k.c = "none" /\ p.n = 0)
            /\ UNCHANGED <<chan, calling, got, ticks>>
  /\ UNCHANGED <<up, slots, toPeer, sent>>

(* The listener, and with it the handler, returns.                         *)
Return ==
  /\ calling # {}
  /\ calling' = {}
  /\ chan' = [i \in Chan |-> IF i \in calling /\ chan[i].c = "ended"
                             THEN [chan[i] EXCEPT !.c = "freed"] ELSE chan[i]]
  /\ UNCHANGED <<up, slots, toJs, toPeer, ticks, busy, sent, got>>

EndData ==
  /\ busy /\ calling = {}
  /\ busy' = FALSE
  /\ UNCHANGED <<up, slots, chan, toJs, toPeer, ticks, calling, sent, got>>

(* resume_ of the Duplex: what was buffered is emitted, one by one (Flow). *)
TickResume ==
  /\ Turn /\ ticks # <<>> /\ Head(ticks).kind = "resume"
  /\ \A i \in Chan : ~Draining(i)
  /\ LET i == Head(ticks).ch IN
       chan' = [chan EXCEPT ![i].flow = IF @ = "start" THEN "yes" ELSE @]
  /\ ticks' = Tail(ticks)
  /\ UNCHANGED <<up, slots, toJs, toPeer, busy, calling, sent, got>>

(* The callback of mesh_on_open: 'open' with the Link object and the open  *)
(* packet, for which the application makes a channel.  When the link has   *)
(* gone there is no Link object.                                           *)
TickOpenUnlinked ==
  /\ Turn /\ ticks # <<>> /\ Head(ticks).kind = "open"
  /\ \A i \in Chan : ~Draining(i)
  /\ ticks' = Tail(ticks)
  /\ UNCHANGED <<up, slots, chan, toJs, toPeer, busy, calling, sent, got>>
TickOpen ==
  /\ Turn /\ ticks # <<>> /\ Head(ticks).kind = "open"
  /\ \A i \in Chan : ~Draining(i)
  /\ LET i == Head(ticks).ch IN
       IF up
       THEN /\ Construct(i)
            /\ got' = [got EXCEPT ![i][1] = Append(@, Packet(0, FALSE))]
            /\ ticks' = IF CanWrap
                        THEN Append(Tail(ticks), [kind |-> "resume", ch |-> i])
                        ELSE Tail(ticks)
       ELSE ticks' = Tail(ticks) /\ UNCHANGED <<slots, chan, got>>
  /\ UNCHANGED <<up, toJs, toPeer, busy, calling, sent>>

Flow(i) ==
  LET p == Head(chan[i].buf) IN
  /\ Turn /\ Draining(i)
  /\ chan' = [chan EXCEPT ![i].buf = Tail(@), ![i].ended = @ \/ p.end]
  /\ got' = IF p = ErrPacket THEN got ELSE [got EXCEPT ![i][1] = Append(@, p)]
  /\ calling' = {i}
  /\ UNCHANGED <<up, slots, toJs, toPeer, ticks, busy, sent>>

(* 'down' of the Link: link_down gives every channel an error packet with  *)
(* end and processes it, which frees the channel; then link_free.  (What a *)
(* listener sends meanwhile goes nowhere: link_down took the session away, *)
(* and e3x_exchange_send needs it.)                                        *)
Downed(k) ==
  CASE k.c = "live" /\ k.obj -> [Pushed(k, ErrPacket) EXCEPT !.c = "freed"]
    [] k.c = "live" /\ ~k.obj -> [k EXCEPT !.c = "freed"]
    [] OTHER -> k

LinkDown ==
  /\ Quiet /\ up
  /\ up' = FALSE
  /\ chan' = [i \in Chan |-> Downed(chan[i])]
  /\ toJs' = <<>> /\ toPeer' = <<>>
  /\ UNCHANGED <<slots, ticks, busy, calling, sent, got>>

Next ==
  \/ \E i \in Out : Open(i)
  \/ \E i \in Chan : Send(i) \/ Pause(i) \/ Resume(i) \/ Flow(i)
  \/ \E i \in In : PeerOpen(i)
  \/ \E i \in Chan, end \in BOOLEAN : PeerSend(i, end)
  \/ PeerTake \/ Receive \/ Return \/ EndData \/ TickResume \/ TickOpen
  \/ LinkDown

Spec == Init /\ [][Next]_vars

(* Node ends callbacks, runs ticks, and in every round of its event loop   *)
(* hands on what the transport has.                                        *)
FairSpec ==
  /\ Spec
  /\ SF_vars(Receive) /\ WF_vars(Return) /\ WF_vars(EndData)
  /\ WF_vars(TickResume) /\ WF_vars(TickOpen) /\ WF_vars(\E i \in Chan : Flow(i))
-----------------------------------------------------------------------------
(* Properties.                                                             *)

(* The values each variable takes.                                         *)
TypeOK ==
  /\ up \in BOOLEAN /\ busy \in BOOLEAN /\ slots \in Nat
  /\ chan \in [Chan -> [c : {"none", "live", "ended", "freed"},
                        obj : BOOLEAN, flow : {"off", "start", "yes", "paused"},
                        buf : Seq(Packets), ended : BOOLEAN, lag : BOOLEAN,
                        bad : BOOLEAN]]
  /\ toJs \in Seq([ch : Chan, p : Packets])
  /\ toPeer \in Seq([ch : Chan, p : Packets])
  /\ ticks \in Seq([kind : {"resume", "open"}, ch : Chan])
  /\ calling \subseteq Chan

(* An application that sends from its listener, the answer to an end       *)
(* packet included, or before it has heard of the end, never sends on a C  *)
(* channel that is freed, unless it has paused the stream.                 *)
SafeSend == \A i \in Chan : chan[i].bad => chan[i].lag

(* On every channel both ends get what the other has sent, in order and    *)
(* without a gap, whatever is paused and resumed in between.               *)
Pipe(i) == INSTANCE PacketPipe WITH
             Packets <- Packets, sent <- sent[i], got <- got[i]
InOrder ==
  /\ \A i \in Chan : Pipe(i)!Init
  /\ [][\A i \in Chan : [Pipe(i)!Next]_<<sent[i], got[i]>>]_<<sent, got>>

(* A packet of the peer reaches the application, if the link stays, the    *)
(* stream is not paused and there was a function pointer for its handler.  *)
Delivers ==
  \A i \in Chan : \A n \in 1 .. MaxSent + 1 :
    Len(sent[i][2]) >= n ~>
      \/ Len(got[i][1]) >= n \/ ~up
      \/ chan[i].flow = "paused" \/ (chan[i].c = "live" /\ ~chan[i].obj)
=============================================================================
