------------------------------ MODULE Channels ------------------------------
(***************************************************************************)
(* The channels of one link: src/src/chan.c, the channel half of           *)
(* src/src/link.c and the channel ids of module Exchange.  The link is     *)
(* ours (order 1, odd ids); the other peer, which uses even ids, and the   *)
(* network, which may lose, duplicate and reorder packets, are the         *)
(* environment.  The peer may be restarted: it then has a new ephemeral    *)
(* key and numbers its channels from the start.                            *)
(*                                                                         *)
(* link->chans is a set here: a channel is only ever put in front, by the  *)
(* call that creates it, so that the list is in the order of creation, and *)
(* nothing depends on that order.                                          *)
(*                                                                         *)
(* Which timeouts are over is a choice here; module ChanTimer models when  *)
(* chan_process fires one.                                                 *)
(*                                                                         *)
(* An operator defined just before another with the same parameters is a   *)
(* deliberately wrong variant: replacing the second by the first must make *)
(* a property fail.                                                        *)
(***************************************************************************)
EXTENDS Exchange, Sequences, FiniteSets

CONSTANTS
  MaxChans,         \* bound: channels created on the link
  MaxPackets,       \* bound: packets the peer sends
  MaxKeys,          \* bound: ephemeral keys of the peer, restarts + 1
  MaxQueue,         \* bound: packets queued in a channel
  Handlers,         \* the handlers the application installs
  OldSessions       \* may a handshake bring back a session used before?

ASSUME ChannelsAssumption ==
  /\ MaxChans \in Nat /\ MaxPackets \in Nat /\ MaxKeys \in Nat \ {0}
  /\ MaxQueue \in Nat \ {0}
  /\ Handlers \subseteq {"none", "drain", "relay"}
  /\ OldSessions \in BOOLEAN

VARIABLES
  linked,   \* is the link there?  (FALSE after link_free)
  x,        \* the link's exchange
  heap,     \* the channels ever created; a pointer is an index of heap
  chans,    \* link->chans: the pointers in the list
  peer,     \* the peer: its current key, next id and packets sent
  net,      \* channel packets sent by the peer, deliverable any time
  used,     \* history: the peer's keys the exchange was synchronized to
  opens     \* history: the opens accepted, in order

vars == <<linked, x, heap, chans, peer, net, used, opens>>

(* A packet: the session key it is encrypted with, its channel, a number   *)
(* that tells it from every other one, "type" (an open) and "end".         *)
Packet == [key : 0 .. MaxKeys, c : Nat, seq : 0 .. MaxPackets,
           open : BOOLEAN, end : BOOLEAN]

(* chan_err: a local packet with "end" and "err".                          *)
ErrPacket(c) ==
  [key |-> NoKey, c |-> c, seq |-> 0, open |-> FALSE, end |-> TRUE]

(* A handler is "none" (chan_handle was not called), "drain" (takes every  *)
(* queued packet, the loop every handler of the repository has) or "relay" *)
(* (drains, and calls link_chan to open another channel).  "since" is      *)
(* history: the session the link had when the channel was created.         *)
Chan(id, h, in) ==
  [id |-> id, handle |-> h, in |-> in, frees |-> 0, since |-> x.eid]
Chans == [id : Nat, handle : Handlers \cup {"drain"}, in : Seq(Packet),
          frees : 0 .. 2, since : 0 .. MaxKeys]

Init ==
  /\ linked = TRUE
  /\ x = [XSync(XOut(XNew(1, 1), 1), 1) EXCEPT !.in = 1]
  /\ heap = <<>>
  /\ chans = {}
  /\ peer = [key |-> 1, cid |-> 2, sent |-> 0]
  /\ net = {}
  /\ used = {1}
  /\ opens = <<>>

-----------------------------------------------------------------------------
(* The peer.                                                               *)

PeerPacket(c, open, end) ==
  [key |-> peer.key, c |-> c, seq |-> peer.sent + 1, open |-> open,
   end |-> end]

PeerOpen ==
  /\ peer.sent < MaxPackets
  /\ net' = net \cup {PeerPacket(peer.cid, TRUE, FALSE)}
  /\ peer' = [peer EXCEPT !.cid = @ + 2, !.sent = @ + 1]
  /\ UNCHANGED <<linked, x, heap, chans, used, opens>>

(* A packet on a channel the peer opened, or on one of ours.               *)
PeerSend ==
  /\ peer.sent < MaxPackets
  /\ \E c \in {i \in 1 .. peer.cid - 1 : i % 2 = 0}
                \cup {i \in 1 .. x.cid - 1 : i % 2 = 1}, end \in BOOLEAN :
       net' = net \cup {PeerPacket(c, FALSE, end)}
  /\ peer' = [peer EXCEPT !.sent = @ + 1]
  /\ UNCHANGED <<linked, x, heap, chans, used, opens>>

PeerRestart ==
  /\ peer.key < MaxKeys
  /\ peer' = [peer EXCEPT !.key = @ + 1, !.cid = 2]
  /\ UNCHANGED <<linked, x, heap, chans, net, used, opens>>

(* An acceptable handshake arrives.  In OldSessions it may have a key that *)
(* was in use before: the peer's current one after link_down, or, late     *)
(* (module Handshake lets an old one pass), one from before a restart.     *)
Handshake ==
  /\ linked
  /\ \E key \in 1 .. peer.key :
       /\ key # x.eid
       /\ OldSessions \/ \A k \in used : k < key
       /\ x' = XSync([x EXCEPT !.out = 1, !.in = 1], key)
       /\ used' = used \cup {key}
  /\ UNCHANGED <<linked, heap, chans, peer, net, opens>>

-----------------------------------------------------------------------------
(* chan_process of channel ch, whose timeout is over if "late".  A handler *)
(* that meets "end" leaves the channel ended, and it is freed.             *)
ChanErr(ch) == [ch EXCEPT !.in = Append(@, ErrPacket(ch.id))]

Handled(ch) == ch.handle # "none" /\ ch.in # <<>>
Ended(ch) == Handled(ch) /\ \E i \in DOMAIN ch.in : ch.in[i].end

ChanProcess(ch) ==
  [ch EXCEPT !.in = IF Handled(ch) THEN <<>> ELSE @,
             !.frees = IF Ended(ch) THEN @ + 1 ELSE @]

(* The channels that the "relay" handlers fired among ps open meanwhile.   *)
Relays(hp, ps) == {i \in ps : Handled(hp[i]) /\ hp[i].handle = "relay"}
NewChans(n) == [k \in 1 .. n |-> Chan(x.cid + 2 * (k - 1), "drain", <<>>)]
ProcessAll(hp, ps) ==
  [i \in DOMAIN hp |-> IF i \in ps THEN ChanProcess(hp[i]) ELSE hp[i]]

(* link->chans = link_process_chan(link->chans, now) on the heap hp: the   *)
(* list becomes the channels that were in it and were not freed, whatever  *)
(* the handlers have put in front of it meanwhile.                         *)
Unfreed(list, hp) == {i \in list : hp[i].frees = 0}

LinkProcessChan(hp) ==
  LET new == Cardinality(Relays(hp, chans))
      done == ProcessAll(hp, chans)
  IN
  /\ Len(hp) + new <= MaxChans
  /\ heap' = done \o NewChans(new)
  /\ chans' = Unfreed(chans, done)
  /\ x' = [x EXCEPT !.cid = @ + 2 * new]

(* link_down leaves the channels it frees on the list.  No more of the     *)
(* link is modelled once a pointer of its list dangles.                    *)
Sound == \A i \in chans : heap[i].frees = 0

-----------------------------------------------------------------------------
(* link_chan without an id, by the application, and chan_handle.           *)
LinkChan ==
  /\ linked
  /\ Sound
  /\ Len(heap) < MaxChans
  /\ \E h \in Handlers : heap' = Append(heap, Chan(x.cid, h, <<>>))
  /\ chans' = chans \cup {Len(heap) + 1}
  /\ x' = XNextCid(x)
  /\ UNCHANGED <<linked, peer, net, used, opens>>

(* e3x_exchange_receive: only a packet of the current session decrypts.    *)
DecryptsAny(m) == x.eid # NoKey
Decrypts(m) == x.eid # NoKey /\ m.key = x.eid

(* link_receive of a packet for a channel of the list.                     *)
LinkReceive(m) ==
  /\ linked
  /\ Sound
  /\ Decrypts(m)
  /\ \E i \in chans :
       /\ heap[i].id = m.c
       /\ Len(heap[i].in) < MaxQueue
       /\ LinkProcessChan([heap EXCEPT ![i].in = Append(@, m)])
  /\ UNCHANGED <<linked, peer, net, used, opens>>

(* link_receive of any other packet: an open with a valid id is offered to *)
(* the application, which creates the channel with that id and queues the  *)
(* open in it, or declines; the id is used up either way.                  *)
LinkReceiveOpen(m) ==
  /\ linked
  /\ Sound
  /\ Decrypts(m)
  /\ \A i \in chans : heap[i].id # m.c
  /\ m.open
  /\ ValidCid(x, m.c)
  /\ x' = XTakeCid(x, m.c)
  /\ opens' = Append(opens, m)
  /\ \/ UNCHANGED <<heap, chans>>
     \/ /\ Len(heap) < MaxChans
        /\ \E h \in Handlers : heap' = Append(heap, Chan(m.c, h, <<m>>))
        /\ chans' = chans \cup {Len(heap) + 1}
  /\ UNCHANGED <<linked, peer, net, used>>

Receive == \E m \in net : LinkReceive(m) \/ LinkReceiveOpen(m)

(* link_process(now) of a link that stays; the timeouts of "late" are over.*)
LinkProcess ==
  /\ linked
  /\ Sound
  /\ \E late \in SUBSET chans :
       LinkProcessChan([i \in DOMAIN heap |->
                          IF i \in late /\ Len(heap[i].in) < MaxQueue
                          THEN ChanErr(heap[i]) ELSE heap[i]])
  /\ UNCHANGED <<linked, peer, net, used, opens>>

(* link_down: every channel gets an error and is processed, and may be     *)
(* freed; link->chans is left as it is but for what a handler puts in      *)
(* front.                                                                  *)
Downed ==
  LET hp == [i \in DOMAIN heap |->
               IF i \in chans THEN ChanErr(heap[i]) ELSE heap[i]]
      new == Cardinality(Relays(hp, chans))
  IN  [heap |-> ProcessAll(hp, chans) \o NewChans(new),
       chans |-> chans \cup (Len(heap) + 1 .. Len(heap) + new),
       x |-> [IF XUp(x) THEN XDown(x) ELSE x EXCEPT !.cid = @ + 2 * new]]

LinkDown ==
  /\ linked
  /\ Sound
  /\ \A i \in chans : Len(heap[i].in) < MaxQueue
  /\ Len(Downed.heap) <= MaxChans
  /\ heap' = Downed.heap /\ chans' = Downed.chans /\ x' = Downed.x
  /\ UNCHANGED <<linked, peer, net, used, opens>>

(* link_process of a link that mesh_unlink marked: link_down, then         *)
(* link_free, which frees every channel of the list.                       *)
LinkRemove ==
  /\ linked
  /\ Sound
  /\ Len(Downed.heap) <= MaxChans
  /\ linked' = FALSE
  /\ heap' = [i \in DOMAIN Downed.heap |->
                IF i \in Downed.chans
                THEN [Downed.heap[i] EXCEPT !.frees = @ + 1]
                ELSE Downed.heap[i]]
  /\ chans' = {}
  /\ x' = XNew(1, NoKey)
  /\ UNCHANGED <<peer, net, used, opens>>

Next ==
  \/ PeerOpen \/ PeerSend \/ PeerRestart \/ Handshake
  \/ LinkChan \/ Receive \/ LinkProcess \/ LinkDown \/ LinkRemove

Spec == Init /\ [][Next]_vars

-----------------------------------------------------------------------------
(* Properties.                                                             *)

(* The values each variable takes.                                         *)
TypeOK ==
  /\ linked \in BOOLEAN
  /\ x \in Exchanges
  /\ heap \in Seq(Chans)
  /\ chans \subseteq DOMAIN heap
  /\ peer \in [key : 1 .. MaxKeys, cid : Nat, sent : 0 .. MaxPackets]
  /\ net \subseteq Packet
  /\ opens \in Seq(Packet)

(* link_chan_get is unambiguous and never too young: two channels of the   *)
(* list never have the same id, although the peer restarts its numbering   *)
(* and e3x_exchange_sync resets what ids it may use; and a packet of an    *)
(* earlier session, delivered late or twice, never waits in a channel that *)
(* was created in a later one, although the two use the same ids.  The     *)
(* other way round the code mixes them: an open of a renewed session goes  *)
(* into a channel of the old session that is still on the list under its   *)
(* id (link.c:285), and mesh_open never hears of it.                       *)
FindsChannel ==
  /\ \A i, j \in chans : heap[i].id = heap[j].id => i = j
  /\ \A i \in chans : \A k \in DOMAIN heap[i].in :
       LET m == heap[i].in[k] IN m.key # NoKey => m.key >= heap[i].since

(* "create/track a new channel for this open" (link_chan): a channel that  *)
(* was created and not freed is in link->chans, where packets and timeouts *)
(* find it.                                                                *)
Tracked == \A i \in DOMAIN heap : heap[i].frees = 0 => i \in chans

(* "can't re-use old ones" (e3x_exchange_cid): an open is accepted at most *)
(* once, however often the network delivers it, before and after its       *)
(* channel has ended.                                                      *)
OpenOnce == \A i, j \in DOMAIN opens : opens[i] = opens[j] => i = j
=============================================================================
