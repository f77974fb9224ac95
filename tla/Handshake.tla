------------------------------ MODULE Handshake -----------------------------
(***************************************************************************)
(* Two peers bring a link up: link_load, link_pipe, link_sync, link_resync,*)
(* link_receive_handshake, link_down and link_free of src/src/link.c on    *)
(* top of the exchange of module Exchange, over a network that may lose,   *)
(* duplicate and (Reordering) reorder handshakes, with peers that may be   *)
(* restarted between any two steps.                                        *)
(*                                                                         *)
(* Peer 2 is the one whose key sorts first (order 2, even "at" values),    *)
(* peer 1 the other (order 1, odd).                                        *)
(***************************************************************************)
EXTENDS Exchange, Sequences, FiniteSets

CONSTANTS
  MaxClock,     \* bound: the latest time the clock of a first start shows
  MaxInbox,     \* bound: handshakes on their way to one peer
  MaxResyncs,   \* bound: calls of link_resync
  MaxDowns,     \* bound: calls of link_down
  MaxForgets,   \* bound: restarts and removals of a link
  Reordering,   \* may the network deliver handshakes out of order?
  ClockBehind,  \* may a restarted peer read a clock that is not past
                \* every time used before (no battery-backed clock, or a
                \* restart within the same second)?
  DownResync    \* may the application call link_resync on a link it has
                \* taken down?

ASSUME HandshakeAssumption ==
  /\ MaxClock \in Nat \ {0} /\ MaxInbox \in Nat \ {0}
  /\ MaxResyncs \in Nat /\ MaxDowns \in Nat /\ MaxForgets \in Nat
  /\ Reordering \in BOOLEAN /\ ClockBehind \in BOOLEAN
  /\ DownResync \in BOOLEAN

VARIABLES
  linked,   \* does the peer's mesh hold a link to the other peer?
  x,        \* the link's exchange; key = NoKey while link->x is NULL
  pipe,     \* is link->send_cb set?
  inbox,    \* handshakes on their way to the peer, oldest first
  told,     \* what the last on_link event said: was the link up?
  keys,     \* exchanges created so far, the source of fresh keys
  calls,    \* calls of link_resync, link_down and Forget so far
  chosen    \* history: the times each peer chose for itself (not adopted)

vars == <<linked, x, pipe, inbox, told, keys, calls, chosen>>

Peer == {1, 2}
Other(p) == 3 - p
Handshakes == [at : Nat, key : Nat]

(* The values each variable takes.                                         *)
TypeOK ==
  /\ linked \in [Peer -> BOOLEAN]
  /\ x \in [Peer -> Exchanges]
  /\ \A p \in Peer : x[p].order = p
  /\ pipe \in [Peer -> BOOLEAN]
  /\ inbox \in [Peer -> Seq(Handshakes)]
  /\ told \in [Peer -> BOOLEAN]
  /\ keys \in Nat
  /\ calls \in [resync : Nat, down : Nat, forget : Nat]
  /\ chosen \in [Peer -> SUBSET Nat]

Loaded(p) == x[p].key # NoKey
Up(p) == XUp(x[p])

Init ==
  /\ linked = [p \in Peer |-> FALSE]
  /\ x = [p \in Peer |-> XNew(p, NoKey)]
  /\ pipe = [p \in Peer |-> FALSE]
  /\ inbox = [p \in Peer |-> <<>>]
  /\ told = [p \in Peer |-> FALSE]
  /\ keys = 0
  /\ calls = [resync |-> 0, down |-> 0, forget |-> 0]
  /\ chosen = [p \in Peer |-> {}]

-----------------------------------------------------------------------------
(* What link_sync puts on the wire for peer p whose exchange is now e: the *)
(* current handshake, when there is an exchange, a pipe and an out.  A     *)
(* network that is full drops it.                                          *)
Posted(p, e, box) ==
  IF CanHandshake(e) /\ Len(box) < MaxInbox
  THEN Append(box, HandshakeOf(e)) ELSE box

LinkSync(p, e, piped, box) ==
  [box EXCEPT ![Other(p)] = IF piped THEN Posted(p, e, @) ELSE @]

(* util_sys_seconds() as peer p may read it when it creates an exchange.   *)
Used == chosen[1] \cup chosen[2]
Clock(p) ==
  IF ClockBehind \/ chosen[p] = {}
  THEN 1 .. MaxClock
  ELSE {t \in {u + d : u \in Used, d \in {1, 2}} : \A u \in Used : u < t}

(* The exchange link_load creates: a fresh key pair and out = now.         *)
NewExchange(p, now) == XOut(XNew(p, keys + 1), now)

(* link_get by hashname: a link without a key.                             *)
LinkGet(p) ==
  /\ ~linked[p]
  /\ linked' = [linked EXCEPT ![p] = TRUE]
  /\ UNCHANGED <<x, pipe, inbox, told, keys, calls, chosen>>

(* link_get_key / link_load: the peer's key creates the exchange; nothing  *)
(* is sent yet.                                                            *)
LinkLoad(p) ==
  /\ ~Loaded(p)
  /\ \E now \in Clock(p) :
       LET e == NewExchange(p, now) IN
       /\ x' = [x EXCEPT ![p] = e]
       /\ chosen' = [chosen EXCEPT ![p] = @ \cup {e.out}]
  /\ linked' = [linked EXCEPT ![p] = TRUE]
  /\ keys' = keys + 1
  /\ UNCHANGED <<pipe, inbox, told, calls>>

(* link_pipe: a transport takes over and flushes the handshake.  Replacing *)
(* one pipe by another is the step Sync below.                             *)
LinkPipe(p) ==
  /\ linked[p]
  /\ ~pipe[p]
  /\ pipe' = [pipe EXCEPT ![p] = TRUE]
  /\ inbox' = LinkSync(p, x[p], TRUE, inbox)
  /\ UNCHANGED <<linked, x, told, keys, calls, chosen>>

(* link_sync called by the application: the current handshake once more.   *)
Sync(p) ==
  /\ Loaded(p)
  /\ pipe[p]
  /\ inbox' = LinkSync(p, x[p], TRUE, inbox)
  /\ UNCHANGED <<linked, x, pipe, told, keys, calls, chosen>>

(* link_resync: force a higher at and send it.                             *)
LinkResync(p) ==
  /\ Loaded(p)
  /\ DownResync \/ x[p].out # 0
  /\ calls.resync < MaxResyncs
  /\ calls' = [calls EXCEPT !.resync = @ + 1]
  /\ LET e == XOut(x[p], x[p].out + 1) IN
     /\ x' = [x EXCEPT ![p] = e]
     /\ chosen' = [chosen EXCEPT ![p] = @ \cup {e.out}]
     /\ inbox' = LinkSync(p, e, pipe[p], inbox)
  /\ UNCHANGED <<linked, pipe, told, keys>>

-----------------------------------------------------------------------------
(* Taking message i out of p's inbox, or leaving it there for a second     *)
(* delivery.                                                               *)
Without(box, i) ==
  [j \in 1 .. (Len(box) - 1) |-> IF j < i THEN box[j] ELSE box[j + 1]]
Deliverable(p) ==
  {i \in 1 .. Len(inbox[p]) : Reordering \/ i = 1}
Remains(p, i) ==
  {[inbox EXCEPT ![p] = Without(@, i)], inbox}

(* mesh_receive_handshake without a link: mesh_discover tells the          *)
(* application, which may call link_load; the handshake is not applied.    *)
Discover(p, i) ==
  /\ ~linked[p]
  /\ inbox' \in Remains(p, i)
  /\ UNCHANGED <<linked, x, pipe, told, keys, calls, chosen>>

(* link_receive_handshake once there is an exchange e0 for message m.      *)
(* "rest" is the network without m.                                        *)
OldHandshake(e0, m) == XIn(e0, m.at).in < e0.out

ApplyReadyLate(p, e0, m, rest) ==
  LET e1 == XIn(e0, m.at)
      e2 == XSync(e1, m.key)
  IN IF OldHandshake(e0, m)
     THEN /\ x' = [x EXCEPT ![p] = e1]
          /\ inbox' = LinkSync(p, e1, pipe[p], rest)
          /\ told' = told
     ELSE /\ x' = [x EXCEPT ![p] = e2]
          /\ inbox' = IF e2.out # e0.out
                      THEN LinkSync(p, e2, pipe[p], rest) ELSE rest
          /\ told' = [told EXCEPT ![p] = @ \/ (~XUp(e1) /\ XUp(e2))]
ApplyHandshake(p, e0, m, rest) ==
  LET e1 == XIn(e0, m.at)
      e2 == XSync(e1, m.key)
  IN IF OldHandshake(e0, m)
     THEN /\ x' = [x EXCEPT ![p] = e1]
          /\ inbox' = LinkSync(p, e1, pipe[p], rest)
          /\ told' = told
     ELSE /\ x' = [x EXCEPT ![p] = e2]
          /\ inbox' = IF e2.out # e0.out
                      THEN LinkSync(p, e2, pipe[p], rest) ELSE rest
          /\ told' = [told EXCEPT ![p] = @ \/ (~XUp(e0) /\ XUp(e2))]

(* link_receive_handshake on a link whose key is known.                    *)
ReceiveHandshake(p, i) ==
  /\ Loaded(p)
  /\ \E rest \in Remains(p, i) : ApplyHandshake(p, x[p], inbox[p][i], rest)
  /\ UNCHANGED <<linked, pipe, keys, calls, chosen>>

(* link_receive_handshake on a link made by link_get: the handshake brings *)
(* the key, link_load creates the exchange first.                          *)
ReceiveFirstHandshake(p, i) ==
  /\ linked[p]
  /\ ~Loaded(p)
  /\ \E now \in Clock(p), rest \in Remains(p, i) :
       LET e == NewExchange(p, now) IN
       /\ ApplyHandshake(p, e, inbox[p][i], rest)
       /\ chosen' = [chosen EXCEPT ![p] = @ \cup {e.out}]
  /\ keys' = keys + 1
  /\ UNCHANGED <<linked, pipe, calls>>

(* The network loses a handshake.                                          *)
Lose(p) ==
  /\ \E i \in Deliverable(p) :
       inbox' = [inbox EXCEPT ![p] = Without(@, i)]
  /\ UNCHANGED <<linked, x, pipe, told, keys, calls, chosen>>

-----------------------------------------------------------------------------
(* link_down; the channels it ends are in module Channels.                 *)
LinkDown(p) ==
  /\ linked[p]
  /\ calls.down < MaxDowns
  /\ calls' = [calls EXCEPT !.down = @ + 1]
  /\ x' = [x EXCEPT ![p] = IF Up(p) THEN XDown(@) ELSE @]
  /\ told' = [told EXCEPT ![p] = IF Up(p) THEN FALSE ELSE @]
  /\ pipe' = [pipe EXCEPT ![p] = FALSE]
  /\ UNCHANGED <<linked, inbox, keys, chosen>>

(* The link is gone: link_process of an unlinked link (link_down, then     *)
(* link_free), or the peer's process is restarted.                         *)
Forget(p) ==
  /\ linked[p]
  /\ linked' = [linked EXCEPT ![p] = FALSE]
  /\ x' = [x EXCEPT ![p] = XNew(p, NoKey)]
  /\ told' = [told EXCEPT ![p] = FALSE]
  /\ pipe' = [pipe EXCEPT ![p] = FALSE]
  /\ calls.forget < MaxForgets
  /\ calls' = [calls EXCEPT !.forget = @ + 1]
  /\ UNCHANGED <<inbox, keys, chosen>>

Receive(p) ==
  \E i \in Deliverable(p) :
    Discover(p, i) \/ ReceiveHandshake(p, i) \/ ReceiveFirstHandshake(p, i)

Next ==
  \E p \in Peer :
    \/ LinkGet(p) \/ LinkLoad(p) \/ LinkPipe(p) \/ Sync(p) \/ LinkResync(p)
    \/ Receive(p) \/ Lose(p) \/ LinkDown(p) \/ Forget(p)

Spec == Init /\ [][Next]_vars

(* Fairness.  The application loads the link and gives it a pipe, calls    *)
(* link_sync again and again (the library itself never retries), and a     *)
(* handshake that is sent for ever is one day delivered and consumed.      *)
Consume(p) == Receive(p) /\ Len(inbox'[p]) < Len(inbox[p])
Fairness ==
  \A p \in Peer :
    /\ WF_vars(LinkLoad(p)) /\ WF_vars(LinkPipe(p)) /\ WF_vars(Sync(p))
    /\ SF_vars(Consume(p))

FairSpec == Spec /\ Fairness

-----------------------------------------------------------------------------
(* Safety.                                                                 *)

(* Every time that travels or is kept was chosen by the peer whose parity  *)
(* it has: a peer adopts and acknowledges times, it never invents one that *)
(* belongs to the other.  Restarts, stale handshakes and link_down do not  *)
(* change that (the parity rules of e3x_exchange_out and e3x_exchange_in). *)
OwnerOf(at) == IF at % 2 = 0 THEN 2 ELSE 1
AtProvenance ==
  \A p \in Peer :
    /\ x[p].out # 0 => x[p].out \in chosen[OwnerOf(x[p].out)]
    /\ x[p].in # 0 => x[p].in \in chosen[OwnerOf(x[p].in)]
    /\ \A i \in 1 .. Len(inbox[p]) :
         inbox[p][i].at \in chosen[OwnerOf(inbox[p][i].at)]

(* The on_link events an application saw and link_up agree at all times:   *)
(* each change is reported exactly once.                                   *)
EventsMatchState == \A p \in Peer : told[p] <=> Up(p)

(* A link that link_up reports as available has a session: the ephemeral   *)
(* state without which e3x_exchange_send and _receive refuse every packet. *)
UpHasSession == \A p \in Peer : Up(p) => x[p].eid # NoKey

(* Both ends hold each other's current ephemeral key.                      *)
Agreed == \A p \in Peer : Up(p) /\ x[p].eid = x[Other(p)].key

(* Both applications have taken their link down and neither can send: out  *)
(* is 0 on both sides, so e3x_exchange_handshake gives nothing to send,    *)
(* link_load returns early on the exchange that is there, and only         *)
(* link_resync or removing the link would start again.                     *)
BothSilent == \A p \in Peer : Loaded(p) /\ x[p].out = 0

(* Liveness: once restarts, link_down and link_resync stop, both ends are  *)
(* up with each other's current key and stay so, unless link_down was      *)
(* called on both and no handshake sent before undid it: then both stay    *)
(* silent.  Nothing in between lasts: a link down on one side alone, two   *)
(* different sessions, or two ends that answer each other for ever.        *)
Converges == <>[]Agreed \/ <>[]BothSilent
=============================================================================
