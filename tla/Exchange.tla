------------------------------ MODULE Exchange ------------------------------
(***************************************************************************)
(* The E3X exchange of src/src/e3x/exchange.c as a record and one operator *)
(* per function that reads or changes it.  An exchange is the state one    *)
(* peer keeps about one other peer: the handshake times "in" and "out",    *)
(* the ephemeral key the peer was last synchronized to, and the channel    *)
(* ids used so far.                                                        *)
(*                                                                         *)
(* Abstractions.  A key is a number; 0 stands for the zeroed bytes of a    *)
(* fresh struct: eid = 0 is "ephem == NULL", key = 0 is "no exchange       *)
(* yet" (link->x == NULL).  The key pair that remote_new draws is the      *)
(* parameter "key" of XNew, and two exchanges never draw the same one.     *)
(* "at" and channel ids are uint32_t in the code; the modules that use     *)
(* these operators bound both far below 2^32, so no wrap is modelled.      *)
(*                                                                         *)
(* An operator defined just before another with the same parameters        *)
(* (XOutUnaligned before XOut) is a deliberately wrong variant: replacing  *)
(* the second by the first must make a property fail.                      *)
(***************************************************************************)
EXTENDS Naturals

NoKey == 0

(* order is 2 (even) for the peer whose key sorts first, 1 (odd) for the   *)
(* other.  Two peers with one and the same key (order 0) are not modelled. *)
Exchanges == [order : {1, 2}, key : Nat, out : Nat, in : Nat,
              eid : Nat, last : Nat, cid : Nat]

XNewSwapped(order, key) ==
  [order |-> 3 - order, key |-> key, out |-> 0, in |-> 0,
   eid |-> NoKey, last |-> 0, cid |-> 3 - order]
XNew(order, key) ==
  [order |-> order, key |-> key, out |-> 0, in |-> 0,
   eid |-> NoKey, last |-> 0, cid |-> order]

(* The next value from at on that has the parity of this order.            *)
Align(order, at) == at + ((at + order) % 2)

(* e3x_exchange_out(x, at): raise out to at, aligned; at = 0 only reads.   *)
XOutUnaligned(x, at) == IF at > x.out THEN [x EXCEPT !.out = at] ELSE x
XOut(x, at) ==
  IF at > x.out THEN [x EXCEPT !.out = Align(x.order, at)] ELSE x

(* e3x_exchange_in(x, at): accept a newer at of the peer's parity, or the  *)
(* peer's acknowledgement of our own out.                                  *)
Acceptable(x, at) ==
  /\ at > x.in
  /\ at >= x.out
  /\ (at % 2) + 1 = x.order \/ at = x.out

XInNoAck(x, at) ==
  IF at > x.in /\ at >= x.out /\ (at % 2) + 1 = x.order
  THEN [x EXCEPT !.in = at] ELSE x
XIn(x, at) == IF Acceptable(x, at) THEN [x EXCEPT !.in = at] ELSE x

(* e3x_exchange_sync(x, outer): out follows in, and another ephemeral key  *)
(* replaces the current one and restarts the incoming channel ids.         *)
XSync(x, key) ==
  [x EXCEPT !.out  = IF x.in > x.out THEN x.in ELSE x.out,
            !.eid  = key,
            !.last = IF key # x.eid THEN 0 ELSE x.last]

(* e3x_exchange_down(x): in, cid and the own key pair survive.             *)
XDownKeepOut(x) ==
  [x EXCEPT !.eid = NoKey, !.last = IF x.eid # NoKey THEN 0 ELSE x.last]
XDown(x) ==
  [x EXCEPT !.out = 0,
            !.eid = NoKey,
            !.last = IF x.eid # NoKey THEN 0 ELSE x.last]

(* e3x_exchange_cid(x, NULL): hand out x.cid and move to the next one.     *)
XNextCidStuck(x) == x
XNextCid(x) == [x EXCEPT !.cid = x.cid + 2]

(* e3x_exchange_cid(x, incoming): is this an id the peer may open now?     *)
ValidCidReused(x, c) == c # 0 /\ c % 2 # x.cid % 2
ValidCid(x, c) == c # 0 /\ c > x.last /\ c % 2 # x.cid % 2
XTakeCid(x, c) == [x EXCEPT !.last = c]

(* link_up of src/src/link.c.                                              *)
XUp(x) == x.key # NoKey /\ x.out # 0 /\ x.in # 0

(* e3x_exchange_handshake: the wire message (at, ephemeral key); there is  *)
(* none while out is 0.                                                    *)
CanHandshake(x) == x.key # NoKey /\ x.out # 0
HandshakeOf(x) == [at |-> x.out, key |-> x.key]
=============================================================================
