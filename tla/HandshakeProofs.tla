--------------------------- MODULE HandshakeProofs --------------------------
(***************************************************************************)
(* Proofs about module Handshake, for every bound and every network.       *)
(***************************************************************************)
EXTENDS Handshake, TLAPS, SequenceTheorems

-----------------------------------------------------------------------------
(* Lemmas about the exchange's operators.                                  *)

(* Aligning a time gives it the parity of the order: its owner is the peer *)
(* that chose it (e3x_exchange_out).                                       *)
LEMMA AlignOwner ==
  ASSUME NEW p \in Peer, NEW at \in Nat
  PROVE  /\ Align(p, at) \in Nat
         /\ Align(p, at) >= at
         /\ OwnerOf(Align(p, at)) = p
BY DEF Align, OwnerOf, Peer

(* e3x_exchange_new makes an exchange, whatever key it draws.              *)
LEMMA XNewType ==
  ASSUME NEW p \in Peer, NEW key \in Nat
  PROVE  XNew(p, key) \in Exchanges
BY DEF XNew, Exchanges, Peer, NoKey

(* e3x_exchange_out only ever changes out, and only to an own time.        *)
LEMMA XOutFacts ==
  ASSUME NEW p \in Peer, NEW e \in Exchanges, e.order = p, NEW at \in Nat
  PROVE  /\ XOut(e, at) \in Exchanges
         /\ XOut(e, at).order = p
         /\ XOut(e, at).key = e.key
         /\ XOut(e, at).in = e.in
         /\ XOut(e, at).eid = e.eid
         /\ XOut(e, at).out = e.out \/ OwnerOf(XOut(e, at).out) = p
         /\ at > e.out => OwnerOf(XOut(e, at).out) = p
         /\ XOut(e, at).out >= e.out
         /\ XOut(e, at).out >= at
<1>1. CASE at > e.out
  <2>1. XOut(e, at) = [e EXCEPT !.out = Align(p, at)]
    BY <1>1 DEF XOut
  <2>2. Align(p, at) \in Nat /\ Align(p, at) >= at /\ OwnerOf(Align(p, at)) = p
    BY AlignOwner
  <2>3. QED
    BY <1>1, <2>1, <2>2 DEF Exchanges
<1>2. CASE ~(at > e.out)
  BY <1>2 DEF XOut, Exchanges
<1>3. QED
  BY <1>1, <1>2

(* e3x_exchange_in only changes in, to the given time, and then in >= out. *)
LEMMA XInFacts ==
  ASSUME NEW p \in Peer, NEW e \in Exchanges, e.order = p, NEW at \in Nat
  PROVE  /\ XIn(e, at) \in Exchanges
         /\ XIn(e, at).order = p
         /\ XIn(e, at).key = e.key
         /\ XIn(e, at).out = e.out
         /\ XIn(e, at).eid = e.eid
         /\ XIn(e, at).in = e.in \/ (XIn(e, at).in = at /\ at >= e.out)
         /\ XIn(e, at).in >= e.in
         /\ XIn(e, at).in < e.out => XIn(e, at) = e
<1>1. CASE Acceptable(e, at)
  <2>1. XIn(e, at) = [e EXCEPT !.in = at]
    BY <1>1 DEF XIn
  <2>2. QED
    BY <1>1, <2>1 DEF Exchanges, Acceptable
<1>2. CASE ~Acceptable(e, at)
  BY <1>2 DEF XIn, Exchanges
<1>3. QED
  BY <1>1, <1>2

(* e3x_exchange_sync: out becomes the larger of in and out, eid the key.   *)
LEMMA XSyncFacts ==
  ASSUME NEW p \in Peer, NEW e \in Exchanges, e.order = p, NEW key \in Nat
  PROVE  /\ XSync(e, key) \in Exchanges
         /\ XSync(e, key).order = p
         /\ XSync(e, key).key = e.key
         /\ XSync(e, key).in = e.in
         /\ XSync(e, key).eid = key
         /\ XSync(e, key).out = e.out \/ XSync(e, key).out = e.in
         /\ XSync(e, key).out >= e.out
         /\ XSync(e, key).out >= e.in
<1> DEFINE out == IF e.in > e.out THEN e.in ELSE e.out
<1> DEFINE last == IF key # e.eid THEN 0 ELSE e.last
<1>1. out \in Nat /\ last \in Nat /\ (out = e.out \/ out = e.in)
      /\ out >= e.out /\ out >= e.in
  BY DEF Exchanges
<1>2. XSync(e, key) = [e EXCEPT !.out = out, !.eid = key, !.last = last]
  BY DEF XSync
<1> HIDE DEF out, last
<1>3. QED
  BY <1>1, <1>2 DEF Exchanges

(* e3x_exchange_down leaves an exchange with out = 0 and its own key.      *)
LEMMA XDownFacts ==
  ASSUME NEW p \in Peer, NEW e \in Exchanges, e.order = p
  PROVE  /\ XDown(e) \in Exchanges
         /\ XDown(e).order = p
         /\ XDown(e).in = e.in
         /\ XDown(e).out = 0
BY DEF XDown, Exchanges, NoKey

(* Taking one message out leaves only messages that were there.            *)
LEMMA WithoutType ==
  ASSUME NEW S, NEW s \in Seq(S), NEW i \in 1 .. Len(s)
  PROVE  /\ Without(s, i) \in Seq(S)
         /\ Len(Without(s, i)) = Len(s) - 1
         /\ \A j \in 1 .. Len(Without(s, i)) :
              \E k \in 1 .. Len(s) : Without(s, i)[j] = s[k]
<1> DEFINE n == Len(s) - 1
<1>1. n \in Nat /\ Len(s) \in Nat
  OBVIOUS
<1>2. \A j \in 1 .. n : s[j] \in S /\ s[j + 1] \in S
  BY <1>1
<1>3. Without(s, i) \in [1 .. n -> S]
  BY <1>1, <1>2 DEF Without
<1>4. Without(s, i) \in Seq(S)
  BY <1>1, <1>3, SeqDef
<1>5. Len(Without(s, i)) = n
  BY <1>1, <1>3, <1>4, LenProperties
<1>6. \A j \in 1 .. n : Without(s, i)[j] = s[j] \/ Without(s, i)[j] = s[j + 1]
  BY <1>1 DEF Without
<1>7. QED
  BY <1>1, <1>4, <1>5, <1>6

(* Appending adds only the new element.                                    *)
LEMMA AppendElements ==
  ASSUME NEW S, NEW s \in Seq(S), NEW m \in S
  PROVE  /\ Append(s, m) \in Seq(S)
         /\ \A i \in 1 .. Len(Append(s, m)) :
              \/ Append(s, m)[i] = m
              \/ i \in 1 .. Len(s) /\ Append(s, m)[i] = s[i]
OBVIOUS

-----------------------------------------------------------------------------
(* The parts of the inductive invariant, as predicates of the values a     *)
(* step computes: a good time is one its owner chose, a good exchange      *)
(* keeps only good times, a good network carries only good times and real  *)
(* keys.                                                                   *)
GoodAt(at, ch) == at \in ch[OwnerOf(at)]
GoodExchange(e, ch) ==
  (e.out # 0 => GoodAt(e.out, ch)) /\ (e.in # 0 => GoodAt(e.in, ch))
GoodMessage(m, ch) == GoodAt(m.at, ch) /\ m.key # NoKey
GoodNetwork(box, ch) ==
  \A q \in Peer : \A i \in 1 .. Len(box[q]) : GoodMessage(box[q][i], ch)

Networks == [Peer -> Seq(Handshakes)]
Choices == [Peer -> SUBSET Nat]

IndInv ==
  /\ TypeOK
  /\ \A p \in Peer : GoodExchange(x[p], chosen)
  /\ GoodNetwork(inbox, chosen)

(* Choosing one more time spoils nothing.                                  *)
LEMMA MoreChoices ==
  ASSUME NEW ch \in Choices, NEW p \in Peer, NEW v \in Nat
  PROVE  LET more == [ch EXCEPT ![p] = @ \cup {v}] IN
         /\ more \in Choices
         /\ \A at \in Nat : GoodAt(at, ch) => GoodAt(at, more)
         /\ OwnerOf(v) = p => GoodAt(v, more)
BY DEF Choices, GoodAt, OwnerOf, Peer

(* link_sync adds at most the current handshake of a good exchange.        *)
LEMMA LinkSyncGood ==
  ASSUME NEW p \in Peer, NEW e \in Exchanges, NEW piped, NEW box \in Networks,
         NEW ch \in Choices, GoodExchange(e, ch), GoodNetwork(box, ch)
  PROVE  /\ LinkSync(p, e, piped, box) \in Networks
         /\ GoodNetwork(LinkSync(p, e, piped, box), ch)
<1> DEFINE o == Other(p)
<1> DEFINE new == IF piped THEN Posted(p, e, box[o]) ELSE box[o]
<1>1. o \in Peer
  BY DEF Other, Peer
<1>2. box[o] \in Seq(Handshakes)
  BY <1>1 DEF Networks
<1>3. CanHandshake(e) => HandshakeOf(e) \in Handshakes /\ GoodMessage(HandshakeOf(e), ch)
  BY DEF CanHandshake, HandshakeOf, Handshakes, GoodMessage, GoodExchange, Exchanges
<1>4. /\ new \in Seq(Handshakes)
      /\ \A i \in 1 .. Len(new) : GoodMessage(new[i], ch)
  <2>1. \A i \in 1 .. Len(box[o]) : GoodMessage(box[o][i], ch)
    BY <1>1 DEF GoodNetwork
  <2>2. CASE piped /\ CanHandshake(e) /\ Len(box[o]) < MaxInbox
    <3>1. new = Append(box[o], HandshakeOf(e))
      BY <2>2 DEF Posted
    <3>2. HandshakeOf(e) \in Handshakes /\ GoodMessage(HandshakeOf(e), ch)
      BY <1>3, <2>2
    <3>3. /\ Append(box[o], HandshakeOf(e)) \in Seq(Handshakes)
          /\ \A i \in 1 .. Len(Append(box[o], HandshakeOf(e))) :
               \/ Append(box[o], HandshakeOf(e))[i] = HandshakeOf(e)
               \/ /\ i \in 1 .. Len(box[o])
                  /\ Append(box[o], HandshakeOf(e))[i] = box[o][i]
      BY <1>2, <3>2, AppendElements
    <3> HIDE DEF o, new
    <3>4. QED
      BY <2>1, <3>1, <3>2, <3>3
  <2>3. CASE ~(piped /\ CanHandshake(e) /\ Len(box[o]) < MaxInbox)
    <3>1. new = box[o]
      BY <2>3 DEF Posted
    <3>2. QED
      BY <1>2, <2>1, <3>1
  <2>4. QED
    BY <2>2, <2>3
<1>5. LinkSync(p, e, piped, box) = [box EXCEPT ![o] = new]
  BY DEF LinkSync
<1> HIDE DEF o, new
<1>6. QED
  BY <1>1, <1>4, <1>5 DEF Networks, GoodNetwork

(* What remains of the network when a message is taken is still good.      *)
LEMMA RemainsGood ==
  ASSUME NEW ch, inbox \in Networks, GoodNetwork(inbox, ch),
         NEW p \in Peer, NEW i \in 1 .. Len(inbox[p]), NEW rest \in Remains(p, i)
  PROVE  rest \in Networks /\ GoodNetwork(rest, ch)
<1>1. inbox[p] \in Seq(Handshakes)
  BY DEF Networks
<1>2. CASE rest = inbox
  BY <1>2
<1>3. CASE rest = [inbox EXCEPT ![p] = Without(inbox[p], i)]
  <2> DEFINE w == Without(inbox[p], i)
  <2>1. /\ w \in Seq(Handshakes)
        /\ \A j \in 1 .. Len(w) : \E k \in 1 .. Len(inbox[p]) : w[j] = inbox[p][k]
    BY <1>1, WithoutType
  <2>2. \A j \in 1 .. Len(w) : GoodMessage(w[j], ch)
    BY <2>1 DEF GoodNetwork
  <2> HIDE DEF w
  <2>3. rest = [inbox EXCEPT ![p] = w]
    BY <1>3 DEF w
  <2>4. QED
    BY <2>1, <2>2, <2>3 DEF Networks, GoodNetwork
<1>4. QED
  BY <1>2, <1>3 DEF Remains

(* A new exchange keeps one time, its own, and its key is a real one.      *)
LEMMA NewExchangeFacts ==
  ASSUME TypeOK, NEW p \in Peer, NEW now \in Nat \ {0}
  PROVE  /\ NewExchange(p, now) \in Exchanges
         /\ NewExchange(p, now).order = p
         /\ NewExchange(p, now).in = 0
         /\ NewExchange(p, now).out \in Nat \ {0}
         /\ OwnerOf(NewExchange(p, now).out) = p
<1> DEFINE e == XNew(p, keys + 1)
<1>1. keys + 1 \in Nat
  BY DEF TypeOK
<1>2. e \in Exchanges /\ e.order = p /\ e.in = 0 /\ e.out = 0
  BY <1>1, XNewType DEF XNew
<1>3. NewExchange(p, now) = XOut(e, now)
  BY DEF NewExchange
<1> HIDE DEF e
<1>4. /\ XOut(e, now) \in Exchanges
      /\ XOut(e, now).order = p
      /\ XOut(e, now).in = e.in
      /\ now > e.out => OwnerOf(XOut(e, now).out) = p
      /\ XOut(e, now).out >= now
  BY <1>2, XOutFacts
<1>5. XOut(e, now).out \in Nat
  BY <1>4 DEF Exchanges
<1>6. QED
  BY <1>2, <1>3, <1>4, <1>5

(* The clock shows a positive time (util_sys_seconds).                     *)
LEMMA ClockType ==
  ASSUME TypeOK, NEW p \in Peer, NEW now \in Clock(p)
  PROVE  now \in Nat \ {0}
<1>1. Used \subseteq Nat
  BY DEF TypeOK, Used, Peer
<1>2. CASE ClockBehind \/ chosen[p] = {}
  BY <1>2, HandshakeAssumption DEF Clock
<1>3. CASE ~(ClockBehind \/ chosen[p] = {})
  <2>1. PICK u \in Used, d \in {1, 2} : now = u + d
    BY <1>3 DEF Clock
  <2>2. QED
    BY <1>1, <2>1
<1>4. QED
  BY <1>2, <1>3

(* The whole of link_receive_handshake on a good exchange and message.     *)
LEMMA ApplyGood ==
  ASSUME TypeOK, NEW p \in Peer, NEW e0 \in Exchanges, e0.order = p,
         NEW ch \in Choices, GoodExchange(e0, ch),
         NEW m \in Handshakes, GoodMessage(m, ch),
         NEW rest \in Networks, GoodNetwork(rest, ch),
         ApplyHandshake(p, e0, m, rest)
  PROVE  /\ \E e \in Exchanges : /\ e.order = p
                                 /\ GoodExchange(e, ch)
                                 /\ x' = [x EXCEPT ![p] = e]
         /\ inbox' \in Networks
         /\ GoodNetwork(inbox', ch)
         /\ told' \in [Peer -> BOOLEAN]
<1> DEFINE e1 == XIn(e0, m.at)
<1> DEFINE e2 == XSync(e1, m.key)
<1>1. m.at \in Nat /\ m.key \in Nat /\ GoodAt(m.at, ch)
  BY DEF Handshakes, GoodMessage
<1>2. e1 \in Exchanges /\ e1.order = p /\ GoodExchange(e1, ch)
  <2>1. /\ e1 \in Exchanges /\ e1.order = p /\ e1.out = e0.out
        /\ e1.in = e0.in \/ e1.in = m.at
    BY <1>1, XInFacts
  <2> HIDE DEF e1
  <2>2. QED
    BY <1>1, <2>1 DEF GoodExchange
<1>3. e2 \in Exchanges /\ e2.order = p /\ GoodExchange(e2, ch)
  <2>1. /\ e2 \in Exchanges /\ e2.order = p /\ e2.in = e1.in
        /\ e2.out = e1.out \/ e2.out = e1.in
    BY <1>1, <1>2, XSyncFacts
  <2> HIDE DEF e1, e2
  <2>2. QED
    BY <1>2, <2>1 DEF GoodExchange
<1>4. CASE OldHandshake(e0, m)
  <2>1. /\ x' = [x EXCEPT ![p] = e1]
        /\ inbox' = LinkSync(p, e1, pipe[p], rest)
        /\ told' = told
    BY <1>4 DEF ApplyHandshake
  <2> HIDE DEF e1, e2
  <2>2. inbox' \in Networks /\ GoodNetwork(inbox', ch)
    BY <1>2, <2>1, LinkSyncGood
  <2>3. QED
    BY <1>2, <2>1, <2>2 DEF TypeOK
<1>5. CASE ~OldHandshake(e0, m)
  <2>1. /\ x' = [x EXCEPT ![p] = e2]
        /\ inbox' = IF e2.out # e0.out
                    THEN LinkSync(p, e2, pipe[p], rest) ELSE rest
        /\ told' = [told EXCEPT ![p] = @ \/ (~XUp(e0) /\ XUp(e2))]
    BY <1>5 DEF ApplyHandshake
  <2> HIDE DEF e1, e2
  <2>2. inbox' \in Networks /\ GoodNetwork(inbox', ch)
    BY <1>3, <2>1, LinkSyncGood
  <2>3. told' \in [Peer -> BOOLEAN]
    BY <2>1 DEF TypeOK
  <2>4. QED
    BY <1>3, <2>1, <2>2, <2>3
<1>6. QED
  BY <1>4, <1>5

-----------------------------------------------------------------------------
(* A step that changes one exchange and perhaps adds one choice keeps the  *)
(* invariant on the other peer's exchange too.                             *)
LEMMA ExchangesGood ==
  ASSUME TypeOK, NEW p \in Peer, NEW e \in Exchanges, e.order = p,
         x' = [x EXCEPT ![p] = e],
         \A at \in Nat : GoodAt(at, chosen) => GoodAt(at, chosen'),
         \A q \in Peer : GoodExchange(x[q], chosen),
         GoodExchange(e, chosen')
  PROVE  /\ x' \in [Peer -> Exchanges]
         /\ \A q \in Peer : x'[q].order = q
         /\ \A q \in Peer : GoodExchange(x'[q], chosen')
<1>1. \A q \in Peer : x[q] \in Exchanges /\ x[q].order = q
  BY DEF TypeOK
<1>2. \A q \in Peer : GoodExchange(x[q], chosen')
  BY <1>1 DEF GoodExchange, Exchanges
<1>3. \A q \in Peer : x'[q] = IF q = p THEN e ELSE x[q]
  BY DEF TypeOK
<1>4. QED
  BY <1>1, <1>2, <1>3 DEF TypeOK

(* Handshakes on their way stay good when their sender chooses more times. *)
LEMMA NetworkGoodMono ==
  ASSUME NEW box \in Networks, NEW ch, NEW more,
         \A at \in Nat : GoodAt(at, ch) => GoodAt(at, more),
         GoodNetwork(box, ch)
  PROVE  GoodNetwork(box, more)
<1>1. \A q \in Peer : \A i \in 1 .. Len(box[q]) : box[q][i].at \in Nat
  <2> SUFFICES ASSUME NEW q \in Peer, NEW i \in 1 .. Len(box[q])
               PROVE  box[q][i].at \in Nat
    OBVIOUS
  <2>1. box[q] \in Seq(Handshakes)
    BY DEF Networks
  <2>2. box[q][i] \in Handshakes
    BY <2>1
  <2>3. QED
    BY <2>2 DEF Handshakes
<1>2. QED
  BY <1>1 DEF GoodNetwork, GoodMessage

(* The counters that bound the model.                                      *)
LEMMA CallsType ==
  ASSUME TypeOK
  PROVE  /\ [calls EXCEPT !.resync = @ + 1] \in [resync : Nat, down : Nat, forget : Nat]
         /\ [calls EXCEPT !.down = @ + 1] \in [resync : Nat, down : Nat, forget : Nat]
         /\ [calls EXCEPT !.forget = @ + 1] \in [resync : Nat, down : Nat, forget : Nat]
<1>1. ASSUME NEW c \in [resync : Nat, down : Nat, forget : Nat], NEW v \in Nat
      PROVE  /\ [c EXCEPT !.resync = v] \in [resync : Nat, down : Nat, forget : Nat]
             /\ [c EXCEPT !.down = v] \in [resync : Nat, down : Nat, forget : Nat]
             /\ [c EXCEPT !.forget = v] \in [resync : Nat, down : Nat, forget : Nat]
  OBVIOUS
<1>2. calls \in [resync : Nat, down : Nat, forget : Nat]
  BY DEF TypeOK
<1>3. calls.resync + 1 \in Nat /\ calls.down + 1 \in Nat /\ calls.forget + 1 \in Nat
  BY <1>2
<1>4. QED
  BY <1>1, <1>2, <1>3

(* No link, no exchange and an empty network satisfy the invariant.        *)
LEMMA IndInvInit == Init => IndInv
<1> SUFFICES ASSUME Init PROVE IndInv
  OBVIOUS
<1>1. \A p \in Peer : XNew(p, NoKey) \in Exchanges
  BY XNewType DEF NoKey
<1>2. \A p \in Peer : XNew(p, NoKey).order = p /\ XNew(p, NoKey).in = 0 /\ XNew(p, NoKey).out = 0
  BY DEF XNew
<1>3. TypeOK
  BY <1>1, <1>2 DEF Init, TypeOK
<1>4. \A p \in Peer : GoodExchange(x[p], chosen)
  BY <1>2 DEF Init, GoodExchange
<1>5. GoodNetwork(inbox, chosen)
  BY DEF Init, GoodNetwork
<1>6. QED
  BY <1>3, <1>4, <1>5 DEF IndInv

(* The messages a receive step takes.                                      *)
LEMMA InboxElement ==
  ASSUME IndInv, NEW p \in Peer, NEW i \in 1 .. Len(inbox[p])
  PROVE  inbox[p][i] \in Handshakes /\ GoodMessage(inbox[p][i], chosen)
<1>1. inbox[p] \in Seq(Handshakes)
  BY DEF IndInv, TypeOK
<1>2. QED
  BY <1>1 DEF IndInv, GoodNetwork

(* Every operation of link.c, and every fault of the network, keeps it.    *)
LEMMA IndInvStep == IndInv /\ [Next]_vars => IndInv'
<1> SUFFICES ASSUME IndInv, [Next]_vars PROVE IndInv'
  OBVIOUS
<1> USE DEF IndInv
<1>a. inbox \in Networks /\ chosen \in Choices /\ TypeOK
  BY DEF TypeOK, Networks, Choices
<1>b. \A p \in Peer : x[p] \in Exchanges /\ x[p].order = p
  BY DEF TypeOK
<1>1. ASSUME NEW p \in Peer, LinkGet(p) PROVE IndInv'
  BY <1>1 DEF LinkGet, TypeOK
<1>2. ASSUME NEW p \in Peer, LinkLoad(p) PROVE IndInv'
  <2>1. PICK now \in Clock(p) :
          /\ x' = [x EXCEPT ![p] = NewExchange(p, now)]
          /\ chosen' = [chosen EXCEPT ![p] = @ \cup {NewExchange(p, now).out}]
    BY <1>2 DEF LinkLoad
  <2> DEFINE e == NewExchange(p, now)
  <2>2. /\ e \in Exchanges /\ e.order = p /\ e.in = 0
        /\ e.out \in Nat /\ OwnerOf(e.out) = p
    BY <1>a, ClockType, NewExchangeFacts
  <2>3. /\ x' = [x EXCEPT ![p] = e]
        /\ chosen' = [chosen EXCEPT ![p] = @ \cup {e.out}]
    BY <2>1
  <2> HIDE DEF e
  <2>4. /\ chosen' \in Choices
        /\ \A at \in Nat : GoodAt(at, chosen) => GoodAt(at, chosen')
        /\ GoodAt(e.out, chosen')
    BY <1>a, <2>2, <2>3, MoreChoices
  <2>5. GoodExchange(e, chosen')
    BY <2>2, <2>4 DEF GoodExchange
  <2>6. /\ x' \in [Peer -> Exchanges] /\ \A q \in Peer : x'[q].order = q
        /\ \A q \in Peer : GoodExchange(x'[q], chosen')
    BY <1>a, <2>2, <2>3, <2>4, <2>5, ExchangesGood
  <2>7. GoodNetwork(inbox', chosen')
    BY <1>2, <1>a, <2>4, NetworkGoodMono DEF LinkLoad
  <2>8. TypeOK'
    BY <1>2, <2>4, <2>6 DEF LinkLoad, TypeOK, Choices
  <2>9. QED
    BY <2>6, <2>7, <2>8
<1>3. ASSUME NEW p \in Peer, LinkPipe(p) PROVE IndInv'
  <2>1. inbox' \in Networks /\ GoodNetwork(inbox', chosen)
    BY <1>3, <1>a, <1>b, LinkSyncGood DEF LinkPipe
  <2>2. QED
    BY <1>3, <2>1 DEF LinkPipe, TypeOK, Networks
<1>4. ASSUME NEW p \in Peer, Sync(p) PROVE IndInv'
  <2>1. inbox' \in Networks /\ GoodNetwork(inbox', chosen)
    BY <1>4, <1>a, <1>b, LinkSyncGood DEF Sync
  <2>2. QED
    BY <1>4, <2>1 DEF Sync, TypeOK, Networks
<1>5. ASSUME NEW p \in Peer, LinkResync(p) PROVE IndInv'
  <2> DEFINE e == XOut(x[p], x[p].out + 1)
  <2>1. x[p].out \in Nat /\ x[p].out + 1 \in Nat /\ x[p].out + 1 > x[p].out
    BY <1>b DEF Exchanges
  <2>2. /\ e \in Exchanges /\ e.order = p /\ e.in = x[p].in
        /\ OwnerOf(e.out) = p
    BY <1>b, <2>1, XOutFacts, ZenonT(40)
  <2>3. /\ x' = [x EXCEPT ![p] = e]
        /\ chosen' = [chosen EXCEPT ![p] = @ \cup {e.out}]
        /\ inbox' = LinkSync(p, e, pipe[p], inbox)
    BY <1>5 DEF LinkResync
  <2> HIDE DEF e
  <2>4. /\ e.out \in Nat /\ e.in \in Nat
        /\ chosen' \in Choices
        /\ \A at \in Nat : GoodAt(at, chosen) => GoodAt(at, chosen')
        /\ GoodAt(e.out, chosen')
    <3>1. e.out \in Nat /\ e.in \in Nat
      BY <2>2 DEF Exchanges
    <3>2. QED
      BY <1>a, <2>2, <2>3, <3>1, MoreChoices
  <2>5. GoodExchange(e, chosen')
    BY <2>2, <2>4 DEF GoodExchange
  <2>6. /\ x' \in [Peer -> Exchanges] /\ \A q \in Peer : x'[q].order = q
        /\ \A q \in Peer : GoodExchange(x'[q], chosen')
    BY <1>a, <2>2, <2>3, <2>4, <2>5, ExchangesGood
  <2>7. GoodNetwork(inbox, chosen')
    BY <1>a, <2>4, NetworkGoodMono
  <2>8. inbox' \in Networks /\ GoodNetwork(inbox', chosen')
    BY <1>a, <2>2, <2>3, <2>4, <2>5, <2>7, LinkSyncGood
  <2>9. TypeOK'
    <3>1. calls' \in [resync : Nat, down : Nat, forget : Nat]
      BY <1>5, <1>a, CallsType DEF LinkResync
    <3>2. UNCHANGED <<linked, pipe, told, keys>>
      BY <1>5 DEF LinkResync
    <3>3. QED
      BY <1>a, <2>4, <2>6, <2>8, <3>1, <3>2 DEF TypeOK, Choices, Networks
  <2>10. QED
    BY <2>6, <2>8, <2>9
<1>6. ASSUME NEW p \in Peer, NEW i \in 1 .. Len(inbox[p]), Discover(p, i)
      PROVE  IndInv'
  <2>1. inbox' \in Networks /\ GoodNetwork(inbox', chosen)
    BY <1>6, <1>a, RemainsGood DEF Discover
  <2>2. QED
    BY <1>6, <2>1 DEF Discover, TypeOK, Networks
<1>7. ASSUME NEW p \in Peer, NEW i \in 1 .. Len(inbox[p]), ReceiveHandshake(p, i)
      PROVE  IndInv'
  <2>1. PICK rest \in Remains(p, i) : ApplyHandshake(p, x[p], inbox[p][i], rest)
    BY <1>7 DEF ReceiveHandshake
  <2>2. rest \in Networks /\ GoodNetwork(rest, chosen)
    BY <1>a, RemainsGood
  <2>3. inbox[p][i] \in Handshakes /\ GoodMessage(inbox[p][i], chosen)
    BY InboxElement
  <2>4. /\ \E e \in Exchanges : /\ e.order = p
                                /\ GoodExchange(e, chosen)
                                /\ x' = [x EXCEPT ![p] = e]
        /\ inbox' \in Networks
        /\ GoodNetwork(inbox', chosen)
        /\ told' \in [Peer -> BOOLEAN]
    BY <1>a, <1>b, <2>1, <2>2, <2>3, ApplyGood
  <2>5. chosen' = chosen
    BY <1>7 DEF ReceiveHandshake
  <2>6. PICK e \in Exchanges : /\ e.order = p
                               /\ GoodExchange(e, chosen')
                               /\ x' = [x EXCEPT ![p] = e]
    BY <2>4, <2>5
  <2>7. /\ x' \in [Peer -> Exchanges] /\ \A q \in Peer : x'[q].order = q
        /\ \A q \in Peer : GoodExchange(x'[q], chosen')
    BY <1>a, <2>5, <2>6, ExchangesGood
  <2>8. TypeOK'
    BY <1>7, <2>4, <2>5, <2>7 DEF ReceiveHandshake, TypeOK, Networks
  <2>9. QED
    BY <2>4, <2>5, <2>7, <2>8
<1>8. ASSUME NEW p \in Peer, NEW i \in 1 .. Len(inbox[p]), ReceiveFirstHandshake(p, i)
      PROVE  IndInv'
  <2>1. PICK now \in Clock(p), rest \in Remains(p, i) :
          /\ ApplyHandshake(p, NewExchange(p, now), inbox[p][i], rest)
          /\ chosen' = [chosen EXCEPT ![p] = @ \cup {NewExchange(p, now).out}]
    BY <1>8 DEF ReceiveFirstHandshake
  <2> DEFINE e0 == NewExchange(p, now)
  <2>2. /\ e0 \in Exchanges /\ e0.order = p /\ e0.in = 0
        /\ e0.out \in Nat /\ OwnerOf(e0.out) = p
    BY <1>a, ClockType, NewExchangeFacts
  <2>3. /\ ApplyHandshake(p, e0, inbox[p][i], rest)
        /\ chosen' = [chosen EXCEPT ![p] = @ \cup {e0.out}]
    BY <2>1
  <2> HIDE DEF e0
  <2>4. /\ chosen' \in Choices
        /\ \A at \in Nat : GoodAt(at, chosen) => GoodAt(at, chosen')
        /\ GoodAt(e0.out, chosen')
    BY <1>a, <2>2, <2>3, MoreChoices
  <2>5. GoodExchange(e0, chosen')
    BY <2>2, <2>4 DEF GoodExchange
  <2>6. rest \in Networks /\ GoodNetwork(rest, chosen')
    BY <1>a, <2>4, RemainsGood, NetworkGoodMono
  <2>7. inbox[p][i] \in Handshakes /\ GoodMessage(inbox[p][i], chosen')
    <3>1. inbox[p][i] \in Handshakes /\ GoodMessage(inbox[p][i], chosen)
      BY InboxElement
    <3>2. QED
      BY <2>4, <3>1 DEF GoodMessage, Handshakes
  <2>8. /\ \E e \in Exchanges : /\ e.order = p
                                /\ GoodExchange(e, chosen')
                                /\ x' = [x EXCEPT ![p] = e]
        /\ inbox' \in Networks
        /\ GoodNetwork(inbox', chosen')
        /\ told' \in [Peer -> BOOLEAN]
    BY <1>a, <2>2, <2>3, <2>4, <2>5, <2>6, <2>7, ApplyGood
  <2>9. PICK e \in Exchanges : /\ e.order = p
                               /\ GoodExchange(e, chosen')
                               /\ x' = [x EXCEPT ![p] = e]
    BY <2>8
  <2>10. /\ x' \in [Peer -> Exchanges] /\ \A q \in Peer : x'[q].order = q
         /\ \A q \in Peer : GoodExchange(x'[q], chosen')
    BY <1>a, <2>4, <2>9, ExchangesGood
  <2>11. TypeOK'
    BY <1>8, <2>4, <2>8, <2>10 DEF ReceiveFirstHandshake, TypeOK, Networks, Choices
  <2>12. QED
    BY <2>8, <2>10, <2>11
<1>9. ASSUME NEW p \in Peer, Lose(p) PROVE IndInv'
  <2>1. PICK i \in Deliverable(p) : inbox' = [inbox EXCEPT ![p] = Without(@, i)]
    BY <1>9 DEF Lose
  <2>2. i \in 1 .. Len(inbox[p]) /\ inbox' \in Remains(p, i)
    BY <2>1 DEF Deliverable, Remains
  <2>3. inbox' \in Networks /\ GoodNetwork(inbox', chosen)
    BY <1>a, <2>2, RemainsGood
  <2>4. QED
    BY <1>9, <2>3 DEF Lose, TypeOK, Networks
<1>10. ASSUME NEW p \in Peer, LinkDown(p) PROVE IndInv'
  <2> DEFINE e == IF Up(p) THEN XDown(x[p]) ELSE x[p]
  <2>1. /\ e \in Exchanges /\ e.order = p
        /\ e.in = x[p].in /\ (e.out = 0 \/ e.out = x[p].out)
    BY <1>b, XDownFacts
  <2>2. x' = [x EXCEPT ![p] = e] /\ chosen' = chosen
    BY <1>10 DEF LinkDown
  <2> HIDE DEF e
  <2>3. GoodExchange(e, chosen')
    BY <2>1, <2>2 DEF GoodExchange
  <2>4. /\ x' \in [Peer -> Exchanges] /\ \A q \in Peer : x'[q].order = q
        /\ \A q \in Peer : GoodExchange(x'[q], chosen')
    BY <1>a, <2>1, <2>2, <2>3, ExchangesGood
  <2>5. TypeOK'
    <3>1. calls' \in [resync : Nat, down : Nat, forget : Nat]
      BY <1>10, <1>a, CallsType DEF LinkDown
    <3>2. pipe' \in [Peer -> BOOLEAN]
      BY <1>10, <1>a DEF LinkDown, TypeOK
    <3>3. told' \in [Peer -> BOOLEAN]
      <4>1. (IF Up(p) THEN FALSE ELSE told[p]) \in BOOLEAN
        BY <1>a DEF TypeOK
      <4>2. QED
        BY <1>10, <1>a, <4>1, Zenon DEF LinkDown, TypeOK
    <3>4. UNCHANGED <<linked, inbox, keys, chosen>>
      BY <1>10 DEF LinkDown
    <3>5. QED
      BY <1>a, <2>4, <3>1, <3>2, <3>3, <3>4 DEF TypeOK
  <2>6. QED
    BY <1>10, <2>4, <2>5 DEF LinkDown
<1>11. ASSUME NEW p \in Peer, Forget(p) PROVE IndInv'
  <2> DEFINE e == XNew(p, NoKey)
  <2>1. e \in Exchanges /\ e.order = p /\ e.in = 0 /\ e.out = 0
    BY XNewType DEF XNew, NoKey
  <2>2. x' = [x EXCEPT ![p] = e] /\ chosen' = chosen
    BY <1>11 DEF Forget
  <2> HIDE DEF e
  <2>3. GoodExchange(e, chosen')
    BY <2>1 DEF GoodExchange
  <2>4. /\ x' \in [Peer -> Exchanges] /\ \A q \in Peer : x'[q].order = q
        /\ \A q \in Peer : GoodExchange(x'[q], chosen')
    BY <1>a, <2>1, <2>2, <2>3, ExchangesGood
  <2>5. TypeOK'
    <3>1. calls' \in [resync : Nat, down : Nat, forget : Nat]
      BY <1>11, <1>a, CallsType DEF Forget
    <3>2. /\ pipe' \in [Peer -> BOOLEAN] /\ told' \in [Peer -> BOOLEAN]
          /\ linked' \in [Peer -> BOOLEAN]
      BY <1>11, <1>a DEF Forget, TypeOK
    <3>3. UNCHANGED <<inbox, keys, chosen>>
      BY <1>11 DEF Forget
    <3>4. QED
      BY <1>a, <2>4, <3>1, <3>2, <3>3 DEF TypeOK
  <2>6. QED
    BY <1>11, <2>4, <2>5 DEF Forget
<1>12. ASSUME UNCHANGED vars PROVE IndInv'
  BY <1>12 DEF vars, TypeOK
<1>13. QED
  BY <1>1, <1>2, <1>3, <1>4, <1>5, <1>6, <1>7, <1>8, <1>9, <1>10, <1>11, <1>12
     DEF Next, Receive, Deliverable

-----------------------------------------------------------------------------
(* So it holds throughout.                                                 *)
LEMMA IndInvAlways == Spec => []IndInv
BY IndInvInit, IndInvStep, PTL DEF Spec

(* Every variable of the handshake keeps its type, on every network.       *)
THEOREM HandshakeTypeCorrect == Spec => []TypeOK
<1>1. IndInv => TypeOK
  BY DEF IndInv
<1>2. QED
  BY <1>1, IndInvAlways, PTL

(* No peer ever keeps or sends a handshake time that the peer whose parity *)
(* it has did not choose: for every clock, every restart and every loss,   *)
(* duplication and reordering of handshakes.                               *)
THEOREM HandshakeAtProvenance == Spec => []AtProvenance
<1>1. IndInv => AtProvenance
  BY DEF IndInv, AtProvenance, GoodExchange, GoodNetwork, GoodMessage, GoodAt
<1>2. QED
  BY <1>1, IndInvAlways, PTL

-----------------------------------------------------------------------------
(* The events an application sees, and the session behind an available     *)
(* link.  Both need that the application does not call link_resync on a    *)
(* link it has taken down: XDown keeps "in", so raising "out" again makes  *)
(* link_up true without an ephemeral key and without an event.             *)
Honest(e, t) == (t <=> XUp(e)) /\ (XUp(e) => e.eid # NoKey)
SessionInv == IndInv /\ \A p \in Peer : Honest(x[p], told[p])

(* A step that replaces one peer's exchange and event state.               *)
LEMMA HonestUpdate ==
  ASSUME TypeOK, \A q \in Peer : Honest(x[q], told[q]),
         NEW p \in Peer, NEW e, NEW t \in BOOLEAN, Honest(e, t),
         x' = [x EXCEPT ![p] = e], told' = [told EXCEPT ![p] = t]
  PROVE  \A q \in Peer : Honest(x'[q], told'[q])
<1> SUFFICES ASSUME NEW q \in Peer PROVE Honest(x'[q], told'[q])
  OBVIOUS
<1>1. CASE q = p
  <2>1. x'[q] = e /\ told'[q] = t
    BY <1>1 DEF TypeOK
  <2>2. QED
    BY <2>1
<1>2. CASE q # p
  <2>1. x'[q] = x[q] /\ told'[q] = told[q]
    BY <1>2 DEF TypeOK
  <2>2. QED
    BY <2>1
<1>3. QED
  BY <1>1, <1>2

(* link_receive_handshake reports the change to "up" exactly when it       *)
(* happens, and a link it brings up has the sender's key.                  *)
LEMMA ApplyHonest ==
  ASSUME TypeOK, \A q \in Peer : Honest(x[q], told[q]),
         NEW p \in Peer, NEW e0 \in Exchanges, e0.order = p,
         e0.key = x[p].key \/ x[p].key = NoKey,
         Honest(e0, told[p]),
         NEW m \in Handshakes, m.key # NoKey,
         NEW rest, ApplyHandshake(p, e0, m, rest)
  PROVE  \A q \in Peer : Honest(x'[q], told'[q])
<1> DEFINE e1 == XIn(e0, m.at)
<1> DEFINE e2 == XSync(e1, m.key)
<1>1. m.at \in Nat /\ m.key \in Nat
  BY DEF Handshakes
<1>2. /\ e1 \in Exchanges /\ e1.order = p /\ e1.key = e0.key /\ e1.out = e0.out
      /\ e1.in >= e0.in
      /\ e1.in < e0.out => e1 = e0
  BY <1>1, XInFacts
<1>3. /\ e2 \in Exchanges /\ e2.key = e1.key /\ e2.in = e1.in /\ e2.eid = m.key
      /\ e2.out >= e1.out
  BY <1>1, <1>2, XSyncFacts, SMTT(20)
<1>4. told \in [Peer -> BOOLEAN] /\ told[p] \in BOOLEAN
  BY DEF TypeOK
<1>5. CASE OldHandshake(e0, m)
  <2>1. x' = [x EXCEPT ![p] = e1] /\ told' = told
    BY <1>5 DEF ApplyHandshake
  <2>2. e1 = e0
    BY <1>2, <1>5 DEF OldHandshake
  <2>3. told' = [told EXCEPT ![p] = told[p]]
    BY <1>4, <2>1
  <2>4. QED
    BY <1>4, <2>1, <2>2, <2>3, HonestUpdate
<1>6. CASE ~OldHandshake(e0, m)
  <2> DEFINE t == told[p] \/ (~XUp(e0) /\ XUp(e2))
  <2>1. x' = [x EXCEPT ![p] = e2] /\ told' = [told EXCEPT ![p] = t]
    BY <1>6 DEF ApplyHandshake
  <2>2. XUp(e0) => XUp(e2)
    <3> HIDE DEF e1, e2
    <3>1. e0.in \in Nat /\ e0.out \in Nat /\ e2.in \in Nat /\ e2.out \in Nat
      BY <1>3 DEF Exchanges
    <3>2. e2.in >= e0.in /\ e2.out >= e0.out /\ e2.key = e0.key
      BY <1>2, <1>3
    <3>3. QED
      BY <3>1, <3>2 DEF XUp
  <2>3. t <=> XUp(e2)
    BY <2>2 DEF Honest
  <2>4. t \in BOOLEAN
    OBVIOUS
  <2>5. e2.eid # NoKey
    BY <1>3
  <2> HIDE DEF e1, e2, t
  <2>6. Honest(e2, t)
    BY <2>3, <2>5 DEF Honest
  <2>7. QED
    BY <2>1, <2>4, <2>6, HonestUpdate
<1>7. QED
  BY <1>5, <1>6

(* A fresh or forgotten exchange is not up.                                *)
LEMMA FreshNotUp ==
  ASSUME NEW e, e.in = 0
  PROVE  Honest(e, FALSE)
BY DEF Honest, XUp

(* link_up is false without an exchange.                                   *)
LEMMA NotLoadedNotUp ==
  ASSUME NEW p \in Peer, ~Loaded(p), Honest(x[p], told[p])
  PROVE  ~told[p]
BY DEF Honest, XUp, Loaded

(* Every step keeps the on_link events and the session in line with        *)
(* link_up, as long as link_resync is not called on a link taken down.     *)
LEMMA SessionInvStep ==
  ASSUME ~DownResync
  PROVE  SessionInv /\ [Next]_vars => SessionInv'
<1> SUFFICES ASSUME SessionInv, [Next]_vars PROVE SessionInv'
  OBVIOUS
<1>a. IndInv' /\ IndInv /\ TypeOK /\ \A q \in Peer : Honest(x[q], told[q])
  BY IndInvStep DEF SessionInv, IndInv
<1>b. \A p \in Peer : x[p] \in Exchanges /\ x[p].order = p /\ told[p] \in BOOLEAN
  BY <1>a DEF TypeOK
<1> SUFFICES \A q \in Peer : Honest(x'[q], told'[q])
  BY <1>a DEF SessionInv
<1>1. ASSUME UNCHANGED <<x, told>>
      PROVE  \A q \in Peer : Honest(x'[q], told'[q])
  BY <1>1, <1>a
<1>2. ASSUME NEW p \in Peer, LinkLoad(p)
      PROVE  \A q \in Peer : Honest(x'[q], told'[q])
  <2>1. PICK now \in Clock(p) : x' = [x EXCEPT ![p] = NewExchange(p, now)]
    BY <1>2 DEF LinkLoad
  <2>2. NewExchange(p, now).in = 0
    BY <1>a, ClockType, NewExchangeFacts
  <2>3. ~told[p] /\ told' = told
    BY <1>2, <1>a, NotLoadedNotUp DEF LinkLoad
  <2>4. told' = [told EXCEPT ![p] = FALSE]
    BY <1>a, <1>b, <2>3 DEF TypeOK
  <2>5. Honest(NewExchange(p, now), FALSE)
    BY <2>2, FreshNotUp
  <2>6. QED
    BY <1>a, <2>1, <2>4, <2>5, HonestUpdate
<1>3. ASSUME NEW p \in Peer, LinkResync(p)
      PROVE  \A q \in Peer : Honest(x'[q], told'[q])
  <2> DEFINE e == XOut(x[p], x[p].out + 1)
  <2>1. x' = [x EXCEPT ![p] = e] /\ told' = told /\ x[p].out # 0
    BY <1>3 DEF LinkResync
  <2>2. x[p].out \in Nat /\ x[p].out + 1 \in Nat
    BY <1>b DEF Exchanges
  <2>3. /\ e \in Exchanges /\ e.key = x[p].key /\ e.in = x[p].in
        /\ e.eid = x[p].eid /\ e.out >= x[p].out
    <3> DEFINE o == x[p]
    <3>1. o \in Exchanges /\ o.order = p /\ o.out + 1 \in Nat
      BY <1>b, <2>2
    <3> HIDE DEF o
    <3>2. /\ XOut(o, o.out + 1) \in Exchanges
          /\ XOut(o, o.out + 1).key = o.key
          /\ XOut(o, o.out + 1).in = o.in
          /\ XOut(o, o.out + 1).eid = o.eid
          /\ XOut(o, o.out + 1).out >= o.out
      BY <3>1, XOutFacts
    <3>3. QED
      BY <3>2 DEF o
  <2>4. e.out \in Nat
    BY <2>3 DEF Exchanges
  <2> HIDE DEF e
  <2>5. Honest(e, told[p])
    BY <1>a, <2>1, <2>2, <2>3, <2>4 DEF Honest, XUp
  <2>6. told' = [told EXCEPT ![p] = told[p]]
    BY <1>a, <2>1 DEF TypeOK
  <2>7. QED
    BY <1>a, <1>b, <2>1, <2>5, <2>6, HonestUpdate
<1>4. ASSUME NEW p \in Peer, NEW i \in 1 .. Len(inbox[p]), ReceiveHandshake(p, i)
      PROVE  \A q \in Peer : Honest(x'[q], told'[q])
  <2>1. PICK rest \in Remains(p, i) : ApplyHandshake(p, x[p], inbox[p][i], rest)
    BY <1>4 DEF ReceiveHandshake
  <2>2. inbox[p][i] \in Handshakes /\ inbox[p][i].key # NoKey
    BY <1>a, InboxElement DEF GoodMessage
  <2>3. QED
    BY <1>a, <1>b, <2>1, <2>2, ApplyHonest
<1>5. ASSUME NEW p \in Peer, NEW i \in 1 .. Len(inbox[p]), ReceiveFirstHandshake(p, i)
      PROVE  \A q \in Peer : Honest(x'[q], told'[q])
  <2>1. PICK now \in Clock(p), rest \in Remains(p, i) :
          ApplyHandshake(p, NewExchange(p, now), inbox[p][i], rest)
    BY <1>5 DEF ReceiveFirstHandshake
  <2>2. inbox[p][i] \in Handshakes /\ inbox[p][i].key # NoKey
    BY <1>a, InboxElement DEF GoodMessage
  <2> DEFINE e == NewExchange(p, now)
  <2>3. e \in Exchanges /\ e.order = p /\ e.in = 0
    BY <1>a, ClockType, NewExchangeFacts
  <2>4. ~Loaded(p)
    BY <1>5 DEF ReceiveFirstHandshake
  <2>5. x[p].key = NoKey /\ ~told[p]
    BY <1>a, <2>4, NotLoadedNotUp DEF Loaded
  <2>6. ApplyHandshake(p, e, inbox[p][i], rest)
    BY <2>1
  <2> HIDE DEF e
  <2>7. Honest(e, told[p])
    BY <1>b, <2>3, <2>5, FreshNotUp DEF Honest
  <2>8. QED
    BY <1>a, <2>2, <2>3, <2>5, <2>6, <2>7, ApplyHonest
<1>6. ASSUME NEW p \in Peer, LinkDown(p)
      PROVE  \A q \in Peer : Honest(x'[q], told'[q])
  <2>1. CASE Up(p)
    <3>1. x' = [x EXCEPT ![p] = XDown(x[p])] /\ told' = [told EXCEPT ![p] = FALSE]
      BY <1>6, <2>1 DEF LinkDown
    <3>2. XDown(x[p]).out = 0
      BY <1>b, XDownFacts
    <3>3. Honest(XDown(x[p]), FALSE)
      BY <3>2 DEF Honest, XUp
    <3>4. QED
      BY <1>a, <3>1, <3>3, HonestUpdate
  <2>2. CASE ~Up(p)
    <3>1. x' = [x EXCEPT ![p] = x[p]] /\ told' = [told EXCEPT ![p] = told[p]]
      BY <1>6, <2>2 DEF LinkDown
    <3>2. QED
      BY <1>a, <1>b, <3>1, HonestUpdate
  <2>3. QED
    BY <2>1, <2>2
<1>7. ASSUME NEW p \in Peer, Forget(p)
      PROVE  \A q \in Peer : Honest(x'[q], told'[q])
  <2>1. /\ x' = [x EXCEPT ![p] = XNew(p, NoKey)]
        /\ told' = [told EXCEPT ![p] = FALSE]
    BY <1>7 DEF Forget
  <2>2. Honest(XNew(p, NoKey), FALSE)
    BY FreshNotUp DEF XNew
  <2>3. QED
    BY <1>a, <2>1, <2>2, HonestUpdate
<1>8. QED
  BY <1>1, <1>2, <1>3, <1>4, <1>5, <1>6, <1>7
     DEF Next, vars, Receive, Deliverable, LinkGet, LinkPipe, Sync, Discover, Lose

(* If the application leaves a link it took down alone until the peer's    *)
(* handshake revives it, every change of link_up is reported exactly once  *)
(* and an available link always has a session key, on every network and    *)
(* with every clock.                                                       *)
THEOREM HandshakeSession ==
  ASSUME ~DownResync
  PROVE  Spec => [](EventsMatchState /\ UpHasSession)
<1>1. Init => SessionInv
  <2> SUFFICES ASSUME Init PROVE \A q \in Peer : Honest(x[q], told[q])
    BY IndInvInit DEF SessionInv
  <2>1. \A q \in Peer : x[q].in = 0 /\ told[q] = FALSE
    BY DEF Init, XNew
  <2>2. QED
    BY <2>1, FreshNotUp
<1>2. SessionInv /\ [Next]_vars => SessionInv'
  BY SessionInvStep
<1>3. SessionInv => EventsMatchState /\ UpHasSession
  BY DEF SessionInv, Honest, EventsMatchState, UpHasSession, Up
<1>4. QED
  BY <1>1, <1>2, <1>3, PTL DEF Spec

(* In particular the application is told of a link exactly when link_up    *)
(* would give it one: no "up" is lost or reported twice, whatever order    *)
(* handshakes, link_down and mesh_forget come in.                          *)
THEOREM HandshakeEvents ==
  ASSUME ~DownResync
  PROVE  Spec => []EventsMatchState
BY HandshakeSession, PTL
=============================================================================
